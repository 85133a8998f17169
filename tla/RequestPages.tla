---------------------------- MODULE RequestPages ----------------------------
(***************************************************************************)
(* The dashboard's request lists (pkg/server/handle_requests.go) read page *)
(* by page while the gateway inserts rows, finishes them and extends their *)
(* traces.  Nothing is locked and nothing is kept between two pages but    *)
(* the cursor in the client's hand: what a reader who pages to the end has *)
(* seen rests on the keyset order alone.                                   *)
(***************************************************************************)
EXTENDS RequestQueries

CONSTANTS Fresh,     \* the rows requests will insert, one step each, in any order
          Old,       \* the rows there when the readers come
          Finishes,  \* what a row's finishing update may set: partial rows
          Owners,    \* whom authentication may find: [user, project]
          Annotations,   \* an id, a key and a value (None removes it)
          Queries,   \* what the two readers may ask: [user, filter, from, to]
          PageSize

T == INSTANCE TraceTable WITH NoSpan <- None, NoUser <- None

\* Rows have the columns of the table, and no update moves one.
ASSUME OldAssumption == IsTable(Old) /\ \A r \in Fresh : IsRow(r)
ASSUME FinishesAssumption ==
    \A set \in Finishes : DOMAIN set \cap {"id", "at", "user", "span", "parent"} = {}
ASSUME PageSizeAssumption == PageSize \in Nat \ {0}
ASSUME CursorAssumption == None \notin [at : Nat, id : Nat]

VARIABLES request,   \* the table
          traces,    \* the traces
          untraced,  \* rows inserted whose trace is not extended yet
          rows,      \* the reader of requests
          spans,     \* the reader of traces
          detail     \* the reader of one request and its span
pageVars == <<request, traces, untraced, rows, spans, detail>>

\* A reader: its query, whether it is done, its cursor and what it was shown.
\* steady is kept for the properties: the keys of what was there when it
\* began, was always part of its query and never moved.
Idle == [pc |-> "idle", query |-> None, cursor |-> None, seen |-> <<>>, steady |-> {}]

\* The traces of rows inserted one after the other, each by its first row.
Traced(S, r) == {q \in S : q.parent = r.parent /\ q.user = r.user}
Firsts(S) == {r \in S : /\ ~Unset(r.parent) /\ ~Unset(r.user)
                        /\ \A q \in Traced(S, r) : ~Earlier(q, r)}
Inserted(S) ==
    {[id |-> Cardinality({q \in Firsts(S) : ~Earlier(r, q)}), span |-> r.parent, user |-> r.user,
      first |-> r.at, last |-> Max({q.at : q \in Traced(S, r)})] : r \in Firsts(S)}

PagesInit ==
    /\ request = Old /\ traces = Inserted(Old) /\ untraced = {}
    /\ rows = Idle /\ spans = Idle
    /\ detail = [pc |-> "idle", user |-> None, of |-> None, shown |-> <<>>]

----------------------------------------------------------------------------
(* The gateway.                                                            *)

\* The steady items of the two readers after a change of the tables.
Settle(request2, traces2) ==
    /\ rows' = [rows EXCEPT !.steady = {id \in @ : \E r \in request2 :
                   r.id = id /\ Matches(r, rows.query.user, rows.query.filter, traces2)}]
    /\ spans' = [spans EXCEPT !.steady = @ \cap traces2]

\* insertRequest: the row first, its trace by a statement of its own.
InsertRow ==
    \E r \in Fresh \ request :
        /\ \A q \in request : q.id # r.id
        /\ request' = request \cup {r} /\ untraced' = untraced \cup {r}
        /\ Settle(request', traces)
        /\ UNCHANGED <<traces, detail>>

ExtendTrace ==
    \E r \in untraced :
        /\ traces' = T!UpsertTrace(traces, r.parent, r.user, r.at)
        /\ untraced' = untraced \ {r}
        /\ Settle(request, traces')
        /\ UNCHANGED <<request, detail>>

\* A meta row is inserted before its owner is known; the update that names
\* one comes with authentication, and then the trace is due.
OwnRow ==
    \E r \in request, o \in Owners :
        /\ Unset(r.user) /\ Unset(r.reason)
        /\ request' = UpdateRequest(request, r.id, r.at,
                          [user |-> o.user, equal |-> [r.equal EXCEPT !["project"] = o.project]])
        /\ untraced' = untraced \cup {[r EXCEPT !.user = o.user]}
        /\ Settle(request', traces)
        /\ UNCHANGED <<traces, detail>>

\* updateRequest with what a row's end sets.
FinishRow ==
    \E r \in request, set \in Finishes :
        /\ Unset(r.reason)
        /\ request' = UpdateRequest(request, r.id, r.at, set)
        /\ Settle(request', traces)
        /\ UNCHANGED <<traces, untraced, detail>>

\* requestHelpers.setAnnotation of a hook, or its removal.
AnnotateRow ==
    \E a \in Annotations :
        /\ request' = SetRequestAnnotation(request, a[1], a[2], a[3])
        /\ Settle(request', traces)
        /\ UNCHANGED <<traces, untraced, detail>>

----------------------------------------------------------------------------
(* The dashboard.  A page is PageSize rows of one more that is fetched to  *)
(* learn whether another page follows.                                     *)

Page(fetched) ==
    [items |-> SubSeq(fetched, 1, Min({PageSize, Len(fetched)})),
     next |-> IF Len(fetched) > PageSize
              THEN [at |-> fetched[PageSize].at, id |-> fetched[PageSize].id] ELSE None]

Turned(reader, page) ==
    [reader EXCEPT !.pc = IF Unset(page.next) THEN "done" ELSE "paging",
                   !.cursor = page.next, !.seen = @ \o page.items]

OpenRequests ==
    /\ rows.pc = "idle"
    /\ \E q \in Queries :
        rows' = [rows EXCEPT !.pc = "paging", !.query = q,
                             !.steady = {r.id : r \in {r \in request :
                                              Matches(r, q.user, q.filter, traces)}}]
    /\ UNCHANGED <<request, traces, untraced, spans, detail>>

\* handleListRequests.
ListRequestsPage ==
    /\ rows.pc = "paging"
    /\ rows' = Turned(rows, Page(ListRequests(request, traces, rows.query.user, rows.query.filter,
                                              rows.cursor, PageSize + 1)))
    /\ UNCHANGED <<request, traces, untraced, spans, detail>>

OpenTraces ==
    /\ spans.pc = "idle"
    /\ \E q \in Queries :
        spans' = [spans EXCEPT !.pc = "paging", !.query = q,
                               !.steady = {t \in traces : t.user = q.user /\ Within(t.last, q.from, q.to)}]
    /\ UNCHANGED <<request, traces, untraced, rows, detail>>

\* handleListRequestTraces.
ListTracesPage ==
    /\ spans.pc = "paging"
    /\ spans' = Turned(spans, Page(ListRequestTraces(traces, request, spans.query.user,
                                                     spans.query.from, spans.query.to,
                                                     spans.cursor, PageSize + 1)))
    /\ UNCHANGED <<request, traces, untraced, rows, detail>>

\* handleListRequestSpans reads the row, then its span by a second query.
GetForSpan ==
    /\ detail.pc = "idle"
    /\ \E r \in request : ~Unset(r.user) /\ detail' = [detail EXCEPT !.pc = "got", !.user = r.user, !.of = r]
    /\ UNCHANGED <<request, traces, untraced, rows, spans>>

\* A row without a span id is shown alone, as it was read first.
ListSpan ==
    /\ detail.pc = "got"
    /\ LET found == ListRequestsBySpan(request, detail.user, detail.of.id, detail.of.at)
       IN detail' = [detail EXCEPT !.pc = "done",
                                   !.shown = IF found = <<>> THEN <<detail.of>> ELSE found]
    /\ UNCHANGED <<request, traces, untraced, rows, spans>>

PagesNext ==
    \/ InsertRow \/ ExtendTrace \/ OwnRow \/ FinishRow \/ AnnotateRow
    \/ OpenRequests \/ ListRequestsPage \/ OpenTraces \/ ListTracesPage
    \/ GetForSpan \/ ListSpan

PagesSpec == PagesInit /\ [][PagesNext]_pageVars

----------------------------------------------------------------------------
(* Properties.                                                             *)

Descending(seq) == \A i, j \in DOMAIN seq : i < j => Earlier(seq[j], seq[i])

\* A reader who pages to the end has been shown every row that was part of
\* the query all along, none of them twice and all in order, whatever rows
\* came, finished or left the query between two pages.
EveryRowListed ==
    /\ Descending(rows.seen)
    /\ rows.pc = "done" => rows.steady \subseteq {rows.seen[i].id : i \in DOMAIN rows.seen}

\* The same of traces: the order is by their last request, which moves up
\* under the reader, so a trace extended meanwhile may be missed, but it is
\* not shown twice and takes no other trace off the list.
EveryTraceListed ==
    /\ \A i, j \in DOMAIN spans.seen : i < j => spans.seen[i].id # spans.seen[j].id
    /\ spans.pc = "done" => {t.id : t \in spans.steady} \subseteq {spans.seen[i].id : i \in DOMAIN spans.seen}

\* The page of a request shows that request, as it is now or was when asked
\* for, among rows of its span in the order they were made.
SpanShowsItself ==
    detail.pc = "done" =>
        /\ \E i \in DOMAIN detail.shown : detail.shown[i].id = detail.of.id
        /\ \A i, j \in DOMAIN detail.shown : i < j => Earlier(detail.shown[i], detail.shown[j])

\* Whatever changes under it, a page that was opened shows what it is of.
EveryItemListed == EveryRowListed /\ EveryTraceListed /\ SpanShowsItself
=============================================================================
