--------------------------- MODULE RequestQueries ---------------------------
(***************************************************************************)
(* The queries on the request table (pkg/db/request.sql.go) that list rows *)
(* or change them after their insertion.                                   *)
(*                                                                         *)
(* A row is a record of Columns: id is an xid, a number that grows with    *)
(* at; equal a function of EqualColumns, tokens of the kinds of token,     *)
(* external the ids other systems gave it, annotations a partial function. *)
(* None is NULL.                                                           *)
(* A filter is a record in which None stands for a condition that is not   *)
(* set; its field equal is a partial function of EqualColumns.             *)
(***************************************************************************)
EXTENDS Integers, Sequences, FiniteSets, FiniteSetsExt, SequencesExt, Functions

CONSTANTS None, CompletionPaths

ASSUME NoneAssumption == None \notin Int

Columns == {"id", "at", "user", "span", "parent", "path", "reason", "inferred", "preview",
            "tokens", "cost", "currency", "external", "annotations", "equal"}

\* A primary key that the order below can compare.
IsRow(r) ==
    /\ r = [c \in DOMAIN r |-> r[c]] /\ DOMAIN r = Columns
    /\ r.id \in Nat /\ r.at \in Nat

IsTable(S) ==
    /\ IsFiniteSet(S) /\ \A r \in S : IsRow(r)
    /\ \A r, q \in S : r.id = q.id => r = q

EqualColumns == {"type", "provider", "model", "upstreamModel", "project"}
EOF == 3   \* the one finish reason that is no failure

\* One keyset order serves every list: by time, then by id.
Earlier(a, b) == a.at < b.at \/ (a.at = b.at /\ a.id < b.id)

Unset(x) == x = None
OrZero(n) == IF n = None THEN 0 ELSE n
Within(at, from, to) == (Unset(from) \/ at >= from) /\ (Unset(to) \/ at <= to)

\* The i-th of S in that order.
Nth(S, i) == CHOOSE r \in S : Cardinality({q \in S : Earlier(q, r)}) = i - 1

Oldest(S, limit) == [i \in 1..Min({limit, Cardinality(S)}) |-> Nth(S, i)]
Newest(S, limit) == [i \in 1..Min({limit, Cardinality(S)}) |-> Nth(S, Cardinality(S) + 1 - i)]

----------------------------------------------------------------------------
(* Conditions of ListRequests.                                             *)

\* An upstream that names a model other than the two it was asked for.
Routed(r) ==
    /\ r.inferred \notin {None, ""}
    /\ r.inferred # r.equal["model"]
    /\ r.inferred # r.equal["upstreamModel"]

EmptyResponse(r) == OrZero(r.tokens["output"]) = 0 /\ r.path \in CompletionPaths

\* starts_with(path, filter || '/'): a path is the sequence of its segments.
UnderPath(r, path) == r.path # None /\ IsPrefix(path, r.path)

FinishedAs(r, reason) ==
    \/ reason = -1 /\ r.reason \notin {None, EOF}
    \/ reason # None /\ r.reason = reason

InTrace(r, t) == /\ r.user = t.user /\ r.parent = t.span
                 /\ Within(r.at, t.first, t.last)

Carries(r, pairs) == Restrict(r.annotations, DOMAIN pairs \cap DOMAIN r.annotations) = pairs

\* selected_trace is joined on the id alone; the row's owner is compared apart.
InSelectedTrace(r, traces, id) ==
    \E t \in traces : t.id = id /\ r.parent = t.span /\ Within(r.at, t.first, t.last)

Matches(r, user, f, traces) ==
    /\ r.user = user
    /\ \A c \in DOMAIN f.equal : r.equal[c] = f.equal[c]
    /\ Unset(f.path) \/ UnderPath(r, f.path)
    /\ Unset(f.routed) \/ f.routed = Routed(r)
    /\ Within(r.at, f.from, f.to)
    /\ Unset(f.trace) \/ InSelectedTrace(r, traces, f.trace)
    /\ f.empty => EmptyResponse(r)
    /\ Unset(f.reason) \/ FinishedAs(r, f.reason)
    /\ Unset(f.request) \/ f.request \in {r.id, r.parent} \cup r.external
    /\ Unset(f.annotations) \/ Carries(r, f.annotations)

----------------------------------------------------------------------------
(* Lists.                                                                  *)

\* Mutant: the cursor's own row is listed again.
ListRequests_FromCursor(request, traces, user, f, cursor, limit) ==
    Newest({r \in request : Matches(r, user, f, traces) /\ (Unset(cursor) \/ ~Earlier(cursor, r))},
           limit)

ListRequests(request, traces, user, f, cursor, limit) ==
    Newest({r \in request : Matches(r, user, f, traces) /\ (Unset(cursor) \/ Earlier(r, cursor))},
           limit)

GetRequest(request, user, id, at) == {r \in request : r.id = id /\ r.at = at /\ r.user = user}

\* A row and the others of its span, in the order they were made; a NULL
\* span equals none.
ListRequestsBySpan(request, user, id, at) ==
    LET anchors == {a \in GetRequest(request, user, id, at) : ~Unset(a.span)}
        rows == {r \in request : r.user = user /\ \E a \in anchors : r.span = a.span}
    IN Oldest(rows, Cardinality(rows))

\* The newest value a meta row of the trace has in a nullable column.
LatestOf(rows, Column(_)) ==
    LET known == Newest({r \in rows : r.equal["type"] = 0 /\ ~Unset(Column(r))}, 1)
    IN IF known = <<>> THEN None ELSE Column(known[1])

TraceRow(t, request) ==
    LET rows == {r \in request : InTrace(r, t)}
        upstream == {r \in rows : r.equal["type"] = 1}
        priced == {r \in upstream : ~Unset(r.cost) /\ ~Unset(r.currency)}
    IN [id |-> t.id, at |-> t.last, first |-> t.first, span |-> t.span,
        meta |-> Cardinality(rows \ upstream), upstream |-> Cardinality(upstream),
        tokens |-> MapThenSumSet(LAMBDA r : MapThenSumSet(LAMBDA k : OrZero(r.tokens[k]),
                                                          DOMAIN r.tokens), upstream),
        costs |-> {[currency |-> c,
                    amount |-> MapThenSumSet(LAMBDA r : r.cost, {r \in priced : r.currency = c})] :
                     c \in {r.currency : r \in priced}},
        preview |-> LatestOf(rows, LAMBDA r : r.preview),
        project |-> LatestOf(rows, LAMBDA r : r.equal["project"])]

\* Traces by the time of their last request, which moves while they are read.
ListRequestTraces(traces, request, user, from, to, cursor, limit) ==
    LET rows == {TraceRow(t, request) : t \in {t \in traces : t.user = user /\ Within(t.last, from, to)}}
    IN Newest({t \in rows : Unset(cursor) \/ Earlier(t, cursor)}, limit)

\* Mutant: rows in flight are rewritten too.
ListRequestCostRecalcBatch_InFlight(request, model, from, to, cursor, limit) ==
    Oldest({r \in request : /\ r.equal["model"] = model
                            /\ (Unset(from) \/ r.at >= from) /\ r.at < to
                            /\ Unset(cursor) \/ Earlier(cursor, r)}, limit)

\* Finished rows of one model in [from, to), oldest first.
ListRequestCostRecalcBatch(request, model, from, to, cursor, limit) ==
    Oldest({r \in request : /\ r.equal["model"] = model
                            /\ (Unset(from) \/ r.at >= from) /\ r.at < to
                            /\ ~Unset(r.reason)
                            /\ Unset(cursor) \/ Earlier(cursor, r)}, limit)

----------------------------------------------------------------------------
(* Changes.                                                                *)

\* Only the columns of set are written.
UpdateRequest(request, id, at, set) ==
    {IF r.id = id /\ r.at = at
     THEN [c \in DOMAIN r |-> IF c \in DOMAIN set THEN set[c] ELSE r[c]] ELSE r : r \in request}

\* Costs is a function of ids; a row that cannot be billed loses its currency.
UpdateRequestCosts(request, currency, costs) ==
    {IF r.id \in DOMAIN costs
     THEN [r EXCEPT !.cost = costs[r.id],
                    !.currency = IF Unset(costs[r.id]) THEN None ELSE currency]
     ELSE r : r \in request}

Annotated(annotations, key, value) ==
    IF Unset(value) THEN Restrict(annotations, DOMAIN annotations \ {key})
    ELSE (key :> value) @@ annotations

SetRequestAnnotation(request, id, key, value) ==
    {IF r.id # id THEN r ELSE [r EXCEPT !.annotations = Annotated(@, key, value)] : r \in request}
=============================================================================
