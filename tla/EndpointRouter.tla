--------------------------- MODULE EndpointRouter ---------------------------
(***************************************************************************)
(* The endpoint router's cache (pkg/server/endpoint_router.go): requests   *)
(* match against a table loaded on first use, administrators change the    *)
(* endpoints in the database and then invalidate the table.                *)
(*                                                                         *)
(* The read lock is held for no longer than a scan of the entries, the     *)
(* write lock across the query of the database.  history keeps every       *)
(* content the endpoint table has had, so that what a request was matched  *)
(* against can be named by an index.                                       *)
(***************************************************************************)
EXTENDS EndpointMatch

CONSTANTS
    Endpoints,      \* the rows an administrator may write
    Foreign,        \* rows no handler would have let in
    Paths,          \* the paths requests come for
    Requests, Admins,
    NoOne,          \* the write lock is free
    MaxChanges      \* bound: changes of the endpoint table

ASSUME NoOneIsNoRequest == NoOne \notin Requests
ASSUME ChangesAssumption == MaxChanges \in Nat
ASSUME PathsAreStrings == \A e \in Endpoints \cup Foreign : e.path \in Seq(Nat)
ASSUME HandlersReject == \A e \in Endpoints : ~(e.prefix /\ HasToken(e.path))

VARIABLES
    history,        \* the contents of the endpoint table, latest last
    loaded,         \* r.loaded
    entries,        \* r.entries
    loadedFrom,     \* the content entries was loaded from, 0 for none
    mu,             \* the request that holds the write lock
    pc,             \* where each request is in Match
    path,           \* the path it came for
    read,           \* the content its load has read
    answer,         \* the endpoint it was given: a set of at most one
    matched,        \* the content it was matched against, 0 for none
    since,          \* the latest content acknowledged when it began
    admin,          \* the content each administrator has written, 0 when idle
    acked,          \* the latest content whose handler has answered 200
    unheard         \* history: changed by a handler that failed, and not
                    \* invalidated by anybody since

cacheVars == <<loaded, entries, loadedFrom>>
requestVars == <<pc, path, read, answer, matched, since>>
adminVars == <<history, admin, acked, unheard>>
vars == <<cacheVars, mu, requestVars, adminVars>>

Tables == {t \in SUBSET (Endpoints \cup Foreign) :
              IsFiniteSet(t) /\ \A d, e \in t : d.path = e.path => d = e}

Init ==
    /\ \E t \in Tables : history = <<t>>
    /\ loaded = FALSE /\ entries = <<>> /\ loadedFrom = 0
    /\ mu = NoOne
    /\ pc = [r \in Requests |-> "idle"]
    /\ path \in [Requests -> Paths]
    /\ read = [r \in Requests |-> 0]
    /\ answer = [r \in Requests |-> {}]
    /\ matched = [r \in Requests |-> 0]
    /\ since = [r \in Requests |-> 0]
    /\ admin = [a \in Admins |-> 0]
    /\ acked = 1
    /\ unheard = FALSE

Now == Len(history)
Rows == history[Now]

-----------------------------------------------------------------------------
\* matchLocked, on entries es loaded from content v.
Return(r, es, v) ==
    /\ answer' = [answer EXCEPT ![r] = FirstMatch(es, path[r])]
    /\ matched' = [matched EXCEPT ![r] = v]
    /\ pc' = [pc EXCEPT ![r] = "done"]

\* The read lock: with a warm cache that is all of Match.
MatchFast(r) ==
    /\ pc[r] = "idle" /\ mu = NoOne
    /\ since' = [since EXCEPT ![r] = acked]
    /\ loaded
    /\ Return(r, entries, loadedFrom)
    /\ UNCHANGED <<cacheVars, mu, path, read, adminVars>>

MatchSlow(r) ==
    /\ pc[r] = "idle" /\ mu = NoOne
    /\ since' = [since EXCEPT ![r] = acked]
    /\ ~loaded
    /\ pc' = [pc EXCEPT ![r] = "slow"]
    /\ UNCHANGED <<cacheVars, mu, path, read, answer, matched, adminVars>>

\* Under the write lock: somebody else may have loaded meanwhile.
Recheck(r) ==
    /\ pc[r] = "slow" /\ mu = NoOne
    /\ loaded
    /\ Return(r, entries, loadedFrom)
    /\ UNCHANGED <<cacheVars, mu, path, read, since, adminVars>>

BeginLoad(r) ==
    /\ pc[r] = "slow" /\ mu = NoOne
    /\ ~loaded
    /\ mu' = r
    /\ pc' = [pc EXCEPT ![r] = "query"]
    /\ UNCHANGED <<cacheVars, path, read, answer, matched, since, adminVars>>

\* The database answers GetEndpoints.
Query(r) ==
    /\ pc[r] = "query"
    /\ read' = [read EXCEPT ![r] = Now]
    /\ pc' = [pc EXCEPT ![r] = "loading"]
    /\ UNCHANGED <<cacheVars, mu, path, answer, matched, since, adminVars>>

QueryFails(r) ==
    /\ pc[r] = "query"
    /\ mu' = NoOne
    /\ pc' = [pc EXCEPT ![r] = "failed"]
    /\ UNCHANGED <<cacheVars, path, read, answer, matched, since, adminVars>>

EndLoad(r) ==
    /\ pc[r] = "loading"
    /\ LET es == SortedEntries(history[read[r]])
       IN entries' = es /\ Return(r, es, read[r])
    /\ loaded' = TRUE
    /\ loadedFrom' = read[r]
    /\ mu' = NoOne
    /\ UNCHANGED <<path, read, since, adminVars>>

\* The next request on the same goroutine's connection.
Again(r) ==
    /\ pc[r] \in {"done", "failed"}
    /\ pc' = [pc EXCEPT ![r] = "idle"]
    /\ \E s \in Paths : path' = [path EXCEPT ![r] = s]
    /\ read' = [read EXCEPT ![r] = 0]
    /\ answer' = [answer EXCEPT ![r] = {}]
    /\ matched' = [matched EXCEPT ![r] = 0]
    /\ since' = [since EXCEPT ![r] = 0]
    /\ UNCHANGED <<cacheVars, mu, adminVars>>

-----------------------------------------------------------------------------
\* The handlers of the management API.

Upserted(e) == {d \in Rows : d.path # e.path} \cup {e}
Deleted(e) == {d \in Rows : d.path # e.path}

Changed(e) == {Upserted(e), Deleted(e)} \ {Rows}

\* The statement is executed and the handler goes on to Invalidate.
Change(a) ==
    /\ admin[a] = 0
    /\ Now <= MaxChanges
    /\ \E e \in Endpoints : \E t \in Changed(e) : history' = Append(history, t)
    /\ admin' = [admin EXCEPT ![a] = Now + 1]
    /\ UNCHANGED <<cacheVars, mu, requestVars, acked, unheard>>

\* The statement is executed, but the handler's query returns an error: its
\* context, the request's, was cancelled or the connection lost before the
\* answer was read.  The handler returns 500 at once.
ChangeUnheard ==
    /\ Now <= MaxChanges
    /\ \E e \in Endpoints : \E t \in Changed(e) : history' = Append(history, t)
    /\ unheard' = TRUE
    /\ UNCHANGED <<cacheVars, mu, requestVars, admin, acked>>

\* Mutant: Invalidate does not take the lock.
Invalidate_Unlocked(a) ==
    /\ admin[a] # 0
    /\ entries' = <<>> /\ loaded' = FALSE /\ loadedFrom' = 0
    /\ acked' = IF acked < admin[a] THEN admin[a] ELSE acked
    /\ admin' = [admin EXCEPT ![a] = 0]
    /\ unheard' = FALSE
    /\ UNCHANGED <<history, mu, requestVars>>

\* Invalidate, and the answer.
Invalidate(a) ==
    /\ admin[a] # 0 /\ mu = NoOne
    /\ entries' = <<>> /\ loaded' = FALSE /\ loadedFrom' = 0
    /\ acked' = IF acked < admin[a] THEN admin[a] ELSE acked
    /\ admin' = [admin EXCEPT ![a] = 0]
    /\ unheard' = FALSE
    /\ UNCHANGED <<history, mu, requestVars>>

MatchStep(r) ==
    \/ MatchFast(r) \/ MatchSlow(r) \/ Recheck(r) \/ BeginLoad(r)
    \/ Query(r) \/ QueryFails(r) \/ EndLoad(r)

Next ==
    \/ \E r \in Requests : MatchStep(r) \/ Again(r)
    \/ \E a \in Admins : Change(a) \/ Invalidate(a)
    \/ ChangeUnheard

Spec == Init /\ [][Next]_vars

-----------------------------------------------------------------------------
\* Every variable has its type.
TypeOK ==
    /\ history \in Seq(Tables) /\ Now \in 1..MaxChanges + 1
    /\ loaded \in BOOLEAN
    /\ loadedFrom \in 0..Now
    /\ mu \in Requests \cup {NoOne}
    /\ pc \in [Requests -> {"idle", "slow", "query", "loading", "done", "failed"}]
    /\ path \in [Requests -> Paths]
    /\ read \in [Requests -> 0..Now]
    /\ answer \in [Requests -> SUBSET (Endpoints \cup Foreign)]
    /\ matched \in [Requests -> 0..Now]
    /\ since \in [Requests -> 0..Now]
    /\ admin \in [Admins -> 0..Now]
    /\ acked \in 1..Now
    /\ unheard \in BOOLEAN

\* A request is never matched against endpoints older than the latest change
\* an administrator had been told of when it came (endpoint_router.go:3-7,
\* handle_endpoint.go:78-79), though loads and changes overlap freely.
AckedIsSeen ==
    \A r \in Requests : pc[r] = "done" => matched[r] >= since[r]

\* The endpoint a request gets is the most specific of those that serve its
\* path in the content it was matched against: the longest literal, among
\* equals the smallest path; and none only if none serves it.
MostSpecific ==
    \A r \in Requests : pc[r] = "done" =>
        LET serving == {e \in Compiled(history[matched[r]]) : Serves(e, path[r])}
        IN /\ serving = {} <=> answer[r] = {}
           /\ \A e \in answer[r] :
                /\ e \in serving
                /\ \A d \in serving \ {e} :
                    \/ LiteralLen(e.path) > LiteralLen(d.path)
                    \/ LiteralLen(e.path) = LiteralLen(d.path) /\ PathLess(e.path, d.path)

\* The cache holds the endpoints as they are whenever no handler is between its
\* statement and its Invalidate, unless a statement was executed unheard:
\* "invalidated explicitly via Invalidate() whenever a mutation is made to the
\* endpoint table" (endpoint_router.go:5-7) holds of heard mutations only.
CacheIsCurrent ==
    loaded /\ ~unheard /\ (\A a \in Admins : admin[a] = 0) => loadedFrom = Now

=============================================================================
