----------------------------- MODULE TraceTable -----------------------------
(***************************************************************************)
(* The traces table (pkg/db/trace.sql.go, pkg/server/trace_backfill.go and *)
(* upsertTrace in gateway_helpers.go): one row for each parent span of a   *)
(* user, with the times of its first and its last request.  Ids are xids,  *)
(* which grow with time: the number of the row stands for one.             *)
(***************************************************************************)
EXTENDS Integers, FiniteSets, FiniteSetsExt

CONSTANTS NoSpan, NoUser   \* NULL (or "", for a span)

\* Mutant: the conflict clause sets the last request instead of GREATEST.
Extended_Overwrites(t, first, last) ==
    [t EXCEPT !.first = Min({t.first, first}), !.last = last]

\* ON CONFLICT (parent_span_id, user_id) DO UPDATE.
Extended(t, first, last) ==
    [t EXCEPT !.first = Min({t.first, first}), !.last = Max({t.last, last})]

PutTrace(traces, span, user, first, last) ==
    LET same == {t \in traces : t.span = span /\ t.user = user}
    IN IF same = {}
       THEN traces \cup {[id |-> Cardinality(traces) + 1, span |-> span, user |-> user,
                          first |-> first, last |-> last]}
       ELSE (traces \ same) \cup {Extended(t, first, last) : t \in same}

\* upsertTrace: skipped without a parent span or an owner.
UpsertTrace(traces, span, user, at) ==
    IF span = NoSpan \/ user = NoUser THEN traces ELSE PutTrace(traces, span, user, at, at)

\* The spans of the rows whose trace is missing or too short.
TraceBackfillCandidates(traces, request) ==
    LET owned == {r \in request : r.span # NoSpan /\ r.user # NoUser}
        Times(k) == {r.at : r \in {q \in owned : <<q.span, q.user>> = k}}
        spans == {[span |-> k[1], user |-> k[2], first |-> Min(Times(k)), last |-> Max(Times(k))] :
                    k \in {<<r.span, r.user>> : r \in owned}}
    IN {c \in spans : ~\E t \in traces : /\ t.span = c.span /\ t.user = c.user
                                         /\ t.first <= c.first /\ t.last >= c.last}

\* backfillTraces: one candidate after the other.
BackfillTraces(traces, request) ==
    FoldSet(LAMBDA c, done : PutTrace(done, c.span, c.user, c.first, c.last),
            traces, TraceBackfillCandidates(traces, request))
=============================================================================
