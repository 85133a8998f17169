--------------------------- MODULE RequestRecord ---------------------------
(***************************************************************************)
(* The rows of the "request" table that one gateway call writes: the meta  *)
(* row of the client request and one upstream row per provider attempt.    *)
(* A row is open from its INSERT until an UPDATE writes its finish reason; *)
(* finish_reason IS NULL is what the code calls in flight.                 *)
(*                                                                         *)
(* Abstracted: every column that no property tells apart (tokens, costs,   *)
(* times, previews, artifacts).  Kept: status code, finish reason, owner,  *)
(* and the candidate an attempt was made for.                              *)
(***************************************************************************)
EXTENDS Integers

CONSTANT MaxTotalAttempts      \* config.JSMaxTotalAttempts

ASSUME MaxTotalAttemptsAssumption == MaxTotalAttempts \in Nat

Meta == 0                                \* the meta row's id
Upstreams == 1 .. MaxTotalAttempts       \* ids of the attempts, in order
Ids == {Meta} \cup Upstreams

\* db/request_constants.go
NoReason           == 0    \* finish_reason IS NULL
Internal           == 1
Cancelled          == 2
EOF                == 3
HeadersTimeout     == 4
ReadTimeout        == 5
StreamError        == 6
DashboardCancelled == 7
FinishReasons == Internal .. DashboardCancelled

RowStates == {"absent", "open", "final"}

(***************************************************************************)
(* user is the row's user_id being set, on which the dashboard's ownership *)
(* check depends.  cand, late and sets are history: the candidate index of *)
(* the attempt, whether the request's context was already cancelled when   *)
(* the row was inserted, and how many times a finish reason was written.   *)
(***************************************************************************)
Row == [st   : RowStates,
        code : Nat,
        fin  : {NoReason} \cup FinishReasons,
        user : BOOLEAN,
        cand : Nat,
        late : BOOLEAN,
        sets : Nat]

AbsentRow == [st |-> "absent", code |-> 0, fin |-> NoReason, user |-> FALSE,
              cand |-> 0, late |-> FALSE, sets |-> 0]

\* insertRequest
Opened(user, cand, late) ==
    [AbsentRow EXCEPT !.st = "open", !.user = user, !.cand = cand, !.late = late]

\* updateRequest with a FinishReason: the row becomes terminal, and a later
\* write of the same kind overwrites status code and reason.
Closed(row, code, fin) ==
    [row EXCEPT !.st = "final", !.code = code, !.fin = fin, !.sets = @ + 1]

=============================================================================
