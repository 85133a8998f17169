--------------------------- MODULE RequestLedger ---------------------------
(***************************************************************************)
(* What the rows of one client request promise to whoever reads them while *)
(* the request runs: the dashboard's span list, the live view, the usage   *)
(* statistics.  Attempts are made one after the other and only while the   *)
(* meta row is in flight; a finished attempt never changes again; the meta *)
(* row finishes after every attempt, or together with the last one.        *)
(*                                                                         *)
(* The one exception the code makes is explicit: the meta row may be       *)
(* finished a second time (ReviseMeta).                                    *)
(***************************************************************************)
EXTENDS RequestRecord

VARIABLE ledger          \* [Ids -> [st, fin]]

Entry == [st : RowStates, fin : {NoReason} \cup FinishReasons]
Blank == [st |-> "absent", fin |-> NoReason]
Open  == [st |-> "open", fin |-> NoReason]
Final(fin) == [st |-> "final", fin |-> fin]

IsOpen(i)  == ledger[i].st = "open"
IsFinal(i) == ledger[i].st = "final"

LedgerInit == ledger = [i \in Ids |-> Blank]

OpenMeta ==
    /\ ledger[Meta] = Blank
    /\ ledger' = [ledger EXCEPT ![Meta] = Open]

\* The next attempt: every earlier one has finished, no later one exists.
OpenAttempt(i) ==
    /\ IsOpen(Meta)
    /\ \A j \in Upstreams : IF j < i THEN IsFinal(j) ELSE ledger[j] = Blank
    /\ ledger' = [ledger EXCEPT ![i] = Open]

CloseAttempt(i) ==
    /\ IsOpen(i) /\ IsOpen(Meta)
    /\ \E fin \in FinishReasons : ledger' = [ledger EXCEPT ![i] = Final(fin)]

CloseMeta ==
    /\ IsOpen(Meta)
    /\ \A i \in Upstreams : ~IsOpen(i)
    /\ \E fin \in FinishReasons : ledger' = [ledger EXCEPT ![Meta] = Final(fin)]

\* The last attempt and the request end in one step of the flow.
CloseBoth(i) ==
    /\ IsOpen(Meta) /\ IsOpen(i)
    /\ IsFinal(Meta)'
    /\ \E up, fin \in FinishReasons :
          ledger' = [ledger EXCEPT ![i] = Final(up), ![Meta] = Final(fin)]

\* A second response to a request that already failed: only an internal error
\* is revised, and only to an internal error or a cancellation.
ReviseMeta ==
    /\ ledger[Meta] = Final(Internal)
    /\ \A i \in Upstreams : ~IsOpen(i)
    /\ ledger' = [ledger EXCEPT ![Meta] = Final(Cancelled)]

LedgerNext ==
    \/ OpenMeta \/ CloseMeta \/ ReviseMeta
    \/ \E i \in Upstreams : OpenAttempt(i) \/ CloseAttempt(i) \/ CloseBoth(i)

\* Almost every step of the flow stutters here, so that is looked at first.
LedgerSpec == LedgerInit /\ [][ledger' # ledger /\ LedgerNext]_ledger
=============================================================================
