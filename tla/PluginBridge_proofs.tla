------------------------ MODULE PluginBridge_proofs ------------------------
(***************************************************************************)
(* Proofs about the plugin client: for any number of callers and any       *)
(* number of process starts.  The checked invariants follow from ProcInv,  *)
(* where the processes are at each stage of a restart, and CallInv, what a *)
(* call knows of the process it has last been sent to.                     *)
(***************************************************************************)
EXTENDS PluginBridge, TLAPS

Restarting == {"starting", "handshake"}
Asking == Restarting \cup {"acquire"}

\* Outside a restart the only process that can run is the current client's.
\* From its Kill on, the old client's does not run any more and the only one
\* that can is the one just spawned.
ProcInv ==
    /\ running \cap exited = {}
    /\ mu = NoOne => running \subseteq {client}
    /\ mu # NoOne => running \subseteq {starts} /\ client \notin running
    /\ \A c \in Callers : pc[c] = "starting" => running = {}
    /\ ended => closed /\ mu = NoOne /\ client = 0

\* A call that comes back for a client comes from a process that has died, and
\* a process that has died never runs again.
CallInv(c) ==
    /\ pc[c] \in Restarting <=> mu = c
    /\ pc[c] # "idle" => result[c] = "none"
    /\ pc[c] \in Asking => tries[c] \in {0, 1}
    /\ pc[c] = "calling" => tries[c] \in {1, 2}
    /\ tries[c] = 1 => first[c] = using[c]
    /\ tries[c] = 2 => using[c] # first[c] /\ first[c] \notin running
    /\ pc[c] \in Asking /\ tries[c] = 1 => using[c] \notin running
    /\ pc[c] = "handshake" => using[c] < starts
    /\ result[c] = "unavailable" => tries[c] = 2 /\ using[c] \notin running

BridgeInv ==
    /\ TypeOK
    /\ ProcInv
    /\ \A c \in Callers : CallInv(c)

\* The invariant holds of a client that has started its first plugin process.
LEMMA InitBridge == Init => BridgeInv
<1> SUFFICES ASSUME Init PROVE BridgeInv
  OBVIOUS
<1>1. TypeOK
  <2>1. starts \in Process /\ starts = 1
    BY OneStart DEF Init, Process
  <2>2. running \subseteq 1..starts /\ exited \subseteq 1..starts /\ client \in 0..starts
    BY <2>1 DEF Init
  <2>3. closed \in BOOLEAN /\ ended \in BOOLEAN /\ mu \in Callers \cup {NoOne}
    BY DEF Init
  <2>4. /\ pc \in [Callers -> Location] /\ tries \in [Callers -> 0..2]
        /\ first \in [Callers -> 0..starts] /\ using \in [Callers -> 0..starts]
        /\ result \in [Callers -> Result]
    BY <2>1 DEF Init, Location, Result
  <2> QED
    BY <2>1, <2>2, <2>3, <2>4 DEF TypeOK
<1>2. ProcInv
  BY DEF Init, ProcInv
<1>3. \A c \in Callers : CallInv(c)
  BY NoOneIsNoCaller DEF Init, CallInv, Restarting, Asking
<1> QED
  BY <1>1, <1>2, <1>3 DEF BridgeInv

\* Every step keeps the types.
LEMMA TypeStep ==
    ASSUME BridgeInv, [Next]_vars
    PROVE TypeOK'
<1> USE DEF procVars, bridgeVars, callVars, TypeOK, CallInv, Restarting, Asking,
            Process, Location, Result
<1>1. TypeOK /\ (\A c \in Callers : CallInv(c)) /\ NoOne \notin Callers /\ MaxStarts \in Nat
  BY NoOneIsNoCaller, OneStart DEF BridgeInv
<1>2. ASSUME NEW c \in Callers, Call(c) PROVE TypeOK'
  BY <1>1, <1>2 DEF Call, Goto
<1>3. ASSUME NEW c \in Callers, AcquireClosed(c) PROVE TypeOK'
  BY <1>1, <1>3 DEF AcquireClosed, Return, Refusal, Goto
<1>4. ASSUME NEW c \in Callers, Acquire(c) PROVE TypeOK'
  BY <1>1, <1>4 DEF Acquire, Acceptable, Live, Send, Goto
<1>5. ASSUME NEW c \in Callers, Restart(c) PROVE TypeOK'
  BY <1>1, <1>5 DEF Restart, Acceptable, Live, Kill, Goto
<1>6. ASSUME NEW c \in Callers, Spawn(c) PROVE TypeOK'
  BY <1>1, <1>6 DEF Spawn, Goto
<1>7. ASSUME NEW c \in Callers, Started(c) PROVE TypeOK'
  BY <1>1, <1>7 DEF Started, Send, Goto
<1>8. ASSUME NEW c \in Callers, StartFails(c) PROVE TypeOK'
  <2>1. CASE pc[c] = "starting" /\ UNCHANGED <<running, exited>>
    BY <1>1, <1>8, <2>1 DEF StartFails, Return, Refusal, Goto
  <2>2. CASE pc[c] = "handshake" /\ Kill(starts)
    BY <1>1, <1>8, <2>2 DEF StartFails, Return, Refusal, Goto, Kill
  <2> QED
    BY <1>8, <2>1, <2>2 DEF StartFails
<1>9. ASSUME NEW c \in Callers, Answers(c) PROVE TypeOK'
  BY <1>1, <1>9 DEF Answers, Return, Goto
<1>10. ASSUME NEW c \in Callers, OtherError(c) PROVE TypeOK'
  BY <1>1, <1>10 DEF OtherError, Return, Goto
<1>11. ASSUME NEW c \in Callers, Unavailable(c) PROVE TypeOK'
  BY <1>1, <1>11 DEF Unavailable, Return, Goto
<1>12. ASSUME NEW p \in Process, Crash(p) PROVE TypeOK'
  BY <1>1, <1>12 DEF Crash
<1>13. ASSUME NEW p \in Process, NoticeExit(p) PROVE TypeOK'
  BY <1>1, <1>13 DEF NoticeExit
<1>14. CASE Close
  BY <1>1, <1>14 DEF Close, Kill
<1>15. CASE UNCHANGED vars
  BY <1>1, <1>15 DEF vars
<1> QED
  BY <1>2, <1>3, <1>4, <1>5, <1>6, <1>7, <1>8, <1>9, <1>10, <1>11, <1>12, <1>13, <1>14, <1>15 DEF Next, Step

\* Every step keeps what the processes promise.
LEMMA ProcStep ==
    ASSUME BridgeInv, [Next]_vars
    PROVE ProcInv'
<1> USE DEF procVars, bridgeVars, callVars, TypeOK, ProcInv, CallInv, Restarting, Asking,
            Process, Location
<1>1. TypeOK /\ ProcInv /\ (\A c \in Callers : CallInv(c)) /\ NoOne \notin Callers /\ MaxStarts \in Nat
  BY NoOneIsNoCaller, OneStart DEF BridgeInv
<1>2. ASSUME NEW c \in Callers, Call(c) PROVE ProcInv'
  BY <1>1, <1>2 DEF Call, Goto
<1>3. ASSUME NEW c \in Callers, AcquireClosed(c) PROVE ProcInv'
  BY <1>1, <1>3 DEF AcquireClosed, Return, Refusal, Goto
<1>4. ASSUME NEW c \in Callers, Acquire(c) PROVE ProcInv'
  BY <1>1, <1>4 DEF Acquire, Acceptable, Live, Send, Goto
<1>5. ASSUME NEW c \in Callers, Restart(c) PROVE ProcInv'
  BY <1>1, <1>5 DEF Restart, Acceptable, Live, Kill, Goto
<1>6. ASSUME NEW c \in Callers, Spawn(c) PROVE ProcInv'
  BY <1>1, <1>6 DEF Spawn, Goto
<1>7. ASSUME NEW c \in Callers, Started(c) PROVE ProcInv'
  BY <1>1, <1>7 DEF Started, Send, Goto
<1>8. ASSUME NEW c \in Callers, StartFails(c) PROVE ProcInv'
  <2>1. CASE pc[c] = "starting" /\ UNCHANGED <<running, exited>>
    BY <1>1, <1>8, <2>1 DEF StartFails, Return, Refusal, Goto
  <2>2. CASE pc[c] = "handshake" /\ Kill(starts)
    BY <1>1, <1>8, <2>2 DEF StartFails, Return, Refusal, Goto, Kill
  <2> QED
    BY <1>8, <2>1, <2>2 DEF StartFails
<1>9. ASSUME NEW c \in Callers, Answers(c) PROVE ProcInv'
  BY <1>1, <1>9 DEF Answers, Return, Goto
<1>10. ASSUME NEW c \in Callers, OtherError(c) PROVE ProcInv'
  BY <1>1, <1>10 DEF OtherError, Return, Goto
<1>11. ASSUME NEW c \in Callers, Unavailable(c) PROVE ProcInv'
  BY <1>1, <1>11 DEF Unavailable, Return, Goto
<1>12. ASSUME NEW p \in Process, Crash(p) PROVE ProcInv'
  BY <1>1, <1>12 DEF Crash
<1>13. ASSUME NEW p \in Process, NoticeExit(p) PROVE ProcInv'
  BY <1>1, <1>13 DEF NoticeExit
<1>14. CASE Close
  BY <1>1, <1>14 DEF Close, Kill
<1>15. CASE UNCHANGED vars
  BY <1>1, <1>15 DEF vars
<1> QED
  BY <1>2, <1>3, <1>4, <1>5, <1>6, <1>7, <1>8, <1>9, <1>10, <1>11, <1>12, <1>13, <1>14, <1>15 DEF Next, Step

\* Every step keeps what the calls have been told.
LEMMA CallStep ==
    ASSUME BridgeInv, [Next]_vars
    PROVE \A d \in Callers : CallInv(d)'
<1> USE DEF procVars, bridgeVars, callVars, TypeOK, ProcInv, CallInv, Restarting, Asking,
            Process, Location, Result
<1>1. TypeOK /\ ProcInv /\ (\A c \in Callers : CallInv(c)) /\ NoOne \notin Callers /\ MaxStarts \in Nat
  BY NoOneIsNoCaller, OneStart DEF BridgeInv
<1>2. ASSUME NEW c \in Callers, Call(c) PROVE \A d \in Callers : CallInv(d)'
  BY <1>1, <1>2 DEF Call, Goto
<1>3. ASSUME NEW c \in Callers, AcquireClosed(c) PROVE \A d \in Callers : CallInv(d)'
  BY <1>1, <1>3 DEF AcquireClosed, Return, Refusal, Goto
<1>4. ASSUME NEW c \in Callers, Acquire(c) PROVE \A d \in Callers : CallInv(d)'
  BY <1>1, <1>4 DEF Acquire, Acceptable, Live, Send, Goto
<1>5. ASSUME NEW c \in Callers, Restart(c) PROVE \A d \in Callers : CallInv(d)'
  BY <1>1, <1>5 DEF Restart, Acceptable, Live, Kill, Goto
<1>6. ASSUME NEW c \in Callers, Spawn(c) PROVE \A d \in Callers : CallInv(d)'
  BY <1>1, <1>6 DEF Spawn, Goto
<1>7. ASSUME NEW c \in Callers, Started(c) PROVE \A d \in Callers : CallInv(d)'
  BY <1>1, <1>7 DEF Started, Send, Goto
<1>8. ASSUME NEW c \in Callers, StartFails(c) PROVE \A d \in Callers : CallInv(d)'
  <2>1. CASE pc[c] = "starting" /\ UNCHANGED <<running, exited>>
    BY <1>1, <1>8, <2>1 DEF StartFails, Return, Refusal, Goto
  <2>2. CASE pc[c] = "handshake" /\ Kill(starts)
    BY <1>1, <1>8, <2>2 DEF StartFails, Return, Refusal, Goto, Kill
  <2> QED
    BY <1>8, <2>1, <2>2 DEF StartFails
<1>9. ASSUME NEW c \in Callers, Answers(c) PROVE \A d \in Callers : CallInv(d)'
  BY <1>1, <1>9 DEF Answers, Return, Goto
<1>10. ASSUME NEW c \in Callers, OtherError(c) PROVE \A d \in Callers : CallInv(d)'
  BY <1>1, <1>10 DEF OtherError, Return, Goto
<1>11. ASSUME NEW c \in Callers, Unavailable(c) PROVE \A d \in Callers : CallInv(d)'
  BY <1>1, <1>11 DEF Unavailable, Return, Goto
<1>12. ASSUME NEW p \in Process, Crash(p) PROVE \A d \in Callers : CallInv(d)'
  BY <1>1, <1>12 DEF Crash
<1>13. ASSUME NEW p \in Process, NoticeExit(p) PROVE \A d \in Callers : CallInv(d)'
  BY <1>1, <1>13 DEF NoticeExit
<1>14. CASE Close
  BY <1>1, <1>14 DEF Close, Kill
<1>15. CASE UNCHANGED vars
  BY <1>1, <1>15 DEF vars
<1> QED
  BY <1>2, <1>3, <1>4, <1>5, <1>6, <1>7, <1>8, <1>9, <1>10, <1>11, <1>12, <1>13, <1>14, <1>15 DEF Next, Step

\* The inductive invariant.
THEOREM BridgeInvHolds == Spec => []BridgeInv
<1>1. BridgeInv /\ [Next]_vars => BridgeInv'
  BY TypeStep, ProcStep, CallStep DEF BridgeInv
<1> QED
  BY InitBridge, <1>1, PTL DEF Spec

\* Every variable keeps its type; no call is sent more than twice (callUnary).
THEOREM BridgeTypeCorrect == Spec => []TypeOK
  BY BridgeInvHolds, PTL DEF BridgeInv

\* At most one plugin process runs, whatever crashes during a restart, and
\* after Close none runs and none is started.
THEOREM OneProcessHolds == Spec => []OneProcess
<1>1. BridgeInv => OneProcess
  <2> SUFFICES ASSUME BridgeInv PROVE OneProcess
    OBVIOUS
  <2>1. \A p, q \in running : p = q
    BY DEF BridgeInv, ProcInv
  <2>2. ASSUME ended PROVE running = {}
    <3>1. running \subseteq {0} /\ running \subseteq 1..starts
      BY <2>2 DEF BridgeInv, ProcInv, TypeOK
    <3>2. starts \in Nat
      BY OneStart DEF BridgeInv, TypeOK, Process
    <3> QED
      BY <3>1, <3>2
  <2> QED
    BY <2>1, <2>2 DEF OneProcess
<1> QED
  BY <1>1, BridgeInvHolds, PTL

\* A second try goes to another process than the first, and only two dead
\* processes make a call unavailable.
THEOREM RetryUsesFreshProcessHolds == Spec => []RetryUsesFreshProcess
<1>1. BridgeInv => RetryUsesFreshProcess
  BY DEF BridgeInv, CallInv, RetryUsesFreshProcess
<1> QED
  BY <1>1, BridgeInvHolds, PTL

\* No restart kills a process that is alive and current.
THEOREM RestartSparesTheLivingHolds == Spec => RestartSparesTheLiving
<1> DEFINE Spares == (client \in running /\ client \in exited') => (ended' = TRUE)
<1>1. ASSUME BridgeInv, [Next]_vars PROVE Spares
  <2> USE DEF procVars, bridgeVars, callVars, TypeOK, ProcInv, CallInv, Restarting,
              Asking, Process
  <2>1. TypeOK /\ ProcInv /\ (\A c \in Callers : CallInv(c)) /\ NoOne \notin Callers
        /\ MaxStarts \in Nat
    BY <1>1, NoOneIsNoCaller, OneStart DEF BridgeInv
  <2>2. ASSUME NEW c \in Callers, Call(c) PROVE Spares
    BY <2>1, <2>2 DEF Call, Goto
  <2>3. ASSUME NEW c \in Callers, AcquireClosed(c) PROVE Spares
    BY <2>1, <2>3 DEF AcquireClosed, Return, Refusal, Goto
  <2>4. ASSUME NEW c \in Callers, Acquire(c) PROVE Spares
    BY <2>1, <2>4 DEF Acquire, Acceptable, Live, Send, Goto
  <2>5. ASSUME NEW c \in Callers, Restart(c) PROVE Spares
    BY <2>1, <2>5 DEF Restart, Acceptable, Live, Kill, Goto
  <2>6. ASSUME NEW c \in Callers, Spawn(c) PROVE Spares
    BY <2>1, <2>6 DEF Spawn, Goto
  <2>7. ASSUME NEW c \in Callers, Started(c) PROVE Spares
    BY <2>1, <2>7 DEF Started, Send, Goto
  <2>8. ASSUME NEW c \in Callers, StartFails(c) PROVE Spares
    BY <2>1, <2>8 DEF StartFails, Return, Refusal, Goto, Kill
  <2>9. ASSUME NEW c \in Callers, Answers(c) PROVE Spares
    BY <2>1, <2>9 DEF Answers, Return, Goto
  <2>10. ASSUME NEW c \in Callers, OtherError(c) PROVE Spares
    BY <2>1, <2>10 DEF OtherError, Return, Goto
  <2>11. ASSUME NEW c \in Callers, Unavailable(c) PROVE Spares
    BY <2>1, <2>11 DEF Unavailable, Return, Goto
  <2>12. ASSUME NEW p \in Process, Crash(p) PROVE Spares
    BY <2>1, <2>12 DEF Crash
  <2>13. ASSUME NEW p \in Process, NoticeExit(p) PROVE Spares
    BY <2>1, <2>13 DEF NoticeExit
  <2>14. CASE Close
    BY <2>1, <2>14 DEF Close, Kill
  <2>15. CASE UNCHANGED vars
    BY <2>1, <2>15 DEF vars
  <2> QED
    BY <1>1, <2>2, <2>3, <2>4, <2>5, <2>6, <2>7, <2>8, <2>9, <2>10, <2>11, <2>12, <2>13, <2>14, <2>15 DEF Next, Step
<1> QED
  BY <1>1, BridgeInvHolds, PTL DEF Spec, RestartSparesTheLiving
=============================================================================
