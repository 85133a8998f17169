----------------------- MODULE ServerShutdown_proofs -----------------------
(***************************************************************************)
(* Proofs about the end of the process, for any requests, workers and      *)
(* capacity.  First the artifact sink alone: an accepted artifact is in    *)
(* one place until its upload ends, and the sink implements ArtifactStore. *)
(* Every step of the server is a step of the sink or leaves it alone, so   *)
(* the sink's invariant carries over; what is added relates the phase of   *)
(* Shutdown to the handlers and their rows.                                *)
(***************************************************************************)
EXTENDS ServerShutdown, TLAPS

----------------------------------------------------------------------------
(* The sink.                                                               *)

\* AcceptedOnce needs to know besides that the channel is closed together with
\* the sink, and that a worker returns only when nothing is or will be queued.
SinkInv ==
    /\ TypeOK
    /\ AcceptedOnce
    /\ closed <=> close # "no"
    /\ exited # {} => closed /\ jobs = <<>>

\* The channel as a sequence: what Append and Tail leave at which index.
LEMMA QueueFacts ==
    ASSUME NEW S, NEW q \in Seq(S)
    PROVE  /\ DOMAIN q = 1..Len(q) /\ Len(q) \in Nat
           /\ \A x \in S : /\ Append(q, x) \in Seq(S)
                           /\ DOMAIN Append(q, x) = 1..Len(q) + 1
                           /\ Len(Append(q, x)) = Len(q) + 1
                           /\ \A i \in 1..Len(q) : Append(q, x)[i] = q[i]
                           /\ Append(q, x)[Len(q) + 1] = x
           /\ q # <<>> => /\ Len(q) > 0 /\ Head(q) = q[1] /\ Head(q) \in S
                          /\ Tail(q) \in Seq(S)
                          /\ Len(Tail(q)) = Len(q) - 1
                          /\ DOMAIN Tail(q) = 1..Len(q) - 1
                          /\ \A i \in 1..Len(q) - 1 : Tail(q)[i] = q[i + 1]
  OBVIOUS

\* The invariant holds of a sink that has just been opened.
LEMMA InitSink == Init => SinkInv
<1> SUFFICES ASSUME Init PROVE SinkInv
  OBVIOUS
<1>1. jobs = <<>> /\ jobs \in Seq(Artifacts)
  BY DEF Init
<1>2. TypeOK
  <2>1. closed \in BOOLEAN
    BY DEF Init
  <2>2. Len(jobs) <= Capacity
    BY <1>1, CapacityAssumption
  <2> QED
    BY <1>1, <2>1, <2>2 DEF Init, TypeOK, Fate
<1>3. AcceptedOnce
  BY NothingIsNoArtifact DEF Init, AcceptedOnce, Queued, Held
<1> QED
  BY <1>2, <1>3 DEF Init, SinkInv

\* Put: the artifact is new, so it is neither queued nor held yet.
LEMMA PutStep ==
    ASSUME SinkInv, NEW a \in Artifacts, Put(a)
    PROVE  SinkInv'
<1>1. jobs \in Seq(Artifacts) /\ Len(jobs) <= Capacity /\ fate \in [Artifacts -> Fate]
  BY DEF SinkInv, TypeOK
<1>2. jobs' = Append(jobs, a) /\ fate' = [fate EXCEPT ![a] = "accepted"]
      /\ UNCHANGED <<closed, hand, exited, close>>
  BY DEF Put, Becomes
<1>3. /\ DOMAIN jobs = 1..Len(jobs) /\ Len(jobs) \in Nat
      /\ jobs' \in Seq(Artifacts) /\ Len(jobs') = Len(jobs) + 1
      /\ DOMAIN jobs' = 1..Len(jobs) + 1
      /\ \A i \in 1..Len(jobs) : jobs'[i] = jobs[i]
      /\ jobs'[Len(jobs) + 1] = a
  BY <1>1, <1>2, QueueFacts
<1>4. ~Queued(a) /\ ~Held(a)
  BY DEF SinkInv, AcceptedOnce, Put
<1>5. TypeOK'
  BY <1>1, <1>2, <1>3, CapacityAssumption DEF SinkInv, TypeOK, Put, Fate
<1>6. \A b \in Artifacts : Queued(b)' <=> Queued(b) \/ b = a
  BY <1>3 DEF Queued
<1>7. \A b \in Artifacts : Held(b)' <=> Held(b)
  BY <1>2 DEF Held
<1>8. AcceptedOnce'
  <2>1. \A b \in Artifacts : fate'[b] = "accepted" <=> fate[b] = "accepted" \/ b = a
    BY <1>1, <1>2
  <2>2. \A b \in Artifacts : /\ fate'[b] = "accepted" <=> Queued(b)' \/ Held(b)'
                            /\ ~(Queued(b)' /\ Held(b)')
    BY <1>4, <1>6, <1>7, <2>1 DEF SinkInv, AcceptedOnce
  <2>3. \A i, j \in DOMAIN jobs' : jobs'[i] = jobs'[j] => i = j
    BY <1>3, <1>4 DEF SinkInv, AcceptedOnce, Queued
  <2>4. /\ \A v, w \in Workers : hand'[v] = hand'[w] /\ hand'[v] # Nothing => v = w
        /\ \A w \in exited' : hand'[w] = Nothing
    BY <1>2 DEF SinkInv, AcceptedOnce
  <2> QED
    BY <2>2, <2>3, <2>4 DEF AcceptedOnce
<1> QED
  BY <1>2, <1>5, <1>8 DEF SinkInv, Put

\* Take moves the oldest job from the channel into the worker's hand.
LEMMA TakeStep ==
    ASSUME SinkInv, NEW w \in Workers, Take(w)
    PROVE  SinkInv'
<1> DEFINE a == Head(jobs)
<1>1. jobs \in Seq(Artifacts) /\ Len(jobs) <= Capacity /\ jobs # <<>>
      /\ hand \in [Workers -> Artifacts \cup {Nothing}] /\ hand[w] = Nothing /\ w \notin exited
  BY DEF SinkInv, TypeOK, Take
<1>2. jobs' = Tail(jobs) /\ hand' = [hand EXCEPT ![w] = a]
      /\ UNCHANGED <<closed, exited, fate, close>>
  BY DEF Take
<1>3. /\ DOMAIN jobs = 1..Len(jobs) /\ Len(jobs) \in Nat /\ Len(jobs) > 0
      /\ a = jobs[1] /\ a \in Artifacts
      /\ jobs' \in Seq(Artifacts) /\ Len(jobs') = Len(jobs) - 1
      /\ DOMAIN jobs' = 1..Len(jobs) - 1
      /\ \A i \in 1..Len(jobs) - 1 : jobs'[i] = jobs[i + 1]
  BY <1>1, <1>2, QueueFacts
<1>4. Queued(a) /\ ~Held(a) /\ a # Nothing
  BY <1>3, NothingIsNoArtifact DEF SinkInv, AcceptedOnce, Queued
<1>5. TypeOK'
  BY <1>1, <1>2, <1>3, CapacityAssumption DEF SinkInv, TypeOK
<1>6. \A b \in Artifacts : Queued(b)' <=> Queued(b) /\ b # a
  <2> SUFFICES ASSUME NEW b \in Artifacts PROVE Queued(b)' <=> Queued(b) /\ b # a
    OBVIOUS
  <2>1. ASSUME Queued(b)' PROVE Queued(b) /\ b # a
    <3>1. PICK i \in 1..Len(jobs) - 1 : jobs'[i] = b
      BY <1>3, <2>1 DEF Queued
    <3>2. i + 1 \in 1..Len(jobs) /\ jobs[i + 1] = b /\ i + 1 # 1 /\ 1 \in 1..Len(jobs)
      BY <1>3, <3>1
    <3> QED
      BY <1>3, <3>2 DEF SinkInv, AcceptedOnce, Queued
  <2>2. ASSUME Queued(b), b # a PROVE Queued(b)'
    <3>1. PICK i \in 1..Len(jobs) : jobs[i] = b
      BY <1>3, <2>2 DEF Queued
    <3>2. i # 1 /\ i - 1 \in 1..Len(jobs) - 1 /\ (i - 1) + 1 = i
      BY <1>3, <2>2, <3>1
    <3>3. jobs'[i - 1] = b
      BY <1>3, <3>1, <3>2
    <3> QED
      BY <1>3, <3>2, <3>3 DEF Queued
  <2> QED
    BY <2>1, <2>2
<1>7. \A b \in Artifacts : Held(b)' <=> Held(b) \/ b = a
  BY <1>1, <1>2, NothingIsNoArtifact DEF Held
<1>8. AcceptedOnce'
  <2>1. \A b \in Artifacts : /\ fate'[b] = "accepted" <=> Queued(b)' \/ Held(b)'
                            /\ ~(Queued(b)' /\ Held(b)')
    BY <1>2, <1>4, <1>6, <1>7 DEF SinkInv, AcceptedOnce
  <2>2. \A i, j \in DOMAIN jobs' : jobs'[i] = jobs'[j] => i = j
    <3> SUFFICES ASSUME NEW i \in 1..Len(jobs) - 1, NEW j \in 1..Len(jobs) - 1,
                        jobs'[i] = jobs'[j]
                 PROVE  i = j
      BY <1>3
    <3>1. i + 1 \in DOMAIN jobs /\ j + 1 \in DOMAIN jobs /\ jobs[i + 1] = jobs[j + 1]
      BY <1>3
    <3>2. i + 1 = j + 1
      BY <3>1 DEF SinkInv, AcceptedOnce
    <3> QED
      BY <1>3, <3>2
  <2>3. \A u, v \in Workers : hand'[u] = hand'[v] /\ hand'[u] # Nothing => u = v
    BY <1>1, <1>2, <1>4 DEF SinkInv, AcceptedOnce, Held
  <2>4. \A v \in exited' : hand'[v] = Nothing
    BY <1>1, <1>2 DEF SinkInv, AcceptedOnce, TypeOK
  <2> QED
    BY <2>1, <2>2, <2>3, <2>4 DEF AcceptedOnce
<1>9. (exited # {} => closed /\ jobs = <<>>)'
  BY <1>1, <1>2 DEF SinkInv
<1> QED
  BY <1>2, <1>5, <1>8, <1>9 DEF SinkInv

\* UploadEnds empties the worker's hand and settles the artifact's fate.
LEMMA UploadStep ==
    ASSUME SinkInv, NEW w \in Workers, UploadEnds(w)
    PROVE  SinkInv'
<1> DEFINE a == hand[w]
<1>1. hand \in [Workers -> Artifacts \cup {Nothing}] /\ a \in Artifacts /\ a # Nothing
      /\ fate \in [Artifacts -> Fate]
  BY DEF SinkInv, TypeOK, UploadEnds
<1>2. PICK f \in {"stored", "failed"} : fate' = [fate EXCEPT ![a] = f]
  BY DEF UploadEnds, Becomes
<1>3. hand' = [hand EXCEPT ![w] = Nothing] /\ UNCHANGED <<jobs, closed, exited, close>>
  BY DEF UploadEnds
<1>4. TypeOK'
  BY <1>1, <1>2, <1>3 DEF SinkInv, TypeOK, Fate
<1>5. \A b \in Artifacts : Queued(b)' <=> Queued(b)
  BY <1>3 DEF Queued
<1>6. \A b \in Artifacts : Held(b)' <=> Held(b) /\ b # a
  BY <1>1, <1>3, NothingIsNoArtifact DEF SinkInv, AcceptedOnce, Held
<1>7. Held(a) /\ ~Queued(a)
  BY <1>1 DEF SinkInv, AcceptedOnce, Held
<1>8. \A b \in Artifacts : fate'[b] = "accepted" <=> fate[b] = "accepted" /\ b # a
  BY <1>1, <1>2
<1>9. AcceptedOnce'
  <2>1. \A b \in Artifacts : /\ fate'[b] = "accepted" <=> Queued(b)' \/ Held(b)'
                            /\ ~(Queued(b)' /\ Held(b)')
    BY <1>5, <1>6, <1>7, <1>8 DEF SinkInv, AcceptedOnce
  <2>2. /\ \A i, j \in DOMAIN jobs' : jobs'[i] = jobs'[j] => i = j
        /\ \A u, v \in Workers : hand'[u] = hand'[v] /\ hand'[u] # Nothing => u = v
        /\ \A v \in exited' : hand'[v] = Nothing
    BY <1>1, <1>3 DEF SinkInv, AcceptedOnce, TypeOK
  <2> QED
    BY <2>1, <2>2 DEF AcceptedOnce
<1> QED
  BY <1>3, <1>4, <1>9 DEF SinkInv

\* The other steps move no artifact.
LEMMA OtherSteps ==
    ASSUME SinkInv,
           \/ \E a \in Artifacts : \E done \in BOOLEAN : PutDrops(a, done)
           \/ \E w \in Workers : WorkerExits(w)
           \/ Close \/ CloseReturns \/ CloseTimesOut
           \/ UNCHANGED sinkVars
    PROVE  SinkInv'
<1> USE DEF SinkInv, TypeOK, AcceptedOnce, Queued, Held, Fate
<1>1. ASSUME NEW a \in Artifacts, NEW done \in BOOLEAN, PutDrops(a, done) PROVE SinkInv'
  BY <1>1 DEF PutDrops, Becomes
<1>2. ASSUME NEW w \in Workers, WorkerExits(w) PROVE SinkInv'
  BY <1>2 DEF WorkerExits
<1>3. CASE Close
  BY <1>3 DEF Close
<1>4. CASE CloseReturns
  BY <1>4 DEF CloseReturns
<1>5. CASE CloseTimesOut
  BY <1>5 DEF CloseTimesOut
<1>6. CASE UNCHANGED sinkVars
  BY <1>6 DEF sinkVars
<1> QED
  BY <1>1, <1>2, <1>3, <1>4, <1>5, <1>6

\* Every step of the sink keeps it.
LEMMA SinkStep == SinkInv /\ [Next]_sinkVars => SinkInv'
  BY PutStep, TakeStep, UploadStep, OtherSteps DEF Next, WorkerStep

\* The inductive invariant.
THEOREM SinkInvHolds == Spec => []SinkInv
  BY InitSink, SinkStep, PTL DEF Spec

\* Every variable keeps its type and the channel its capacity.
THEOREM SinkTypeCorrect == Spec => []TypeOK
  BY SinkInvHolds, PTL DEF SinkInv

\* An accepted artifact is queued once or held by one worker, never both.
THEOREM AcceptedOnceHolds == Spec => []AcceptedOnce
  BY SinkInvHolds, PTL DEF SinkInv

\* The sink implements ArtifactStore: a Close that returns without error has
\* left no accepted artifact, and none is accepted once it has begun.
THEOREM KeepsPromiseHolds == Spec => KeepsPromise
<1>1. Init => Store!Init
  BY DEF Init, Store!Init
<1>2. ASSUME SinkInv, [Next]_sinkVars PROVE [Store!Next]_(Store!vars)
  <2> USE DEF Store!Next, Store!vars
  <2>1. ASSUME NEW a \in Artifacts, Put(a) PROVE Store!Accept(a)
    BY <1>2, <2>1 DEF SinkInv, Put, Becomes, Store!Accept, Store!Becomes
  <2>2. ASSUME NEW a \in Artifacts, NEW done \in BOOLEAN, PutDrops(a, done)
        PROVE  Store!Drop(a)
    BY <2>2 DEF PutDrops, Becomes, Store!Drop, Store!Becomes
  <2>3. ASSUME NEW w \in Workers, Take(w) PROVE UNCHANGED Store!vars
    BY <2>3 DEF Take
  <2>4. ASSUME NEW w \in Workers, UploadEnds(w) PROVE \E a \in Artifacts : Store!Upload(a)
    <3>1. hand[w] \in Artifacts /\ fate[hand[w]] = "accepted"
      BY <1>2, <2>4 DEF SinkInv, TypeOK, AcceptedOnce, Held, UploadEnds
    <3>2. Store!Upload(hand[w])
      BY <2>4, <3>1 DEF UploadEnds, Becomes, Store!Upload, Store!Becomes
    <3> QED
      BY <3>1, <3>2
  <2>5. ASSUME NEW w \in Workers, WorkerExits(w) PROVE UNCHANGED Store!vars
    BY <2>5 DEF WorkerExits
  <2>6. CASE Close
    BY <2>6 DEF Close, Store!Close
  <2>7. CASE CloseReturns
    <3>1. exited = Workers /\ jobs = <<>>
      BY <1>2, <2>7, WorkersAssumption DEF SinkInv, CloseReturns
    <3>2. DOMAIN jobs = {}
      BY <3>1
    <3>3. \A a \in Artifacts : fate[a] # "accepted"
      BY <1>2, <3>1, <3>2, NothingIsNoArtifact DEF SinkInv, AcceptedOnce, Queued, Held
    <3> QED
      BY <2>7, <3>3 DEF CloseReturns, Store!Drained
  <2>8. CASE CloseTimesOut
    BY <2>8 DEF CloseTimesOut, Store!GiveUp
  <2>9. CASE UNCHANGED sinkVars
    BY <2>9 DEF sinkVars
  <2> QED
    BY <1>2, <2>1, <2>2, <2>3, <2>4, <2>5, <2>6, <2>7, <2>8, <2>9 DEF Next, WorkerStep
<1> QED
  BY <1>1, <1>2, SinkInvHolds, PTL DEF Spec, KeepsPromise, Store!Spec

----------------------------------------------------------------------------
(* The server.                                                             *)

\* The sink's workers have all returned once Close has been told so.
DrainedByWorkers == close = "drained" => exited = Workers

\* What Shutdown has closed tells how far it is.
PhaseInv ==
    /\ ~plugin \/ closed => phase \in {"artifacts", "db", "exited"}
    /\ ~dbOpen => phase \in {"db", "exited"}

\* Past its first wait no handler is left, unless the wait was given up.
HandlersInv ==
    phase \notin {"serving", "http"} /\ ~timedOut =>
        \A r \in Requests : request[r] # "running"

\* A row stays open under a running handler only, unless the wait was given up,
\* and no handler goes past a statement that holds a connection.
RowInv ==
    \A r \in Requests :
        /\ request[r] = "none" => row[r] = "none" /\ r \notin written
        /\ row[r] = "open" /\ ~timedOut => request[r] = "running" /\ r \notin written
        /\ r \in inUse => r \notin written

ServerInv ==
    /\ SinkInv /\ DrainedByWorkers
    /\ ServerTypeOK /\ PhaseInv /\ HandlersInv /\ RowInv

-----------------------------------------------------------------------------
\* The sink, seen from the server: its own steps or none.
LEMMA SinkMoves == ServerNext => [Next]_sinkVars
<1> SUFFICES ASSUME ServerNext PROVE [Next]_sinkVars
  OBVIOUS
<1>1. ASSUME NEW r \in Requests, PutArtifact(r) PROVE Next
  <2>1. r \in Artifacts /\ FALSE \in BOOLEAN
    BY DEF Requests
  <2> QED
    BY <1>1, <2>1 DEF PutArtifact, Next
<1>2. ASSUME NEW w \in Workers, Upload(w) PROVE Next
  BY <1>2 DEF Upload, Next
<1>3. CASE CloseSink
  BY <1>3 DEF CloseSink, Next
<1>4. CASE SinkClosed
  BY <1>4 DEF SinkClosed, Next
<1>5. ASSUME NEW r \in Requests, Arrive(r) \/ BeginUpdate(r) \/ FinishRow(r) \/ UpdateRefused(r) \/ Return(r)
      PROVE  UNCHANGED sinkVars
  BY <1>5 DEF Arrive, BeginUpdate, FinishRow, UpdateRefused, Return
<1>6. CASE Signal \/ Expire \/ HttpStopped \/ HttpTimesOut \/ CloseBridge \/ CloseDb \/ Exit
  BY <1>6 DEF Signal, Expire, HttpStopped, HttpTimesOut, CloseBridge, CloseDb, Exit
<1> QED
  BY <1>1, <1>2, <1>3, <1>4, <1>5, <1>6 DEF ServerNext, ShutdownStep

\* The invariant holds of a server that has just been started.
LEMMA InitServer == ServerInit => ServerInv
<1> SUFFICES ASSUME ServerInit PROVE ServerInv
  OBVIOUS
<1>1. SinkInv
  BY InitSink DEF ServerInit
<1>2. overdue \in BOOLEAN /\ timedOut \in BOOLEAN /\ plugin \in BOOLEAN /\ dbOpen \in BOOLEAN
  BY DEF ServerInit
<1>3. ServerTypeOK
  BY <1>2 DEF ServerInit, ServerTypeOK
<1>4. DrainedByWorkers /\ PhaseInv /\ HandlersInv /\ RowInv
  BY DEF ServerInit, Init, DrainedByWorkers, PhaseInv, HandlersInv, RowInv
<1> QED
  BY <1>1, <1>3, <1>4 DEF ServerInv

\* A worker that has returned does not come back, and Close returns once.
LEMMA DrainedStep ==
    ASSUME SinkInv, DrainedByWorkers, [Next]_sinkVars
    PROVE  DrainedByWorkers'
<1> USE DEF SinkInv, TypeOK, DrainedByWorkers
<1>1. ASSUME NEW a \in Artifacts, Put(a) \/ \E done \in BOOLEAN : PutDrops(a, done)
      PROVE  DrainedByWorkers'
  BY <1>1 DEF Put, PutDrops
<1>2. ASSUME NEW w \in Workers, WorkerStep(w) PROVE DrainedByWorkers'
  BY <1>2 DEF WorkerStep, Take, UploadEnds, WorkerExits
<1>3. CASE Close \/ CloseReturns \/ CloseTimesOut
  BY <1>3 DEF Close, CloseReturns, CloseTimesOut
<1>4. CASE UNCHANGED sinkVars
  BY <1>4 DEF sinkVars
<1> QED
  BY <1>1, <1>2, <1>3, <1>4 DEF Next

\* Every step of the server keeps the invariant.
LEMMA ServerStep == ServerInv /\ [ServerNext]_vars => ServerInv'
<1> SUFFICES ASSUME ServerInv, [ServerNext]_vars PROVE ServerInv'
  OBVIOUS
<1>1. [Next]_sinkVars
  BY SinkMoves DEF vars
<1>2. SinkInv' /\ DrainedByWorkers'
  BY <1>1, SinkStep, DrainedStep DEF ServerInv
<1>3. closed' \in BOOLEAN
  BY <1>2 DEF SinkInv, TypeOK
<1> DEFINE Rest == ServerTypeOK /\ PhaseInv /\ HandlersInv /\ RowInv
<1> USE DEF ServerInv, ServerTypeOK, PhaseInv, HandlersInv, RowInv, sinkVars, serverVars
<1>4. ASSUME NEW r \in Requests, Arrive(r) PROVE Rest'
  BY <1>4 DEF Arrive
<1>5. ASSUME NEW r \in Requests, PutArtifact(r) PROVE Rest'
  <2>1. closed' = closed
    BY <1>5 DEF PutArtifact, Put, PutDrops
  <2> QED
    BY <1>5, <2>1 DEF PutArtifact
<1>6. ASSUME NEW r \in Requests, BeginUpdate(r) \/ FinishRow(r) \/ UpdateRefused(r)
      PROVE  Rest'
  <2>1. CASE BeginUpdate(r)
    BY <2>1 DEF BeginUpdate, Running
  <2>2. CASE FinishRow(r)
    BY <2>2 DEF FinishRow, Running
  <2>3. CASE UpdateRefused(r)
    <3>1. timedOut
      BY <2>3 DEF UpdateRefused, Running
    <3> QED
      BY <2>3, <3>1 DEF UpdateRefused, Running
  <2> QED
    BY <1>6, <2>1, <2>2, <2>3
<1>7. ASSUME NEW r \in Requests, Return(r) PROVE Rest'
  BY <1>7 DEF Return, Running
<1>8. ASSUME NEW w \in Workers, Upload(w) PROVE Rest'
  <2>1. closed' = closed
    BY <1>8 DEF Upload, WorkerStep, Take, UploadEnds, WorkerExits
  <2> QED
    BY <1>8, <2>1 DEF Upload
<1>9. ASSUME Signal PROVE Rest'
  BY <1>9 DEF Signal
<1>10. ASSUME Expire PROVE Rest'
  BY <1>10 DEF Expire
<1>11. ASSUME HttpStopped PROVE Rest'
  BY <1>11 DEF HttpStopped, Running
<1>12. ASSUME HttpTimesOut PROVE Rest'
  BY <1>12 DEF HttpTimesOut
<1>13. ASSUME CloseBridge PROVE Rest'
  BY <1>13 DEF CloseBridge
<1>14. ASSUME CloseSink PROVE Rest'
  BY <1>14 DEF CloseSink
<1>15. ASSUME SinkClosed PROVE Rest'
  <2>1. closed' = closed
    BY <1>15 DEF SinkClosed, CloseReturns, CloseTimesOut
  <2> QED
    BY <1>15, <2>1 DEF SinkClosed
<1>16. ASSUME CloseDb PROVE Rest'
  BY <1>16 DEF CloseDb
<1>17. ASSUME Exit PROVE Rest'
  BY <1>17 DEF Exit
<1>18. ASSUME UNCHANGED vars PROVE Rest'
  BY <1>18 DEF vars
<1>19. Rest'
  BY <1>4, <1>5, <1>6, <1>7, <1>8, <1>9, <1>10, <1>11, <1>12, <1>13, <1>14, <1>15,
     <1>16, <1>17, <1>18 DEF ServerNext, ShutdownStep
<1> QED
  BY <1>2, <1>19

-----------------------------------------------------------------------------
\* The inductive invariant.
THEOREM ServerInvHolds == ServerSpec => []ServerInv
  BY InitServer, ServerStep, PTL DEF ServerSpec

\* Every variable of the server keeps its type.
THEOREM ServerTypeCorrect == ServerSpec => []ServerTypeOK
  BY ServerInvHolds, PTL DEF ServerInv

\* The server drives the sink by the sink's own operations only, so all that
\* is proved of the sink holds of it inside the server.
THEOREM ServerRunsSink == ServerSpec => Spec
<1>1. ServerInit => Init
  BY DEF ServerInit
<1>2. [ServerNext]_vars => [Next]_sinkVars
  BY SinkMoves DEF vars
<1> QED
  BY <1>1, <1>2, PTL DEF ServerSpec, Spec

\* A shutdown that reports no error has finished every row and left no
\* accepted artifact waiting, and plugin, sink and pool are never closed under
\* a handler that is in time.
THEOREM CleanShutdownHolds == ServerSpec => []CleanShutdown
<1>1. ASSUME ServerInv, phase = "exited", ~timedOut, close = "drained", NEW r \in Requests
      PROVE  row[r] # "open" /\ fate[r] # "accepted"
  <2>1. row[r] # "open"
    BY <1>1 DEF ServerInv, HandlersInv, RowInv
  <2>2. exited = Workers /\ jobs = <<>>
    BY <1>1, WorkersAssumption DEF ServerInv, DrainedByWorkers, SinkInv
  <2>3. DOMAIN jobs = {}
    BY <2>2
  <2>4. ~Queued(r) /\ ~Held(r)
    BY <1>1, <2>2, <2>3, NothingIsNoArtifact DEF ServerInv, SinkInv, AcceptedOnce, Queued, Held, Requests
  <2> QED
    BY <1>1, <2>1, <2>4 DEF ServerInv, SinkInv, AcceptedOnce, Requests
<1>2. ServerInv => ((\E r \in Requests : Running(r)) /\ (~plugin \/ closed \/ ~dbOpen) => timedOut)
  BY DEF ServerInv, PhaseInv, HandlersInv, Running
<1>3. ServerInv => CleanShutdown
  BY <1>1, <1>2 DEF CleanShutdown
<1> QED
  BY <1>3, ServerInvHolds, PTL
=============================================================================
