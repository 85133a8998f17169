---------------------------- MODULE ArtifactSink ----------------------------
(***************************************************************************)
(* The artifact sink (pkg/artifacts/sink.go): a buffered channel of jobs   *)
(* that requests fill and a fixed set of workers empty, uploading one job  *)
(* each at a time.  Put never blocks.  Close closes the channel, so that   *)
(* the workers drain it and return, and waits for them under its context.  *)
(*                                                                         *)
(* An artifact stands for one call of Put.  The key and the bytes are left *)
(* out: nothing in the sink depends on them.                               *)
(***************************************************************************)
EXTENDS Naturals, Sequences

CONSTANTS
    Artifacts,      \* the calls of Put that are ever made
    Workers,        \* four in the code (sink.go:93)
    Nothing,        \* what an idle worker holds
    Capacity        \* 256 in the code (sink.go:91)

ASSUME NothingIsNoArtifact == Nothing \notin Artifacts
ASSUME CapacityAssumption == Capacity \in Nat \ {0}
ASSUME WorkersAssumption == Workers # {}

VARIABLES
    jobs,           \* s.jobs, oldest first
    closed,         \* s.closed, which is also whether s.jobs is closed
    hand,           \* the job each worker is uploading
    exited,         \* the workers that have returned (s.wg)
    fate,           \* what became of each artifact
    close           \* how far Close is: "no", "waiting", "drained", "timedOut"

sinkVars == <<jobs, closed, hand, exited, fate, close>>

Init ==
    /\ jobs = <<>>
    /\ closed = FALSE
    /\ hand = [w \in Workers |-> Nothing]
    /\ exited = {}
    /\ fate = [a \in Artifacts |-> "new"]
    /\ close = "no"

-----------------------------------------------------------------------------
Becomes(a, f) == fate' = [fate EXCEPT ![a] = f]

\* Put's select with room in the channel.
Put(a) ==
    /\ fate[a] = "new"
    /\ ~closed
    /\ Len(jobs) < Capacity
    /\ jobs' = Append(jobs, a)
    /\ Becomes(a, "accepted")
    /\ UNCHANGED <<closed, hand, exited, close>>

\* Put finds the sink closed or the channel full, or its context done: select
\* may take that branch although there is room.
PutDrops(a, ctxDone) ==
    /\ fate[a] = "new"
    /\ closed \/ Len(jobs) = Capacity \/ ctxDone
    /\ Becomes(a, "dropped")
    /\ UNCHANGED <<jobs, closed, hand, exited, close>>

\* A worker's range over the channel yields a job.
Take(w) ==
    /\ w \notin exited /\ hand[w] = Nothing
    /\ jobs # <<>>
    /\ hand' = [hand EXCEPT ![w] = Head(jobs)]
    /\ jobs' = Tail(jobs)
    /\ UNCHANGED <<closed, exited, fate, close>>

\* upload returns; its error is logged and the job is not tried again.
UploadEnds(w) ==
    /\ hand[w] # Nothing
    /\ Becomes(hand[w], "stored") \/ Becomes(hand[w], "failed")
    /\ hand' = [hand EXCEPT ![w] = Nothing]
    /\ UNCHANGED <<jobs, closed, exited, close>>

\* The range ends once the channel is closed and empty.
WorkerExits(w) ==
    /\ w \notin exited /\ hand[w] = Nothing
    /\ closed /\ jobs = <<>>
    /\ exited' = exited \cup {w}
    /\ UNCHANGED <<jobs, closed, hand, fate, close>>

Close ==
    /\ close = "no"
    /\ closed' = TRUE
    /\ close' = "waiting"
    /\ UNCHANGED <<jobs, hand, exited, fate>>

\* Mutant: Close waits for an empty queue, not for the workers.
CloseReturns_WhenEmpty ==
    /\ close = "waiting"
    /\ jobs = <<>>
    /\ close' = "drained"
    /\ UNCHANGED <<jobs, closed, hand, exited, fate>>

\* s.wg.Wait has returned.
CloseReturns ==
    /\ close = "waiting"
    /\ exited = Workers
    /\ close' = "drained"
    /\ UNCHANGED <<jobs, closed, hand, exited, fate>>

CloseTimesOut ==
    /\ close = "waiting"
    /\ close' = "timedOut"
    /\ UNCHANGED <<jobs, closed, hand, exited, fate>>

WorkerStep(w) == Take(w) \/ UploadEnds(w) \/ WorkerExits(w)

Next ==
    \/ \E a \in Artifacts : Put(a) \/ \E done \in BOOLEAN : PutDrops(a, done)
    \/ \E w \in Workers : WorkerStep(w)
    \/ Close \/ CloseReturns \/ CloseTimesOut

Spec == Init /\ [][Next]_sinkVars

-----------------------------------------------------------------------------
Fate == {"new", "dropped", "accepted", "stored", "failed"}

\* Every variable has its type; the channel holds at most Capacity jobs.
TypeOK ==
    /\ jobs \in Seq(Artifacts) /\ Len(jobs) <= Capacity
    /\ closed \in BOOLEAN
    /\ hand \in [Workers -> Artifacts \cup {Nothing}]
    /\ exited \subseteq Workers
    /\ fate \in [Artifacts -> Fate]
    /\ close \in {"no", "waiting", "drained", "timedOut"}

Queued(a) == \E i \in DOMAIN jobs : jobs[i] = a
Held(a) == \E w \in Workers : hand[w] = a

\* An artifact that Put accepted and that no upload has ended for is in
\* exactly one place: once in the channel, or with one worker that runs.
\* Nothing is lost or uploaded twice on the way (sink.go:143-157).
AcceptedOnce ==
    /\ \A a \in Artifacts : fate[a] = "accepted" <=> Queued(a) \/ Held(a)
    /\ \A a \in Artifacts : ~(Queued(a) /\ Held(a))
    /\ \A i, j \in DOMAIN jobs : jobs[i] = jobs[j] => i = j
    /\ \A v, w \in Workers : hand[v] = hand[w] /\ hand[v] # Nothing => v = w
    /\ \A w \in exited : hand[w] = Nothing

\* The sink keeps the promise of ArtifactStore: above all, a Close that
\* returns no error leaves no accepted artifact behind, and none is accepted
\* once it has begun (sink.go:159-179).
Store == INSTANCE ArtifactStore
KeepsPromise == Store!Spec

=============================================================================
