--------------------------- MODULE ArtifactStore ---------------------------
(***************************************************************************)
(* What the artifact sink promises its callers, without its queue and its  *)
(* workers: Put decides at once whether an artifact is taken or dropped;   *)
(* what is taken is uploaded once, for better or worse; nothing is taken   *)
(* after Close has begun, and a Close that reports success has left        *)
(* nothing behind.                                                         *)
(***************************************************************************)
CONSTANT Artifacts

VARIABLES
    fate,           \* what became of each artifact
    close           \* how far Close is: "no", "waiting", "drained", "timedOut"

vars == <<fate, close>>

Init ==
    /\ fate = [a \in Artifacts |-> "new"]
    /\ close = "no"

Becomes(a, f) == fate' = [fate EXCEPT ![a] = f]

Accept(a) ==
    /\ fate[a] = "new" /\ close = "no"
    /\ Becomes(a, "accepted")
    /\ UNCHANGED close

Drop(a) ==
    /\ fate[a] = "new"
    /\ Becomes(a, "dropped")
    /\ UNCHANGED close

Upload(a) ==
    /\ fate[a] = "accepted"
    /\ Becomes(a, "stored") \/ Becomes(a, "failed")
    /\ UNCHANGED close

Close ==
    /\ close = "no"
    /\ close' = "waiting"
    /\ UNCHANGED fate

Drained ==
    /\ close = "waiting"
    /\ \A a \in Artifacts : fate[a] # "accepted"
    /\ close' = "drained"
    /\ UNCHANGED fate

GiveUp ==
    /\ close = "waiting"
    /\ close' = "timedOut"
    /\ UNCHANGED fate

Next ==
    \/ \E a \in Artifacts : Accept(a) \/ Drop(a) \/ Upload(a)
    \/ Close \/ Drained \/ GiveUp

Spec == Init /\ [][Next]_vars
=============================================================================
