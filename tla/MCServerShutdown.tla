-------------------------- MODULE MCServerShutdown --------------------------
(* Model values for the run of ServerShutdown. *)
EXTENDS ServerShutdown

CONSTANTS r1, r2, r3, w1, w2

ThreeRequests == {r1, r2, r3}
TwoWorkers    == {w1, w2}
=============================================================================
