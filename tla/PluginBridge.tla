---------------------------- MODULE PluginBridge ----------------------------
(***************************************************************************)
(* The client of the conversion plugin (pkg/llmbridge/plugin_client.go): a *)
(* subprocess started with the server, shared by the goroutines of all     *)
(* requests, restarted by the call that finds it dead, and ended by Close. *)
(*                                                                         *)
(* A call takes the client under the mutex, calls the plugin outside it,   *)
(* and after codes.Unavailable comes back once for a fresh client.  A      *)
(* restart keeps the mutex while it kills the old process and starts and   *)
(* validates the new one, so Kill, spawn and handshake are separate steps  *)
(* here: only the processes themselves move in between.                    *)
(*                                                                         *)
(* Processes are numbered in the order they are started.  A client object  *)
(* is its process: b.client is a number, 0 for nil.  go-plugin's Exited()  *)
(* turns true when its goroutine has noticed the death, or when Kill has   *)
(* returned.                                                               *)
(***************************************************************************)
EXTENDS Naturals, FiniteSets

CONSTANTS
    Callers,        \* the goroutines that call the plugin
    NoOne,          \* the mutex is free
    MaxStarts       \* bound: processes started over the server's life

ASSUME NoOneIsNoCaller == NoOne \notin Callers
ASSUME OneStart == MaxStarts \in Nat \ {0}

Process == 1..MaxStarts

VARIABLES
    starts,         \* processes started so far
    running,        \* the processes alive in the operating system
    exited,         \* the clients whose Exited() is true
    client,         \* b.client (b.grpc is set and cleared with it)
    closed,         \* b.closed
    mu,             \* the caller that holds b.mu across a restart
    ended,          \* Close has returned
    pc,             \* where each caller is
    tries,          \* times its call has been sent: 0, 1 or 2
    first, using,   \* the process of its first try, and of its current one
    result          \* how its latest call ended

procVars == <<starts, running, exited>>
bridgeVars == <<client, closed, mu, ended>>
callVars == <<pc, tries, first, using, result>>
vars == <<procVars, bridgeVars, callVars>>

\* newPluginBridge returns a bridge only once the first process is validated.
Init ==
    /\ starts = 1 /\ running = {1} /\ exited = {}
    /\ client = 1 /\ closed = FALSE /\ mu = NoOne /\ ended = FALSE
    /\ pc = [c \in Callers |-> "idle"]
    /\ tries = [c \in Callers |-> 0]
    /\ first = [c \in Callers |-> 0]
    /\ using = [c \in Callers |-> 0]
    /\ result = [c \in Callers |-> "none"]

-----------------------------------------------------------------------------
\* What acquire and reacquire decide under the mutex.

Live(p) == p # 0 /\ p \notin exited

Goto(c, l) == pc' = [pc EXCEPT ![c] = l]

Return(c, r) ==
    /\ Goto(c, "idle")
    /\ result' = [result EXCEPT ![c] = r]

\* do(grpcClient) on process p.
Send(c, p) ==
    /\ Goto(c, "calling")
    /\ tries' = [tries EXCEPT ![c] = @ + 1]
    /\ using' = [using EXCEPT ![c] = p]
    /\ first' = IF tries[c] = 0 THEN [first EXCEPT ![c] = p] ELSE first

\* What a call that gets no client returns: acquire's error, or the error of
\* its first try when it was reacquire that failed (kept apart here from the
\* error of a second try, which reads the same to the caller).
Refusal(c, r) == IF tries[c] = 0 THEN r ELSE "noSecondTry"

\* client.Kill returns when the process is gone and its exit noticed.
Kill(p) ==
    /\ running' = running \ {p}
    /\ exited' = exited \cup ({p} \ {0})

\* callUnary, or BridgeStream up to its first frame.
Call(c) ==
    /\ pc[c] = "idle"
    /\ Goto(c, "acquire")
    /\ tries' = [tries EXCEPT ![c] = 0]
    /\ first' = [first EXCEPT ![c] = 0]
    /\ using' = [using EXCEPT ![c] = 0]
    /\ result' = [result EXCEPT ![c] = "none"]
    /\ UNCHANGED <<procVars, bridgeVars>>

\* Mutant: reacquire hands out the client the call has just failed on.
Acceptable_IgnoresStale(c) == Live(client)

\* Mutant: reacquire always restarts, whoever has restarted before.
Acceptable_NotAfterFailure(c) == tries[c] = 0 /\ Live(client)

\* acquire asks only that the client is not known to have exited; reacquire
\* also that it is not the one the call has just failed on.
Acceptable(c) ==
    IF tries[c] = 0 THEN Live(client)
    ELSE client # using[c] /\ Live(client)

AcquireClosed(c) ==
    /\ pc[c] = "acquire" /\ mu = NoOne
    /\ closed
    /\ Return(c, Refusal(c, "closed"))
    /\ UNCHANGED <<procVars, bridgeVars, tries, first, using>>

Acquire(c) ==
    /\ pc[c] = "acquire" /\ mu = NoOne
    /\ ~closed
    /\ Acceptable(c)
    /\ Send(c, client)
    /\ UNCHANGED <<procVars, bridgeVars, result>>

\* restartLocked up to startPlugin: the old process is killed first.
Restart(c) ==
    /\ pc[c] = "acquire" /\ mu = NoOne
    /\ ~closed
    /\ ~Acceptable(c)
    /\ Kill(client)
    /\ mu' = c
    /\ Goto(c, "starting")
    /\ UNCHANGED <<starts, client, closed, ended, tries, first, using, result>>

Spawn(c) ==
    /\ pc[c] = "starting"
    /\ starts < MaxStarts
    /\ starts' = starts + 1
    /\ running' = running \cup {starts + 1}
    /\ Goto(c, "handshake")
    /\ UNCHANGED <<exited, bridgeVars, tries, first, using, result>>

\* Client(), Dispense, GetInfo and the ABI check have succeeded.
Started(c) ==
    /\ pc[c] = "handshake"
    /\ starts \in running
    /\ client' = starts
    /\ mu' = NoOne
    /\ Send(c, starts)
    /\ UNCHANGED <<procVars, closed, ended, result>>

\* Mutant: a failed handshake leaves its process behind.
StartFails_KeepsProcess(c) ==
    /\ pc[c] \in {"starting", "handshake"}
    /\ client' = 0
    /\ mu' = NoOne
    /\ Return(c, Refusal(c, "startFailed"))
    /\ UNCHANGED <<procVars, closed, ended, tries, first, using>>

\* Mutant: a failed start returns without unlocking.
StartFails_KeepsLock(c) ==
    /\ \/ pc[c] = "starting" /\ UNCHANGED <<running, exited>>
       \/ pc[c] = "handshake" /\ Kill(starts)
    /\ client' = 0
    /\ Return(c, Refusal(c, "startFailed"))
    /\ UNCHANGED <<starts, closed, ended, mu, tries, first, using>>

\* One of them has not: whatever was spawned is killed and no client is left.
StartFails(c) ==
    /\ \/ pc[c] = "starting" /\ UNCHANGED <<running, exited>>
       \/ pc[c] = "handshake" /\ Kill(starts)
    /\ client' = 0
    /\ mu' = NoOne
    /\ Return(c, Refusal(c, "startFailed"))
    /\ UNCHANGED <<starts, closed, ended, tries, first, using>>

-----------------------------------------------------------------------------
\* The call itself, outside the mutex.

Answers(c) ==
    /\ pc[c] = "calling"
    /\ using[c] \in running
    /\ Return(c, "ok")
    /\ UNCHANGED <<procVars, bridgeVars, tries, first, using>>

\* Any error but Unavailable, the end of the caller's context included, is
\* handed on at once.
OtherError(c) ==
    /\ pc[c] = "calling"
    /\ Return(c, "otherError")
    /\ UNCHANGED <<procVars, bridgeVars, tries, first, using>>

Unavailable(c) ==
    /\ pc[c] = "calling"
    /\ using[c] \notin running
    /\ IF tries[c] = 1
       THEN Goto(c, "acquire") /\ UNCHANGED result
       ELSE Return(c, "unavailable")
    /\ UNCHANGED <<procVars, bridgeVars, tries, first, using>>

\* Server.Shutdown calls it once; it waits for the mutex like everybody else.
Close ==
    /\ mu = NoOne
    /\ ~ended
    /\ closed' = TRUE
    /\ Kill(client)
    /\ client' = 0
    /\ ended' = TRUE
    /\ UNCHANGED <<starts, mu, callVars>>

-----------------------------------------------------------------------------
\* The processes.

Crash(p) ==
    /\ p \in running
    /\ running' = running \ {p}
    /\ UNCHANGED <<starts, exited, bridgeVars, callVars>>

\* go-plugin's goroutine returns from Wait.
NoticeExit(p) ==
    /\ p <= starts
    /\ p \notin running \cup exited
    /\ exited' = exited \cup {p}
    /\ UNCHANGED <<starts, running, bridgeVars, callVars>>

Step(c) ==
    \/ AcquireClosed(c) \/ Acquire(c) \/ Restart(c) \/ Spawn(c)
    \/ Started(c) \/ StartFails(c)
    \/ Answers(c) \/ OtherError(c) \/ Unavailable(c)

Next ==
    \/ \E c \in Callers : Call(c) \/ Step(c)
    \/ \E p \in Process : Crash(p) \/ NoticeExit(p)
    \/ Close

Spec == Init /\ [][Next]_vars

\* A caller that has begun goes on: a start is bounded by PluginStartTimeout
\* and a call by its caller's context.  The mutex is handed to a waiter in
\* the end (sync.Mutex stops barging after one millisecond), hence strong
\* fairness of the steps that take it.
FairSpec ==
    /\ Spec
    /\ \A c \in Callers :
        /\ WF_vars(Step(c))
        /\ SF_vars(AcquireClosed(c) \/ Acquire(c) \/ Restart(c))
    /\ SF_vars(Close)

-----------------------------------------------------------------------------
Location == {"idle", "acquire", "starting", "handshake", "calling"}
Result == {"none", "ok", "closed", "startFailed", "otherError",
           "unavailable", "noSecondTry"}

\* Every variable has its type.
TypeOK ==
    /\ starts \in Process
    /\ running \subseteq 1..starts
    /\ exited \subseteq 1..starts
    /\ client \in 0..starts
    /\ closed \in BOOLEAN /\ ended \in BOOLEAN
    /\ mu \in Callers \cup {NoOne}
    /\ pc \in [Callers -> Location]
    /\ tries \in [Callers -> 0..2]
    /\ first \in [Callers -> 0..starts]
    /\ using \in [Callers -> 0..starts]
    /\ result \in [Callers -> Result]

\* There is never more than one plugin process, however many callers find the
\* old one dead together: the restart kills before it starts, and a caller
\* that comes second takes the client of the first (plugin_client.go:115-118).
\* And once Close has returned none runs and none is started again, whatever
\* calls were under way or arrive later (plugin_client.go:171-181).
OneProcess ==
    /\ \A p, q \in running : p = q
    /\ ended => running = {}

\* The second try of a call never goes to the process the first one failed on,
\* and a call is unavailable to its caller only if both have died: one crash, or
\* one restart by somebody else, is absorbed (plugin_client.go:149-165,
\* TestPluginBridgeSelfHealsAfterCrash).
RetryUsesFreshProcess ==
    \A c \in Callers :
        /\ tries[c] = 2 => using[c] # first[c]
        /\ result[c] = "unavailable" =>
              tries[c] = 2 /\ {first[c], using[c]} \cap running = {}

\* No call kills the process that serves the others while it is alive: only
\* Close does (plugin_client.go:125-128).
RestartSparesTheLiving ==
    [][(client \in running /\ client \in exited') => (ended' = TRUE)]_vars

\* Every call returns and Close gets its turn: nobody is kept at the mutex by a
\* restart, whichever of its steps fails (plugin_client.go:138-143).
CallsEnd ==
    /\ \A c \in Callers : pc[c] # "idle" ~> pc[c] = "idle"
    /\ <>ended

=============================================================================
