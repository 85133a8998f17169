--------------------------- MODULE ServerShutdown ---------------------------
(***************************************************************************)
(* The end of the process: Server.Shutdown (pkg/server/server.go:483-504)  *)
(* under the 25 s context of OnStop (cmd/picotera/main.go:40-49), with the *)
(* requests still running and the artifact sink they fill.                 *)
(*                                                                         *)
(* Shutdown stops the HTTP server and waits for the handlers, then ends    *)
(* the plugin, closes the sink and the database, in that order and all     *)
(* under one context; an error is remembered, not acted on.  The handlers  *)
(* are not cancelled: http.Server.Shutdown only waits for them.  Closing   *)
(* the pool is the one step without a context: it refuses every statement  *)
(* that comes later and waits for those that hold a connection.            *)
(*                                                                         *)
(* A request opens its row, puts one artifact and finishes its row, in     *)
(* either order, and returns; GatewayFlow is the detailed model of that    *)
(* part.  Artifacts are named by their requests.  The finishing UPDATE     *)
(* holds a connection from when it starts until it ends and stands for any *)
(* statement of a handler; those of the dashboard have no deadline.        *)
(***************************************************************************)
EXTENDS ArtifactSink

VARIABLES
    phase,          \* what Shutdown waits for: "serving" before it is called,
                    \* "http", "bridge", "artifacts", "db", and "exited"
    overdue,        \* the context of OnStop has expired
    timedOut,       \* httpServer.Shutdown has returned an error
    request,        \* each request: "none", "running" or "returned"
    row,            \* its row: "none", "open" or "finished"
    written,        \* the requests whose finishing UPDATE has been tried
    plugin,         \* the plugin's process runs
    dbOpen,         \* the connection pool hands out connections
    inUse           \* the requests whose statement holds a connection

serverVars == <<phase, overdue, timedOut, request, row, written, plugin, dbOpen, inUse>>
vars == <<sinkVars, serverVars>>

Requests == Artifacts
Running(r) == request[r] = "running" /\ phase # "exited"

ServerInit ==
    /\ Init
    /\ phase = "serving" /\ overdue = FALSE /\ timedOut = FALSE
    /\ request = [r \in Requests |-> "none"]
    /\ row = [r \in Requests |-> "none"]
    /\ written = {}
    /\ plugin = TRUE /\ dbOpen = TRUE /\ inUse = {}

-----------------------------------------------------------------------------
\* A request, seen from here.

Arrive(r) ==
    /\ phase = "serving"
    /\ request[r] = "none"
    /\ request' = [request EXCEPT ![r] = "running"]
    /\ row' = [row EXCEPT ![r] = "open"]
    /\ UNCHANGED <<sinkVars, phase, overdue, timedOut, written, plugin, dbOpen, inUse>>

PutArtifact(r) ==
    /\ Running(r)
    /\ Put(r) \/ PutDrops(r, FALSE)
    /\ UNCHANGED serverVars

\* The UPDATE is given a connection and starts.
BeginUpdate(r) ==
    /\ Running(r) /\ r \notin written \cup inUse
    /\ dbOpen
    /\ inUse' = inUse \cup {r}
    /\ UNCHANGED <<sinkVars, phase, overdue, timedOut, request, row, written, plugin, dbOpen>>

\* It ends, and its connection goes back to the pool, closed or not.
FinishRow(r) ==
    /\ Running(r) /\ r \in inUse
    /\ row' = [row EXCEPT ![r] = "finished"]
    /\ written' = written \cup {r}
    /\ inUse' = inUse \ {r}
    /\ UNCHANGED <<sinkVars, phase, overdue, timedOut, request, plugin, dbOpen>>

\* A closed pool refuses it, and the failure is logged.
UpdateRefused(r) ==
    /\ Running(r) /\ r \notin written \cup inUse
    /\ ~dbOpen
    /\ written' = written \cup {r}
    /\ UNCHANGED <<sinkVars, phase, overdue, timedOut, request, row, plugin, dbOpen, inUse>>

Return(r) ==
    /\ Running(r)
    /\ fate[r] # "new" /\ r \in written
    /\ request' = [request EXCEPT ![r] = "returned"]
    /\ UNCHANGED <<sinkVars, phase, overdue, timedOut, row, written, plugin, dbOpen, inUse>>

Upload(w) ==
    /\ phase # "exited"
    /\ WorkerStep(w)
    /\ UNCHANGED serverVars

-----------------------------------------------------------------------------
\* Shutdown.

Signal ==
    /\ phase = "serving"
    /\ phase' = "http"
    /\ UNCHANGED <<sinkVars, overdue, timedOut, request, row, written, plugin, dbOpen, inUse>>

Expire ==
    /\ phase \notin {"serving", "exited"}
    /\ ~overdue
    /\ overdue' = TRUE
    /\ UNCHANGED <<sinkVars, phase, timedOut, request, row, written, plugin, dbOpen, inUse>>

\* Mutant: Shutdown does not wait for the handlers.
HttpStopped_AtOnce ==
    /\ phase = "http"
    /\ phase' = "bridge"
    /\ UNCHANGED <<sinkVars, overdue, timedOut, request, row, written, plugin, dbOpen, inUse>>

HttpStopped ==
    /\ phase = "http"
    /\ \A r \in Requests : ~Running(r)
    /\ phase' = "bridge"
    /\ UNCHANGED <<sinkVars, overdue, timedOut, request, row, written, plugin, dbOpen, inUse>>

\* Mutant: the HTTP server is shut down under a context without deadline.
HttpTimesOut_Never ==
    /\ phase = "http" /\ FALSE
    /\ UNCHANGED vars

HttpTimesOut ==
    /\ phase = "http"
    /\ overdue
    /\ timedOut' = TRUE
    /\ phase' = "bridge"
    /\ UNCHANGED <<sinkVars, overdue, request, row, written, plugin, dbOpen, inUse>>

CloseBridge ==
    /\ phase = "bridge"
    /\ plugin' = FALSE
    /\ phase' = "artifacts"
    /\ UNCHANGED <<sinkVars, overdue, timedOut, request, row, written, dbOpen, inUse>>

CloseSink ==
    /\ phase = "artifacts"
    /\ Close
    /\ UNCHANGED serverVars

SinkClosed ==
    /\ phase = "artifacts"
    /\ CloseReturns \/ (CloseTimesOut /\ overdue)
    /\ phase' = "db"
    /\ UNCHANGED <<overdue, timedOut, request, row, written, plugin, dbOpen, inUse>>

\* s.db.Close refuses new statements and waits for the connections in use.
CloseDb ==
    /\ phase = "db" /\ dbOpen
    /\ dbOpen' = FALSE
    /\ UNCHANGED <<sinkVars, phase, overdue, timedOut, request, row, written, plugin, inUse>>

\* Every connection has come back: s.db.Close returns, and the process ends.
Exit ==
    /\ phase = "db" /\ ~dbOpen
    /\ inUse = {}
    /\ phase' = "exited"
    /\ UNCHANGED <<sinkVars, overdue, timedOut, request, row, written, plugin, dbOpen, inUse>>

ShutdownStep ==
    \/ HttpStopped \/ HttpTimesOut
    \/ CloseBridge \/ CloseSink \/ SinkClosed \/ CloseDb \/ Exit

ServerNext ==
    \/ \E r \in Requests :
        \/ Arrive(r) \/ PutArtifact(r) \/ Return(r)
        \/ BeginUpdate(r) \/ FinishRow(r) \/ UpdateRefused(r)
    \/ \E w \in Workers : Upload(w)
    \/ Signal \/ Expire \/ ShutdownStep

ServerSpec == ServerInit /\ [][ServerNext]_vars

\* Shutdown runs on and its timer fires; no request need ever return, and no
\* statement ever end.
ServerFairSpec ==
    /\ ServerSpec
    /\ WF_vars(ShutdownStep)
    /\ WF_vars(Expire)

-----------------------------------------------------------------------------
\* Every variable of this module has its type.
ServerTypeOK ==
    /\ phase \in {"serving", "http", "bridge", "artifacts", "db", "exited"}
    /\ overdue \in BOOLEAN /\ timedOut \in BOOLEAN
    /\ request \in [Requests -> {"none", "running", "returned"}]
    /\ row \in [Requests -> {"none", "open", "finished"}]
    /\ written \subseteq Requests
    /\ plugin \in BOOLEAN /\ dbOpen \in BOOLEAN
    /\ inUse \subseteq Requests

\* A shutdown that reports no error has lost nothing: every request has
\* finished its row, and every artifact the sink took has been uploaded or
\* its upload has failed (specs/2026-07-07-codebase-improvements/plan.md:81).
\* For what handlers use is closed after the handlers: no row is refused by a
\* closed pool, no artifact by a closed sink and no conversion by a closed
\* plugin, unless the handlers outlived their time (plan.md:80).
CleanShutdown ==
    /\ phase = "exited" /\ ~timedOut /\ close = "drained" =>
        \A r \in Requests : row[r] # "open" /\ fate[r] # "accepted"
    /\ (\E r \in Requests : Running(r)) /\ (~plugin \/ closed \/ ~dbOpen) => timedOut

\* The process ends, though requests may run on and uploads may hang, with one
\* exception: the handlers outlived their time and one of them keeps its
\* connection for ever, which s.db.Close waits for without a context
\* (server.go:500-502).
ShutdownEnds ==
    phase = "http" ~>
        \/ phase = "exited"
        \/ \E r \in Requests : [](phase = "db" /\ timedOut /\ r \in inUse)

=============================================================================
