----------------------------- MODULE GatewayFlow -----------------------------
(***************************************************************************)
(* One run of gatewayFlow.run (pkg/server/gateway_flow*.go): the life of a *)
(* client request from its meta row to its last deferred call, on the      *)
(* three kinds of route, together with the actors that interfere with it   *)
(* through the live-request registry and the request context: dashboard    *)
(* users who interrupt the meta row or an attempt's row, and the client,   *)
(* which may disconnect at any moment.                                     *)
(*                                                                         *)
(* The flow itself is one goroutine, so pc is a single control point.  One *)
(* action is the code between two points where the flow reads something    *)
(* another actor writes (a context, a stop reason) or waits (a hook, a     *)
(* timer, the upstream, the plugin).  Hooks are scripts and decide anything *)
(* their return type allows, status codes included; the upstream does      *)
(* anything the HTTP client lets through.                                  *)
(***************************************************************************)
EXTENDS RequestRecord, FiniteSets, Sequences

CONSTANTS MaxCandidates,    \* bound on the candidates sortProviders returns
          MaxLost,          \* bound on the rows whose writes the database refuses
          Operators,        \* dashboard users interrupting concurrently
          RouteKinds,       \* the kinds of route a run may start on
          UpstreamStatuses, \* statuses other than 200 an upstream answers with
          ScriptStatuses,   \* statuses beforeMetaRequest answers with
          BreakStatuses     \* statuses afterUpstreamError overrides with

\* net/http's ResponseWriter: a status outside 100..999 makes WriteHeader panic,
\* and an informational one is no answer yet, so that the client sees 200.
Writable(code) == code \in 100 .. 999
Informational(code) == code \in 100 .. 199 /\ code # 101
Shown(code) == IF Informational(code) THEN 200 ELSE code

\* RunBeforeMetaRequest validates its status, RunAfterUpstreamError does not: any
\* positive integer overrides.  The HTTP client hands out no informational status
\* but parses any other number.
ASSUME FlowAssumption ==
    /\ MaxCandidates \in Nat
    /\ MaxLost \in Nat
    /\ RouteKinds \subseteq {"path", "unified", "notFound"}
    /\ UpstreamStatuses \subseteq {c \in Nat : c # 200 /\ ~Informational(c)}
    /\ ScriptStatuses \subseteq 100 .. 599
    /\ BreakStatuses \subseteq Nat \ {0}

VARIABLES
    kind,        \* f.config.Kind
    lost,        \* rows whose writes fail (logged only), fixed for a run
    pc, ret,     \* control point; where runSingleAttempt returns to
    cur,         \* number of upstream rows inserted = id of the last one
    status,      \* the upstream status an error break passes through
    sorted,      \* sorted[i]: candidate i still has its sidecar
    idx, retry, total,   \* attemptState
    skip,        \* the beforeRequest decision's next
    session,     \* the JS session
    hookAt,      \* history: cur when a non-advisory hook first failed
    stream,      \* the response being read: its terminating and error event
                 \* seen, the upstream fallen silent for good, a write to the
                 \* client blocked, the finish reasons so far
    rows,        \* the request rows in the database
    outcome,     \* f.metaFinal, the in-memory mirror of the meta row
    seen,        \* history: what the requestFinished hook was given
    wire,        \* history: the responses written to the client, the status it
                 \* saw, and whether WriteHeader refused a status (it panics)
    live,        \* ids registered in liveRequests
    stop,        \* ids whose entry has a stopReason
    cancelled,   \* ids whose entry's cancel func was called
    gone,        \* the client's own context is cancelled
    dash         \* the interrupt call each operator is in

configVars  == <<kind, lost>>
loopVars    == <<sorted, idx, retry, total, skip>>
hookVars    == <<session, hookAt>>
recordVars  == <<rows, outcome, wire>>
actorVars   == <<stop, cancelled, gone, dash>>
outsideVars == <<configVars, actorVars>>    \* what the flow never assigns
vars == <<configVars, pc, ret, cur, status, loopVars, hookVars, stream,
          recordVars, seen, live, actorVars>>

NoHookError == -1
Unset == [set |-> FALSE, code |-> 0, fin |-> NoReason]
Outcomes == [set : BOOLEAN, code : Nat, fin : {NoReason} \cup FinishReasons]
NoStream == [done |-> FALSE, err |-> FALSE, silent |-> FALSE, held |-> FALSE,
             fin |-> NoReason, up |-> NoReason]

Points == {"accept", "metaInserted", "auth", "notFound", "model", "scripts",
           "rewriteModel", "candidates", "beforeMeta", "loop", "beforeRequest",
           "delay", "decided", "inserted", "build", "bridge", "rewrite", "forward",
           "sending", "waiting", "nonOK", "afterError", "headers", "drain", "replay", "stream",
           "complete", "commit", "return", "allFail", "finish", "deregister", "done"}

\* The JS session: opened when the model is resolved, tainted by a hook's timeout,
\* closed by run's deferred calls.
Sessions == {"none", "live", "tainted", "closed"}

TypeOK ==
    /\ kind \in RouteKinds /\ lost \subseteq Ids
    /\ pc \in Points /\ ret \in {"loop", "finish"}
    /\ cur \in 0 .. MaxTotalAttempts
    /\ status \in Nat
    /\ sorted \in Seq(BOOLEAN)
    /\ idx \in Nat \ {0} /\ retry \in Nat /\ total \in Nat /\ skip \in BOOLEAN
    /\ session \in Sessions
    /\ hookAt \in {NoHookError} \cup Nat
    /\ stream \in [done : BOOLEAN, err : BOOLEAN, silent : BOOLEAN, held : BOOLEAN,
                   fin : {NoReason} \cup FinishReasons,
                   up : {NoReason} \cup FinishReasons]
    /\ rows \in [Ids -> Row]
    /\ outcome \in Outcomes /\ seen \in Outcomes
    /\ wire \in [n : Nat, code : Nat, refused : BOOLEAN]
    /\ live \subseteq Ids /\ stop \subseteq Ids /\ cancelled \subseteq Ids
    /\ gone \in BOOLEAN
    /\ dash \in [Operators -> [at : {"idle", "found", "stored"}, row : Ids]]

Init ==
    /\ kind \in RouteKinds
    /\ lost \in {S \in SUBSET Ids : Cardinality(S) <= MaxLost}
    /\ pc = "accept" /\ ret = "loop" /\ cur = 0 /\ status = 0
    /\ sorted = <<>> /\ idx = 1 /\ retry = 0 /\ total = 0 /\ skip = FALSE
    /\ session = "none" /\ hookAt = NoHookError /\ stream = NoStream
    /\ rows = [i \in Ids |-> AbsentRow]
    /\ outcome = Unset /\ seen = Unset
    /\ wire = [n |-> 0, code |-> 0, refused |-> FALSE]
    /\ live = {} /\ stop = {} /\ cancelled = {} /\ gone = FALSE
    /\ dash = [o \in Operators |-> [at |-> "idle", row |-> Meta]]
-----------------------------------------------------------------------------
(* Shared helpers of the flow.  A name with an underscore, here and below, *)
(* is a plausible bug put in the place of the definition it is named after *)
(* to see a property fail (PROJECT.json, "mutants").                       *)

\* f.ctxs.Request and the attempt context derived from it.
RequestCancelled == gone \/ Meta \in cancelled
AttemptCancelled_NotDerived == cur \in cancelled
AttemptCancelled == RequestCancelled \/ cur \in cancelled

\* liveRequests.StopReason: the reason lives in the registered entry.
Stopped(i) == i \in live /\ i \in stop

\* finishReasonFor: the row's own stop reason, then the meta row's.
FinishReasonFor_AnyRow(i, fallback) ==
    IF \E j \in Ids : Stopped(j) THEN DashboardCancelled ELSE fallback
FinishReasonFor(i, fallback) ==
    IF Stopped(i) \/ Stopped(Meta) THEN DashboardCancelled ELSE fallback

\* updateRequest: a failed UPDATE is logged and leaves the row as it was.
Write(rs, i, code, fin) ==
    IF i \in lost THEN rs ELSE [rs EXCEPT ![i] = Closed(@, code, fin)]

\* writeGatewayError and friends: the first WriteHeader decides the status
\* the client sees, a second response is appended to the body of the first.
Responded(code) ==
    [n |-> wire.n + 1, code |-> IF wire.n = 0 THEN Shown(code) ELSE wire.code,
     refused |-> wire.refused]

\* failMeta / updateMeta with a finish reason, over rows already updated to rs,
\* and the response written next to it.
FinishMeta_KeepsFirst(rs, code, fin) ==
    /\ rows' = Write(rs, Meta, code, fin)
    /\ outcome' = IF outcome.set THEN outcome ELSE [set |-> TRUE, code |-> code, fin |-> fin]
FinishMeta(rs, code, fin) ==
    /\ rows' = Write(rs, Meta, code, fin)
    /\ outcome' = [set |-> TRUE, code |-> code, fin |-> fin]

Fail_Records502(rs, code, fin) == FinishMeta(rs, 502, fin) /\ wire' = Responded(code)
Fail(rs, code, fin) == FinishMeta(rs, code, fin) /\ wire' = Responded(code)

\* A hook call ends normally, throws, or runs into the hook timeout, which
\* taints the session: every later call returns ErrHookTimeout at once.
HookResults == IF session = "tainted" THEN {"timeout"} ELSE {"ok", "throw", "timeout"}
HookErrors  == HookResults \ {"ok"}
After(result) == IF result = "timeout" THEN "tainted" ELSE session
HookStatus(result) == IF result = "timeout" THEN 503 ELSE 502

HookFailed(result) ==
    /\ session' = IF result = "timeout" THEN "tainted" ELSE "live"
    /\ hookAt' = IF hookAt = NoHookError THEN cur ELSE hookAt

\* failHook, over rows already updated to rs.
FailHook(rs, result) == Fail(rs, HookStatus(result), Internal) /\ HookFailed(result)

\* recordAttemptFailure / updateAttemptState: one more failed attempt.
CountFailure ==
    /\ retry' = retry + 1
    /\ total' = total + 1
    /\ UNCHANGED <<sorted, idx, skip>>

\* insertRequest: a refused INSERT leaves no row, which later UPDATEs miss too.
Insert(i, row) ==
    rows' \in {[rows EXCEPT ![i] = row]} \cup (IF i \in lost THEN {rows} ELSE {})

\* The run ends with an error response; what is left is run's deferred calls.
End(code, fin) ==
    /\ Fail(rows, code, fin)
    /\ pc' = "finish"
    /\ UNCHANGED <<ret, cur, status, loopVars, hookAt, stream, seen, live, outsideVars>>

EndByHook(result) ==
    /\ FailHook(rows, result)
    /\ pc' = "finish"
    /\ UNCHANGED <<ret, cur, status, loopVars, stream, seen, live, outsideVars>>
-----------------------------------------------------------------------------
(* From the client's request to the first attempt.                         *)

\* readBody or parseHeaderOTR fails: a response and no row at all.
Reject ==
    /\ pc = "accept" /\ pc' = "done"
    /\ \E code \in {400, 500} : wire' = Responded(code)
    /\ UNCHANGED <<ret, cur, status, loopVars, hookVars, stream, rows, outcome,
                   seen, live, outsideVars>>

\* insertRequest commits the row before RegisterMeta.  The owner is not known yet,
\* so the dashboard cannot interrupt the row yet.
InsertMetaRequest ==
    /\ pc = "accept" /\ pc' = "metaInserted"
    /\ Insert(Meta, Opened(FALSE, 0, RequestCancelled))
    /\ UNCHANGED <<ret, cur, status, loopVars, hookVars, stream, outcome, wire,
                   seen, live, outsideVars>>

RegisterMeta ==
    /\ pc = "metaInserted" /\ pc' = "auth"
    /\ live' = live \cup {Meta}
    /\ UNCHANGED <<ret, cur, status, loopVars, hookVars, stream, recordVars, seen,
                   outsideVars>>

AuthFails == pc = "auth" /\ End(401, Internal) /\ UNCHANGED session

AuthenticateAndBackfill ==
    /\ pc = "auth"
    /\ pc' = IF kind = "notFound" THEN "notFound" ELSE "model"
    /\ rows' = IF Meta \in lost THEN rows ELSE [rows EXCEPT ![Meta].user = TRUE]
    /\ UNCHANGED <<ret, cur, status, loopVars, hookVars, stream, outcome, wire,
                   seen, live, outsideVars>>

RouteNotFound == pc = "notFound" /\ End(404, Internal) /\ UNCHANGED session

ExtractModelFails == pc = "model" /\ End(400, Internal) /\ UNCHANGED session

ExtractModel ==
    /\ pc = "model" /\ pc' = "scripts"
    /\ UNCHANGED <<ret, cur, status, loopVars, hookVars, stream, recordVars, seen,
                   live, outsideVars>>

\* newSession evaluates every enabled script, under no timeout and no context.
NewSessionFails == pc = "scripts" /\ End(502, Internal) /\ UNCHANGED session

NewSession ==
    /\ pc = "scripts" /\ pc' = "rewriteModel"
    /\ session' = "live"
    /\ UNCHANGED <<ret, cur, status, loopVars, hookAt, stream, recordVars, seen,
                   live, outsideVars>>

ModelHookFails == pc = "rewriteModel" /\ \E r \in HookErrors : EndByHook(r)

SetBodyModelFails == pc = "rewriteModel" /\ End(500, Internal) /\ UNCHANGED session

ResolveAndRewriteModel ==
    /\ pc = "rewriteModel" /\ pc' = "candidates"
    /\ UNCHANGED <<ret, cur, status, loopVars, hookVars, stream, recordVars, seen,
                   live, outsideVars>>

CandidatesFail ==
    /\ pc = "candidates"
    /\ \E code \in {404, 500} : End(code, Internal)
    /\ UNCHANGED session

CandidatesHookFails == pc = "candidates" /\ \E r \in HookErrors : EndByHook(r)

\* sortProviders may drop, duplicate and invent candidates.
ResolveAndSortCandidates ==
    /\ pc = "candidates" /\ pc' = "beforeMeta"
    /\ sorted' \in UNION {[1 .. n -> BOOLEAN] : n \in 0 .. MaxCandidates}
    /\ UNCHANGED <<ret, cur, status, idx, retry, total, skip, hookVars, stream,
                   recordVars, seen, live, outsideVars>>

BeforeMetaHookFails == pc = "beforeMeta" /\ \E r \in HookErrors : EndByHook(r)

\* The hook authors the response: 2xx is a normal end, the rest an error.
RespondScriptResponse ==
    /\ pc = "beforeMeta"
    /\ \E code \in ScriptStatuses :
           End(code, IF code \in 200 .. 299 THEN EOF ELSE Internal)
    /\ UNCHANGED session

RunBeforeMetaRequest ==
    /\ pc = "beforeMeta" /\ pc' = "loop"
    /\ UNCHANGED <<ret, cur, status, loopVars, hookVars, stream, recordVars, seen,
                   live, outsideVars>>
-----------------------------------------------------------------------------
(* The attempt loop: runAttempts, runSingleAttempt.                        *)

Exhausted_IgnoresContext == idx > Len(sorted) \/ total >= MaxTotalAttempts
Exhausted == idx > Len(sorted) \/ total >= MaxTotalAttempts \/ RequestCancelled

NextCandidate ==
    /\ idx' = idx + 1 /\ retry' = 0
    /\ UNCHANGED <<sorted, total, skip>>

LeaveLoop_Unanswered ==
    /\ pc = "loop" /\ Exhausted
    /\ pc' = "finish"
    /\ UNCHANGED <<ret, cur, status, loopVars, hookVars, stream, recordVars, seen,
                   live, outsideVars>>
LeaveLoop ==
    /\ pc = "loop" /\ Exhausted
    /\ pc' = "allFail"
    /\ UNCHANGED <<ret, cur, status, loopVars, hookVars, stream, recordVars, seen,
                   live, outsideVars>>

SkipUnknownCandidate ==
    /\ pc = "loop" /\ ~Exhausted /\ ~sorted[idx]
    /\ NextCandidate
    /\ UNCHANGED <<pc, ret, cur, status, hookVars, stream, recordVars, seen, live,
                   outsideVars>>

StartAttempt ==
    /\ pc = "loop" /\ ~Exhausted /\ sorted[idx]
    /\ pc' = "beforeRequest"
    /\ UNCHANGED <<ret, cur, status, loopVars, hookVars, stream, recordVars, seen,
                   live, outsideVars>>

\* failHook answers the client, but (false, true) sends run to failAllProviders.
BeforeRequestFails ==
    /\ pc = "beforeRequest" /\ pc' = "allFail"
    /\ \E r \in HookErrors : FailHook(rows, r)
    /\ UNCHANGED <<ret, cur, status, loopVars, stream, seen, live, outsideVars>>

\* The hook decides whether to move on and whether to wait first.
RunBeforeRequest ==
    /\ pc = "beforeRequest" /\ "ok" \in HookResults
    /\ skip' \in BOOLEAN
    /\ pc' \in {"delay", "decided"}
    /\ UNCHANGED <<ret, cur, status, sorted, idx, retry, total, hookVars, stream,
                   recordVars, seen, live, outsideVars>>

\* waitHookDelay
WaitHookDelay ==
    /\ pc = "delay"
    /\ \/ pc' = "decided"
       \/ RequestCancelled /\ pc' = "allFail"
    /\ UNCHANGED <<ret, cur, status, loopVars, hookVars, stream, recordVars, seen,
                   live, outsideVars>>

SkipCandidate ==
    /\ pc = "decided" /\ skip /\ pc' = "loop"
    /\ NextCandidate
    /\ UNCHANGED <<ret, cur, status, hookVars, stream, recordVars, seen, live,
                   outsideVars>>

\* The attempt's context exists before the row; RegisterUpstream follows the
\* committed row and the upsert of its trace.
InsertUpstreamAttempt ==
    /\ pc = "decided" /\ ~skip /\ pc' = "inserted"
    /\ cur' = cur + 1
    /\ Insert(cur', Opened(TRUE, idx, RequestCancelled))
    /\ UNCHANGED <<ret, status, loopVars, hookVars, stream, outcome, wire, seen,
                   live, outsideVars>>

RegisterUpstream ==
    /\ pc = "inserted" /\ pc' = "build"
    /\ live' = live \cup {cur}
    /\ UNCHANGED <<ret, cur, status, loopVars, hookVars, stream, recordVars, seen,
                   outsideVars>>

AttemptFails_Unrecorded(code, fin) ==
    /\ CountFailure
    /\ status' = code
    /\ stream' = NoStream
    /\ pc' = "afterError"
    /\ UNCHANGED <<rows, ret, cur, outcome, wire, seen, live, outsideVars>>

\* recordAttemptFailure: the attempt's row is closed, the loop state advanced.
AttemptFails(code, fin) ==
    /\ rows' = Write(rows, cur, code, fin)
    /\ CountFailure
    /\ status' = code
    /\ stream' = NoStream
    /\ pc' = "afterError"
    /\ UNCHANGED <<ret, cur, outcome, wire, seen, live, outsideVars>>

\* SetUpstreamRequest fails, or else PatchContext or rewriteRequest.
BuildHookFails ==
    /\ pc \in {"build", "rewrite"} /\ pc' = "return" /\ ret' = "finish"
    /\ \E r \in HookErrors :
           FailHook(Write(rows, cur, HookStatus(r), Internal), r)
    /\ CountFailure
    /\ UNCHANGED <<cur, status, stream, seen, live, outsideVars>>

BuildFails == pc = "build" /\ AttemptFails(0, Internal) /\ UNCHANGED hookVars

\* prepareUnifiedOutboundProfile returns beforeTransform's error unwrapped, so
\* it counts as any other build error.
BeforeTransformFails ==
    /\ pc = "build" /\ kind = "unified"
    /\ AttemptFails(0, Internal)
    /\ \E r \in HookErrors : HookFailed(r)

\* buildUpstreamRequest and PrepareAttempt, which on a unified route may hand the
\* body to the plugin.
BuildUpstreamRequest ==
    /\ pc = "build"
    /\ pc' \in {"rewrite"} \cup (IF kind = "unified" THEN {"bridge"} ELSE {})
    /\ UNCHANGED <<ret, cur, status, loopVars, hookVars, stream, recordVars, seen,
                   live, outsideVars>>

\* BridgeRequest runs under the attempt's context, which has no deadline.
BridgeRequestFails ==
    pc = "bridge" /\ AttemptFails(0, Internal) /\ UNCHANGED hookVars

BridgeRequest ==
    /\ pc = "bridge" /\ pc' = "rewrite"
    /\ UNCHANGED <<ret, cur, status, loopVars, hookVars, stream, recordVars, seen,
                   live, outsideVars>>

RunRewriteRequest ==
    /\ pc = "rewrite" /\ pc' = "forward"
    /\ UNCHANGED <<ret, cur, status, loopVars, hookVars, stream, recordVars, seen,
                   live, outsideVars>>

\* RoundTrip looks at the context before it dials and writes the request.
Send ==
    /\ pc = "forward" /\ ~AttemptCancelled
    /\ pc' = "sending"
    /\ UNCHANGED <<ret, cur, status, loopVars, hookVars, stream, recordVars, seen,
                   live, outsideVars>>

\* The upstream has taken the whole body: only now the header timer starts.
WroteRequest ==
    /\ pc = "sending" /\ pc' = "waiting"
    /\ UNCHANGED <<ret, cur, status, loopVars, hookVars, stream, recordVars, seen,
                   live, outsideVars>>

\* classifyForwardError
ForwardReason(e) ==
    IF e = "canceled" /\ RequestCancelled THEN Cancelled
    ELSE IF e = "timeout" THEN HeadersTimeout
    ELSE Internal

ForwardFails(e) ==
    /\ AttemptFails(0, FinishReasonFor(cur, ForwardReason(e)))
    /\ UNCHANGED hookVars

ForwardCancelled ==
    /\ pc \in {"forward", "sending", "waiting"} /\ AttemptCancelled
    /\ ForwardFails("canceled")
DialTimesOut == pc = "sending" /\ ForwardFails("timeout")
ForwardTimesOut_Never == FALSE
ForwardTimesOut == pc = "waiting" /\ ForwardFails("timeout")
ForwardBreaks == pc \in {"sending", "waiting"} /\ ForwardFails("other")

\* An upstream may answer before it has read the whole request.
Respond ==
    /\ pc \in {"sending", "waiting"}
    /\ \/ pc' = "headers" /\ UNCHANGED status
       \/ pc' = "nonOK" /\ status' \in UpstreamStatuses
    /\ UNCHANGED <<ret, cur, loopVars, hookVars, stream, recordVars, seen, live,
                   outsideVars>>

\* handleUpstreamNonOK: whether the body was read or the read failed.
NonOKBodyEnds == pc = "nonOK" /\ AttemptFails(status, Internal) /\ UNCHANGED hookVars

\* A failure of afterUpstreamError is advisory and means no break.
AfterUpstreamErrorContinues ==
    /\ pc = "afterError" /\ pc' = "return" /\ ret' = "loop"
    /\ session' \in {After(r) : r \in HookResults}
    /\ UNCHANGED <<cur, status, loopVars, hookAt, stream, recordVars, seen, live,
                   outsideVars>>

\* respondUpstreamErrorBreak: the hook's status, else the upstream's, else 502.
\* WriteHeader comes before failMeta, and nothing recovers its panic below the
\* server: the deferred calls run, the rest does not.
RespondUpstreamErrorBreak ==
    /\ pc = "afterError" /\ pc' = "return" /\ ret' = "finish"
    /\ "ok" \in HookResults
    /\ \E code \in BreakStatuses \cup {IF status > 0 THEN status ELSE 502} :
           \/ Writable(code) /\ Fail(rows, code, Internal)
           \/ /\ ~Writable(code)
              /\ wire' = [wire EXCEPT !.refused = TRUE]
              /\ UNCHANGED <<rows, outcome>>
    /\ UNCHANGED <<cur, status, loopVars, hookVars, stream, seen, live, outsideVars>>

\* The deferred liveRequests.Remove of runSingleAttempt.
ReturnFromAttempt_KeepsEntry ==
    /\ pc = "return" /\ pc' = ret
    /\ UNCHANGED <<ret, cur, status, loopVars, hookVars, stream, recordVars, seen,
                   live, outsideVars>>
ReturnFromAttempt ==
    /\ pc = "return" /\ pc' = ret
    /\ live' = live \ {cur}
    /\ UNCHANGED <<ret, cur, status, loopVars, hookVars, stream, recordVars, seen,
                   outsideVars>>
-----------------------------------------------------------------------------
(* The success path: streamSuccess on path routes, unifiedStreamSuccess.   *)

EndBoth_TriesOn(upCode, upFin, code, fin) ==
    /\ FinishMeta(Write(rows, cur, upCode, upFin), code, fin)
    /\ pc' = "return" /\ ret' = "loop"
    /\ UNCHANGED <<cur, status, loopVars, hookVars, seen, live, outsideVars>>

\* Both rows end here, and the run with them.
EndBoth(upCode, upFin, code, fin) ==
    /\ FinishMeta(Write(rows, cur, upCode, upFin), code, fin)
    /\ pc' = "return" /\ ret' = "finish"
    /\ UNCHANGED <<cur, status, loopVars, hookVars, seen, live, outsideVars>>

\* The upstream's body cannot be decoded; nothing was committed yet.
DecodeFails ==
    /\ pc = "headers"
    /\ EndBoth(200, Internal, 502, Internal)
    /\ wire' = Responded(502)
    /\ UNCHANGED stream

\* The headers are committed, then the client writer does not start.
ClientWriteFails ==
    /\ pc = "headers"
    /\ EndBoth(200, Cancelled, 200, Cancelled)
    /\ wire' = Responded(200)
    /\ UNCHANGED stream

\* A unified route that converts the body first sets up the bridge, or reads
\* the whole body when it is no stream.
StartStream ==
    /\ pc = "headers"
    /\ pc' \in {"stream"} \cup (IF kind = "unified" THEN {"drain"} ELSE {})
    /\ wire' = Responded(200)
    /\ UNCHANGED <<ret, cur, status, loopVars, hookVars, stream, rows, outcome, seen,
                   live, outsideVars>>

\* failUnifiedSuccessCommitted: reading, bridging or web search fails.  Neither
\* row asks for a stop reason.
BridgeFails ==
    /\ pc = "drain"
    /\ EndBoth(200, StreamError, 200, StreamError)
    /\ UNCHANGED <<stream, wire>>

\* The bridged stream is copied as it comes, a converted body from memory.
BridgeResponse ==
    /\ pc = "drain" /\ ~stream.silent
    /\ pc' \in {"stream", "replay"}
    /\ UNCHANGED <<ret, cur, status, loopVars, hookVars, stream, recordVars, seen,
                   live, outsideVars>>

\* ResponseExtractor sees the terminating event, or an error event.
StreamEvent ==
    /\ pc \in {"drain", "stream"} /\ ~stream.silent /\ ~stream.held
    /\ \E f \in {"done", "err"} : ~stream[f] /\ stream' = [stream EXCEPT ![f] = TRUE]
    /\ UNCHANGED <<pc, ret, cur, status, loopVars, hookVars, recordVars, seen, live,
                   outsideVars>>

FallSilent ==
    /\ pc \in {"nonOK", "drain", "stream"} /\ ~stream.silent
    /\ stream' = [stream EXCEPT !.silent = TRUE]
    /\ UNCHANGED <<pc, ret, cur, status, loopVars, hookVars, recordVars, seen, live,
                   outsideVars>>

\* classifyStreamFinishReason.  Path routes ask the flow's context, unified ones
\* the client's own, which an interrupt leaves alone.
StreamReason(e) ==
    IF e = "eof" THEN EOF
    ELSE IF e = "idle" THEN ReadTimeout
    ELSE IF (IF kind = "unified" THEN gone ELSE RequestCancelled) /\ ~stream.done
         THEN Cancelled
    ELSE EOF

StreamEnds(e) ==
    /\ ~stream.held
    /\ pc' = "complete"
    /\ stream' = [stream EXCEPT !.fin = StreamReason(e)]
    /\ UNCHANGED <<ret, cur, status, loopVars, hookVars, recordVars, seen, live,
                   outsideVars>>

StreamFinishes    == pc = "stream" /\ ~stream.silent /\ StreamEnds("eof")
StreamBreaks      == pc = "stream" /\ StreamEnds("reset")
StreamIsCancelled == pc = "stream" /\ AttemptCancelled /\ StreamEnds("canceled")
StreamIdles_PathOnly == pc = "stream" /\ kind = "path" /\ stream.silent /\ StreamEnds("idle")
StreamIdles       == pc = "stream" /\ stream.silent /\ StreamEnds("idle")
ReplayFinishes    == pc = "replay" /\ StreamEnds("eof")

\* completeGatewaySuccess up to the first finishReasonFor.  getToolUsageCost and
\* the stream error hook run before it and may time out, which is advisory.
StreamFallback == IF stream.err THEN StreamError ELSE stream.fin

ResolveUpstreamReason ==
    /\ pc = "complete" /\ pc' = "commit"
    /\ stream' = [stream EXCEPT !.up = FinishReasonFor(cur, StreamFallback)]
    /\ session' \in {After(r) : r \in HookResults}
    /\ UNCHANGED <<ret, cur, status, loopVars, hookAt, recordVars, seen, live,
                   outsideVars>>

CompleteSuccess ==
    /\ pc = "commit"
    /\ EndBoth(200, stream.up, 200, FinishReasonFor(Meta, StreamFallback))
    /\ UNCHANGED <<stream, wire>>
-----------------------------------------------------------------------------
(* The end of the run.                                                     *)

FailAllProviders ==
    /\ pc = "allFail"
    /\ End(502, IF RequestCancelled THEN Cancelled ELSE Internal)
    /\ UNCHANGED session

\* The hook only runs on a live session and a terminal meta row.
RunRequestFinished ==
    /\ pc = "finish" /\ pc' = "deregister"
    /\ seen' = IF session = "live" /\ outcome.set THEN outcome ELSE seen
    /\ session' = IF session = "none" THEN "none" ELSE "closed"
    /\ UNCHANGED <<ret, cur, status, loopVars, hookAt, stream, recordVars, live,
                   outsideVars>>

Deregister ==
    /\ pc = "deregister" /\ pc' = "done"
    /\ live' = live \ {Meta}
    /\ UNCHANGED <<ret, cur, status, loopVars, hookVars, stream, recordVars, seen,
                   outsideVars>>
-----------------------------------------------------------------------------
(* The other actors.                                                       *)

flowVars == <<configVars, pc, ret, cur, status, loopVars, hookVars, stream,
              recordVars, seen, live>>

\* handleInterruptRequest: the row belongs to the caller and Interrupt finds
\* its entry; otherwise the call is a no-op that reports interrupted = false.
FindEntry(o, i) ==
    /\ dash[o].at = "idle" /\ rows[i].user /\ i \in live
    /\ dash' = [dash EXCEPT ![o] = [at |-> "found", row |-> i]]
    /\ UNCHANGED <<flowVars, stop, cancelled, gone>>

\* Interrupt: the reason is stored before the context is cancelled.
StoreStopReason(o) ==
    /\ dash[o].at = "found"
    /\ stop' = stop \cup {dash[o].row}
    /\ dash' = [dash EXCEPT ![o].at = "stored"]
    /\ UNCHANGED <<flowVars, cancelled, gone>>

CallCancel(o) ==
    /\ dash[o].at = "stored"
    /\ cancelled' = cancelled \cup {dash[o].row}
    /\ dash' = [dash EXCEPT ![o].at = "idle"]
    /\ UNCHANGED <<flowVars, stop, gone>>

\* The client stops and resumes reading.  Nothing bounds the copy loop's write
\* to it: no write deadline is set, and no context reaches ResponseWriter.
StopReading ==
    /\ pc \in {"stream", "replay"} /\ ~stream.silent /\ ~gone /\ ~stream.held
    /\ stream' = [stream EXCEPT !.held = TRUE]
    /\ UNCHANGED <<configVars, pc, ret, cur, status, loopVars, hookVars, recordVars,
                   seen, live, actorVars>>

ResumeReading ==
    /\ stream.held
    /\ stream' = [stream EXCEPT !.held = FALSE]
    /\ UNCHANGED <<configVars, pc, ret, cur, status, loopVars, hookVars, recordVars,
                   seen, live, actorVars>>

\* The client disconnects: its context is cancelled and a blocked write fails.
Disconnect ==
    /\ pc # "done" /\ ~gone
    /\ gone' = TRUE
    /\ stream' = [stream EXCEPT !.held = FALSE]
    /\ UNCHANGED <<configVars, pc, ret, cur, status, loopVars, hookVars, recordVars,
                   seen, live, stop, cancelled, dash>>
-----------------------------------------------------------------------------
Accept == Reject \/ InsertMetaRequest

Prepare ==
    \/ RegisterMeta \/ AuthFails \/ AuthenticateAndBackfill \/ RouteNotFound
    \/ ExtractModelFails \/ ExtractModel
    \/ ModelHookFails \/ SetBodyModelFails \/ ResolveAndRewriteModel
    \/ CandidatesFail \/ CandidatesHookFails \/ ResolveAndSortCandidates
    \/ BeforeMetaHookFails \/ RespondScriptResponse \/ RunBeforeMetaRequest

Attempt ==
    \/ LeaveLoop \/ SkipUnknownCandidate \/ StartAttempt
    \/ BeforeRequestFails \/ RunBeforeRequest \/ WaitHookDelay \/ SkipCandidate
    \/ InsertUpstreamAttempt \/ RegisterUpstream
    \/ BuildHookFails \/ BuildFails \/ BeforeTransformFails
    \/ BuildUpstreamRequest \/ RunRewriteRequest
    \/ Send \/ ForwardCancelled \/ ForwardTimesOut
    \/ AfterUpstreamErrorContinues \/ RespondUpstreamErrorBreak \/ ReturnFromAttempt

Succeed ==
    \/ DecodeFails \/ ClientWriteFails \/ StartStream
    \/ StreamIsCancelled \/ StreamIdles \/ ReplayFinishes
    \/ ResolveUpstreamReason \/ CompleteSuccess

Finish == FailAllProviders \/ RunRequestFinished \/ Deregister

\* Steps that wait for somebody who takes his time or never comes: the scripts,
\* the plugin, the upstream.
Scripts == NewSessionFails \/ NewSession
Plugin  == BridgeRequestFails \/ BridgeRequest

Upstream ==
    \/ WroteRequest \/ Respond \/ DialTimesOut \/ ForwardBreaks \/ NonOKBodyEnds
    \/ BridgeFails \/ BridgeResponse
    \/ StreamEvent \/ FallSilent \/ StreamFinishes \/ StreamBreaks

Dashboard ==
    \E o \in Operators :
        \/ \E i \in Ids : FindEntry(o, i)
        \/ StoreStopReason(o)
        \/ CallCancel(o)

Client == StopReading \/ ResumeReading \/ Disconnect

Terminated == pc = "done" /\ UNCHANGED vars

Next == \/ Accept \/ Prepare \/ Attempt \/ Succeed \/ Finish
        \/ Scripts \/ Plugin \/ Upstream \/ Dashboard \/ Client \/ Terminated

Spec == Init /\ [][Next]_vars

(***************************************************************************)
(* Fairness: the goroutine runs, hooks and database calls end (each has a  *)
(* timeout), the delay and read idle timers fire, so does the header timer *)
(* once the request is written, and a cancelled context fails a bridge     *)
(* call, a round trip or a body read.  Nothing bounds the scripts' first   *)
(* evaluation, not even a cancelled context, and only a context bounds the *)
(* plugin's conversion and the writing of the request.  Only the copy loop *)
(* reads under the idle timer: draining a body for the bridge, and reading *)
(* a non-200 body, wait as long as the upstream likes.  A client may stop  *)
(* and resume reading again and again; each resumption lets the copy loop  *)
(* read on, hence strong fairness for its ends that owe nothing to the     *)
(* upstream.                                                               *)
(* Upstream and client owe nothing, the request body included.             *)
(***************************************************************************)
Progress ==
    \/ gone /\ Accept
    \/ Prepare \/ Attempt \/ Succeed \/ Finish
    \/ AttemptCancelled /\ (BridgeRequestFails \/ NonOKBodyEnds \/ BridgeFails)

FairSpec == /\ Spec
            /\ WF_vars(Progress)
            /\ SF_vars(StreamIsCancelled) /\ SF_vars(ReplayFinishes)
-----------------------------------------------------------------------------
(* Properties.                                                             *)

\* A row in flight is registered, so the dashboard can still interrupt it and
\* follow it, but for two windows: a row is committed before it is registered
\* (its trace is upserted in between), and the meta row of a run whose break
\* status WriteHeader refused stays open for ever.  Only one attempt is registered
\* at a time (the deferred liveRequests.Remove of run and of runSingleAttempt
\* against every early return).
BeingRegistered(i) ==
    \/ i = Meta /\ pc = "metaInserted"
    \/ i = cur /\ pc = "inserted"

OpenRowsAreLive ==
    /\ \A i \in Ids \ lost : rows[i].st = "open" =>
           \/ i \in live \/ BeingRegistered(i)
           \/ i = Meta /\ wire.refused
    /\ live \cap Upstreams \subseteq {cur}

\* A request that was cancelled gets at most one more attempt row, when the
\* cancellation lands between the loop's check and the insert, and that attempt
\* never reaches the upstream: it cannot succeed.
AtMostOneLateAttempt ==
    LET late == {i \in Upstreams : rows[i].late}
    IN  /\ Cardinality(late) <= 1
        /\ \A i \in late : i = cur /\ rows[i].code # 200

\* finish_reason 7 is only ever written for somebody's interrupt: of the attempt
\* or the request for an attempt's row, of the request itself for the meta row.
InterruptAttribution ==
    \A i \in Ids : rows[i].fin = DashboardCancelled => {i, Meta} \cap stop # {}

\* What requestFinished is told is the state the meta row ended in, although the
\* flow never reads the row back (metaOutcome.merge).
HookSeesRecord ==
    seen.set /\ Meta \notin lost /\ rows[Meta].st = "final" =>
        /\ seen.code = rows[Meta].code
        /\ seen.fin = rows[Meta].fin

\* The status the client got is the status the dashboard shows, whenever the
\* client got one response; only an informational status, which a hook may set,
\* is recorded although the client saw 200.
ResponseMatchesRecord ==
    pc = "done" /\ wire.n = 1 /\ rows[Meta].st = "final" =>
        \/ wire.code = rows[Meta].code
        \/ Informational(rows[Meta].code) /\ wire.code = 200

\* Every run answers the client, unless WriteHeader refused the status it broke
\* with: then it answers nothing and finishes no meta row.  Only a failed hook
\* makes the flow answer twice.
Answered ==
    /\ pc \in {"finish", "deregister", "done"} => wire.n >= 1 \/ wire.refused
    /\ wire.refused => wire.n = 0 /\ ~outcome.set /\ rows[Meta].st # "final"
    /\ wire.n > 1 => hookAt # NoHookError /\ wire.n = 2

\* An attempt's row is finished once, and so is the meta row unless a hook
\* failed (failHook followed by failAllProviders).
RowsFinishOnce ==
    /\ \A i \in Upstreams : rows[i].sets <= 1
    /\ rows[Meta].sets <= (IF hookAt = NoHookError THEN 1 ELSE 2)

\* Once the client has been answered no further attempt is made.
NoAttemptAfterResponse == [][wire.n > 0 => cur' = cur]_vars

\* When the database refuses no write, the rows keep the promises of
\* RequestLedger: attempts one after the other under an open meta row, nothing
\* in flight under a finished one, and only an internal error ever revised.
\* (A behaviour with refused writes maps to a ledger that stays blank.)
RowView(i) == IF lost = {} THEN rows[i] ELSE AbsentRow
Ledger == INSTANCE RequestLedger
              WITH ledger <- [i \in Ids |-> [st |-> RowView(i).st, fin |-> RowView(i).fin]]
KeepsLedger == Ledger!LedgerSpec

\* Whoever gives a request up gets rid of it, unless a script's evaluation never
\* ends: a client that disconnects frees the flow, whatever upstream, plugin and
\* dashboard do, and interrupting it from the dashboard ends it, unless the client
\* stops reading for good.
CancelledFlowEnds ==
    \/ <>[](pc = "scripts")
    \/ /\ gone ~> (pc = "done")
       /\ <>[](stream.held) \/ (Meta \in cancelled ~> (pc = "done"))

\* A run whose client sent its body can only fail to end where it waits for
\* somebody under no timer: scripts being evaluated, the plugin converting the
\* request, an upstream that does not take the request, or a body being read.
\* Every wait for headers, delay or hook is bounded.
OnlyOpenWaitsStall ==
    (pc # "accept") ~>
        \/ pc = "done"
        \/ [](pc \in {"scripts", "bridge", "sending", "nonOK", "drain", "stream",
                      "replay"})

\* An upstream that falls silent in the copy loop is given up, unless the
\* client stops reading.
SilentStreamEnds ==
    <>[](stream.held) \/ (pc = "stream" /\ stream.silent ~> (pc = "done"))
-----------------------------------------------------------------------------
(* What the repository says of the program and the code does not do; each  *)
(* is the property of one run that TLC refutes (see the README).           *)

\* "Set exactly once": a request's finish reason is written a single time.
MetaFinishesOnce == rows[Meta].sets <= 1

\* A request the dashboard interrupted is not recorded as cancelled by its
\* client, who never left.
DashboardInterruptRecorded ==
    pc = "done" /\ Meta \in cancelled /\ ~gone => rows[Meta].fin # Cancelled

\* A hook error fails the request on every route: no attempt follows it.
HookErrorFailsRequest == hookAt # NoHookError => cur = hookAt
=============================================================================
