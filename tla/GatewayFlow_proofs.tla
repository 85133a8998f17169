------------------------- MODULE GatewayFlow_proofs -------------------------
EXTENDS GatewayFlow, TLAPS, SequenceTheorems, FiniteSetTheorems

Early == {"accept", "metaInserted", "auth", "notFound", "model", "scripts",
          "rewriteModel", "candidates", "beforeMeta"}
InAttempt == {"inserted", "build", "bridge", "rewrite", "forward", "sending", "waiting",
              "nonOK", "headers", "drain", "replay", "stream", "complete", "commit"}

Budget ==
    /\ pc \in Early => cur = 0 /\ total = 0
    /\ pc \in {"loop", "beforeRequest", "delay", "decided", "afterError"} => total = cur
    /\ pc = "return" /\ ret = "loop" => total = cur
    /\ pc \in InAttempt => cur >= 1 /\ total = cur - 1
    /\ pc \in {"beforeRequest", "delay", "decided"} => total < MaxTotalAttempts

Reasons == {NoReason} \cup FinishReasons

\* Every reason the code names is one of the table's.
LEMMA ReasonFacts ==
    /\ NoReason \in Reasons
    /\ {Internal, Cancelled, EOF, HeadersTimeout, ReadTimeout, StreamError,
        DashboardCancelled} \subseteq Reasons
  BY DEF Reasons, FinishReasons, NoReason, Internal, Cancelled, EOF, HeadersTimeout,
         ReadTimeout, StreamError, DashboardCancelled

\* The meta row and the attempts have identifiers of their own.
LEMMA IdsFacts == Meta \in Ids /\ 1 .. MaxTotalAttempts \subseteq Ids
                  /\ 0 .. MaxTotalAttempts = Ids
  BY MaxTotalAttemptsAssumption DEF Ids, Upstreams, Meta

\* A row that is closed is a row.
LEMMA ClosedType ==
    ASSUME NEW row \in Row, NEW code \in Nat, NEW fin \in Reasons
    PROVE  Closed(row, code, fin) \in Row
<1>1. row.sets + 1 \in Nat
  BY DEF Row
<1> QED
  BY <1>1 DEF Closed, Row, RowStates, Reasons

\* An UPDATE keeps the type of the rows.
LEMMA WriteType ==
    ASSUME NEW rs \in [Ids -> Row], NEW i \in Ids, NEW code \in Nat, NEW fin \in Reasons
    PROVE  Write(rs, i, code, fin) \in [Ids -> Row]
<1>1. Closed(rs[i], code, fin) \in Row
  BY ClosedType
<1> QED
  BY <1>1 DEF Write

\* Finishing the meta row keeps the types.
LEMMA FinishMetaType ==
    ASSUME NEW rs \in [Ids -> Row], NEW code \in Nat, NEW fin \in Reasons,
           FinishMeta(rs, code, fin)
    PROVE  rows' \in [Ids -> Row] /\ outcome' \in Outcomes
  BY WriteType, IdsFacts DEF FinishMeta, Outcomes, Reasons

\* A response keeps the type of what the client saw.
LEMMA RespondedType ==
    ASSUME TypeOK, NEW code \in Nat
    PROVE  Responded(code) \in [n : Nat, code : Nat, refused : BOOLEAN]
<1>1. Shown(code) \in Nat
  BY DEF Shown
<1>2. wire.n \in Nat /\ wire.code \in Nat /\ wire.refused \in BOOLEAN
  BY DEF TypeOK
<1>3. wire.n + 1 \in Nat /\ (IF wire.n = 0 THEN Shown(code) ELSE wire.code) \in Nat
  BY <1>1, <1>2
<1> QED
  BY <1>2, <1>3 DEF Responded

\* An error answer keeps the types.
LEMMA FailType ==
    ASSUME TypeOK, NEW rs \in [Ids -> Row], NEW code \in Nat, NEW fin \in Reasons,
           Fail(rs, code, fin)
    PROVE  /\ rows' \in [Ids -> Row] /\ outcome' \in Outcomes
           /\ wire' \in [n : Nat, code : Nat, refused : BOOLEAN]
  BY FinishMetaType, RespondedType DEF Fail

\* A hook's error answer keeps the types.
LEMMA FailHookType ==
    ASSUME TypeOK, NEW rs \in [Ids -> Row], NEW r, FailHook(rs, r)
    PROVE  /\ rows' \in [Ids -> Row] /\ outcome' \in Outcomes
           /\ wire' \in [n : Nat, code : Nat, refused : BOOLEAN]
           /\ session' \in Sessions /\ hookAt' \in {NoHookError} \cup Nat
<1>1. HookStatus(r) \in Nat
  BY DEF HookStatus
<1>2. Fail(rs, HookStatus(r), Internal)
  BY DEF FailHook
<1>3. cur \in Nat /\ hookAt \in {NoHookError} \cup Nat
  BY MaxTotalAttemptsAssumption DEF TypeOK
<1>4. /\ rows' \in [Ids -> Row] /\ outcome' \in Outcomes
      /\ wire' \in [n : Nat, code : Nat, refused : BOOLEAN]
  BY <1>1, <1>2, ReasonFacts, FailType
<1> QED
  BY <1>3, <1>4 DEF FailHook, HookFailed, Sessions

IndInv == TypeOK /\ Budget

USE DEF configVars, loopVars, hookVars, recordVars, actorVars, outsideVars

\* The end of the run keeps the types.
LEMMA EndType ==
    ASSUME IndInv, NEW code \in Nat, NEW fin \in Reasons, End(code, fin),
           session' \in Sessions
    PROVE  IndInv'
<1>1. rows \in [Ids -> Row]
  BY DEF IndInv, TypeOK
<1>2. /\ rows' \in [Ids -> Row] /\ outcome' \in Outcomes
      /\ wire' \in [n : Nat, code : Nat, refused : BOOLEAN]
  BY <1>1, FailType DEF IndInv, End
<1>3. TypeOK'
  BY <1>2 DEF IndInv, End, TypeOK, Points
<1>4. Budget'
  BY DEF IndInv, End, Budget, Early, InAttempt
<1> QED
  BY <1>3, <1>4 DEF IndInv

\* So does its end by a hook error.
LEMMA EndByHookType ==
    ASSUME IndInv, NEW r, EndByHook(r) PROVE IndInv'
<1>1. rows \in [Ids -> Row]
  BY DEF IndInv, TypeOK
<1>2. /\ rows' \in [Ids -> Row] /\ outcome' \in Outcomes
      /\ wire' \in [n : Nat, code : Nat, refused : BOOLEAN]
      /\ session' \in Sessions /\ hookAt' \in {NoHookError} \cup Nat
  BY <1>1, FailHookType DEF IndInv, EndByHook
<1>3. TypeOK'
  BY <1>2 DEF IndInv, EndByHook, TypeOK, Points
<1>4. Budget'
  BY DEF IndInv, EndByHook, Budget, Early, InAttempt
<1> QED
  BY <1>3, <1>4 DEF IndInv

\* The end of a failed attempt keeps the types.
LEMMA AttemptFailsType ==
    ASSUME IndInv, pc \in InAttempt, NEW code \in Nat, NEW fin \in Reasons,
           AttemptFails(code, fin), session' \in Sessions,
           hookAt' \in {NoHookError} \cup Nat
    PROVE  IndInv'
<1>1. rows \in [Ids -> Row] /\ cur \in Ids
  BY IdsFacts DEF IndInv, TypeOK
<1>2. rows' \in [Ids -> Row]
  BY <1>1, WriteType DEF AttemptFails
<1>3. stream' \in [done : BOOLEAN, err : BOOLEAN, silent : BOOLEAN, held : BOOLEAN,
                   fin : {NoReason} \cup FinishReasons,
                   up : {NoReason} \cup FinishReasons]
  BY ReasonFacts DEF AttemptFails, NoStream
<1>4. TypeOK'
  BY <1>2, <1>3 DEF IndInv, AttemptFails, CountFailure, TypeOK, Points
<1>5. Budget'
  BY MaxTotalAttemptsAssumption DEF IndInv, AttemptFails, CountFailure, TypeOK, Budget, Early, InAttempt
<1> QED
  BY <1>4, <1>5 DEF IndInv

\* So does one whose forwarding failed.
LEMMA ForwardFailsType ==
    ASSUME IndInv, pc \in InAttempt, NEW e, ForwardFails(e)
    PROVE  IndInv'
<1>1. FinishReasonFor(cur, ForwardReason(e)) \in Reasons
  BY ReasonFacts DEF FinishReasonFor, ForwardReason
<1> QED
  BY <1>1, AttemptFailsType DEF ForwardFails, IndInv, TypeOK

\* Finishing attempt and request together keeps the types.
LEMMA EndBothType ==
    ASSUME IndInv, NEW upCode \in Nat, NEW upFin \in Reasons, NEW code \in Nat,
           NEW fin \in Reasons, EndBoth(upCode, upFin, code, fin),
           wire' \in [n : Nat, code : Nat, refused : BOOLEAN], UNCHANGED stream
    PROVE  IndInv'
<1>1. rows \in [Ids -> Row] /\ cur \in Ids
  BY IdsFacts DEF IndInv, TypeOK
<1>2. rows' \in [Ids -> Row] /\ outcome' \in Outcomes
  BY <1>1, WriteType, FinishMetaType DEF EndBoth
<1>3. TypeOK'
  BY <1>2 DEF IndInv, EndBoth, TypeOK, Points
<1>4. Budget'
  BY DEF IndInv, EndBoth, Budget, Early, InAttempt
<1> QED
  BY <1>3, <1>4 DEF IndInv

\* The end of a stream keeps the types.
LEMMA StreamEndsType ==
    ASSUME IndInv, pc \in InAttempt, NEW e, StreamEnds(e)
    PROVE  IndInv'
<1>1. StreamReason(e) \in {NoReason} \cup FinishReasons
  BY ReasonFacts DEF StreamReason, Reasons
<1>2. TypeOK'
  BY <1>1 DEF IndInv, StreamEnds, TypeOK, Points
<1>3. Budget'
  BY DEF IndInv, StreamEnds, Budget, Early, InAttempt
<1> QED
  BY <1>2, <1>3 DEF IndInv

\* A row that is opened is a row.
LEMMA OpenedType ==
    ASSUME NEW user \in BOOLEAN, NEW cand \in Nat, NEW l \in BOOLEAN
    PROVE  Opened(user, cand, l) \in Row
  BY DEF Opened, AbsentRow, Row, RowStates

\* An INSERT keeps the type of the rows.
LEMMA InsertType ==
    ASSUME rows \in [Ids -> Row], NEW i \in Ids, NEW row \in Row, Insert(i, row)
    PROVE  rows' \in [Ids -> Row]
  BY DEF Insert

\* The steps up to the meta row keep the types.
LEMMA AcceptType ==
    ASSUME IndInv, Accept PROVE IndInv'
<1>1. CASE Reject
  <2>1. wire' \in [n : Nat, code : Nat, refused : BOOLEAN]
    BY <1>1, RespondedType DEF Reject, IndInv
  <2>2. TypeOK'
    BY <1>1, <2>1 DEF Reject, IndInv, TypeOK, Points
  <2>3. Budget'
    BY <1>1 DEF Reject, IndInv, Budget, Early, InAttempt
  <2> QED
    BY <2>2, <2>3 DEF IndInv
<1>2. CASE InsertMetaRequest
  <2>1. rows' \in [Ids -> Row]
    BY <1>2, IdsFacts, OpenedType, InsertType DEF InsertMetaRequest, IndInv, TypeOK, RequestCancelled
  <2>3. TypeOK'
    BY <1>2, <2>1 DEF InsertMetaRequest, IndInv, TypeOK, Points
  <2>4. Budget'
    BY <1>2 DEF InsertMetaRequest, IndInv, TypeOK, Budget, Early, InAttempt
  <2> QED
    BY <2>3, <2>4 DEF IndInv
<1> QED
  BY <1>1, <1>2 DEF Accept

\* So do those up to the loop,
LEMMA PrepareType ==
    ASSUME IndInv, Prepare PROVE IndInv'
<1>1. CASE AuthFails
  BY <1>1, EndType, ReasonFacts DEF AuthFails, IndInv, TypeOK
<1>2. CASE AuthenticateAndBackfill
  <2>1. rows' \in [Ids -> Row]
    <3>1. rows[Meta] \in Row
      BY IdsFacts DEF IndInv, TypeOK
    <3>2. [rows[Meta] EXCEPT !.user = TRUE] \in Row
      BY <3>1 DEF Row
    <3> QED
      BY <1>2, <3>2 DEF AuthenticateAndBackfill, IndInv, TypeOK
  <2>2. TypeOK'
    BY <1>2, <2>1 DEF AuthenticateAndBackfill, IndInv, TypeOK, Points
  <2>3. Budget'
    BY <1>2 DEF AuthenticateAndBackfill, IndInv, TypeOK, Budget, Early, InAttempt
  <2> QED
    BY <2>2, <2>3 DEF IndInv
<1>3. CASE RouteNotFound
  BY <1>3, EndType, ReasonFacts DEF RouteNotFound, IndInv, TypeOK
<1>4. CASE ExtractModelFails \/ SetBodyModelFails
  BY <1>4, EndType, ReasonFacts DEF ExtractModelFails, SetBodyModelFails, IndInv, TypeOK
<1>13. CASE RegisterMeta
  BY <1>13, IdsFacts DEF RegisterMeta, IndInv, Budget, TypeOK, Early, InAttempt, Points
<1>14. CASE ExtractModel
  BY <1>14 DEF ExtractModel, IndInv, Budget, TypeOK, Early, InAttempt, Points
<1>5. CASE ModelHookFails
  BY <1>5, EndByHookType, ReasonFacts DEF ModelHookFails
<1>6. CASE ResolveAndRewriteModel
  BY <1>6 DEF ResolveAndRewriteModel, IndInv, Budget, TypeOK, Early, InAttempt, Points
<1>7. CASE CandidatesFail
  BY <1>7, EndType, ReasonFacts DEF CandidatesFail, IndInv, TypeOK
<1>8. CASE CandidatesHookFails
  BY <1>8, EndByHookType, ReasonFacts DEF CandidatesHookFails
<1>9. CASE ResolveAndSortCandidates
  <2>1. sorted' \in Seq(BOOLEAN)
    BY <1>9, SeqDef, FlowAssumption DEF ResolveAndSortCandidates
  <2>2. TypeOK'
    BY <1>9, <2>1 DEF ResolveAndSortCandidates, IndInv, TypeOK, Points
  <2>3. Budget'
    BY <1>9 DEF ResolveAndSortCandidates, IndInv, TypeOK, Budget, Early, InAttempt
  <2> QED
    BY <2>2, <2>3 DEF IndInv
<1>10. CASE BeforeMetaHookFails
  BY <1>10, EndByHookType, ReasonFacts DEF BeforeMetaHookFails
<1>11. CASE RespondScriptResponse
  BY <1>11, EndType, ReasonFacts, FlowAssumption DEF RespondScriptResponse, IndInv, TypeOK
<1>12. CASE RunBeforeMetaRequest
  BY <1>12 DEF RunBeforeMetaRequest, IndInv, Budget, TypeOK, Early, InAttempt, Points
<1> QED
  BY <1>1, <1>2, <1>3, <1>4, <1>5, <1>6, <1>7, <1>8, <1>9, <1>10, <1>11, <1>12, <1>13, <1>14 DEF Prepare

\* those of opening the scripts' session,
LEMMA ScriptsType ==
    ASSUME IndInv, Scripts PROVE IndInv'
<1>1. CASE NewSessionFails
  BY <1>1, EndType, ReasonFacts DEF NewSessionFails, IndInv, TypeOK
<1>2. CASE NewSession
  BY <1>2 DEF NewSession, Sessions, IndInv, Budget, TypeOK, Early, InAttempt, Points
<1> QED
  BY <1>1, <1>2 DEF Scripts

\* those of one attempt,
LEMMA AttemptType ==
    ASSUME IndInv, Attempt PROVE IndInv'
<1>1. CASE LeaveLoop
  BY <1>1 DEF LeaveLoop, IndInv, Budget, TypeOK, Early, InAttempt, Points
<1>2. CASE SkipUnknownCandidate
  BY <1>2 DEF SkipUnknownCandidate, NextCandidate, IndInv, Budget, TypeOK, Early, InAttempt, Points
<1>3. CASE StartAttempt
  BY <1>3, MaxTotalAttemptsAssumption DEF StartAttempt, Exhausted, IndInv, Budget, TypeOK, Early, InAttempt, Points
<1>4. CASE BeforeRequestFails
  <2>1. /\ rows' \in [Ids -> Row] /\ outcome' \in Outcomes
      /\ wire' \in [n : Nat, code : Nat, refused : BOOLEAN]
      /\ session' \in Sessions /\ hookAt' \in {NoHookError} \cup Nat
    BY <1>4, FailHookType DEF BeforeRequestFails, IndInv, TypeOK
  <2>2. TypeOK'
    BY <1>4, <2>1 DEF BeforeRequestFails, IndInv, TypeOK, Points
  <2>3. Budget'
    BY <1>4 DEF BeforeRequestFails, IndInv, TypeOK, Budget, Early, InAttempt
  <2> QED
    BY <2>2, <2>3 DEF IndInv
<1>5. CASE RunBeforeRequest
  BY <1>5 DEF RunBeforeRequest, IndInv, Budget, TypeOK, Early, InAttempt, Points
<1>6. CASE WaitHookDelay
  BY <1>6 DEF WaitHookDelay, IndInv, Budget, TypeOK, Early, InAttempt, Points
<1>7. CASE SkipCandidate
  BY <1>7 DEF SkipCandidate, NextCandidate, IndInv, Budget, TypeOK, Early, InAttempt, Points
<1>8. CASE InsertUpstreamAttempt
  <2>1. cur' \in 1 .. MaxTotalAttempts
    BY <1>8, MaxTotalAttemptsAssumption DEF InsertUpstreamAttempt, IndInv, TypeOK, Budget
  <2>2. cur' \in Ids /\ cur' \in 0 .. MaxTotalAttempts
    BY <2>1, IdsFacts
  <2>3. rows' \in [Ids -> Row]
    BY <1>8, <2>2, OpenedType, InsertType DEF InsertUpstreamAttempt, IndInv, TypeOK, RequestCancelled
  <2>4. TypeOK'
    BY <1>8, <2>1, <2>2, <2>3 DEF InsertUpstreamAttempt, IndInv, TypeOK, Points
  <2>5. Budget'
    BY <1>8 DEF InsertUpstreamAttempt, IndInv, TypeOK, Budget, Early, InAttempt
  <2> QED
    BY <2>4, <2>5 DEF IndInv
<1>9. CASE BuildHookFails
  <2>1. ASSUME NEW r PROVE Write(rows, cur, HookStatus(r), Internal) \in [Ids -> Row]
    <3>1. HookStatus(r) \in Nat
      BY DEF HookStatus
    <3>2. cur \in Ids
      BY IdsFacts DEF IndInv, TypeOK
    <3> QED
      BY <3>1, <3>2, WriteType, ReasonFacts DEF IndInv, TypeOK
  <2>2. /\ rows' \in [Ids -> Row] /\ outcome' \in Outcomes
      /\ wire' \in [n : Nat, code : Nat, refused : BOOLEAN]
      /\ session' \in Sessions /\ hookAt' \in {NoHookError} \cup Nat
    BY <1>9, <2>1, FailHookType DEF BuildHookFails, IndInv
  <2>3. TypeOK'
    BY <1>9, <2>1, <2>2 DEF BuildHookFails, CountFailure, IndInv, TypeOK, Points
  <2>4. Budget'
    BY <1>9 DEF BuildHookFails, CountFailure, IndInv, TypeOK, Budget, Early, InAttempt
  <2> QED
    BY <2>3, <2>4 DEF IndInv
<1>10. CASE BuildFails
  BY <1>10, AttemptFailsType, ReasonFacts DEF BuildFails, IndInv, TypeOK, InAttempt
<1>11. CASE BeforeTransformFails
  <2>1. session' \in Sessions /\ hookAt' \in {NoHookError} \cup Nat
    BY <1>11, MaxTotalAttemptsAssumption
       DEF BeforeTransformFails, HookFailed, IndInv, TypeOK, Sessions
  <2> QED
    BY <1>11, <2>1, AttemptFailsType, ReasonFacts DEF BeforeTransformFails, InAttempt
<1>12. CASE BuildUpstreamRequest \/ RunRewriteRequest
  BY <1>12 DEF BuildUpstreamRequest, RunRewriteRequest, IndInv, Budget, TypeOK, Early, InAttempt, Points
<1>13. CASE Send
  BY <1>13 DEF Send, IndInv, Budget, TypeOK, Early, InAttempt, Points
<1>14. CASE ForwardCancelled
  BY <1>14, ForwardFailsType, ReasonFacts DEF ForwardCancelled, InAttempt
<1>15. CASE ForwardTimesOut
  BY <1>15, ForwardFailsType, ReasonFacts DEF ForwardTimesOut, InAttempt
<1>16. CASE AfterUpstreamErrorContinues
  <2>1. session' \in Sessions
    BY <1>16 DEF AfterUpstreamErrorContinues, After, IndInv, TypeOK, Sessions
  <2>2. TypeOK'
    BY <1>16, <2>1 DEF AfterUpstreamErrorContinues, IndInv, TypeOK, Points
  <2>3. Budget'
    BY <1>16 DEF AfterUpstreamErrorContinues, IndInv, TypeOK, Budget, Early, InAttempt
  <2> QED
    BY <2>2, <2>3 DEF IndInv
<1>17. CASE RespondUpstreamErrorBreak
  <2>1. /\ rows' \in [Ids -> Row] /\ outcome' \in Outcomes
        /\ wire' \in [n : Nat, code : Nat, refused : BOOLEAN]
    <3>1. PICK code \in BreakStatuses \cup {IF status > 0 THEN status ELSE 502} :
             \/ Writable(code) /\ Fail(rows, code, Internal)
             \/ /\ ~Writable(code)
                /\ wire' = [wire EXCEPT !.refused = TRUE]
                /\ UNCHANGED <<rows, outcome>>
      BY <1>17 DEF RespondUpstreamErrorBreak
    <3>2. code \in Nat /\ rows \in [Ids -> Row]
      BY FlowAssumption DEF IndInv, TypeOK
    <3>3. CASE Fail(rows, code, Internal)
      BY <3>2, <3>3, FailType, ReasonFacts DEF IndInv
    <3>4. CASE wire' = [wire EXCEPT !.refused = TRUE] /\ UNCHANGED <<rows, outcome>>
      BY <3>4 DEF IndInv, TypeOK
    <3> QED
      BY <3>1, <3>3, <3>4
  <2>2. TypeOK'
    BY <1>17, <2>1 DEF RespondUpstreamErrorBreak, IndInv, TypeOK, Points
  <2>3. Budget'
    BY <1>17 DEF RespondUpstreamErrorBreak, IndInv, TypeOK, Budget, Early, InAttempt
  <2> QED
    BY <2>2, <2>3 DEF IndInv
<1>18. CASE ReturnFromAttempt
  BY <1>18 DEF ReturnFromAttempt, IndInv, Budget, TypeOK, Early, InAttempt, Points
<1>19. CASE RegisterUpstream
  BY <1>19, IdsFacts DEF RegisterUpstream, IndInv, Budget, TypeOK, Early, InAttempt, Points
<1> QED
  BY <1>1, <1>2, <1>3, <1>4, <1>5, <1>6, <1>7, <1>8, <1>9, <1>10, <1>11, <1>12, <1>13,
     <1>14, <1>15, <1>16, <1>17, <1>18, <1>19 DEF Attempt

\* those of the plugin,
LEMMA PluginType ==
    ASSUME IndInv, Plugin PROVE IndInv'
<1>1. CASE BridgeRequestFails
  BY <1>1, AttemptFailsType, ReasonFacts DEF BridgeRequestFails, IndInv, TypeOK, InAttempt
<1>2. CASE BridgeRequest
  BY <1>2 DEF BridgeRequest, IndInv, Budget, TypeOK, Early, InAttempt, Points
<1> QED
  BY <1>1, <1>2 DEF Plugin

\* those of the answer,
LEMMA SucceedType ==
    ASSUME IndInv, Succeed PROVE IndInv'
<1>1. CASE DecodeFails
  BY <1>1, EndBothType, RespondedType, ReasonFacts DEF DecodeFails, IndInv
<1>2. CASE ClientWriteFails
  BY <1>2, EndBothType, RespondedType, ReasonFacts DEF ClientWriteFails, IndInv
<1>3. CASE StartStream
  <2>1. wire' \in [n : Nat, code : Nat, refused : BOOLEAN]
    BY <1>3, RespondedType DEF StartStream, IndInv
  <2>2. TypeOK'
    BY <1>3, <2>1 DEF StartStream, IndInv, TypeOK, Points
  <2>3. Budget'
    BY <1>3 DEF StartStream, IndInv, Budget, Early, InAttempt
  <2> QED
    BY <2>2, <2>3 DEF IndInv
<1>4. CASE StreamIsCancelled
  BY <1>4, StreamEndsType, ReasonFacts DEF StreamIsCancelled, InAttempt
<1>5. CASE StreamIdles
  BY <1>5, StreamEndsType, ReasonFacts DEF StreamIdles, InAttempt
<1>6. CASE ReplayFinishes
  BY <1>6, StreamEndsType, ReasonFacts DEF ReplayFinishes, InAttempt
<1>7. CASE ResolveUpstreamReason
  <2>1. FinishReasonFor(cur, StreamFallback) \in {NoReason} \cup FinishReasons
    BY ReasonFacts DEF FinishReasonFor, StreamFallback, IndInv, TypeOK, Reasons
  <2>2. session' \in Sessions
    BY <1>7 DEF ResolveUpstreamReason, After, IndInv, TypeOK, Sessions
  <2>3. TypeOK'
    BY <1>7, <2>1, <2>2 DEF ResolveUpstreamReason, IndInv, TypeOK, Points
  <2>4. Budget'
    BY <1>7 DEF ResolveUpstreamReason, IndInv, TypeOK, Budget, Early, InAttempt
  <2> QED
    BY <2>3, <2>4 DEF IndInv
<1>8. CASE CompleteSuccess
  <2>1. stream.up \in Reasons /\ FinishReasonFor(Meta, StreamFallback) \in Reasons
    BY ReasonFacts DEF FinishReasonFor, StreamFallback, IndInv, TypeOK, Reasons
  <2> QED
    BY <1>8, <2>1, EndBothType DEF CompleteSuccess, IndInv, TypeOK
<1> QED
  BY <1>1, <1>2, <1>3, <1>4, <1>5, <1>6, <1>7, <1>8 DEF Succeed

\* those of the deferred calls,
LEMMA FinishType ==
    ASSUME IndInv, Finish PROVE IndInv'
<1>1. CASE FailAllProviders
  BY <1>1, EndType, ReasonFacts DEF FailAllProviders, IndInv, TypeOK
<1>2. CASE RunRequestFinished
  BY <1>2 DEF RunRequestFinished, Sessions, IndInv, Budget, TypeOK, Early, InAttempt, Points
<1>3. CASE Deregister
  BY <1>3 DEF Deregister, IndInv, Budget, TypeOK, Early, InAttempt, Points
<1> QED
  BY <1>1, <1>2, <1>3 DEF Finish

\* those of the upstream,
LEMMA UpstreamType ==
    ASSUME IndInv, Upstream PROVE IndInv'
<1>1. CASE Respond
  <2>1. TypeOK'
    <3>1. status' \in Nat
      BY <1>1, FlowAssumption DEF Respond, IndInv, TypeOK
    <3>2. pc' \in Points
      BY <1>1 DEF Respond, Points
    <3> QED
      BY <1>1, <3>1, <3>2 DEF Respond, IndInv, TypeOK
  <2>2. Budget'
    BY <1>1 DEF Respond, IndInv, Budget, Early, InAttempt
  <2> QED
    BY <2>1, <2>2 DEF IndInv
<1>2. CASE ForwardBreaks
  BY <1>2, ForwardFailsType, ReasonFacts DEF ForwardBreaks, InAttempt
<1>3. CASE NonOKBodyEnds
  BY <1>3, AttemptFailsType, ReasonFacts DEF NonOKBodyEnds, IndInv, TypeOK, InAttempt
<1>4. CASE BridgeFails
  BY <1>4, EndBothType, ReasonFacts DEF BridgeFails, IndInv, TypeOK
<1>5. CASE BridgeResponse
  BY <1>5 DEF BridgeResponse, IndInv, Budget, TypeOK, Early, InAttempt, Points
<1>6. CASE StreamEvent
  <2>1. PICK f \in {"done", "err"} : stream' = [stream EXCEPT ![f] = TRUE]
    BY <1>6 DEF StreamEvent
  <2>2. stream' \in [done : BOOLEAN, err : BOOLEAN, silent : BOOLEAN, held : BOOLEAN,
                     fin : {NoReason} \cup FinishReasons,
                     up : {NoReason} \cup FinishReasons]
    BY <2>1 DEF IndInv, TypeOK
  <2>3. TypeOK'
    BY <1>6, <2>2 DEF StreamEvent, IndInv, TypeOK, Points
  <2>4. Budget'
    BY <1>6 DEF StreamEvent, IndInv, Budget, Early, InAttempt
  <2> QED
    BY <2>3, <2>4 DEF IndInv
<1>7. CASE FallSilent
  BY <1>7 DEF FallSilent, IndInv, Budget, TypeOK, Early, InAttempt, Points
<1>8. CASE StreamFinishes
  BY <1>8, StreamEndsType, ReasonFacts DEF StreamFinishes, InAttempt
<1>9. CASE StreamBreaks
  BY <1>9, StreamEndsType, ReasonFacts DEF StreamBreaks, InAttempt
<1>10. CASE WroteRequest
  BY <1>10 DEF WroteRequest, IndInv, Budget, TypeOK, Early, InAttempt, Points
<1>11. CASE DialTimesOut
  BY <1>11, ForwardFailsType, ReasonFacts DEF DialTimesOut, InAttempt
<1> QED
  BY <1>1, <1>2, <1>3, <1>4, <1>5, <1>6, <1>7, <1>8, <1>9, <1>10, <1>11 DEF Upstream

\* those of the client,
LEMMA ClientType ==
    ASSUME IndInv, Client PROVE IndInv'
<1>1. CASE StopReading
  BY <1>1 DEF StopReading, IndInv, Budget, TypeOK, Early, InAttempt, Points
<1>2. CASE ResumeReading
  <2>1. TypeOK'
    <3>1. stream' \in [done : BOOLEAN, err : BOOLEAN, silent : BOOLEAN, held : BOOLEAN,
                       fin : {NoReason} \cup FinishReasons,
                       up : {NoReason} \cup FinishReasons]
      BY <1>2 DEF ResumeReading, IndInv, TypeOK
    <3> QED
      BY <1>2, <3>1 DEF ResumeReading, IndInv, TypeOK, Points
  <2>2. Budget'
    BY <1>2 DEF ResumeReading, IndInv, TypeOK, Budget, Early, InAttempt
  <2> QED
    BY <2>1, <2>2 DEF IndInv
<1>3. CASE Disconnect
  <2>1. TypeOK'
    BY <1>3 DEF Disconnect, IndInv, TypeOK, Points
  <2>2. Budget'
    BY <1>3 DEF Disconnect, IndInv, TypeOK, Budget, Early, InAttempt
  <2> QED
    BY <2>1, <2>2 DEF IndInv
<1> QED
  BY <1>1, <1>2, <1>3 DEF Client

\* and those of the dashboard.
LEMMA DashboardType ==
    ASSUME IndInv, Dashboard PROVE IndInv'
<1> USE DEF flowVars
<1>1. CASE \E o \in Operators, i \in Ids : FindEntry(o, i)
  BY <1>1 DEF FindEntry, IndInv, TypeOK, Budget
<1>2. CASE \E o \in Operators : StoreStopReason(o)
  BY <1>2 DEF StoreStopReason, IndInv, TypeOK, Budget
<1>3. CASE \E o \in Operators : CallCancel(o)
  BY <1>3 DEF CallCancel, IndInv, TypeOK, Budget
<1> QED
  BY <1>1, <1>2, <1>3 DEF Dashboard

\* Every step of the flow and of its actors keeps the types and the budget.
LEMMA StepKeepsType == IndInv /\ [Next]_vars => IndInv'
<1>1. ASSUME IndInv, Terminated \/ UNCHANGED vars PROVE IndInv'
  BY <1>1 DEF Terminated, vars, IndInv, TypeOK, Budget
<1> QED
  BY <1>1, AcceptType, PrepareType, ScriptsType, AttemptType, PluginType, SucceedType,
     FinishType, UpstreamType, ClientType, DashboardType DEF Next

\* The types hold at the start.
LEMMA InitType == Init => IndInv
<1> SUFFICES ASSUME Init PROVE IndInv
  OBVIOUS
<1>1. AbsentRow \in Row
  BY DEF AbsentRow, Row, RowStates, NoReason
<1>2. sorted \in Seq(BOOLEAN)
  BY DEF Init
<1>3. stream \in [done : BOOLEAN, err : BOOLEAN, silent : BOOLEAN, held : BOOLEAN,
                   fin : {NoReason} \cup FinishReasons,
                   up : {NoReason} \cup FinishReasons]
  BY DEF Init, NoStream
<1>4. TypeOK
  <2>1. outcome \in Outcomes /\ seen \in Outcomes
    BY DEF Init, Unset, Outcomes
  <2>2. wire \in [n : Nat, code : Nat, refused : BOOLEAN]
    BY DEF Init
  <2>3. dash \in [Operators -> [at : {"idle", "found", "stored"}, row : Ids]]
    BY IdsFacts DEF Init
  <2>4. cur \in 0 .. MaxTotalAttempts
    BY MaxTotalAttemptsAssumption DEF Init
  <2>6. lost \subseteq Ids
    BY DEF Init
  <2>7. pc \in Points /\ session \in Sessions
    BY DEF Init, Points, Sessions
  <2>8. /\ kind \in RouteKinds /\ ret \in {"loop", "finish"}
        /\ live \subseteq Ids /\ stop \subseteq Ids /\ cancelled \subseteq Ids
    BY DEF Init
  <2>9. /\ idx \in Nat \ {0} /\ retry \in Nat /\ total \in Nat /\ status \in Nat
        /\ hookAt \in {NoHookError} \cup Nat
    BY DEF Init
  <2>10. skip \in BOOLEAN /\ gone \in BOOLEAN
    BY DEF Init
  <2>5. rows \in [Ids -> Row]
    BY <1>1 DEF Init
  <2> QED
    BY <1>2, <1>3, <2>1, <2>2, <2>3, <2>4, <2>5, <2>6, <2>7, <2>8, <2>9, <2>10 DEF TypeOK
<1>5. Budget
  BY DEF Init, Budget, Early, InAttempt
<1> QED
  BY <1>4, <1>5 DEF IndInv

\* In every state the flow can reach, whatever scripts, upstreams, dashboard and
\* client do, the variables have their types; in particular no more than
\* MaxTotalAttempts attempt rows are ever inserted (cur).
THEOREM TypeCorrect == Spec => []TypeOK
<1>1. Spec => []IndInv
  BY InitType, StepKeepsType, PTL DEF Spec
<1>2. IndInv => TypeOK
  BY DEF IndInv
<1> QED
  BY <1>1, <1>2, PTL

(* Every run answers its client.                                           *)

Unanswered == Early \cup {"loop", "beforeRequest", "delay", "decided", "inserted", "build",
                          "bridge", "rewrite", "forward", "sending", "waiting", "nonOK",
                          "afterError", "headers"}
Answering == {"drain", "replay", "stream", "complete", "commit"}

\* How many responses the client was sent, at each control point, and where a
\* status may have been refused instead.
Answers ==
    /\ pc \in Unanswered \/ (pc = "return" /\ ret = "loop") => wire.n = 0 /\ ~wire.refused
    /\ pc \in Answering => wire.n = 1 /\ ~wire.refused
    /\ pc = "return" /\ ret = "finish" => wire.n = (IF wire.refused THEN 0 ELSE 1)
    /\ pc = "allFail" => /\ wire.n = 0 \/ (wire.n = 1 /\ hookAt # NoHookError)
                         /\ ~wire.refused
    /\ pc \in {"finish", "deregister", "done"} =>
          IF wire.refused THEN wire.n = 0
          ELSE wire.n = 1 \/ (wire.n = 2 /\ hookAt # NoHookError)

\* No step up to the meta row ends a run unanswered,
LEMMA AcceptAnswers ==
    ASSUME IndInv, Answers, Accept PROVE Answers'
<1> wire \in [n : Nat, code : Nat, refused : BOOLEAN] /\ cur \in Nat
  BY MaxTotalAttemptsAssumption DEF IndInv, TypeOK
<1>1. CASE Reject
  BY <1>1 DEF Reject, Responded, Answers, Unanswered, Answering, Early
<1>2. CASE InsertMetaRequest
  BY <1>2 DEF InsertMetaRequest, Answers, Unanswered, Answering, Early
<1> QED
  BY <1>1, <1>2 DEF Accept

\* none up to the loop,
LEMMA PrepareAnswers ==
    ASSUME IndInv, Answers, Prepare PROVE Answers'
<1> wire \in [n : Nat, code : Nat, refused : BOOLEAN] /\ cur \in Nat
  BY MaxTotalAttemptsAssumption DEF IndInv, TypeOK
<1>1. CASE AuthFails
  BY <1>1 DEF AuthFails, End, Fail, Responded, Answers, Unanswered, Answering, Early
<1>2. CASE AuthenticateAndBackfill
  BY <1>2 DEF AuthenticateAndBackfill, Answers, Unanswered, Answering, Early
<1>3. CASE RouteNotFound
  BY <1>3 DEF RouteNotFound, End, Fail, Responded, Answers, Unanswered, Answering, Early
<1>4. CASE ExtractModelFails \/ SetBodyModelFails
  <2>1. wire' = Responded(400) \/ wire' = Responded(500)
    BY <1>4 DEF ExtractModelFails, SetBodyModelFails, End, Fail
  <2>2. wire'.n = 1 /\ ~wire'.refused /\ pc' = "finish"
    <3>1. wire.n = 0 /\ ~wire.refused /\ pc' = "finish"
      BY <1>4 DEF ExtractModelFails, SetBodyModelFails, End, Answers, Unanswered, Early
    <3> QED
      BY <2>1, <3>1 DEF Responded
  <2> QED
    BY <2>2 DEF Answers, Unanswered, Answering, Early
<1>13. CASE RegisterMeta \/ ExtractModel
  BY <1>13 DEF RegisterMeta, ExtractModel, Answers, Unanswered, Answering, Early
<1>5. CASE ModelHookFails
  BY <1>5 DEF ModelHookFails, EndByHook, FailHook, Fail, Responded, Answers, Unanswered, Answering, Early
<1>6. CASE ResolveAndRewriteModel
  BY <1>6 DEF ResolveAndRewriteModel, Answers, Unanswered, Answering, Early
<1>7. CASE CandidatesFail
  BY <1>7 DEF CandidatesFail, End, Fail, Responded, Answers, Unanswered, Answering, Early
<1>8. CASE CandidatesHookFails
  BY <1>8 DEF CandidatesHookFails, EndByHook, FailHook, Fail, Responded, Answers, Unanswered, Answering, Early
<1>9. CASE ResolveAndSortCandidates
  BY <1>9 DEF ResolveAndSortCandidates, Answers, Unanswered, Answering, Early
<1>10. CASE BeforeMetaHookFails
  BY <1>10 DEF BeforeMetaHookFails, EndByHook, FailHook, Fail, Responded, Answers, Unanswered, Answering, Early
<1>11. CASE RespondScriptResponse
  BY <1>11 DEF RespondScriptResponse, End, Fail, Responded, Answers, Unanswered, Answering, Early
<1>12. CASE RunBeforeMetaRequest
  BY <1>12 DEF RunBeforeMetaRequest, Answers, Unanswered, Answering, Early
<1> QED
  BY <1>1, <1>2, <1>3, <1>4, <1>5, <1>6, <1>7, <1>8, <1>9, <1>10, <1>11, <1>12, <1>13 DEF Prepare

\* none of opening the scripts' session,
LEMMA ScriptsAnswers ==
    ASSUME IndInv, Answers, Scripts PROVE Answers'
<1> wire \in [n : Nat, code : Nat, refused : BOOLEAN] /\ cur \in Nat
  BY MaxTotalAttemptsAssumption DEF IndInv, TypeOK
<1>1. CASE NewSessionFails
  BY <1>1 DEF NewSessionFails, End, Fail, Responded, Answers, Unanswered, Answering, Early
<1>2. CASE NewSession
  BY <1>2 DEF NewSession, Answers, Unanswered, Answering, Early
<1> QED
  BY <1>1, <1>2 DEF Scripts

\* none of an attempt,
LEMMA AttemptAnswers ==
    ASSUME IndInv, Answers, Attempt PROVE Answers'
<1> wire \in [n : Nat, code : Nat, refused : BOOLEAN] /\ cur \in Nat
  BY MaxTotalAttemptsAssumption DEF IndInv, TypeOK
<1>1. CASE LeaveLoop
  BY <1>1 DEF LeaveLoop, Answers, Unanswered, Answering, Early
<1>2. CASE SkipUnknownCandidate
  BY <1>2 DEF SkipUnknownCandidate, Answers, Unanswered, Answering, Early
<1>3. CASE StartAttempt
  BY <1>3 DEF StartAttempt, Answers, Unanswered, Answering, Early
<1>4. CASE BeforeRequestFails
  BY <1>4 DEF BeforeRequestFails, FailHook, Fail, Responded, HookFailed, NoHookError, Answers, Unanswered, Answering, Early
<1>5. CASE RunBeforeRequest
  BY <1>5 DEF RunBeforeRequest, Answers, Unanswered, Answering, Early
<1>6. CASE WaitHookDelay
  BY <1>6 DEF WaitHookDelay, Answers, Unanswered, Answering, Early
<1>7. CASE SkipCandidate
  BY <1>7 DEF SkipCandidate, Answers, Unanswered, Answering, Early
<1>8. CASE InsertUpstreamAttempt
  BY <1>8 DEF InsertUpstreamAttempt, Answers, Unanswered, Answering, Early
<1>9. CASE BuildHookFails
  BY <1>9 DEF BuildHookFails, FailHook, Fail, Responded, Answers, Unanswered, Answering, Early
<1>10. CASE BuildFails
  BY <1>10 DEF BuildFails, AttemptFails, Answers, Unanswered, Answering, Early
<1>11. CASE BeforeTransformFails
  BY <1>11 DEF BeforeTransformFails, AttemptFails, Answers, Unanswered, Answering, Early
<1>12. CASE BuildUpstreamRequest \/ RunRewriteRequest
  BY <1>12 DEF BuildUpstreamRequest, RunRewriteRequest, Answers, Unanswered, Answering, Early
<1>13. CASE Send
  BY <1>13 DEF Send, Answers, Unanswered, Answering, Early
<1>14. CASE ForwardCancelled
  BY <1>14 DEF ForwardCancelled, ForwardFails, AttemptFails, Answers, Unanswered, Answering, Early
<1>15. CASE ForwardTimesOut
  BY <1>15 DEF ForwardTimesOut, ForwardFails, AttemptFails, Answers, Unanswered, Answering, Early
<1>16. CASE AfterUpstreamErrorContinues
  BY <1>16 DEF AfterUpstreamErrorContinues, Answers, Unanswered, Answering, Early
<1>17. CASE RespondUpstreamErrorBreak
  <2>1. PICK code \in BreakStatuses \cup {IF status > 0 THEN status ELSE 502} :
           wire' = Responded(code) \/ wire' = [wire EXCEPT !.refused = TRUE]
    BY <1>17 DEF RespondUpstreamErrorBreak, Fail
  <2>2. wire.n = 0 /\ ~wire.refused
    BY <1>17 DEF RespondUpstreamErrorBreak, Answers, Unanswered
  <2>3. wire'.n = (IF wire'.refused THEN 0 ELSE 1)
    <3>1. CASE wire' = Responded(code)
      BY <2>2, <3>1 DEF Responded
    <3>2. CASE wire' = [wire EXCEPT !.refused = TRUE]
      BY <2>2, <3>2
    <3> QED
      BY <2>1, <3>1, <3>2
  <2> QED
    BY <1>17, <2>3 DEF RespondUpstreamErrorBreak, Answers, Unanswered, Answering, Early
<1>18. CASE ReturnFromAttempt
  BY <1>18 DEF ReturnFromAttempt, Answers, Unanswered, Answering, Early, IndInv, TypeOK
<1>19. CASE RegisterUpstream
  BY <1>19 DEF RegisterUpstream, Answers, Unanswered, Answering, Early
<1> QED
  BY <1>1, <1>2, <1>3, <1>4, <1>5, <1>6, <1>7, <1>8, <1>9, <1>10, <1>11, <1>12, <1>13,
     <1>14, <1>15, <1>16, <1>17, <1>18, <1>19 DEF Attempt

\* none of the plugin,
LEMMA PluginAnswers ==
    ASSUME IndInv, Answers, Plugin PROVE Answers'
<1>1. CASE BridgeRequestFails
  BY <1>1 DEF BridgeRequestFails, AttemptFails, Answers, Unanswered, Answering, Early
<1>2. CASE BridgeRequest
  BY <1>2 DEF BridgeRequest, Answers, Unanswered, Answering, Early
<1> QED
  BY <1>1, <1>2 DEF Plugin

\* none of the answer,
LEMMA SucceedAnswers ==
    ASSUME IndInv, Answers, Succeed PROVE Answers'
<1> wire \in [n : Nat, code : Nat, refused : BOOLEAN] /\ cur \in Nat
  BY MaxTotalAttemptsAssumption DEF IndInv, TypeOK
<1>1. CASE DecodeFails
  BY <1>1 DEF DecodeFails, EndBoth, Responded, Answers, Unanswered, Answering, Early
<1>2. CASE ClientWriteFails
  BY <1>2 DEF ClientWriteFails, EndBoth, Responded, Answers, Unanswered, Answering, Early
<1>3. CASE StartStream
  BY <1>3 DEF StartStream, Responded, Answers, Unanswered, Answering, Early
<1>4. CASE StreamIsCancelled
  BY <1>4 DEF StreamIsCancelled, StreamEnds, Answers, Unanswered, Answering, Early
<1>5. CASE StreamIdles
  BY <1>5 DEF StreamIdles, StreamEnds, Answers, Unanswered, Answering, Early
<1>6. CASE ReplayFinishes
  BY <1>6 DEF ReplayFinishes, StreamEnds, Answers, Unanswered, Answering, Early
<1>7. CASE ResolveUpstreamReason
  BY <1>7 DEF ResolveUpstreamReason, Answers, Unanswered, Answering, Early
<1>8. CASE CompleteSuccess
  BY <1>8 DEF CompleteSuccess, EndBoth, Answers, Unanswered, Answering, Early
<1> QED
  BY <1>1, <1>2, <1>3, <1>4, <1>5, <1>6, <1>7, <1>8 DEF Succeed

\* none of the deferred calls,
LEMMA FinishAnswers ==
    ASSUME IndInv, Answers, Finish PROVE Answers'
<1> wire \in [n : Nat, code : Nat, refused : BOOLEAN] /\ cur \in Nat
  BY MaxTotalAttemptsAssumption DEF IndInv, TypeOK
<1>1. CASE FailAllProviders
  BY <1>1 DEF FailAllProviders, End, Fail, Responded, Answers, Unanswered, Answering, Early
<1>2. CASE RunRequestFinished
  BY <1>2 DEF RunRequestFinished, Answers, Unanswered, Answering, Early
<1>3. CASE Deregister
  BY <1>3 DEF Deregister, Answers, Unanswered, Answering, Early
<1> QED
  BY <1>1, <1>2, <1>3 DEF Finish

\* none of the upstream,
LEMMA UpstreamAnswers ==
    ASSUME IndInv, Answers, Upstream PROVE Answers'
<1> wire \in [n : Nat, code : Nat, refused : BOOLEAN] /\ cur \in Nat
  BY MaxTotalAttemptsAssumption DEF IndInv, TypeOK
<1>1. CASE Respond
  BY <1>1 DEF Respond, Answers, Unanswered, Answering, Early
<1>2. CASE ForwardBreaks
  BY <1>2 DEF ForwardBreaks, ForwardFails, AttemptFails, Answers, Unanswered, Answering, Early
<1>3. CASE NonOKBodyEnds
  BY <1>3 DEF NonOKBodyEnds, AttemptFails, Answers, Unanswered, Answering, Early
<1>4. CASE BridgeFails
  BY <1>4 DEF BridgeFails, EndBoth, Answers, Unanswered, Answering, Early
<1>5. CASE BridgeResponse
  BY <1>5 DEF BridgeResponse, Answers, Unanswered, Answering, Early
<1>6. CASE StreamEvent
  BY <1>6 DEF StreamEvent, Answers, Unanswered, Answering, Early
<1>7. CASE FallSilent
  BY <1>7 DEF FallSilent, Answers, Unanswered, Answering, Early
<1>8. CASE StreamFinishes
  BY <1>8 DEF StreamFinishes, StreamEnds, Answers, Unanswered, Answering, Early
<1>9. CASE StreamBreaks
  BY <1>9 DEF StreamBreaks, StreamEnds, Answers, Unanswered, Answering, Early
<1>10. CASE WroteRequest
  BY <1>10 DEF WroteRequest, Answers, Unanswered, Answering, Early
<1>11. CASE DialTimesOut
  BY <1>11 DEF DialTimesOut, ForwardFails, AttemptFails, Answers, Unanswered, Answering, Early
<1> QED
  BY <1>1, <1>2, <1>3, <1>4, <1>5, <1>6, <1>7, <1>8, <1>9, <1>10, <1>11 DEF Upstream

\* none of the client,
LEMMA ClientAnswers ==
    ASSUME IndInv, Answers, Client PROVE Answers'
<1> wire \in [n : Nat, code : Nat, refused : BOOLEAN] /\ cur \in Nat
  BY MaxTotalAttemptsAssumption DEF IndInv, TypeOK
<1>1. CASE StopReading
  BY <1>1 DEF StopReading, Answers, Unanswered, Answering, Early
<1>2. CASE ResumeReading
  BY <1>2 DEF ResumeReading, Answers, Unanswered, Answering, Early
<1>3. CASE Disconnect
  BY <1>3 DEF Disconnect, Answers, Unanswered, Answering, Early
<1> QED
  BY <1>1, <1>2, <1>3 DEF Client

\* and none of the dashboard.
LEMMA DashboardAnswers ==
    ASSUME Answers, Dashboard PROVE Answers'
<1>1. UNCHANGED flowVars
  BY DEF Dashboard, FindEntry, StoreStopReason, CallCancel, flowVars
<1> QED
  BY <1>1 DEF flowVars, Answers

\* So no step does.
LEMMA StepKeepsAnswers == IndInv /\ Answers /\ [Next]_vars => Answers'
<1>1. ASSUME Answers, Terminated \/ UNCHANGED vars PROVE Answers'
  BY <1>1 DEF Terminated, vars, Answers
<1> QED
  BY <1>1, AcceptAnswers, PrepareAnswers, ScriptsAnswers, AttemptAnswers, PluginAnswers,
     SucceedAnswers, FinishAnswers, UpstreamAnswers, ClientAnswers, DashboardAnswers DEF Next

\* The answers are counted rightly in every reachable state.
LEMMA AnswersHolds == Spec => [](IndInv /\ Answers)
<1>1. Init => IndInv /\ Answers
  BY InitType DEF Init, Answers, Unanswered, Answering, Early
<1>2. IndInv /\ Answers /\ [Next]_vars => (IndInv /\ Answers)'
  BY StepKeepsType, StepKeepsAnswers
<1> QED
  BY <1>1, <1>2, PTL DEF Spec

\* Only inserting an attempt's row changes cur.
LEMMA OnlyInsertCounts ==
    ASSUME [Next]_vars, ~InsertUpstreamAttempt PROVE cur' = cur
<1>1. CASE Accept
  BY <1>1 DEF Accept, Reject, InsertMetaRequest
<1>2. CASE Prepare
  BY <1>2 DEF Prepare, AuthFails, AuthenticateAndBackfill, RouteNotFound, RegisterMeta,
     ExtractModelFails, ExtractModel, SetBodyModelFails, ModelHookFails, ResolveAndRewriteModel, CandidatesFail, CandidatesHookFails,
     ResolveAndSortCandidates, BeforeMetaHookFails, RespondScriptResponse,
     RunBeforeMetaRequest, End, EndByHook
<1>3. CASE Attempt
  BY <1>3 DEF Attempt, LeaveLoop, SkipUnknownCandidate, StartAttempt, BeforeRequestFails,
     RunBeforeRequest, WaitHookDelay, SkipCandidate, BuildHookFails, BuildFails,
     BeforeTransformFails, BuildUpstreamRequest, RunRewriteRequest, RegisterUpstream, Send,
     ForwardCancelled, ForwardTimesOut, AfterUpstreamErrorContinues, RespondUpstreamErrorBreak,
     ReturnFromAttempt, AttemptFails, ForwardFails
<1>4. CASE Succeed
  BY <1>4 DEF Succeed, DecodeFails, ClientWriteFails, StartStream, StreamIsCancelled,
     StreamIdles, ReplayFinishes, ResolveUpstreamReason, CompleteSuccess, EndBoth, StreamEnds
<1>5. CASE Finish
  BY <1>5 DEF Finish, FailAllProviders, RunRequestFinished, Deregister, End
<1>6. CASE Upstream
  BY <1>6 DEF Upstream, Respond, WroteRequest, DialTimesOut, ForwardBreaks, NonOKBodyEnds, BridgeFails, BridgeResponse,
     StreamEvent, FallSilent, StreamFinishes, StreamBreaks, AttemptFails, ForwardFails,
     EndBoth, StreamEnds
<1>7. CASE Client
  BY <1>7 DEF Client, StopReading, ResumeReading, Disconnect
<1>8. CASE Dashboard
  BY <1>8 DEF Dashboard, FindEntry, StoreStopReason, CallCancel, flowVars
<1>9. CASE Terminated \/ UNCHANGED vars
  BY <1>9 DEF Terminated, vars
<1>10. CASE Scripts \/ Plugin
  BY <1>10 DEF Scripts, Plugin, NewSessionFails, NewSession, End, BridgeRequestFails,
     BridgeRequest, AttemptFails
<1> QED
  BY <1>1, <1>2, <1>3, <1>4, <1>5, <1>6, <1>7, <1>8, <1>9, <1>10 DEF Next

\* Once the client has been sent a response, no further attempt is made: the
\* loop of runAttempts is never re-entered behind an answer.
THEOREM NoAttemptAfterResponseHolds == Spec => NoAttemptAfterResponse
<1>1. IndInv /\ Answers /\ [Next]_vars => [wire.n > 0 => cur' = cur]_vars
  <2> SUFFICES ASSUME IndInv, Answers, [Next]_vars, wire.n > 0 PROVE cur' = cur
    OBVIOUS
  <2>1. CASE InsertUpstreamAttempt
    BY <2>1 DEF InsertUpstreamAttempt, Answers, Unanswered
  <2>2. CASE ~InsertUpstreamAttempt
    BY <2>2, OnlyInsertCounts
  <2> QED
    BY <2>1, <2>2
<1> QED
  BY <1>1, AnswersHolds, PTL DEF Spec, NoAttemptAfterResponse

(* The rows and the registry.                                              *)

\* An attempt is registered from RegisterUpstream to its deferred Remove, the
\* request from RegisterMeta to the end of run.
Registry ==
    /\ pc \notin {"accept", "metaInserted", "done"} => Meta \in live
    /\ pc \in {"afterError", "return"} => cur # Meta
    /\ \A i \in Upstreams :
          i \in live <=> /\ i = cur /\ pc # "inserted"
                         /\ pc \in InAttempt \cup {"afterError", "return"}

\* Only the current attempt's row is open, and only while the attempt runs.
UpstreamRows ==
    \A i \in Upstreams :
        /\ i > cur => rows[i] = AbsentRow
        /\ rows[i].st = "open" /\ i \notin lost => i = cur /\ pc \in InAttempt
        /\ \/ rows[i].sets = 0
           \/ rows[i].sets = 1 /\ (i < cur \/ (i = cur /\ pc \notin InAttempt))

\* The meta row is open until the run's outcome is decided, or longer when the
\* status of a break was refused.
Ended == {"finish", "deregister", "done"}
MetaRow ==
    /\ pc \in Unanswered \cup Answering \/ (pc = "return" /\ ret = "loop") =>
          rows[Meta].sets = 0
    /\ pc = "return" => rows[Meta].sets <= 1
    /\ pc = "allFail" => rows[Meta].sets <= (IF hookAt = NoHookError THEN 0 ELSE 1)
    /\ pc \in Ended => rows[Meta].sets <= (IF hookAt = NoHookError THEN 1 ELSE 2)
    /\ Meta \notin lost /\ rows[Meta].st = "open" =>
          /\ pc # "accept"
          /\ wire.refused \/ (pc \notin Ended /\ ~(pc = "return" /\ ret = "finish"))

Books == Registry /\ UpstreamRows /\ MetaRow

\* A write touches one row: it ends it, unless the database refuses.
LEMMA WriteEffect ==
    ASSUME NEW rs \in [Ids -> Row], NEW i \in Ids, NEW code, NEW fin, NEW j \in Ids
    PROVE  /\ j # i \/ i \in lost => Write(rs, i, code, fin)[j] = rs[j]
           /\ j = i /\ i \notin lost =>
                 /\ Write(rs, i, code, fin)[j].st = "final"
                 /\ Write(rs, i, code, fin)[j].sets = rs[j].sets + 1
<1>1. rs[i] \in Row
  OBVIOUS
<1>2. Closed(rs[i], code, fin).st = "final" /\ Closed(rs[i], code, fin).sets = rs[i].sets + 1
  BY <1>1 DEF Closed, Row
<1> QED
  BY <1>2 DEF Write

\* An INSERT touches one row: it opens it.
LEMMA InsertEffect ==
    ASSUME rows \in [Ids -> Row], NEW i \in Ids, NEW user, NEW cand, NEW l,
           Insert(i, Opened(user, cand, l))
    PROVE  /\ \A j \in Ids : j # i => rows'[j] = rows[j]
           /\ rows[i].sets = 0 => rows'[i].sets = 0
<1>1. Opened(user, cand, l).sets = 0
  BY DEF Opened, AbsentRow
<1>2. rows' = rows \/ rows' = [rows EXCEPT ![i] = Opened(user, cand, l)]
  BY DEF Insert
<1> QED
  BY <1>1, <1>2

\* The meta row is not one of the attempts' rows.
LEMMA MetaApart == Upstreams \subseteq Ids /\ Meta \notin Upstreams /\ Meta \in Ids
                   /\ Upstreams \subseteq Nat
  BY DEF Ids, Upstreams, Meta

\* Finishing only the meta row leaves the attempts' rows alone.
LEMMA FinishMetaEffect ==
    ASSUME NEW rs \in [Ids -> Row], NEW code, NEW fin, FinishMeta(rs, code, fin)
    PROVE  /\ \A i \in Upstreams : rows'[i] = rs[i]
           /\ Meta \in lost => rows'[Meta] = rs[Meta]
           /\ Meta \notin lost => rows'[Meta].st = "final"
                                 /\ rows'[Meta].sets = rs[Meta].sets + 1
  BY MetaApart, WriteEffect DEF FinishMeta

\* The end of the run keeps the books.
LEMMA EndBooks ==
    ASSUME IndInv, Books, NEW code, NEW fin, End(code, fin),
           pc \in (Early \ {"accept", "metaInserted"}) \cup {"allFail"}
    PROVE  Books'
<1>1. rows \in [Ids -> Row] /\ rows[Meta].sets \in Nat
  BY MetaApart DEF IndInv, TypeOK, Row
<1>2. /\ \A i \in Upstreams : rows'[i] = rows[i]
      /\ Meta \in lost => rows'[Meta] = rows[Meta]
      /\ Meta \notin lost => rows'[Meta].st = "final"
                            /\ rows'[Meta].sets = rows[Meta].sets + 1
  BY <1>1, FinishMetaEffect DEF End, Fail
<1>3. Registry'
  BY DEF Books, Registry, End, InAttempt, Early
<1>4. UpstreamRows'
  BY <1>2 DEF Books, UpstreamRows, End, InAttempt, Early
<1>5. MetaRow'
  BY <1>1, <1>2 DEF Books, MetaRow, End, Early, Unanswered, Answering, Ended
<1> QED
  BY <1>3, <1>4, <1>5 DEF Books

\* A hook error, once met, is not forgotten.
LEMMA HookErrorIsKept ==
    ASSUME IndInv, NEW r, HookFailed(r) PROVE hookAt' # NoHookError
  BY MaxTotalAttemptsAssumption DEF HookFailed, IndInv, TypeOK, NoHookError

\* Its end by a hook error keeps them.
LEMMA EndByHookBooks ==
    ASSUME IndInv, Books, NEW r, EndByHook(r), pc \in Early \ {"accept", "metaInserted"}
    PROVE  Books'
<1>1. rows \in [Ids -> Row] /\ rows[Meta].sets \in Nat
  BY MetaApart DEF IndInv, TypeOK, Row
<1>2. /\ \A i \in Upstreams : rows'[i] = rows[i]
      /\ Meta \in lost => rows'[Meta] = rows[Meta]
      /\ Meta \notin lost => rows'[Meta].st = "final"
                            /\ rows'[Meta].sets = rows[Meta].sets + 1
  BY <1>1, FinishMetaEffect DEF EndByHook, FailHook, Fail
<1>3. Registry'
  BY DEF Books, Registry, EndByHook, InAttempt, Early
<1>4. UpstreamRows'
  BY <1>2 DEF Books, UpstreamRows, EndByHook, InAttempt, Early
<1>5. MetaRow'
  BY <1>1, <1>2 DEF Books, MetaRow, EndByHook, Early, Unanswered, Answering, Ended
<1> QED
  BY <1>3, <1>4, <1>5 DEF Books

\* The current attempt, while it runs, has a row and no finish reason yet.
LEMMA CurrentAttempt ==
    ASSUME IndInv, Books, pc \in InAttempt
    PROVE  /\ cur \in Upstreams /\ cur \in Ids /\ cur # Meta
           /\ rows \in [Ids -> Row] /\ rows[Meta].sets \in Nat
           /\ rows[cur].sets = 0
<1>1. cur \in Upstreams
  BY MaxTotalAttemptsAssumption DEF IndInv, TypeOK, Budget, Upstreams
<1>2. rows \in [Ids -> Row] /\ rows[Meta].sets \in Nat
  BY MetaApart DEF IndInv, TypeOK, Row
<1>3. rows[cur].sets = 0
  BY <1>1, MetaApart DEF Books, UpstreamRows
<1> QED
  BY <1>1, <1>2, <1>3, MetaApart

\* The end of a failed attempt closes its row.
LEMMA AttemptFailsBooks ==
    ASSUME IndInv, Books, pc \in InAttempt, pc # "inserted", NEW code, NEW fin,
           AttemptFails(code, fin)
    PROVE  Books'
<1>1. /\ \A i \in Ids : i # cur \/ cur \in lost => rows'[i] = rows[i]
      /\ cur \notin lost => rows'[cur].st = "final" /\ rows'[cur].sets = 1
  BY CurrentAttempt, WriteEffect DEF AttemptFails
<1>2. Registry'
  BY CurrentAttempt DEF Books, Registry, AttemptFails, InAttempt
<1>3. UpstreamRows'
  BY <1>1, CurrentAttempt, MetaApart DEF Books, UpstreamRows, AttemptFails, InAttempt
<1>4. MetaRow'
  BY <1>1, CurrentAttempt, MetaApart
     DEF Books, MetaRow, AttemptFails, InAttempt, Unanswered, Answering, Early, Ended
<1> QED
  BY <1>2, <1>3, <1>4 DEF Books

\* Both rows finished in one go, the attempt's first.
LEMMA BothFinishedEffect ==
    ASSUME IndInv, Books, pc \in InAttempt, NEW upCode \in Nat, NEW upFin \in Reasons,
           NEW code, NEW fin, FinishMeta(Write(rows, cur, upCode, upFin), code, fin)
    PROVE  /\ \A i \in Upstreams : i # cur \/ cur \in lost => rows'[i] = rows[i]
           /\ cur \notin lost => rows'[cur].st = "final" /\ rows'[cur].sets = 1
           /\ Meta \in lost => rows'[Meta] = rows[Meta]
           /\ Meta \notin lost => rows'[Meta].st = "final"
                                 /\ rows'[Meta].sets = rows[Meta].sets + 1
<1> DEFINE W == Write(rows, cur, upCode, upFin)
<1>1. W \in [Ids -> Row]
  BY CurrentAttempt, WriteType
<1>2. /\ \A i \in Ids : i # cur \/ cur \in lost => W[i] = rows[i]
      /\ cur \notin lost => W[cur].st = "final" /\ W[cur].sets = 1
  BY CurrentAttempt, WriteEffect
<1> HIDE DEF W
<1>3. /\ \A i \in Upstreams : rows'[i] = W[i]
      /\ Meta \in lost => rows'[Meta] = W[Meta]
      /\ Meta \notin lost => rows'[Meta].st = "final" /\ rows'[Meta].sets = W[Meta].sets + 1
  BY <1>1, FinishMetaEffect DEF W
<1> QED
  BY <1>2, <1>3, CurrentAttempt, MetaApart

\* The end of attempt and request keeps the books.
LEMMA EndBothBooks ==
    ASSUME IndInv, Books, pc \in InAttempt, pc # "inserted", NEW upCode \in Nat,
           NEW upFin \in Reasons, NEW code, NEW fin, EndBoth(upCode, upFin, code, fin)
    PROVE  Books'
<1>1. /\ \A i \in Upstreams : i # cur \/ cur \in lost => rows'[i] = rows[i]
      /\ cur \notin lost => rows'[cur].st = "final" /\ rows'[cur].sets = 1
      /\ Meta \in lost => rows'[Meta] = rows[Meta]
      /\ Meta \notin lost => rows'[Meta].st = "final"
                            /\ rows'[Meta].sets = rows[Meta].sets + 1
  BY BothFinishedEffect DEF EndBoth
<1>2. Registry'
  BY CurrentAttempt DEF Books, Registry, EndBoth, InAttempt
<1>3. UpstreamRows'
  BY <1>1, CurrentAttempt, MetaApart DEF Books, UpstreamRows, EndBoth, InAttempt
<1>4. MetaRow'
  BY <1>1, CurrentAttempt DEF Books, MetaRow, EndBoth, InAttempt, Unanswered, Answering, Early, Ended
<1> QED
  BY <1>2, <1>3, <1>4 DEF Books

\* No step up to the meta row spoils the books,
LEMMA AcceptBooks ==
    ASSUME IndInv, Books, Accept PROVE Books'
<1>1. CASE Reject
  <2>1. MetaRow'
    <3>1. rows[Meta].sets = 0 /\ ~(Meta \notin lost /\ rows[Meta].st = "open")
      BY <1>1 DEF Reject, Books, MetaRow, Unanswered, Early
    <3>2. rows' = rows /\ lost' = lost /\ pc' = "done" /\ hookAt' = hookAt
      BY <1>1 DEF Reject
    <3> QED
      BY <3>1, <3>2 DEF MetaRow, Unanswered, Answering, Early, Ended
  <2>2. Registry'
    BY <1>1 DEF Reject, Books, Registry, InAttempt
  <2>3. UpstreamRows'
    BY <1>1 DEF Reject, Books, UpstreamRows, InAttempt
  <2> QED
    BY <2>1, <2>2, <2>3 DEF Books
<1>2. CASE InsertMetaRequest
  <2>1. /\ rows'[Meta].sets = 0
        /\ \A i \in Upstreams : rows'[i] = rows[i]
    BY <1>2, MetaApart, InsertEffect
       DEF InsertMetaRequest, Books, MetaRow, Unanswered, Early, IndInv, TypeOK
  <2>2. Registry'
    BY <1>2, <2>1 DEF InsertMetaRequest, Books, Registry, InAttempt
  <2>3. UpstreamRows'
    BY <1>2, <2>1 DEF InsertMetaRequest, Books, UpstreamRows, InAttempt
  <2>4. MetaRow'
    BY <1>2, <2>1 DEF InsertMetaRequest, Books, MetaRow, Unanswered, Answering, Early, Ended
  <2> QED
    BY <2>2, <2>3, <2>4 DEF Books
<1> QED
  BY <1>1, <1>2 DEF Accept

\* none up to the loop,
LEMMA PrepareBooks ==
    ASSUME IndInv, Books, Prepare PROVE Books'
<1>1. CASE AuthFails
  BY <1>1, EndBooks DEF AuthFails, Early
<1>2. CASE AuthenticateAndBackfill
  <2>1. /\ rows'[Meta].sets = rows[Meta].sets /\ rows'[Meta].st = rows[Meta].st
        /\ \A i \in Upstreams : rows'[i] = rows[i]
    BY <1>2, MetaApart DEF AuthenticateAndBackfill, IndInv, TypeOK, Row
  <2>2. Registry'
    BY <1>2, <2>1 DEF AuthenticateAndBackfill, Books, Registry, InAttempt
  <2>3. UpstreamRows'
    BY <1>2, <2>1 DEF AuthenticateAndBackfill, Books, UpstreamRows, InAttempt
  <2>4. MetaRow'
    BY <1>2, <2>1 DEF AuthenticateAndBackfill, Books, MetaRow, Unanswered, Answering, Early, Ended
  <2> QED
    BY <2>2, <2>3, <2>4 DEF Books
<1>3. CASE RouteNotFound
  BY <1>3, EndBooks DEF RouteNotFound, Early
<1>4. CASE ExtractModelFails \/ SetBodyModelFails
  BY <1>4, EndBooks DEF ExtractModelFails, SetBodyModelFails, Early
<1>13. CASE RegisterMeta
  BY <1>13, MetaApart DEF RegisterMeta, Books, Registry, UpstreamRows, MetaRow, InAttempt, Unanswered, Answering, Early, Ended
<1>14. CASE ExtractModel
  BY <1>14 DEF ExtractModel, Books, Registry, UpstreamRows, MetaRow, InAttempt, Unanswered, Answering, Early, Ended
<1>5. CASE ModelHookFails
  BY <1>5, EndByHookBooks DEF ModelHookFails, Early
<1>6. CASE ResolveAndRewriteModel
  BY <1>6 DEF ResolveAndRewriteModel, Books, Registry, UpstreamRows, MetaRow, InAttempt, Unanswered, Answering, Early, Ended
<1>7. CASE CandidatesFail
  BY <1>7, EndBooks DEF CandidatesFail, Early
<1>8. CASE CandidatesHookFails
  BY <1>8, EndByHookBooks DEF CandidatesHookFails, Early
<1>9. CASE ResolveAndSortCandidates
  BY <1>9 DEF ResolveAndSortCandidates, Books, Registry, UpstreamRows, MetaRow, InAttempt, Unanswered, Answering, Early, Ended
<1>10. CASE BeforeMetaHookFails
  BY <1>10, EndByHookBooks DEF BeforeMetaHookFails, Early
<1>11. CASE RespondScriptResponse
  BY <1>11, EndBooks DEF RespondScriptResponse, Early
<1>12. CASE RunBeforeMetaRequest
  BY <1>12 DEF RunBeforeMetaRequest, Books, Registry, UpstreamRows, MetaRow, InAttempt, Unanswered, Answering, Early, Ended
<1> QED
  BY <1>1, <1>2, <1>3, <1>4, <1>5, <1>6, <1>7, <1>8, <1>9, <1>10, <1>11, <1>12, <1>13, <1>14 DEF Prepare

\* none of opening the scripts' session,
LEMMA ScriptsBooks ==
    ASSUME IndInv, Books, Scripts PROVE Books'
<1>1. CASE NewSessionFails
  BY <1>1, EndBooks DEF NewSessionFails, Early
<1>2. CASE NewSession
  BY <1>2 DEF NewSession, Books, Registry, UpstreamRows, MetaRow, InAttempt, Unanswered, Answering, Early, Ended
<1> QED
  BY <1>1, <1>2 DEF Scripts

\* none of an attempt,
LEMMA AttemptBooks ==
    ASSUME IndInv, Books, Attempt PROVE Books'
<1>1. CASE LeaveLoop
  BY <1>1 DEF LeaveLoop, Books, Registry, UpstreamRows, MetaRow, InAttempt, Unanswered, Answering, Early, Ended
<1>2. CASE SkipUnknownCandidate
  BY <1>2 DEF SkipUnknownCandidate, NextCandidate, Books, Registry, UpstreamRows, MetaRow, InAttempt, Unanswered, Answering, Early, Ended
<1>3. CASE StartAttempt
  BY <1>3 DEF StartAttempt, Books, Registry, UpstreamRows, MetaRow, InAttempt, Unanswered, Answering, Early, Ended
<1>4. CASE BeforeRequestFails
  <2>1. /\ \A i \in Upstreams : rows'[i] = rows[i]
        /\ rows'[Meta].sets \in {0, 1} /\ hookAt' # NoHookError
    BY <1>4, MetaApart, FinishMetaEffect, HookErrorIsKept
       DEF BeforeRequestFails, FailHook, Fail, Books, MetaRow, Unanswered, IndInv, TypeOK
  <2>2. Registry'
    BY <1>4, <2>1 DEF BeforeRequestFails, Books, Registry, InAttempt
  <2>3. UpstreamRows'
    BY <1>4, <2>1 DEF BeforeRequestFails, Books, UpstreamRows, InAttempt
  <2>4. MetaRow'
    BY <1>4, <2>1 DEF BeforeRequestFails, Books, MetaRow, Unanswered, Answering, Early, Ended
  <2> QED
    BY <2>2, <2>3, <2>4 DEF Books
<1>5. CASE RunBeforeRequest
  BY <1>5 DEF RunBeforeRequest, Books, Registry, UpstreamRows, MetaRow, InAttempt, Unanswered, Answering, Early, Ended
<1>6. CASE WaitHookDelay
  BY <1>6 DEF WaitHookDelay, Books, Registry, UpstreamRows, MetaRow, InAttempt, Unanswered, Answering, Early, Ended
<1>7. CASE SkipCandidate
  BY <1>7 DEF SkipCandidate, NextCandidate, Books, Registry, UpstreamRows, MetaRow, InAttempt, Unanswered, Answering, Early, Ended
<1>8. CASE InsertUpstreamAttempt
  <2>1. /\ \A i \in Ids : i # cur' => rows'[i] = rows[i]
        /\ cur' \in Upstreams /\ cur' = cur + 1 /\ cur \in Nat /\ rows'[cur'].sets = 0
        /\ Meta \in Ids /\ Meta # cur' /\ Upstreams \subseteq Ids
        /\ Upstreams \subseteq Nat
    <3>1. cur' \in Upstreams /\ cur' = cur + 1 /\ cur \in Nat
      BY <1>8, MaxTotalAttemptsAssumption DEF InsertUpstreamAttempt, IndInv, TypeOK, Budget, Upstreams
    <3>2. rows[cur'].sets = 0
      BY <3>1 DEF Books, UpstreamRows, AbsentRow
    <3>3. /\ \A i \in Ids : i # cur' => rows'[i] = rows[i]
          /\ rows'[cur'].sets = 0
      BY <1>8, <3>1, <3>2, MetaApart, InsertEffect DEF InsertUpstreamAttempt, IndInv, TypeOK
    <3> QED
      BY <1>8, <3>1, <3>3, MetaApart DEF InsertUpstreamAttempt
  <2>2. Registry'
    BY <1>8, <2>1 DEF InsertUpstreamAttempt, Books, Registry, InAttempt
  <2>3. UpstreamRows'
    BY <1>8, <2>1 DEF InsertUpstreamAttempt, Books, UpstreamRows, InAttempt
  <2>4. MetaRow'
    BY <1>8, <2>1 DEF InsertUpstreamAttempt, Books, MetaRow, Unanswered, Answering, Early, Ended
  <2> QED
    BY <2>2, <2>3, <2>4 DEF Books
<1>9. CASE BuildHookFails
  <2>1. /\ \A i \in Upstreams : i # cur \/ cur \in lost => rows'[i] = rows[i]
        /\ cur \notin lost => rows'[cur].st = "final" /\ rows'[cur].sets = 1
        /\ Meta \in lost => rows'[Meta] = rows[Meta]
        /\ Meta \notin lost => rows'[Meta].st = "final"
                              /\ rows'[Meta].sets = rows[Meta].sets + 1
        /\ cur \in Upstreams /\ rows[Meta].sets \in Nat /\ rows[cur].sets = 0
    <3>1. PICK r \in HookErrors : FailHook(Write(rows, cur, HookStatus(r), Internal), r)
      BY <1>9 DEF BuildHookFails
    <3>2. HookStatus(r) \in Nat
      BY DEF HookStatus
    <3>3. pc \in InAttempt
      BY <1>9 DEF BuildHookFails, InAttempt
    <3> QED
      BY <3>1, <3>2, <3>3, CurrentAttempt, BothFinishedEffect, ReasonFacts DEF FailHook, Fail
  <2>2. Registry'
    BY <1>9, <2>1, MetaApart DEF BuildHookFails, Books, Registry, InAttempt
  <2>3. UpstreamRows'
    BY <1>9, <2>1, MetaApart DEF BuildHookFails, Books, UpstreamRows, InAttempt
  <2>4. MetaRow'
    BY <1>9, <2>1 DEF BuildHookFails, Books, MetaRow, Unanswered, Answering, Early, Ended
  <2> QED
    BY <2>2, <2>3, <2>4 DEF Books
<1>10. CASE BuildFails
  BY <1>10, AttemptFailsBooks DEF BuildFails, InAttempt
<1>11. CASE BeforeTransformFails
  BY <1>11, AttemptFailsBooks DEF BeforeTransformFails, InAttempt
<1>12. CASE BuildUpstreamRequest \/ RunRewriteRequest
  BY <1>12 DEF BuildUpstreamRequest, RunRewriteRequest, Books, Registry, UpstreamRows, MetaRow, InAttempt, Unanswered, Answering, Early, Ended
<1>13. CASE Send
  BY <1>13 DEF Send, Books, Registry, UpstreamRows, MetaRow, InAttempt, Unanswered, Answering, Early, Ended
<1>14. CASE ForwardCancelled
  BY <1>14, AttemptFailsBooks DEF ForwardCancelled, ForwardFails, InAttempt
<1>15. CASE ForwardTimesOut
  BY <1>15, AttemptFailsBooks DEF ForwardTimesOut, ForwardFails, InAttempt
<1>16. CASE AfterUpstreamErrorContinues
  BY <1>16 DEF AfterUpstreamErrorContinues, Books, Registry, UpstreamRows, MetaRow, InAttempt, Unanswered, Answering, Early, Ended
<1>17. CASE RespondUpstreamErrorBreak
  <2>1. /\ \A i \in Upstreams : rows'[i] = rows[i]
        /\ rows'[Meta].sets \in {0, 1}
        /\ Meta \notin lost => rows'[Meta].st = "final" \/ wire'.refused
    <3>1. rows \in [Ids -> Row] /\ wire \in [n : Nat, code : Nat, refused : BOOLEAN]
          /\ rows[Meta].sets = 0
      BY <1>17 DEF RespondUpstreamErrorBreak, Books, MetaRow, Unanswered, IndInv, TypeOK
    <3>2. PICK code \in BreakStatuses \cup {IF status > 0 THEN status ELSE 502} :
             \/ Fail(rows, code, Internal)
             \/ wire' = [wire EXCEPT !.refused = TRUE] /\ UNCHANGED <<rows, outcome>>
      BY <1>17 DEF RespondUpstreamErrorBreak
    <3>3. CASE Fail(rows, code, Internal)
      BY <3>1, <3>3, MetaApart, FinishMetaEffect DEF Fail
    <3>4. CASE wire' = [wire EXCEPT !.refused = TRUE] /\ UNCHANGED <<rows, outcome>>
      BY <3>1, <3>4
    <3> QED
      BY <3>2, <3>3, <3>4
  <2>2. Registry'
    BY <1>17, <2>1 DEF RespondUpstreamErrorBreak, Books, Registry, InAttempt
  <2>3. UpstreamRows'
    BY <1>17, <2>1 DEF RespondUpstreamErrorBreak, Books, UpstreamRows, InAttempt
  <2>4. MetaRow'
    BY <1>17, <2>1 DEF RespondUpstreamErrorBreak, Books, MetaRow, Unanswered, Answering, Early, Ended
  <2> QED
    BY <2>2, <2>3, <2>4 DEF Books
<1>18. CASE ReturnFromAttempt
  <2>1. ret \in {"loop", "finish"} /\ Meta \in live' /\ cur \notin live' /\ Meta \notin Upstreams
        /\ rows[Meta].sets \in Nat
    BY <1>18, MetaApart DEF ReturnFromAttempt, Books, Registry, IndInv, TypeOK, Row
  <2>2. Registry'
    BY <1>18, <2>1 DEF ReturnFromAttempt, Books, Registry, InAttempt
  <2>3. UpstreamRows'
    BY <1>18, <2>1 DEF ReturnFromAttempt, Books, UpstreamRows, InAttempt
  <2>4. MetaRow'
    BY <1>18, <2>1 DEF ReturnFromAttempt, Books, MetaRow, Unanswered, Answering, Early, Ended
  <2> QED
    BY <2>2, <2>3, <2>4 DEF Books
<1>19. CASE RegisterUpstream
  <2>1. cur \in Upstreams /\ cur \in live' /\ Meta \notin Upstreams
    BY <1>19, CurrentAttempt, MetaApart DEF RegisterUpstream, InAttempt
  <2> QED
    BY <1>19, <2>1 DEF RegisterUpstream, Books, Registry, UpstreamRows, MetaRow, InAttempt, Unanswered, Answering, Early, Ended
<1> QED
  BY <1>1, <1>2, <1>3, <1>4, <1>5, <1>6, <1>7, <1>8, <1>9, <1>10, <1>11, <1>12, <1>13,
     <1>14, <1>15, <1>16, <1>17, <1>18, <1>19 DEF Attempt

\* none of the plugin,
LEMMA PluginBooks ==
    ASSUME IndInv, Books, Plugin PROVE Books'
<1>1. CASE BridgeRequestFails
  BY <1>1, AttemptFailsBooks DEF BridgeRequestFails, InAttempt
<1>2. CASE BridgeRequest
  BY <1>2 DEF BridgeRequest, Books, Registry, UpstreamRows, MetaRow, InAttempt, Unanswered, Answering, Early, Ended
<1> QED
  BY <1>1, <1>2 DEF Plugin

\* none of the answer,
LEMMA SucceedBooks ==
    ASSUME IndInv, Books, Succeed PROVE Books'
<1>1. CASE DecodeFails
  BY <1>1, EndBothBooks, ReasonFacts DEF DecodeFails, InAttempt
<1>2. CASE ClientWriteFails
  BY <1>2, EndBothBooks, ReasonFacts DEF ClientWriteFails, InAttempt
<1>3. CASE StartStream
  BY <1>3 DEF StartStream, Books, Registry, UpstreamRows, MetaRow, InAttempt, Unanswered, Answering, Early, Ended
<1>4. CASE StreamIsCancelled
  BY <1>4 DEF StreamIsCancelled, StreamEnds, Books, Registry, UpstreamRows, MetaRow, InAttempt, Unanswered, Answering, Early, Ended
<1>5. CASE StreamIdles
  BY <1>5 DEF StreamIdles, StreamEnds, Books, Registry, UpstreamRows, MetaRow, InAttempt, Unanswered, Answering, Early, Ended
<1>6. CASE ReplayFinishes
  BY <1>6 DEF ReplayFinishes, StreamEnds, Books, Registry, UpstreamRows, MetaRow, InAttempt, Unanswered, Answering, Early, Ended
<1>7. CASE ResolveUpstreamReason
  BY <1>7 DEF ResolveUpstreamReason, Books, Registry, UpstreamRows, MetaRow, InAttempt, Unanswered, Answering, Early, Ended
<1>8. CASE CompleteSuccess
  <2>1. stream.up \in Reasons
    BY DEF IndInv, TypeOK, Reasons
  <2> QED
    BY <1>8, <2>1, EndBothBooks DEF CompleteSuccess, InAttempt
<1> QED
  BY <1>1, <1>2, <1>3, <1>4, <1>5, <1>6, <1>7, <1>8 DEF Succeed

\* none of the deferred calls,
LEMMA FinishBooks ==
    ASSUME IndInv, Books, Finish PROVE Books'
<1>1. CASE FailAllProviders
  BY <1>1, EndBooks DEF FailAllProviders, Early
<1>2. CASE RunRequestFinished
  BY <1>2 DEF RunRequestFinished, Books, Registry, UpstreamRows, MetaRow, InAttempt, Unanswered, Answering, Early, Ended
<1>3. CASE Deregister
  <2>1. Meta \notin Upstreams
    BY MetaApart
  <2>2. Registry'
    BY <1>3, <2>1 DEF Deregister, Books, Registry, InAttempt
  <2>3. UpstreamRows'
    BY <1>3, <2>1 DEF Deregister, Books, UpstreamRows, InAttempt
  <2>4. MetaRow'
    BY <1>3, <2>1 DEF Deregister, Books, MetaRow, Unanswered, Answering, Early, Ended
  <2> QED
    BY <2>2, <2>3, <2>4 DEF Books
<1> QED
  BY <1>1, <1>2, <1>3 DEF Finish

\* none of the upstream,
LEMMA UpstreamBooks ==
    ASSUME IndInv, Books, Upstream PROVE Books'
<1>1. CASE Respond
  BY <1>1 DEF Respond, Books, Registry, UpstreamRows, MetaRow, InAttempt, Unanswered, Answering, Early, Ended
<1>2. CASE ForwardBreaks
  BY <1>2, AttemptFailsBooks DEF ForwardBreaks, ForwardFails, InAttempt
<1>3. CASE NonOKBodyEnds
  BY <1>3, AttemptFailsBooks DEF NonOKBodyEnds, InAttempt
<1>4. CASE BridgeFails
  BY <1>4, EndBothBooks, ReasonFacts DEF BridgeFails, InAttempt
<1>5. CASE BridgeResponse
  BY <1>5 DEF BridgeResponse, Books, Registry, UpstreamRows, MetaRow, InAttempt, Unanswered, Answering, Early, Ended
<1>6. CASE StreamEvent
  BY <1>6 DEF StreamEvent, Books, Registry, UpstreamRows, MetaRow, InAttempt, Unanswered, Answering, Early, Ended
<1>7. CASE FallSilent
  BY <1>7 DEF FallSilent, Books, Registry, UpstreamRows, MetaRow, InAttempt, Unanswered, Answering, Early, Ended
<1>8. CASE StreamFinishes
  BY <1>8 DEF StreamFinishes, StreamEnds, Books, Registry, UpstreamRows, MetaRow, InAttempt, Unanswered, Answering, Early, Ended
<1>9. CASE StreamBreaks
  BY <1>9 DEF StreamBreaks, StreamEnds, Books, Registry, UpstreamRows, MetaRow, InAttempt, Unanswered, Answering, Early, Ended
<1>10. CASE WroteRequest
  BY <1>10 DEF WroteRequest, Books, Registry, UpstreamRows, MetaRow, InAttempt, Unanswered, Answering, Early, Ended
<1>11. CASE DialTimesOut
  BY <1>11, AttemptFailsBooks DEF DialTimesOut, ForwardFails, InAttempt
<1> QED
  BY <1>1, <1>2, <1>3, <1>4, <1>5, <1>6, <1>7, <1>8, <1>9, <1>10, <1>11 DEF Upstream

\* none of the client,
LEMMA ClientBooks ==
    ASSUME IndInv, Books, Client PROVE Books'
<1>1. CASE StopReading
  BY <1>1 DEF StopReading, Books, Registry, UpstreamRows, MetaRow, InAttempt, Unanswered, Answering, Early, Ended
<1>2. CASE ResumeReading
  BY <1>2 DEF ResumeReading, Books, Registry, UpstreamRows, MetaRow, InAttempt, Unanswered, Answering, Early, Ended
<1>3. CASE Disconnect
  BY <1>3 DEF Disconnect, Books, Registry, UpstreamRows, MetaRow, InAttempt, Unanswered, Answering, Early, Ended
<1> QED
  BY <1>1, <1>2, <1>3 DEF Client

\* and none of the dashboard.
LEMMA DashboardBooks ==
    ASSUME Books, Dashboard PROVE Books'
<1>1. UNCHANGED flowVars
  BY DEF Dashboard, FindEntry, StoreStopReason, CallCancel, flowVars
<1> QED
  BY <1>1 DEF flowVars, Books, Registry, UpstreamRows, MetaRow

\* So no step does.
LEMMA StepKeepsBooks == IndInv /\ Books /\ [Next]_vars => Books'
<1>1. ASSUME Books, Terminated \/ UNCHANGED vars PROVE Books'
  BY <1>1 DEF Terminated, vars, Books, Registry, UpstreamRows, MetaRow
<1> QED
  BY <1>1, AcceptBooks, PrepareBooks, ScriptsBooks, AttemptBooks, PluginBooks,
     SucceedBooks, FinishBooks, UpstreamBooks, ClientBooks, DashboardBooks DEF Next

\* The books are in order at the start,
LEMMA InitBooks == Init => Books
<1> SUFFICES ASSUME Init PROVE Books
  OBVIOUS
<1>1. \A i \in Ids : rows[i] = AbsentRow
  BY DEF Init
<1>2. AbsentRow.st = "absent" /\ AbsentRow.sets = 0
  BY DEF AbsentRow
<1>3. Registry
  BY DEF Init, Registry, InAttempt
<1>4. UpstreamRows
  BY <1>1, <1>2, MetaApart DEF UpstreamRows
<1>5. MetaRow
  BY <1>1, <1>2, MetaApart DEF Init, MetaRow, Unanswered, Answering, Early, Ended
<1> QED
  BY <1>3, <1>4, <1>5 DEF Books

\* and in every reachable state.
LEMMA BooksHold == Spec => [](IndInv /\ Books)
<1>1. Init => IndInv /\ Books
  BY InitType, InitBooks
<1>2. IndInv /\ Books /\ [Next]_vars => (IndInv /\ Books)'
  BY StepKeepsType, StepKeepsBooks
<1> QED
  BY <1>1, <1>2, PTL DEF Spec

\* A row in flight is registered with liveRequests, so the dashboard can still
\* interrupt it, or is about to be, and at most one attempt is registered at a
\* time: no early return of run or runSingleAttempt leaks a row or an entry, and
\* only the panic of WriteHeader leaks a meta row.
THEOREM OpenRowsAreLiveHolds == Spec => []OpenRowsAreLive
<1>1. IndInv /\ Books => OpenRowsAreLive
  <2> SUFFICES ASSUME IndInv, Books PROVE OpenRowsAreLive
    OBVIOUS
  <2>1. ASSUME NEW i \in Ids \ lost, rows[i].st = "open"
        PROVE  i \in live \/ BeingRegistered(i) \/ (i = Meta /\ wire.refused)
    <3>1. CASE i = Meta
      BY <2>1, <3>1 DEF Books, MetaRow, Registry, Ended, BeingRegistered
    <3>2. CASE i \in Upstreams
      BY <2>1, <3>2 DEF Books, UpstreamRows, Registry, BeingRegistered
    <3> QED
      BY <3>1, <3>2 DEF Ids
  <2>2. live \cap Upstreams \subseteq {cur}
    BY DEF Books, Registry
  <2> QED
    BY <2>1, <2>2 DEF OpenRowsAreLive
<1> QED
  BY <1>1, BooksHold, PTL

\* An attempt's row is finished once, whichever of the early returns, the error
\* path or the success path gets there; the meta row too, unless a hook failed.
THEOREM RowsFinishOnceHolds == Spec => []RowsFinishOnce
<1>1. IndInv /\ Books => RowsFinishOnce
  <2> SUFFICES ASSUME IndInv, Books PROVE RowsFinishOnce
    OBVIOUS
  <2>1. pc \in Points /\ ret \in {"loop", "finish"} /\ rows[Meta].sets \in Nat
    BY MetaApart DEF IndInv, TypeOK, Row
  <2>2. \A i \in Upstreams : rows[i].sets <= 1
    BY DEF Books, UpstreamRows
  <2>3. rows[Meta].sets <= (IF hookAt = NoHookError THEN 1 ELSE 2)
    BY <2>1 DEF Books, MetaRow, Points, Unanswered, Answering, Early, Ended
  <2> QED
    BY <2>2, <2>3 DEF RowsFinishOnce
<1> QED
  BY <1>1, BooksHold, PTL

(* The forms a step takes.                                                 *)

\* The reasons a stream leaves for the rows it is about to finish.
StreamReasons ==
    /\ pc \in {"complete", "commit"} => stream.fin \in {EOF, Cancelled, ReadTimeout}
    /\ pc = "commit" => /\ stream.up \in FinishReasons
                        /\ stream.up = DashboardCancelled => {cur, Meta} \cap stop # {}

\* The steps that write no row and no response.
Quiet ==
    \/ RegisterMeta \/ ExtractModel \/ NewSession
    \/ ResolveAndRewriteModel \/ ResolveAndSortCandidates \/ RunBeforeMetaRequest
    \/ LeaveLoop \/ SkipUnknownCandidate \/ StartAttempt \/ RunBeforeRequest
    \/ WaitHookDelay \/ SkipCandidate \/ RegisterUpstream \/ BuildUpstreamRequest
    \/ BridgeRequest \/ RunRewriteRequest \/ Send \/ WroteRequest
    \/ AfterUpstreamErrorContinues \/ ReturnFromAttempt
    \/ StreamIsCancelled \/ StreamIdles \/ ReplayFinishes \/ ResolveUpstreamReason
    \/ RunRequestFinished \/ Deregister
    \/ Respond \/ BridgeResponse \/ StreamEvent \/ FallSilent \/ StreamFinishes
    \/ StreamBreaks
    \/ Client \/ Dashboard \/ Terminated \/ UNCHANGED vars

\* The request fails outside of an attempt: a response and a reason on its row.
RefusePoints == (Early \ {"accept"}) \cup {"beforeRequest", "afterError", "allFail"}
Refused(code, fin) ==
    /\ Fail(rows, code, fin)
    /\ pc \in RefusePoints
    /\ IF pc = "beforeRequest" THEN pc' = "allFail" /\ fin = Internal
       ELSE IF pc = "afterError" THEN pc' = "return" /\ ret' = "finish"
       ELSE pc' = "finish"
    /\ pc = "allFail" => fin = IF RequestCancelled THEN Cancelled ELSE Internal
    /\ UNCHANGED <<configVars, cur, stream, seen, actorVars>>

\* An attempt fails: a reason on its row, none on the request's.
AttemptFailed(code, fin) ==
    /\ rows' = Write(rows, cur, code, fin)
    /\ pc \in InAttempt /\ pc' = "afterError"
    /\ pc # "nonOK" => code = 0
    /\ fin = DashboardCancelled => {cur, Meta} \cap stop # {}
    /\ UNCHANGED <<configVars, cur, outcome, wire, seen, actorVars>>

\* Attempt and request end together.
BothEnded(upCode, upFin, code, fin) ==
    /\ FinishMeta(Write(rows, cur, upCode, upFin), code, fin)
    /\ pc \in InAttempt /\ pc' = "return" /\ ret' = "finish"
    /\ pc \in {"build", "rewrite"} => upCode # 200
    /\ pc \notin {"inserted", "bridge", "forward"}
    /\ IF pc \in Answering THEN wire' = wire /\ code = 200 ELSE wire' = Responded(code)
    /\ upFin = DashboardCancelled => {cur, Meta} \cap stop # {}
    /\ fin = DashboardCancelled => Meta \in stop
    /\ UNCHANGED <<configVars, cur, seen, actorVars>>

\* WriteHeader panics instead of answering: nothing is written down.
BreakRefused ==
    /\ pc = "afterError" /\ pc' = "return" /\ ret' = "finish"
    /\ wire' = [wire EXCEPT !.refused = TRUE]
    /\ UNCHANGED <<configVars, cur, rows, outcome, stream, seen, actorVars>>

\* Every step has one of these forms.
RowStep ==
    \/ BreakRefused
    \/ Quiet \/ Reject \/ InsertMetaRequest \/ AuthenticateAndBackfill \/ StartStream
    \/ InsertUpstreamAttempt
    \/ \E code \in Nat, fin \in FinishReasons \ {DashboardCancelled} : Refused(code, fin)
    \/ \E code \in Nat, fin \in FinishReasons : AttemptFailed(code, fin)
    \/ \E upCode, code \in Nat, upFin, fin \in FinishReasons :
          BothEnded(upCode, upFin, code, fin)


\* What a stream leaves is settled by the steps that end it.
LEMMA StepKeepsStreamReasons ==
    IndInv /\ StreamReasons /\ [Next]_vars => StreamReasons'
<1> SUFFICES ASSUME IndInv, StreamReasons, [Next]_vars PROVE StreamReasons'
  OBVIOUS
<1>1. CASE Accept
  BY <1>1 DEF Accept, Reject, InsertMetaRequest, StreamReasons
<1>2. CASE Prepare
  BY <1>2 DEF Prepare, AuthFails, AuthenticateAndBackfill, RouteNotFound, RegisterMeta,
     ExtractModelFails, ExtractModel, SetBodyModelFails, ModelHookFails, ResolveAndRewriteModel, CandidatesFail, CandidatesHookFails,
     ResolveAndSortCandidates, BeforeMetaHookFails, RespondScriptResponse,
     RunBeforeMetaRequest, End, EndByHook, StreamReasons
<1>3. CASE Attempt
  BY <1>3 DEF Attempt, LeaveLoop, SkipUnknownCandidate, StartAttempt, BeforeRequestFails,
     RunBeforeRequest, WaitHookDelay, SkipCandidate, InsertUpstreamAttempt, BuildHookFails,
     BuildFails, BeforeTransformFails, BuildUpstreamRequest, RunRewriteRequest,
     RegisterUpstream, Send, ForwardCancelled, ForwardTimesOut, AfterUpstreamErrorContinues,
     RespondUpstreamErrorBreak, ReturnFromAttempt, AttemptFails, ForwardFails,
     IndInv, TypeOK, StreamReasons
<1>4. CASE Succeed
  <2>1. ASSUME NEW e, StreamEnds(e) PROVE StreamReasons'
    <3>1. StreamReason(e) \in {EOF, Cancelled, ReadTimeout}
      BY DEF StreamReason
    <3> QED
      BY <2>1, <3>1 DEF StreamEnds, StreamReasons, IndInv, TypeOK
  <2>2. CASE ResolveUpstreamReason
    <3>1. /\ StreamFallback \in {EOF, Cancelled, ReadTimeout, StreamError}
          /\ StreamFallback # DashboardCancelled
      BY <2>2 DEF ResolveUpstreamReason, StreamFallback, StreamReasons, EOF, Cancelled,
         ReadTimeout, StreamError, DashboardCancelled
    <3>2. /\ FinishReasonFor(cur, StreamFallback) \in FinishReasons
          /\ FinishReasonFor(cur, StreamFallback) = DashboardCancelled =>
                {cur, Meta} \cap stop # {}
      BY <3>1 DEF FinishReasonFor, Stopped, FinishReasons, EOF, Cancelled, ReadTimeout,
         StreamError, DashboardCancelled, Internal
    <3> QED
      BY <2>2, <3>2 DEF ResolveUpstreamReason, StreamReasons, IndInv, TypeOK
  <2>3. CASE DecodeFails \/ ClientWriteFails \/ StartStream \/ CompleteSuccess
    BY <2>3 DEF DecodeFails, ClientWriteFails, StartStream, CompleteSuccess, EndBoth,
       StreamReasons
  <2> QED
    BY <1>4, <2>1, <2>2, <2>3
       DEF Succeed, StreamIsCancelled, StreamIdles, ReplayFinishes
<1>5. CASE Finish
  BY <1>5 DEF Finish, FailAllProviders, RunRequestFinished, Deregister, End, StreamReasons
<1>6. CASE Upstream
  <2>1. ASSUME NEW e, StreamEnds(e) PROVE StreamReasons'
    <3>1. StreamReason(e) \in {EOF, Cancelled, ReadTimeout}
      BY DEF StreamReason
    <3> QED
      BY <2>1, <3>1 DEF StreamEnds, StreamReasons, IndInv, TypeOK
  <2>2. CASE WroteRequest \/ Respond \/ BridgeResponse \/ StreamEvent \/ FallSilent
    BY <2>2 DEF WroteRequest, Respond, BridgeResponse, StreamEvent, FallSilent, StreamReasons
  <2>3. CASE DialTimesOut \/ ForwardBreaks \/ NonOKBodyEnds \/ BridgeFails
    BY <2>3 DEF DialTimesOut, ForwardBreaks, NonOKBodyEnds, BridgeFails, AttemptFails, ForwardFails,
       EndBoth, StreamReasons
  <2> QED
    BY <1>6, <2>1, <2>2, <2>3 DEF Upstream, StreamFinishes, StreamBreaks
<1>7. CASE Client
  BY <1>7 DEF Client, StopReading, ResumeReading, Disconnect, IndInv, TypeOK, StreamReasons
<1>8. CASE Dashboard
  <2>1. UNCHANGED flowVars /\ stop \subseteq stop'
    BY <1>8 DEF Dashboard, FindEntry, StoreStopReason, CallCancel
  <2> QED
    BY <2>1 DEF flowVars, StreamReasons
<1>9. CASE Terminated \/ UNCHANGED vars
  BY <1>9 DEF Terminated, vars, StreamReasons
<1>10. CASE Scripts \/ Plugin
  BY <1>10 DEF Scripts, Plugin, NewSessionFails, NewSession, End, BridgeRequestFails,
     BridgeRequest, AttemptFails, StreamReasons
<1> QED
  BY <1>1, <1>2, <1>3, <1>4, <1>5, <1>6, <1>7, <1>8, <1>9, <1>10 DEF Next

\* A reason found by finishReasonFor is the dashboard's only if somebody stopped
\* the row or the request.
LEMMA FinishReasonForFacts ==
    ASSUME NEW i, NEW fallback \in FinishReasons \ {DashboardCancelled}
    PROVE  /\ FinishReasonFor(i, fallback) \in FinishReasons
           /\ FinishReasonFor(i, fallback) = DashboardCancelled =>
                 {i, Meta} \cap stop # {}
  BY DEF FinishReasonFor, Stopped, FinishReasons, DashboardCancelled, Internal

\* The codes of the reasons, apart from one another.
LEMMA Fallbacks ==
    /\ {Internal, Cancelled, EOF, HeadersTimeout, ReadTimeout, StreamError}
          \subseteq FinishReasons \ {DashboardCancelled}
    /\ FinishReasons \subseteq Reasons
  BY DEF Reasons, FinishReasons, NoReason, Internal, Cancelled, EOF, HeadersTimeout,
         ReadTimeout, StreamError, DashboardCancelled

\* Every step has one of the forms.
LEMMA StepForms ==
    ASSUME IndInv, StreamReasons, [Next]_vars PROVE RowStep
<1> USE Fallbacks
<1>1. CASE Accept
  BY <1>1 DEF Accept, RowStep
<1>2. ASSUME NEW code \in Nat, NEW fin \in {Internal, EOF}, End(code, fin),
             pc \in Early \ {"accept"}
      PROVE  RowStep
  <2>1. Refused(code, fin)
    BY <1>2 DEF End, Refused, RefusePoints, Early
  <2> QED
    BY <2>1 DEF RowStep
<1>3. ASSUME NEW r, EndByHook(r), pc \in Early \ {"accept"} PROVE RowStep
  <2>1. HookStatus(r) \in Nat
    BY DEF HookStatus
  <2>2. Refused(HookStatus(r), Internal)
    BY <1>3 DEF EndByHook, FailHook, Refused, RefusePoints, Early
  <2> QED
    BY <2>1, <2>2 DEF RowStep
<1>4. CASE Prepare
  <2>1. CASE AuthFails
    BY <2>1, <1>2 DEF AuthFails, Early
  <2>2. CASE RouteNotFound
    BY <2>2, <1>2 DEF RouteNotFound, Early
  <2>3. CASE ExtractModelFails \/ SetBodyModelFails
    BY <2>3, <1>2 DEF ExtractModelFails, SetBodyModelFails, Early
  <2>4. CASE CandidatesFail
    BY <2>4, <1>2 DEF CandidatesFail, Early
  <2>5. CASE RespondScriptResponse
    BY <2>5, <1>2, FlowAssumption DEF RespondScriptResponse, Early
  <2>6. CASE ModelHookFails \/ CandidatesHookFails \/ BeforeMetaHookFails
    BY <2>6, <1>3 DEF ModelHookFails, CandidatesHookFails, BeforeMetaHookFails, Early
  <2> QED
    BY <1>4, <2>1, <2>2, <2>3, <2>4, <2>5, <2>6 DEF Prepare, RowStep, Quiet
<1>5. ASSUME NEW code \in Nat, NEW fin \in FinishReasons, AttemptFails(code, fin),
             pc \in InAttempt, pc # "nonOK" => code = 0,
             fin = DashboardCancelled => {cur, Meta} \cap stop # {}
      PROVE  RowStep
  <2>1. AttemptFailed(code, fin)
    BY <1>5 DEF AttemptFails, AttemptFailed
  <2> QED
    BY <2>1 DEF RowStep
<1>6. ASSUME NEW e, ForwardFails(e), pc \in {"forward", "sending", "waiting"}
      PROVE  RowStep
  <2>1. ForwardReason(e) \in FinishReasons \ {DashboardCancelled}
    BY DEF ForwardReason
  <2>2. /\ FinishReasonFor(cur, ForwardReason(e)) \in FinishReasons
        /\ FinishReasonFor(cur, ForwardReason(e)) = DashboardCancelled =>
              {cur, Meta} \cap stop # {}
    BY <2>1, FinishReasonForFacts
  <2> QED
    BY <1>6, <1>5, <2>2 DEF ForwardFails, InAttempt
<1>7. CASE Attempt
  <2>1. CASE BeforeRequestFails
    <3>1. PICK r \in HookErrors : FailHook(rows, r)
      BY <2>1 DEF BeforeRequestFails
    <3>2. HookStatus(r) \in Nat
      BY DEF HookStatus
    <3>3. Refused(HookStatus(r), Internal)
      BY <2>1, <3>1 DEF BeforeRequestFails, FailHook, Refused, RefusePoints
    <3> QED
      BY <3>2, <3>3 DEF RowStep
  <2>2. CASE BuildHookFails
    <3>1. PICK r \in HookErrors : FailHook(Write(rows, cur, HookStatus(r), Internal), r)
      BY <2>2 DEF BuildHookFails
    <3>2. HookStatus(r) \in Nat /\ HookStatus(r) # 200
      BY DEF HookStatus
    <3>3. Internal # DashboardCancelled
      BY DEF Internal, DashboardCancelled
    <3>4. BothEnded(HookStatus(r), Internal, HookStatus(r), Internal)
      BY <2>2, <3>1, <3>2, <3>3
         DEF BuildHookFails, FailHook, Fail, CountFailure, BothEnded, InAttempt, Answering
    <3> QED
      BY <3>2, <3>4 DEF RowStep
  <2>3. CASE BuildFails \/ BeforeTransformFails
    BY <2>3, <1>5 DEF BuildFails, BeforeTransformFails, InAttempt
  <2>4. CASE ForwardCancelled \/ ForwardTimesOut
    BY <2>4, <1>6 DEF ForwardCancelled, ForwardTimesOut
  <2>5. CASE RespondUpstreamErrorBreak
    <3>1. PICK code \in BreakStatuses \cup {IF status > 0 THEN status ELSE 502} :
             \/ Fail(rows, code, Internal)
             \/ wire' = [wire EXCEPT !.refused = TRUE] /\ UNCHANGED <<rows, outcome>>
      BY <2>5 DEF RespondUpstreamErrorBreak
    <3>2. code \in Nat
      BY FlowAssumption DEF IndInv, TypeOK
    <3>3. CASE Fail(rows, code, Internal)
      <4>1. Refused(code, Internal)
        BY <2>5, <3>3 DEF RespondUpstreamErrorBreak, Refused, RefusePoints
      <4> QED
        BY <3>2, <4>1 DEF RowStep
    <3>4. CASE wire' = [wire EXCEPT !.refused = TRUE] /\ UNCHANGED <<rows, outcome>>
      <4>1. BreakRefused
        BY <2>5, <3>4 DEF RespondUpstreamErrorBreak, BreakRefused
      <4> QED
        BY <4>1 DEF RowStep
    <3> QED
      BY <3>1, <3>3, <3>4
  <2> QED
    BY <1>7, <2>1, <2>2, <2>3, <2>4, <2>5 DEF Attempt, RowStep, Quiet
<1>8. ASSUME NEW upFin \in FinishReasons, NEW code \in Nat, NEW fin \in FinishReasons,
             EndBoth(200, upFin, code, fin),
             pc \in {"headers", "drain", "commit"}, UNCHANGED <<stream, configVars, actorVars>>,
             IF pc \in Answering THEN wire' = wire /\ code = 200 ELSE wire' = Responded(code),
             upFin = DashboardCancelled => {cur, Meta} \cap stop # {},
             fin = DashboardCancelled => Meta \in stop
      PROVE  RowStep
  <2>1. BothEnded(200, upFin, code, fin)
    BY <1>8 DEF EndBoth, BothEnded, InAttempt
  <2> QED
    BY <2>1 DEF RowStep
<1>9. CASE Succeed
  <2>1. CASE DecodeFails
    BY <2>1, <1>8 DEF DecodeFails, EndBoth, Answering
  <2>2. CASE ClientWriteFails
    BY <2>2, <1>8 DEF ClientWriteFails, EndBoth, Answering
  <2>3. CASE CompleteSuccess
    <3>1. StreamFallback \in FinishReasons \ {DashboardCancelled}
      BY <2>3 DEF CompleteSuccess, StreamFallback, StreamReasons
    <3>2. /\ FinishReasonFor(Meta, StreamFallback) \in FinishReasons
          /\ FinishReasonFor(Meta, StreamFallback) = DashboardCancelled => Meta \in stop
      BY <3>1, FinishReasonForFacts
    <3> QED
      BY <2>3, <1>8, <3>2 DEF CompleteSuccess, EndBoth, Answering, StreamReasons
  <2> QED
    BY <1>9, <2>1, <2>2, <2>3 DEF Succeed, RowStep, Quiet
<1>10. CASE Finish
  <2>1. CASE FailAllProviders
    <3>1. Refused(502, IF RequestCancelled THEN Cancelled ELSE Internal)
      BY <2>1 DEF FailAllProviders, End, Refused, RefusePoints, Early
    <3> QED
      BY <3>1 DEF RowStep
  <2> QED
    BY <1>10, <2>1 DEF Finish, RowStep, Quiet
<1>11. CASE Upstream
  <2>1. CASE DialTimesOut \/ ForwardBreaks
    BY <2>1, <1>6 DEF DialTimesOut, ForwardBreaks
  <2>2. CASE NonOKBodyEnds
    BY <2>2, <1>5 DEF NonOKBodyEnds, InAttempt, IndInv, TypeOK
  <2>3. CASE BridgeFails
    BY <2>3, <1>8 DEF BridgeFails, EndBoth, Answering
  <2> QED
    BY <1>11, <2>1, <2>2, <2>3 DEF Upstream, RowStep, Quiet
<1>12. CASE Scripts
  <2>1. CASE NewSessionFails
    BY <2>1, <1>2 DEF NewSessionFails, Early
  <2> QED
    BY <1>12, <2>1 DEF Scripts, RowStep, Quiet
<1>13. CASE Plugin
  <2>1. CASE BridgeRequestFails
    BY <2>1, <1>5 DEF BridgeRequestFails, InAttempt
  <2> QED
    BY <1>13, <2>1 DEF Plugin, RowStep, Quiet
<1> QED
  BY <1>1, <1>4, <1>7, <1>9, <1>10, <1>11, <1>12, <1>13 DEF Next, RowStep, Quiet

LatePoints == {"inserted", "build", "bridge", "rewrite", "forward", "afterError",
               "return", "loop", "allFail"} \cup Ended
Working == pc \in (Unanswered \ {"accept"}) \cup Answering \/ (pc = "return" /\ ret = "loop")

\* A quiet step moves the flow on, or cancels something.
LEMMA QuietEffect ==
    ASSUME IndInv, Quiet
    PROVE  /\ UNCHANGED <<rows, outcome, wire, lost, cur>>
           /\ stop \subseteq stop' /\ (RequestCancelled => RequestCancelled')
           /\ pc \in InAttempt <=> pc' \in InAttempt
           /\ pc' \in Answering => pc \in Answering
           /\ pc \in {"deregister", "done"} => pc' \in {"deregister", "done"}
           /\ seen' = seen \/ (seen' = outcome /\ pc' = "deregister")
           /\ RequestCancelled /\ pc \in LatePoints => pc' \in LatePoints
           /\ pc' = "accept" => pc = "accept"
           /\ Working' => Working
           /\ pc' = "allFail" => pc = "allFail" \/ Working
<1> USE DEF RequestCancelled, InAttempt, Answering, LatePoints, Working, Unanswered, Early, Ended
<1>1. CASE \/ RegisterMeta \/ ExtractModel \/ NewSession
           \/ ResolveAndRewriteModel \/ ResolveAndSortCandidates \/ RunBeforeMetaRequest
  BY <1>1 DEF RegisterMeta, ExtractModel, NewSession, ResolveAndRewriteModel, ResolveAndSortCandidates, RunBeforeMetaRequest
<1>2. CASE LeaveLoop \/ SkipUnknownCandidate \/ StartAttempt
  BY <1>2 DEF LeaveLoop, SkipUnknownCandidate, StartAttempt, NextCandidate, Exhausted
<1>3. CASE RunBeforeRequest \/ WaitHookDelay \/ SkipCandidate
  BY <1>3 DEF RunBeforeRequest, WaitHookDelay, SkipCandidate, NextCandidate
<1>4. CASE \/ RegisterUpstream \/ BuildUpstreamRequest \/ BridgeRequest
           \/ RunRewriteRequest \/ Send \/ WroteRequest
  BY <1>4 DEF RegisterUpstream, BuildUpstreamRequest, BridgeRequest, RunRewriteRequest, Send,
     WroteRequest, AttemptCancelled
<1>5. CASE AfterUpstreamErrorContinues \/ ReturnFromAttempt
  BY <1>5 DEF AfterUpstreamErrorContinues, ReturnFromAttempt, IndInv, TypeOK
<1>6. CASE StreamIsCancelled \/ StreamIdles \/ ReplayFinishes \/ StreamFinishes \/ StreamBreaks
  BY <1>6 DEF StreamIsCancelled, StreamIdles, ReplayFinishes, StreamFinishes, StreamBreaks, StreamEnds
<1>7. CASE ResolveUpstreamReason \/ Respond \/ BridgeResponse \/ StreamEvent \/ FallSilent
  BY <1>7 DEF ResolveUpstreamReason, Respond, BridgeResponse, StreamEvent, FallSilent
<1>8. CASE RunRequestFinished \/ Deregister
  BY <1>8 DEF RunRequestFinished, Deregister
<1>9. CASE Client
  BY <1>9 DEF Client, StopReading, ResumeReading, Disconnect
<1>10. CASE Dashboard
  <2>1. UNCHANGED <<flowVars, gone>> /\ stop \subseteq stop' /\ cancelled \subseteq cancelled'
    BY <1>10 DEF Dashboard, FindEntry, StoreStopReason, CallCancel, flowVars
  <2> QED
    BY <2>1 DEF flowVars
<1>11. CASE Terminated \/ UNCHANGED vars
  BY <1>11 DEF Terminated, vars
<1> QED
  BY <1>1, <1>2, <1>3, <1>4, <1>5, <1>6, <1>7, <1>8, <1>9, <1>10, <1>11 DEF Quiet

(* What the client was told and what the meta row says.                    *)

\* The in-memory outcome mirrors a finished meta row, the requestFinished hook is
\* given that outcome, and a single response carries its status.
Verdict ==
    /\ rows[Meta].st = "final" =>
          /\ Meta \notin lost /\ outcome.set
          /\ outcome.code = rows[Meta].code /\ outcome.fin = rows[Meta].fin
    /\ seen.set => pc \in {"deregister", "done"} /\ seen = outcome
    /\ wire.n = 0 => ~outcome.set
    /\ wire.n = 1 /\ outcome.set => wire.code = Shown(outcome.code)
    /\ pc \in Answering => wire.n = 1 /\ wire.code = 200

\* Finishing the meta row writes row and mirror alike.
LEMMA FinishMetaMirrors ==
    ASSUME NEW rs \in [Ids -> Row], NEW code, NEW fin, FinishMeta(rs, code, fin),
           rs[Meta].st = "final" => Meta \notin lost
    PROVE  /\ outcome'.set /\ outcome'.code = code /\ outcome'.fin = fin
           /\ rows'[Meta].st = "final" =>
                 Meta \notin lost /\ rows'[Meta].code = code /\ rows'[Meta].fin = fin
<1>1. Meta \in Ids /\ rs[Meta] \in Row
  BY MetaApart
<1>2. Closed(rs[Meta], code, fin).code = code /\ Closed(rs[Meta], code, fin).fin = fin
  BY <1>1 DEF Closed, Row
<1> QED
  BY <1>1, <1>2 DEF FinishMeta, Write

\* Every step keeps client, record and hook in agreement.
LEMMA StepKeepsVerdict ==
    ASSUME IndInv, Books, Answers, StreamReasons, Verdict, [Next]_vars PROVE Verdict'
<1>1. rows \in [Ids -> Row] /\ wire \in [n : Nat, code : Nat, refused : BOOLEAN] /\ Meta \in Ids
  BY MetaApart DEF IndInv, TypeOK
<1>2. CASE Quiet
  BY <1>2, QuietEffect DEF Verdict
<1>3. CASE Reject
  BY <1>3, <1>1 DEF Reject, Verdict, Responded, Answers, Answering, Unanswered, Early
<1>4. CASE InsertMetaRequest
  <2>1. rows'[Meta].st # "final" \/ rows' = rows
    <3>1. Opened(FALSE, 0, RequestCancelled).st = "open"
      BY DEF Opened, AbsentRow
    <3> QED
      BY <1>4, <1>1, <3>1 DEF InsertMetaRequest, Insert
  <2> QED
    BY <1>4, <2>1 DEF InsertMetaRequest, Verdict, Answering
<1>5. CASE AuthenticateAndBackfill
  <2>1. /\ rows'[Meta].st = rows[Meta].st /\ rows'[Meta].code = rows[Meta].code
        /\ rows'[Meta].fin = rows[Meta].fin
    BY <1>5, <1>1 DEF AuthenticateAndBackfill, Row
  <2> QED
    BY <1>5, <2>1 DEF AuthenticateAndBackfill, Verdict, Answering
<1>6. CASE StartStream
  BY <1>6, <1>1 DEF StartStream, Verdict, Responded, Shown, Informational, Answers, Answering,
     Unanswered
<1>7. CASE InsertUpstreamAttempt
  <2>1. cur' # Meta
    BY <1>7, MaxTotalAttemptsAssumption DEF InsertUpstreamAttempt, IndInv, TypeOK, Meta
  <2>2. Insert(cur', Opened(TRUE, idx, RequestCancelled))
    BY <1>7 DEF InsertUpstreamAttempt
  <2>3. rows'[Meta] = rows[Meta]
    BY <1>1, <2>1, <2>2 DEF Insert
  <2> QED
    BY <1>7, <2>3 DEF InsertUpstreamAttempt, Verdict, Answering
<1>8. ASSUME NEW code \in Nat, NEW fin \in FinishReasons, Refused(code, fin)
      PROVE  Verdict'
  <2>1. /\ outcome'.set /\ outcome'.code = code /\ outcome'.fin = fin
        /\ rows'[Meta].st = "final" =>
              Meta \notin lost /\ rows'[Meta].code = code /\ rows'[Meta].fin = fin
    BY <1>8, <1>1, FinishMetaMirrors DEF Refused, Fail, Verdict
  <2>2. wire'.n # 0 /\ (wire'.n = 1 => wire'.code = Shown(code))
    BY <1>8, <1>1 DEF Refused, Fail, Responded
  <2>3. pc \notin {"deregister", "done"} /\ pc' \notin Answering
    BY <1>8 DEF Refused, RefusePoints, Early, Answering
  <2> QED
    BY <1>8, <2>1, <2>2, <2>3 DEF Refused, Verdict
<1>9. ASSUME NEW code \in Nat, NEW fin \in FinishReasons, AttemptFailed(code, fin)
      PROVE  Verdict'
  <2>1. rows'[Meta] = rows[Meta]
    BY <1>9, <1>1, CurrentAttempt, WriteEffect DEF AttemptFailed
  <2> QED
    BY <1>9, <2>1 DEF AttemptFailed, Verdict, InAttempt, Answering
<1>10. ASSUME NEW upCode \in Nat, NEW code \in Nat, NEW upFin \in FinishReasons,
              NEW fin \in FinishReasons, BothEnded(upCode, upFin, code, fin)
       PROVE  Verdict'
  <2> DEFINE W == Write(rows, cur, upCode, upFin)
  <2>1. pc \in InAttempt
    BY <1>10 DEF BothEnded
  <2>2. W \in [Ids -> Row] /\ W[Meta] = rows[Meta]
    BY <1>1, <2>1, CurrentAttempt, WriteType, WriteEffect, Fallbacks
  <2>3. FinishMeta(W, code, fin)
    BY <1>10 DEF BothEnded
  <2> HIDE DEF W
  <2>4. /\ outcome'.set /\ outcome'.code = code /\ outcome'.fin = fin
        /\ rows'[Meta].st = "final" =>
              Meta \notin lost /\ rows'[Meta].code = code /\ rows'[Meta].fin = fin
    BY <2>2, <2>3, FinishMetaMirrors DEF Verdict
  <2>5. wire'.n # 0 /\ (wire'.n = 1 => wire'.code = Shown(code))
    <3>1. CASE pc \in Answering
      <4>1. wire' = wire /\ code = 200 /\ wire.n = 1 /\ wire.code = 200
        BY <1>10, <3>1 DEF BothEnded, Verdict
      <4> QED
        BY <4>1 DEF Shown
    <3>2. CASE pc \notin Answering
      <4>1. wire' = Responded(code)
        BY <1>10, <3>2 DEF BothEnded
      <4> QED
        BY <1>1, <4>1 DEF Responded
    <3> QED
      BY <3>1, <3>2
  <2>6. pc \notin {"deregister", "done"} /\ pc' \notin Answering
    BY <1>10 DEF BothEnded, InAttempt, Answering
  <2> QED
    BY <1>10, <2>4, <2>5, <2>6 DEF BothEnded, Verdict
<1>11. CASE BreakRefused
  BY <1>11, <1>1 DEF BreakRefused, Verdict, Answering
<1> QED
  BY <1>2, <1>3, <1>4, <1>5, <1>6, <1>7, <1>8, <1>9, <1>10, <1>11, StepForms DEF RowStep

\* What the later proofs build on.
Base == IndInv /\ Books /\ Answers /\ StreamReasons

LEMMA BaseHolds == Spec => []Base
<1>1. Init => StreamReasons
  BY DEF Init, StreamReasons
<1>2. IndInv /\ StreamReasons /\ [Next]_vars => StreamReasons'
  BY StepKeepsStreamReasons
<1>3. Spec => []IndInv
  BY InitType, StepKeepsType, PTL DEF Spec
<1> QED
  BY <1>1, <1>2, <1>3, BooksHold, AnswersHolds, PTL DEF Spec, Base

\* Client, record and hook agree in every reachable state.
LEMMA VerdictHolds == Spec => []Verdict
<1>1. Init => Verdict
  <2> SUFFICES ASSUME Init PROVE Verdict
    OBVIOUS
  <2>1. rows[Meta].st = "absent"
    BY MetaApart DEF Init, AbsentRow
  <2> QED
    BY <2>1 DEF Init, Verdict, Unset, Answering
<1>2. Base /\ Verdict /\ [Next]_vars => Verdict'
  BY StepKeepsVerdict DEF Base
<1> QED
  BY <1>1, <1>2, BaseHolds, PTL DEF Spec

\* Whenever the client got one response, its status is the one on the request's
\* row, or 200 for an informational one: the many places that write both (writeGatewayError and failMeta, the
\* committed headers and completeGatewaySuccess) never disagree.
THEOREM ResponseMatchesRecordHolds == Spec => []ResponseMatchesRecord
<1>1. Verdict => ResponseMatchesRecord
  BY DEF Verdict, ResponseMatchesRecord, Shown
<1> QED
  BY <1>1, VerdictHolds, PTL

\* Every run that gets as far as its deferred calls has answered its client, unless
\* WriteHeader refused the status a hook broke with: then it says nothing, and
\* neither its memory nor its row says that the request is over.  Only a failed
\* hook makes it answer twice, never more (writeGatewayError and friends against
\* every early return of gatewayFlow.run).
THEOREM AnsweredHolds == Spec => []Answered
<1>1. Base /\ Verdict => Answered
  <2> SUFFICES ASSUME Base, Verdict PROVE Answered
    OBVIOUS
  <2>1. pc \in Points /\ ret \in {"loop", "finish"} /\ Answers
    BY DEF Base, IndInv, TypeOK
  <2> QED
    BY <2>1 DEF Verdict, Answers, Answered, Unanswered, Answering, Early, Points
<1> QED
  BY <1>1, BaseHolds, VerdictHolds, PTL

\* What requestFinished is told from memory (metaOutcome) is what the request's
\* row says, although the flow never reads it back and rows may be written twice.
THEOREM HookSeesRecordHolds == Spec => []HookSeesRecord
<1>1. Verdict => HookSeesRecord
  BY DEF Verdict, HookSeesRecord
<1> QED
  BY <1>1, VerdictHolds, PTL

(* Who is named as the one who ended a request.                            *)

\* Writing a reason touches one row.
LEMMA WriteFin ==
    ASSUME NEW rs \in [Ids -> Row], NEW i \in Ids, NEW code, NEW fin, NEW j \in Ids
    PROVE  Write(rs, i, code, fin)[j].fin = rs[j].fin
              \/ (j = i /\ Write(rs, i, code, fin)[j].fin = fin)
<1>1. rs[i] \in Row
  OBVIOUS
<1>2. Closed(rs[i], code, fin).fin = fin
  BY <1>1 DEF Closed, Row
<1> QED
  BY <1>2 DEF Write

\* A row is opened without a reason.
LEMMA InsertFin ==
    ASSUME rows \in [Ids -> Row], NEW i \in Ids, NEW user, NEW cand, NEW l,
           Insert(i, Opened(user, cand, l)), NEW j \in Ids
    PROVE  rows'[j].fin = rows[j].fin \/ rows'[j].fin = NoReason
<1>1. Opened(user, cand, l).fin = NoReason
  BY DEF Opened, AbsentRow
<1>2. rows' = rows \/ rows' = [rows EXCEPT ![i] = Opened(user, cand, l)]
  BY DEF Insert
<1> QED
  BY <1>1, <1>2

\* No step names the dashboard without an interrupt.
LEMMA StepKeepsAttribution ==
    ASSUME Base, InterruptAttribution, [Next]_vars PROVE InterruptAttribution'
<1>0. NoReason # DashboardCancelled
  BY DEF NoReason, DashboardCancelled
<1>1. rows \in [Ids -> Row] /\ Meta \in Ids /\ cur \in Ids
  BY MetaApart, IdsFacts DEF Base, IndInv, TypeOK
<1>2. CASE Quiet
  <2>1. rows' = rows /\ stop \subseteq stop'
    BY <1>2, QuietEffect DEF Base
  <2> QED
    BY <2>1 DEF InterruptAttribution
<1>3. CASE Reject \/ StartStream \/ BreakRefused
  BY <1>3 DEF Reject, StartStream, BreakRefused, InterruptAttribution
<1>4. CASE InsertMetaRequest
  BY <1>4, <1>0, <1>1, InsertFin DEF InsertMetaRequest, InterruptAttribution
<1>5. CASE AuthenticateAndBackfill
  <2>1. \A i \in Ids : rows'[i].fin = rows[i].fin
    BY <1>5, <1>1 DEF AuthenticateAndBackfill, Row
  <2> QED
    BY <1>5, <2>1 DEF AuthenticateAndBackfill, InterruptAttribution
<1>6. CASE InsertUpstreamAttempt
  <2>1. cur' \in Ids
    BY <1>6, IdsFacts, MaxTotalAttemptsAssumption
       DEF InsertUpstreamAttempt, Base, IndInv, TypeOK, Budget
  <2>2. \A i \in Ids : rows'[i].fin = rows[i].fin \/ rows'[i].fin = NoReason
    BY <1>6, <1>1, <2>1, InsertFin DEF InsertUpstreamAttempt
  <2> QED
    BY <1>6, <1>0, <2>2 DEF InsertUpstreamAttempt, InterruptAttribution
<1>7. ASSUME NEW code \in Nat, NEW fin \in FinishReasons \ {DashboardCancelled},
             Refused(code, fin)
      PROVE  InterruptAttribution'
  <2>1. \A i \in Ids : rows'[i].fin = rows[i].fin \/ rows'[i].fin = fin
    BY <1>7, <1>1, WriteFin DEF Refused, Fail, FinishMeta
  <2> QED
    BY <1>7, <2>1 DEF Refused, InterruptAttribution
<1>8. ASSUME NEW code \in Nat, NEW fin \in FinishReasons, AttemptFailed(code, fin)
      PROVE  InterruptAttribution'
  <2>1. \A i \in Ids : rows'[i].fin = rows[i].fin \/ (i = cur /\ rows'[i].fin = fin)
    BY <1>8, <1>1, WriteFin DEF AttemptFailed
  <2> QED
    BY <1>8, <2>1 DEF AttemptFailed, InterruptAttribution
<1>9. ASSUME NEW upCode \in Nat, NEW code \in Nat, NEW upFin \in FinishReasons,
             NEW fin \in FinishReasons, BothEnded(upCode, upFin, code, fin)
      PROVE  InterruptAttribution'
  <2> DEFINE W == Write(rows, cur, upCode, upFin)
  <2>1. W \in [Ids -> Row]
    BY <1>1, WriteType, Fallbacks
  <2>2. \A i \in Ids : W[i].fin = rows[i].fin \/ (i = cur /\ W[i].fin = upFin)
    BY <1>1, WriteFin
  <2>3. rows' = Write(W, Meta, code, fin)
    BY <1>9 DEF BothEnded, FinishMeta
  <2> HIDE DEF W
  <2>4. \A i \in Ids : rows'[i].fin = W[i].fin \/ (i = Meta /\ rows'[i].fin = fin)
    BY <1>1, <2>1, <2>3, WriteFin
  <2> QED
    BY <1>9, <2>2, <2>4 DEF BothEnded, InterruptAttribution
<1> QED
  BY <1>2, <1>3, <1>4, <1>5, <1>6, <1>7, <1>8, <1>9, StepForms DEF Base, RowStep

\* Finish reason 7 is only ever written after somebody's interrupt stored its stop
\* reason, of the attempt or of the request, whatever step of the flow reads it
\* and however late: neither a client's disconnect nor a timeout is blamed on the
\* dashboard.
THEOREM InterruptAttributionHolds == Spec => []InterruptAttribution
<1>1. Init => InterruptAttribution
  <2> SUFFICES ASSUME Init, NEW i \in Ids PROVE rows[i].fin # DashboardCancelled
    BY DEF InterruptAttribution
  <2> QED
    BY DEF Init, AbsentRow, NoReason, DashboardCancelled
<1>2. Base /\ InterruptAttribution /\ [Next]_vars => InterruptAttribution'
  BY StepKeepsAttribution
<1> QED
  BY <1>1, <1>2, BaseHolds, PTL DEF Spec

(* The attempt a cancellation comes too late for.                          *)

\* An attempt made although the request was cancelled is the last one, and the
\* request stays cancelled.
LateRow ==
    \A i \in Upstreams : rows[i].late =>
        /\ i = cur /\ rows[i].code # 200
        /\ RequestCancelled
        /\ pc \in LatePoints

\* An UPDATE of the attempt's row leaves its history alone.
LEMMA WriteLate ==
    ASSUME NEW rs \in [Ids -> Row], NEW i \in Ids, NEW code, NEW fin, NEW j \in Ids
    PROVE  /\ Write(rs, i, code, fin)[j].late = rs[j].late
           /\ \/ Write(rs, i, code, fin)[j].code = rs[j].code
              \/ j = i /\ Write(rs, i, code, fin)[j].code = code
<1>1. rs[i] \in Row
  OBVIOUS
<1>2. Closed(rs[i], code, fin).code = code /\ Closed(rs[i], code, fin).late = rs[i].late
  BY <1>1 DEF Closed, Row
<1> QED
  BY <1>2 DEF Write

\* No step lets a late attempt get anywhere.
LEMMA StepKeepsLateRow ==
    ASSUME Base, LateRow, [Next]_vars PROVE LateRow'
<1> USE DEF RequestCancelled
<1>1. rows \in [Ids -> Row] /\ Meta \in Ids /\ cur \in Ids /\ Upstreams \subseteq Ids
      /\ Meta \notin Upstreams
  BY MetaApart, IdsFacts DEF Base, IndInv, TypeOK
<1>2. CASE Quiet
  BY <1>2, QuietEffect DEF Base, LateRow
<1>3. CASE Reject
  BY <1>3 DEF Reject, LateRow, LatePoints, Ended
<1>4. CASE StartStream \/ BreakRefused
  BY <1>4 DEF StartStream, BreakRefused, LateRow, LatePoints, Ended
<1>5. CASE InsertMetaRequest
  <2>1. \A i \in Upstreams : rows'[i] = rows[i]
    BY <1>5, <1>1, InsertEffect DEF InsertMetaRequest
  <2> QED
    BY <1>5, <2>1 DEF InsertMetaRequest, LateRow, LatePoints, Ended
<1>6. CASE AuthenticateAndBackfill
  <2>1. \A i \in Upstreams : rows'[i] = rows[i]
    BY <1>6, <1>1 DEF AuthenticateAndBackfill
  <2> QED
    BY <1>6, <2>1 DEF AuthenticateAndBackfill, LateRow, LatePoints, Ended
<1>7. CASE InsertUpstreamAttempt
  <2>1. cur' \in Ids
    BY <1>7, IdsFacts, MaxTotalAttemptsAssumption
       DEF InsertUpstreamAttempt, Base, IndInv, TypeOK, Budget
  <2>2. \A i \in Upstreams : ~rows[i].late
    BY <1>7 DEF InsertUpstreamAttempt, LateRow, LatePoints, Ended
  <2>3. /\ Opened(TRUE, idx, RequestCancelled).late = RequestCancelled
        /\ Opened(TRUE, idx, RequestCancelled).code = 0
    BY DEF Opened, AbsentRow
  <2>4. \/ rows' = rows
        \/ rows' = [rows EXCEPT ![cur'] = Opened(TRUE, idx, RequestCancelled)]
    BY <1>7 DEF InsertUpstreamAttempt, Insert
  <2>5. \A i \in Upstreams : rows'[i].late =>
           i = cur' /\ RequestCancelled /\ rows'[i].code = 0
    BY <1>1, <2>1, <2>2, <2>3, <2>4
  <2> QED
    BY <1>7, <2>5 DEF InsertUpstreamAttempt, LateRow, LatePoints
<1>8. ASSUME NEW code \in Nat, NEW fin \in FinishReasons, Refused(code, fin)
      PROVE  LateRow'
  <2>1. \A i \in Upstreams : rows'[i] = rows[i]
    BY <1>8, <1>1, FinishMetaEffect DEF Refused, Fail
  <2> QED
    BY <1>8, <2>1 DEF Refused, LateRow, LatePoints, Ended, RefusePoints, Early
<1>9. ASSUME NEW code \in Nat, NEW fin \in FinishReasons, AttemptFailed(code, fin)
      PROVE  LateRow'
  <2>1. \A i \in Upstreams : rows'[i].late = rows[i].late
    BY <1>9, <1>1, WriteLate DEF AttemptFailed
  <2>2. \A i \in Upstreams : rows'[i].code = rows[i].code \/ rows'[i].code = code
    BY <1>9, <1>1, WriteLate DEF AttemptFailed
  <2> QED
    BY <1>9, <2>1, <2>2 DEF AttemptFailed, LateRow, LatePoints, Ended
<1>10. ASSUME NEW upCode \in Nat, NEW code \in Nat, NEW upFin \in FinishReasons,
              NEW fin \in FinishReasons, BothEnded(upCode, upFin, code, fin)
       PROVE  LateRow'
  <2> DEFINE W == Write(rows, cur, upCode, upFin)
  <2>1. W \in [Ids -> Row]
    BY <1>1, WriteType, Fallbacks
  <2>2. \A i \in Upstreams : W[i].late = rows[i].late
    BY <1>1, WriteLate
  <2>3. \A i \in Upstreams : W[i].code = rows[i].code \/ W[i].code = upCode
    BY <1>1, WriteLate
  <2>4. FinishMeta(W, code, fin)
    BY <1>10 DEF BothEnded
  <2> HIDE DEF W
  <2>5. \A i \in Upstreams : rows'[i] = W[i]
    BY <2>1, <2>4, FinishMetaEffect
  <2> QED
    BY <1>10, <2>2, <2>3, <2>5 DEF BothEnded, LateRow, LatePoints, Ended, InAttempt
<1> QED
  BY <1>2, <1>3, <1>4, <1>5, <1>6, <1>7, <1>8, <1>9, <1>10, StepForms DEF Base, RowStep

\* A cancelled request gets at most one more attempt row, when the cancellation
\* lands between the check of runAttempts and the insert, and that attempt never
\* reaches the upstream: RoundTrip finds its context done.
THEOREM AtMostOneLateAttemptHolds == Spec => []AtMostOneLateAttempt
<1>1. Init => LateRow
  <2> SUFFICES ASSUME Init, NEW i \in Upstreams PROVE ~rows[i].late
    BY DEF LateRow
  <2> QED
    BY MetaApart DEF Init, AbsentRow
<1>2. Base /\ LateRow /\ [Next]_vars => LateRow'
  BY StepKeepsLateRow
<1>3. LateRow => AtMostOneLateAttempt
  <2> SUFFICES ASSUME LateRow PROVE AtMostOneLateAttempt
    OBVIOUS
  <2> DEFINE late == {i \in Upstreams : rows[i].late}
  <2>1. late \subseteq {cur} /\ \A i \in late : i = cur /\ rows[i].code # 200
    BY DEF LateRow
  <2>2. late = {} \/ late = {cur}
    BY <2>1
  <2>3. Cardinality({}) = 0 /\ Cardinality({cur}) = 1
    BY FS_EmptySet, FS_Singleton
  <2>4. Cardinality(late) <= 1
    <3> HIDE DEF late
    <3> QED
      BY <2>2, <2>3
  <2> QED
    BY <2>1, <2>4 DEF AtMostOneLateAttempt
<1> QED
  BY <1>1, <1>2, <1>3, BaseHolds, PTL DEF Spec

(* The rows keep the promises of RequestLedger.                            *)

\* What the ledger is mapped to, and one row of it changing or not.
LedgerView == [i \in Ids |-> [st |-> RowView(i).st, fin |-> RowView(i).fin]]
Shows(i, st, fin)  == rows[i].st = st /\ rows[i].fin = fin
Turns(i, st, fin)  == rows'[i].st = st /\ rows'[i].fin = fin
Stays(i)           == rows'[i].st = rows[i].st /\ rows'[i].fin = rows[i].fin

\* The rows at each control point, when the database refuses no write.
LedgerShape ==
    lost = {} =>
        /\ pc = "accept" => Shows(Meta, "absent", NoReason)
        /\ Working => Shows(Meta, "open", NoReason)
        /\ pc = "allFail" => Shows(Meta, "open", NoReason) \/ Shows(Meta, "final", Internal)
        /\ \A i \in Upstreams :
              /\ i < cur \/ (i = cur /\ pc \notin InAttempt) => rows[i].st = "final"
              /\ i = cur /\ pc \in InAttempt => Shows(i, "open", NoReason)

\* Rows that show the same make no step of the ledger.
LEMMA NothingShown ==
    ASSUME \A i \in Ids : Stays(i), lost' = lost PROVE LedgerView' = LedgerView
  BY DEF LedgerView, RowView, Stays

\* One row that shows something else is one entry that changes.
LEMMA OneShown ==
    ASSUME lost = {}, lost' = lost, NEW k \in Ids, NEW st, NEW fin, Turns(k, st, fin),
           \A i \in Ids : i # k => Stays(i)
    PROVE  LedgerView' = [LedgerView EXCEPT ![k] = [st |-> st, fin |-> fin]]
  BY DEF LedgerView, RowView, Stays, Turns

\* The ledger's entry of a row is what the row shows.
LEMMA EntryShown ==
    ASSUME lost = {}, NEW i \in Ids
    PROVE  /\ LedgerView[i] = [st |-> rows[i].st, fin |-> rows[i].fin]
           /\ LedgerView[i].st = rows[i].st
  BY DEF LedgerView, RowView

\* The ledger is over the same identifiers and reasons.
LEMMA LedgerNames ==
    /\ Ledger!Meta = Meta /\ Ledger!Upstreams = Upstreams /\ Ledger!Ids = Ids
    /\ Ledger!FinishReasons = FinishReasons
    /\ Ledger!NoReason = NoReason /\ Ledger!Internal = Internal
    /\ Ledger!Cancelled = Cancelled
  BY DEF Ledger!Meta, Ledger!Upstreams, Ledger!Ids, Ledger!FinishReasons, Ledger!NoReason,
     Ledger!Internal, Ledger!Cancelled, Ledger!DashboardCancelled, Meta, Upstreams, Ids,
     FinishReasons, NoReason, Internal, Cancelled, DashboardCancelled

\* The request's row is opened,
LEMMA OpensMeta ==
    ASSUME lost = {}, lost' = lost, Shows(Meta, "absent", NoReason),
           Turns(Meta, "open", NoReason), \A i \in Ids : i # Meta => Stays(i)
    PROVE  Ledger!LedgerNext
<1>1. LedgerView[Meta] = [st |-> "absent", fin |-> NoReason]
  BY EntryShown, MetaApart DEF Shows
<1>2. LedgerView' = [LedgerView EXCEPT ![Meta] = [st |-> "open", fin |-> NoReason]]
  BY OneShown, MetaApart
<1>3. Ledger!OpenMeta
  BY <1>1, <1>2, LedgerNames DEF Ledger!OpenMeta, Ledger!Blank, Ledger!Open, LedgerView
<1> QED
  BY <1>3 DEF Ledger!LedgerNext

\* an attempt's is opened after the earlier ones have ended,
LEMMA OpensAttempt ==
    ASSUME lost = {}, lost' = lost, Shows(Meta, "open", NoReason), NEW k \in Upstreams,
           \A j \in Upstreams : IF j < k THEN rows[j].st = "final" ELSE rows[j] = AbsentRow,
           Turns(k, "open", NoReason), \A i \in Ids : i # k => Stays(i)
    PROVE  Ledger!LedgerNext
<1>1. LedgerView[Meta].st = "open"
  BY EntryShown, MetaApart DEF Shows
<1>2. \A j \in Upstreams : j < k => LedgerView[j].st = "final"
  BY EntryShown, MetaApart
<1>3. \A j \in Upstreams : ~(j < k) => LedgerView[j] = [st |-> "absent", fin |-> NoReason]
  <2>1. AbsentRow.st = "absent" /\ AbsentRow.fin = NoReason
    BY DEF AbsentRow
  <2> QED
    BY <2>1, EntryShown, MetaApart
<1>4. LedgerView' = [LedgerView EXCEPT ![k] = [st |-> "open", fin |-> NoReason]]
  BY OneShown, MetaApart
<1>5. Ledger!OpenAttempt(k)
  BY <1>1, <1>2, <1>3, <1>4, LedgerNames
     DEF Ledger!OpenAttempt, Ledger!IsOpen, Ledger!IsFinal, Ledger!Blank, Ledger!Open, LedgerView
<1> QED
  BY <1>5, LedgerNames DEF Ledger!LedgerNext

\* and closed under the request's open one,
LEMMA ClosesAttempt ==
    ASSUME lost = {}, lost' = lost, Shows(Meta, "open", NoReason), NEW k \in Upstreams,
           Shows(k, "open", NoReason), NEW fin \in FinishReasons, Turns(k, "final", fin),
           \A i \in Ids : i # k => Stays(i)
    PROVE  Ledger!LedgerNext
<1>1. LedgerView[Meta].st = "open" /\ LedgerView[k].st = "open"
  BY EntryShown, MetaApart DEF Shows
<1>2. LedgerView' = [LedgerView EXCEPT ![k] = [st |-> "final", fin |-> fin]]
  BY OneShown, MetaApart
<1>3. Ledger!CloseAttempt(k)
  BY <1>1, <1>2, LedgerNames DEF Ledger!CloseAttempt, Ledger!IsOpen, Ledger!Final, LedgerView
<1> QED
  BY <1>3, LedgerNames DEF Ledger!LedgerNext

\* the request's is closed when no attempt is open,
LEMMA ClosesMeta ==
    ASSUME lost = {}, lost' = lost, Shows(Meta, "open", NoReason),
           \A i \in Upstreams : rows[i].st # "open",
           NEW fin \in FinishReasons, Turns(Meta, "final", fin),
           \A i \in Ids : i # Meta => Stays(i)
    PROVE  Ledger!LedgerNext
<1>1. LedgerView[Meta].st = "open" /\ \A i \in Upstreams : LedgerView[i].st # "open"
  BY EntryShown, MetaApart DEF Shows
<1>2. LedgerView' = [LedgerView EXCEPT ![Meta] = [st |-> "final", fin |-> fin]]
  BY OneShown, MetaApart
<1>3. Ledger!CloseMeta
  BY <1>1, <1>2, LedgerNames DEF Ledger!CloseMeta, Ledger!IsOpen, Ledger!Final, LedgerView
<1> QED
  BY <1>3 DEF Ledger!LedgerNext

\* or together with the one that is,
LEMMA ClosesBoth ==
    ASSUME lost = {}, lost' = lost, Shows(Meta, "open", NoReason), NEW k \in Upstreams,
           Shows(k, "open", NoReason), NEW up \in FinishReasons, Turns(k, "final", up),
           NEW fin \in FinishReasons, Turns(Meta, "final", fin),
           \A i \in Ids : i \notin {k, Meta} => Stays(i)
    PROVE  Ledger!LedgerNext
<1>1. LedgerView[Meta].st = "open" /\ LedgerView[k].st = "open"
  BY EntryShown, MetaApart DEF Shows
<1>2. LedgerView' = [LedgerView EXCEPT ![k] = [st |-> "final", fin |-> up],
                                       ![Meta] = [st |-> "final", fin |-> fin]]
  BY MetaApart DEF LedgerView, RowView, Stays, Turns
<1>3. LedgerView'[Meta].st = "final"
  BY MetaApart DEF LedgerView, RowView, Turns
<1>4. Ledger!CloseBoth(k)
  BY <1>1, <1>2, <1>3, LedgerNames
     DEF Ledger!CloseBoth, Ledger!IsOpen, Ledger!IsFinal, Ledger!Final, LedgerView
<1> QED
  BY <1>4, LedgerNames DEF Ledger!LedgerNext

\* and once closed for an internal error it may turn into a cancelled one.
LEMMA RevisesMeta ==
    ASSUME lost = {}, lost' = lost, Shows(Meta, "final", Internal),
           \A i \in Upstreams : rows[i].st # "open", Turns(Meta, "final", Cancelled),
           \A i \in Ids : i # Meta => Stays(i)
    PROVE  Ledger!LedgerNext
<1>1. /\ LedgerView[Meta] = [st |-> "final", fin |-> Internal]
      /\ \A i \in Upstreams : LedgerView[i].st # "open"
  BY EntryShown, MetaApart DEF Shows
<1>2. LedgerView' = [LedgerView EXCEPT ![Meta] = [st |-> "final", fin |-> Cancelled]]
  BY OneShown, MetaApart
<1>3. Ledger!ReviseMeta
  BY <1>1, <1>2, LedgerNames DEF Ledger!ReviseMeta, Ledger!IsOpen, Ledger!Final, LedgerView
<1> QED
  BY <1>3 DEF Ledger!LedgerNext

\* What a write shows, when the database refuses none.
LEMMA WriteShows ==
    ASSUME lost = {}, NEW rs \in [Ids -> Row], NEW i \in Ids, NEW code, NEW fin
    PROVE  /\ Write(rs, i, code, fin)[i].st = "final" /\ Write(rs, i, code, fin)[i].fin = fin
           /\ \A j \in Ids : j # i => Write(rs, i, code, fin)[j] = rs[j]
<1>1. rs[i] \in Row
  OBVIOUS
<1>2. Closed(rs[i], code, fin).fin = fin /\ Closed(rs[i], code, fin).st = "final"
  BY <1>1 DEF Closed, Row
<1> QED
  BY <1>2 DEF Write

\* What an insert shows, when the database refuses none.
LEMMA InsertShows ==
    ASSUME lost = {}, rows \in [Ids -> Row], NEW i \in Ids, NEW user, NEW cand, NEW l,
           Insert(i, Opened(user, cand, l))
    PROVE  Turns(i, "open", NoReason) /\ \A j \in Ids : j # i => rows'[j] = rows[j]
<1>1. Opened(user, cand, l).fin = NoReason /\ Opened(user, cand, l).st = "open"
  BY DEF Opened, AbsentRow
<1>2. rows' = [rows EXCEPT ![i] = Opened(user, cand, l)]
  BY DEF Insert
<1> QED
  BY <1>1, <1>2 DEF Turns

\* Every step is one of the ledger or none, and leaves the rows in shape.
LEMMA StepKeepsLedger ==
    ASSUME Base, LedgerShape, [Next]_vars, lost = {}
    PROVE  LedgerShape' /\ (Ledger!LedgerNext \/ LedgerView' = LedgerView)
<1>1. /\ rows \in [Ids -> Row] /\ Meta \in Ids /\ cur \in Ids /\ cur \in Nat
      /\ Upstreams \subseteq Ids /\ Upstreams \subseteq Nat /\ Meta \notin Upstreams
      /\ Ids = {Meta} \cup Upstreams
  BY MetaApart, IdsFacts, MaxTotalAttemptsAssumption DEF Base, IndInv, TypeOK, Ids
<1>2. CASE Quiet
  <2>1. /\ rows' = rows /\ lost' = lost /\ cur' = cur /\ (pc' = "accept" => pc = "accept")
        /\ (Working' => Working) /\ (pc' = "allFail" => pc = "allFail" \/ Working)
        /\ (pc \in InAttempt <=> pc' \in InAttempt)
    BY <1>2, QuietEffect DEF Base
  <2>2. LedgerShape'
    BY <2>1 DEF LedgerShape, Shows
  <2>3. LedgerView' = LedgerView
    BY <2>1, NothingShown DEF Stays
  <2> QED
    BY <2>2, <2>3
<1>3. CASE Reject \/ StartStream \/ BreakRefused
  <2>1. LedgerShape'
    BY <1>3 DEF Reject, StartStream, BreakRefused, LedgerShape, Shows, Working, Unanswered, Answering, Early,
       InAttempt
  <2>2. LedgerView' = LedgerView
    BY <1>3, NothingShown DEF Reject, StartStream, BreakRefused, Stays
  <2> QED
    BY <2>1, <2>2
<1>4. CASE InsertMetaRequest
  <2>1. /\ Turns(Meta, "open", NoReason)
        /\ \A i \in Ids : i # Meta => rows'[i] = rows[i]
    BY <1>4, <1>1, InsertShows DEF InsertMetaRequest
  <2>2. LedgerShape'
    BY <1>4, <1>1, <2>1 DEF InsertMetaRequest, LedgerShape, Shows, Turns, Working, InAttempt
  <2>3. lost' = lost /\ Shows(Meta, "absent", NoReason)
    BY <1>4 DEF InsertMetaRequest, LedgerShape
  <2>4. Ledger!LedgerNext
    BY <2>1, <2>3, OpensMeta DEF Stays
  <2> QED
    BY <2>2, <2>4
<1>5. CASE AuthenticateAndBackfill
  <2>1. \A i \in Ids : Stays(i)
    BY <1>5, <1>1 DEF AuthenticateAndBackfill, Row, Stays
  <2>2. LedgerShape'
    BY <1>5, <1>1, <2>1
       DEF AuthenticateAndBackfill, LedgerShape, Shows, Stays, Working, Unanswered, Early, InAttempt
  <2>3. LedgerView' = LedgerView
    BY <1>5, <2>1, NothingShown DEF AuthenticateAndBackfill
  <2> QED
    BY <2>2, <2>3
<1>6. CASE InsertUpstreamAttempt
  <2>1. cur' \in Upstreams /\ cur' = cur + 1
    BY <1>6, MaxTotalAttemptsAssumption
       DEF InsertUpstreamAttempt, Base, IndInv, TypeOK, Budget, Upstreams
  <2>2. /\ Turns(cur', "open", NoReason)
        /\ \A i \in Ids : i # cur' => rows'[i] = rows[i]
    BY <1>6, <1>1, <2>1, InsertShows DEF InsertUpstreamAttempt
  <2>3. lost' = lost /\ Shows(Meta, "open", NoReason)
    BY <1>6 DEF InsertUpstreamAttempt, LedgerShape, Working, Unanswered
  <2>4. \A j \in Upstreams : IF j < cur' THEN rows[j].st = "final" ELSE rows[j] = AbsentRow
    BY <1>1, <1>6, <2>1
       DEF InsertUpstreamAttempt, LedgerShape, InAttempt, Base, Books, UpstreamRows
  <2>5. LedgerShape'
    <3>1. pc' = "inserted" /\ pc' \in InAttempt
      BY <1>6 DEF InsertUpstreamAttempt, InAttempt
    <3>2. rows'[Meta] = rows[Meta]
      BY <1>1, <2>1, <2>2
    <3>3. rows'[Meta].st = "open" /\ rows'[Meta].fin = NoReason
      BY <2>3, <3>2 DEF Shows
    <3>4. \A i \in Upstreams : i < cur' => rows'[i].st = "final"
      BY <1>1, <2>1, <2>2, <2>4
    <3>5. \A i \in Upstreams : i = cur' => rows'[i].st = "open" /\ rows'[i].fin = NoReason
      BY <2>2 DEF Turns
    <3> QED
      BY <3>1, <3>3, <3>4, <3>5 DEF LedgerShape, Shows
  <2>6. Ledger!LedgerNext
    <3> DEFINE k == cur'
    <3>1. /\ k \in Upstreams /\ Turns(k, "open", NoReason)
          /\ \A i \in Ids : i # k => rows'[i] = rows[i]
          /\ \A j \in Upstreams : IF j < k THEN rows[j].st = "final" ELSE rows[j] = AbsentRow
      BY <2>1, <2>2, <2>4
    <3> HIDE DEF k
    <3> QED
      BY <2>3, <3>1, OpensAttempt DEF Stays
  <2> QED
    BY <2>5, <2>6
<1>7. ASSUME NEW code \in Nat, NEW fin \in FinishReasons, Refused(code, fin)
      PROVE  LedgerShape' /\ (Ledger!LedgerNext \/ LedgerView' = LedgerView)
  <2>1. /\ Turns(Meta, "final", fin) /\ \A i \in Ids : i # Meta => rows'[i] = rows[i]
        /\ lost' = lost
    BY <1>7, <1>1, WriteShows DEF Refused, Fail, FinishMeta, Turns
  <2>2. \A i \in Upstreams : rows[i].st # "open"
    <3>1. \A i \in Upstreams : i > cur => rows[i].st = "absent"
      BY DEF Base, Books, UpstreamRows, AbsentRow
    <3>2. \A i \in Upstreams : i <= cur => rows[i].st = "final"
      BY <1>1, <1>7 DEF Refused, RefusePoints, Early, InAttempt, LedgerShape
    <3> QED
      BY <1>1, <3>1, <3>2
  <2>3. LedgerShape'
    BY <1>7, <1>1, <2>1 DEF Refused, RefusePoints, Early, LedgerShape, Shows, Turns, Working,
       Unanswered, Answering, InAttempt
  <2>4. \/ Shows(Meta, "open", NoReason)
        \/ pc = "allFail" /\ Shows(Meta, "final", Internal)
    BY <1>7 DEF Refused, RefusePoints, LedgerShape, Working, Unanswered
  <2>5. CASE Shows(Meta, "open", NoReason)
    BY <2>1, <2>2, <2>3, <2>5, ClosesMeta DEF Stays
  <2>6. CASE Shows(Meta, "final", Internal) /\ fin = Internal
    BY <2>1, <2>3, <2>6, NothingShown DEF Stays, Shows, Turns
  <2>7. CASE Shows(Meta, "final", Internal) /\ fin = Cancelled
    BY <2>1, <2>2, <2>3, <2>7, RevisesMeta DEF Stays
  <2> QED
    BY <1>7, <2>4, <2>5, <2>6, <2>7 DEF Refused
<1>8. ASSUME NEW code \in Nat, NEW fin \in FinishReasons, AttemptFailed(code, fin)
      PROVE  LedgerShape' /\ (Ledger!LedgerNext \/ LedgerView' = LedgerView)
  <2>1. /\ Turns(cur, "final", fin) /\ \A i \in Ids : i # cur => rows'[i] = rows[i]
        /\ lost' = lost
    BY <1>8, <1>1, WriteShows DEF AttemptFailed, Turns
  <2>2. cur \in Upstreams /\ cur # Meta
    BY <1>8, CurrentAttempt DEF AttemptFailed, Base
  <2>3. Shows(cur, "open", NoReason) /\ Shows(Meta, "open", NoReason)
    BY <1>8, <2>2
       DEF AttemptFailed, LedgerShape, Working, InAttempt, Unanswered, Answering
  <2>4. LedgerShape'
    BY <1>8, <1>1, <2>1, <2>2, <2>3 DEF AttemptFailed, LedgerShape, Shows, Turns, InAttempt
  <2>5. Ledger!LedgerNext
    BY <2>1, <2>2, <2>3, ClosesAttempt DEF Stays
  <2> QED
    BY <2>4, <2>5
<1>9. ASSUME NEW upCode \in Nat, NEW code \in Nat, NEW upFin \in FinishReasons,
             NEW fin \in FinishReasons, BothEnded(upCode, upFin, code, fin)
      PROVE  LedgerShape' /\ (Ledger!LedgerNext \/ LedgerView' = LedgerView)
  <2> DEFINE W == Write(rows, cur, upCode, upFin)
  <2>1. W \in [Ids -> Row]
    BY <1>1, WriteType, Fallbacks
  <2>2. W[cur].st = "final" /\ W[cur].fin = upFin /\ \A i \in Ids : i # cur => W[i] = rows[i]
    BY <1>1, WriteShows
  <2>3. rows' = Write(W, Meta, code, fin) /\ lost' = lost
    BY <1>9 DEF BothEnded, FinishMeta
  <2> HIDE DEF W
  <2>4. Turns(Meta, "final", fin) /\ \A i \in Ids : i # Meta => rows'[i] = W[i]
    <3>1. /\ Write(W, Meta, code, fin)[Meta].st = "final"
          /\ Write(W, Meta, code, fin)[Meta].fin = fin
          /\ \A i \in Ids : i # Meta => Write(W, Meta, code, fin)[i] = W[i]
      <4>1. Meta \in Ids
        BY <1>1
      <4> QED
        BY <2>1, <4>1, WriteShows, SMTT(30)
    <3> QED
      BY <2>3, <3>1 DEF Turns
  <2>5. cur \in Upstreams /\ cur # Meta
    BY <1>9, CurrentAttempt DEF BothEnded, Base
  <2>6. Turns(cur, "final", upFin) /\ \A i \in Ids : i \notin {cur, Meta} => rows'[i] = rows[i]
    BY <1>1, <2>2, <2>4, <2>5 DEF Turns
  <2>7. Shows(cur, "open", NoReason) /\ Shows(Meta, "open", NoReason)
    BY <1>9, <2>5 DEF BothEnded, LedgerShape, Working, InAttempt, Unanswered, Answering
  <2>8. LedgerShape'
    BY <1>9, <1>1, <2>4, <2>5, <2>6
       DEF BothEnded, LedgerShape, Shows, Turns, Working, InAttempt, Unanswered, Answering, Early
  <2>9. Ledger!LedgerNext
    BY <2>3, <2>4, <2>5, <2>6, <2>7, ClosesBoth DEF Stays
  <2> QED
    BY <2>8, <2>9
<1> QED
  BY <1>2, <1>3, <1>4, <1>5, <1>6, <1>7, <1>8, <1>9, StepForms DEF Base, RowStep

\* Which writes the database refuses is settled before the run.
LEMMA LostIsFixed ==
    ASSUME Base, [Next]_vars PROVE lost' = lost
<1>1. CASE Quiet
  BY <1>1, QuietEffect DEF Base
<1>2. CASE \/ Reject \/ InsertMetaRequest \/ AuthenticateAndBackfill \/ StartStream
           \/ InsertUpstreamAttempt \/ BreakRefused
  BY <1>2 DEF Reject, InsertMetaRequest, AuthenticateAndBackfill, StartStream,
     InsertUpstreamAttempt, BreakRefused
<1> QED
  BY <1>1, <1>2, StepForms DEF Base, RowStep, Refused, AttemptFailed, BothEnded

\* gatewayFlow implements RequestLedger: while the database takes every write, the
\* rows of a request show attempts made one after the other under an open request
\* row, nothing in flight under a finished one, and a finish reason revised only
\* from an internal error to a cancellation, whatever the order in which hooks,
\* upstream, client and dashboard act.
THEOREM KeepsLedgerHolds == Spec => KeepsLedger
<1>1. Init => LedgerShape /\ Ledger!LedgerInit
  <2> SUFFICES ASSUME Init PROVE LedgerShape /\ Ledger!LedgerInit
    OBVIOUS
  <2>1. /\ \A i \in Ids : rows[i] = AbsentRow
        /\ AbsentRow.st = "absent" /\ AbsentRow.fin = NoReason
    BY DEF Init, AbsentRow
  <2>2. pc = "accept" /\ cur = 0
    BY DEF Init
  <2>3. LedgerShape
    BY <2>1, <2>2, MetaApart
       DEF LedgerShape, Shows, Working, Unanswered, Answering, Early, InAttempt, Upstreams
  <2>4. \A i \in Ids : RowView(i) = AbsentRow
    BY <2>1 DEF RowView
  <2>5. Ledger!LedgerInit
    BY <2>1, <2>4, LedgerNames DEF Ledger!LedgerInit, Ledger!Blank
  <2> QED
    BY <2>3, <2>5
<1>2. Base /\ LedgerShape /\ [Next]_vars =>
         LedgerShape' /\ [LedgerView' # LedgerView /\ Ledger!LedgerNext]_LedgerView
  <2> SUFFICES ASSUME Base, LedgerShape, [Next]_vars
               PROVE  LedgerShape' /\ [LedgerView' # LedgerView /\ Ledger!LedgerNext]_LedgerView
    OBVIOUS
  <2>1. lost' = lost
    BY LostIsFixed
  <2>2. CASE lost = {}
    BY <2>2, StepKeepsLedger
  <2>3. CASE lost # {}
    <3>1. LedgerShape'
      BY <2>1, <2>3 DEF LedgerShape
    <3>2. LedgerView' = LedgerView
      BY <2>1, <2>3 DEF LedgerView, RowView
    <3> QED
      BY <3>1, <3>2
  <2> QED
    BY <2>2, <2>3
<1> QED
  BY <1>1, <1>2, BaseHolds, PTL DEF Spec, KeepsLedger, Ledger!LedgerSpec, LedgerView
=============================================================================
