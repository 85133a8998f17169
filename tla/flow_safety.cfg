SPECIFICATION Spec
CONSTANTS
    o1 = o1
    MaxTotalAttempts = 2
    MaxCandidates = 2
    MaxLost = 0
    UpstreamStatuses = {500}
    ScriptStatuses = {103, 200, 400}
    BreakStatuses = {1000}
    Operators <- OneOperator
    RouteKinds <- AllKinds
INVARIANTS
    AtMostOneLateAttempt
    InterruptAttribution
    ResponseMatchesRecord
    Answered
    RowsFinishOnce
    
PROPERTIES
    KeepsLedger
