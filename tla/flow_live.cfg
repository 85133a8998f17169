SPECIFICATION FairSpec
CONSTANTS
    o1 = o1
    MaxTotalAttempts = 1
    MaxCandidates = 1
    MaxLost = 1
    UpstreamStatuses = {99, 500}
    ScriptStatuses = {103, 200, 400}
    BreakStatuses = {429, 1000}
    Operators <- OneOperator
    RouteKinds <- AllKinds
INVARIANTS
    HookSeesRecord
PROPERTIES
    CancelledFlowEnds
    
    SilentStreamEnds
