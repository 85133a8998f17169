SPECIFICATION Spec
CONSTANTS
    o1 = o1
    MaxTotalAttempts = 2
    MaxCandidates = 1
    MaxLost = 0
    UpstreamStatuses = {99, 500}
    ScriptStatuses = {103, 200, 400}
    BreakStatuses = {429, 1000}
    Operators <- OneOperator
    RouteKinds <- UnifiedOnly
INVARIANTS
    HookErrorFailsRequest
