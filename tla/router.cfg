\* The matching of paths, the cache under changes, and the candidates.
SPECIFICATION MCSpec
CONSTANTS
    r1 = r1
    r2 = r2
    a1 = a1
    a2 = a2
    NoOne = NoOne
    Endpoints <- AllEndpoints
    Foreign <- ForeignRows
    Paths <- AllPaths
    Requests <- TwoRequests
    Admins <- TwoAdmins
    MaxChanges = 3
    FirstDBs <- SomeDBs
    Forms <- SomeForms
    Lists <- SomeLists
    ModelNames = {1, 2}
    UpstreamNames = {1, 2, 3}
    Trimmed <- BlankBefore
    EndpointRows <- SomeEndpointRows
    Bindings <- SomeBindings
    Routes <- SomeRoutes
    MaxProvider = 3
    MaxEdits = 2
INVARIANTS
    AckedIsSeen
    CacheIsCurrent
    MostSpecific
    ListAgreesWithRoutes
    RoutesAgree
    FetchFollowsUpstream
