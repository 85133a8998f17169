\* The sink and the shutdown that closes it, together.
SPECIFICATION ServerFairSpec
CONSTANTS
    r1 = r1
    r2 = r2
    r3 = r3
    w1 = w1
    w2 = w2
    Nothing = Nothing
    Capacity = 1
    Workers <- TwoWorkers
    Artifacts <- ThreeRequests
INVARIANTS
    CleanShutdown
PROPERTIES
    KeepsPromise
    ShutdownEnds
CHECK_DEADLOCK FALSE
