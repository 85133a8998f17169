SPECIFICATION FairSpec
CONSTANTS
    c1 = c1
    c2 = c2
    c3 = c3
    NoOne = NoOne
    MaxStarts = 3
    Callers <- ThreeCallers
INVARIANTS
    OneProcess
    RetryUsesFreshProcess
PROPERTIES
    RestartSparesTheLiving
    CallsEnd
