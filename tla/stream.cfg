SPECIFICATION FairSpec
CONSTANTS
    MaxChunks = 8
    Window = 2
INVARIANTS
    CleanEOFIsComplete
    ErrorHasCause
PROPERTIES
    StreamEnds
CHECK_DEADLOCK FALSE
