SPECIFICATION Spec
CONSTANTS
    CompletionPaths <- ThePaths
    Pool <- ThePool
    MaxRows = 3
    Users <- TheUsers
    Asked <- TheAsked
    Ranges <- TheRanges
    Widths <- TheWidths
    Now <- TheNow
    Int32 <- TheInt32
INVARIANTS
    SeriesAddUp
    RowsAddUp
    AdminSeesAll
    SpeedsAgree
    TracesAgree
CHECK_DEADLOCK FALSE
