\* The request table read, recalculated and merged.
CONSTANTS
    None = None
    Null = Null
    s1 = s1
    s2 = s2
    x1 = x1
    Scenes = {"pages", "costs", "projects", "merges"}
    CompletionPaths <- PageCompletions
    Old <- PageOld
    Fresh <- PageFresh
    Finishes <- PageFinishes
    Annotations <- PageAnnotations
    Owners <- PageOwners
    Queries <- PageQueries
    PageSize = 1
    Million = 2
    Prices <- CostPrices
    Admins = {1, 2}
    Starts <- CostStarts
    Now = 4
    BatchSize = 1
    Width = 2
    Horizon = 2
    BilledRows <- CostRows
    FirstPrice <- CostFirst
    OpenRows <- CostOpen
    Used <- CostUsed
    MaxChanges = 1
    Users = {1}
    Requests = {1, 2}
    OwnerOf <- ProjectOwners
    Mentions <- ProjectMentions
    Long <- ProjectLong
    Seeds <- ProjectSeeds
    Edits <- ProjectEdits
    Merges = {1, 2}
    MaxProjects = 4
SPECIFICATION Spec
INVARIANTS
    EveryItemListed
    RecalcReprices
    OverviewShowsRecalc
    RequestsKeepProject
    TimesSpanRequests
CHECK_DEADLOCK FALSE
