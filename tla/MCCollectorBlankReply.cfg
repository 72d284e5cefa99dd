SPECIFICATION Spec
CONSTANTS
    c1 = c1
    Collectors = {c1}
    Start = 0
    StartBlockNumber <- MCStart
    LogRange = 2
    CommitBlockCount = 1
    Lag = 0
    MinHead = 1
    FetchReplies = {"logs", "blank"}
    DiskFaults = FALSE
    MaxHead = 4
    MaxCrashes = 1
    U64 = 32
INVARIANT
    CollectsUpToCursor
