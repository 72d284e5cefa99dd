SPECIFICATION FairSpec
CONSTANTS
    c1 = c1
    Collectors = {c1}
    Start = 1
    StartBlockNumber <- MCStart
    LogRange = 2
    CommitBlockCount = 1
    Lag = 1
    MinHead = 2
    FetchReplies = {"logs"}
    DiskFaults = FALSE
    MaxHead = 5
    MaxCrashes = 2
    U64 = 32
INVARIANTS
    TypeOK
    NoEventLost
    CursorIsCommitted
    NoTornFile
PROPERTIES
    CollectsBeyondCursor
    EventuallySaved
    ImplementsFeed
