SPECIFICATION PipelineSpec
CONSTANTS
    c1 = c1
    a1 = a1
    a2 = a2
    Collectors = {c1}
    Actors = {a1, a2}
    CollectorsOf <- MCCollectorsOf
    EventsPerBlock = 2
    Start = 0
    StartBlockNumber <- MCStart
    LogRange = 2
    CommitBlockCount = 1
    Lag = 0
    MinHead = 1
    FetchReplies = {"logs"}
    DiskFaults = FALSE
    MaxHead = 3
    MaxCrashes = 1
    U64 = 16
INVARIANTS
    NothingSkipped
    HandledInOrder
PROPERTIES
    SavedUntilHandled
