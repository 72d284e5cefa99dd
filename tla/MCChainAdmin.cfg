SPECIFICATION FairSpec
CONSTANTS
    dyn = dyn
    k1 = k1
    k2 = k2
    w1 = w1
    w2 = w2
    Absent = Absent
    Nobody = Nobody
    Chains = {dyn}
    LiveChains = {}
    LiveStart = 0
    Boot <- MCBoot
    Clients = {k1, k2}
    Workers = {w1, w2}
    Starts = {0, 1}
    LogRange = 1
    MaxBlock = 1
INVARIANTS
    ListMatchesRegistry
PROPERTIES
    CancelledWorkerStops
    RegisteredChainCollects
CHECK_DEADLOCK FALSE
