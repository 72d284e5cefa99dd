SPECIFICATION Spec
CONSTANTS
    access = access
    noFreq = noFreq
    LogName = {access, noFreq}
    Config <- MCConfig
    w1 = w1
    w2 = w2
    Writer = {w1, w2}
    Levels = {0, 1}
    None = None
    StartTime = 3
    MaxTime = 8
    MaxLines = 3
    MaxCrashes = 1
    MaxRefusals = 1
SYMMETRY MCSymmetry
INVARIANTS
    LinesInOrder
    OnlyOldestDropped
    OnePeriodPerFile
CHECK_DEADLOCK FALSE
