SPECIFICATION MCSpec
CONSTANTS
    Chars <- MCChars
    Names <- MCNames
    Commands <- MCCommands
    Lines <- MCLines
    Drafts <- MCDrafts
    HistoryMax = 2
    SavePeriod = 2
    MaxEnters = 4
    MaxKeys = 3
INVARIANTS
    FileKeepsUp
    StatementsAreWhole
    RecalledOnOneLine
    ScriptReadsTheSame
CHECK_DEADLOCK FALSE
