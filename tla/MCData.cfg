SPECIFICATION Spec
CONSTANTS
    Documents <- MCDocuments
    Paths <- MCPaths
    Keys <- MCKeys
    Inserts <- MCInserts
    Atoi <- MCAtoi
    MaxOps = 3
    Words <- MCWords
    Interfaces <- MCInterfaces
    Contract <- MCContract
    Arguments <- MCArguments
    Canonical <- MCCanonical
    Machine = {"uint64"}
    Big = {"uint", "uint256"}
    Lists = {"uint256[]"}
    MaxExact = 4
    Float64 <- MCFloat64
    MaxLogs = 2
    WordBits = 4
    WideBits = 6
    AddressBytes = 2
    ByteBits = 2
    Methods <- MCMethods
    Names = {"a", "b"}
    Camel <- MCCamel
    GoValues <- MCGoValues
INVARIANTS
    ChangeIsFound
    OthersUntouched
    DecodedAsEmitted
    PanicsOnlyWhen
    AskedIsPacked
    NothingIsMadeUp
CHECK_DEADLOCK FALSE
