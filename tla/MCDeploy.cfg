SPECIFICATION FairSpec
CONSTANTS
    tokens = tokens
    other = other
    token = token
    market = market
    proxy = proxy
    lib = lib
    src1 = src1
    src2 = src2
    src3 = src3
    addr = addr
    mkt = mkt
    file1 = file1
    line1 = line1
    again = again
    None = None
    ComposeFiles <- MCFiles
    SourceFiles = {src1, src2, src3}
    Names = {token, market, proxy, lib, again}
    Artifacts <- MCArtifacts
    Collections = {tokens, other}
    Vars = {addr, mkt}
    Commands <- MCCommands
    Lines = {line1}
    Prices = {1, 2}
    MaxLines = 3
    MaxForeign = 1
    MaxReverted = 2
    MaxPolls = 2
INVARIANTS
    AddressIsOwn
PROPERTIES
    CompleteIsWired
    NoHalfCollection
    DeployEnds
CHECK_DEADLOCK FALSE
