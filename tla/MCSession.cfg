SPECIFICATION FairSpec
CONSTANTS
    chain1 = chain1
    w1 = w1
    w2 = w2
    a = a
    b = b
    x = x
    line1 = line1
    y = y
    None = None
    Chains = {chain1}
    Wallets = {w1, w2}
    KeyStores = {w2}
    Home <- MCHome
    Names = {a, b}
    Vars = {x, y}
    Commands <- MCCommands
    Lines = {line1}
    MaxLines = 4
    MaxPolls = 2
INVARIANTS
    VarsOnChain
    SignerIsUser
PROPERTIES
    RevertRestoresVars
    LineEnds
CHECK_DEADLOCK FALSE
