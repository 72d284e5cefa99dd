SPECIFICATION FairSpec
CONSTANTS
    a1 = a1
    a2 = a2
    old = old
    new = new
    None = None
    MaxRequests = 3
    Bodies <- MCBodies
    Accounts = {a1, a2}
    Phrases = {old, new}
    KeyFiles <- MCKeyFiles
    Width = 16
    MaxChanges = 1
INVARIANTS
    SignedAsAsked
    OneSigner
    OwnSignaturesRecover
PROPERTIES
    EveryoneAnswered
CHECK_DEADLOCK FALSE
