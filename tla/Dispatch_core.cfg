SPECIFICATION FairSpec
CONSTANTS
    Names = {n1, n2}
    Kinds = {"Mouse", "Navigation", "Timer"}
    Ids = {1, 2}
    Practices = {}
    MaxEntries = 2
    MaxQueue = 2
    MaxDepth = 5
INVARIANTS
    TypeOK
    
    NoUndefinedBehaviour
    NoneIsMissed
    NoneIsCalledTwice
PROPERTY WalksEnd
