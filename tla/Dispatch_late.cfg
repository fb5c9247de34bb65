SPECIFICATION FairSpec
CONSTANTS
    Names = {n1, n2}
    Kinds = {"N2K", "Timer"}
    Ids = {1, 2, 3}
    Practices = {}
    MaxEntries = 3
    MaxQueue = 1
    MaxDepth = 4
INVARIANT NoUndefinedBehaviour
