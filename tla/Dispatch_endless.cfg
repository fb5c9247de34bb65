SPECIFICATION FairSpec
CONSTANTS
    Names = {n1, n2}
    Kinds = {"N0183"}
    Ids = {1, 2, 3}
    Practices = {"resubscribe"}
    MaxEntries = 3
    MaxQueue = 1
    MaxDepth = 4
PROPERTY WalksEnd
