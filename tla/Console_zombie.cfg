SPECIFICATION Spec
CONSTANTS
    Heaps = {h1, h2}
    NoHeap = NoHeap
    Ids = {i1, i2}
    NoId = NoId
    MaxCallbacks = 2
    Types = {"CB_TIMER"}
    Modals = {"message"}
    Practices = {"failUnderModal"}
    MaxDepth = 2
    MaxPending = 1
INVARIANT WaitingIsForSomething
CHECK_DEADLOCK FALSE
