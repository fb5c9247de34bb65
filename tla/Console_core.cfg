SPECIFICATION Spec
CONSTANTS
    Heaps = {h1, h2}
    NoHeap = NoHeap
    Ids = {i1, i2}
    NoId = NoId
    MaxCallbacks = 2
    Types = {"CB_TIMER", "CB_NMEA0183", "CB_MESSAGE", "CB_DIALOGUE"}
    Modals = {"message", "dialogue", "file"}
    Practices = {}
    MaxDepth = 2
    MaxPending = 1
SYMMETRY Symmetry
INVARIANTS
    TypeOK
    HeapOutlivesCalls
    NoUndefinedBehaviour
    CallbacksOnLiveHeap
    QuiescentIsConsistent
    WaitingIsForSomething
    ModalCountAgrees
    IInv
    LifeInv
PROPERTIES
    ExitHandlerIsFinal
    QueuedRunStarts
    ImplementsLifecycle
