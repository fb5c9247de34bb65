SPECIFICATION FairSpec
CONSTANTS
    Heaps = {h1, h2}
    NoHeap = NoHeap
    Ids = {i1}
    NoId = NoId
    MaxCallbacks = 1
    Types = {"CB_TIMER"}
    Modals = {"message"}
    Practices = {}
    MaxDepth = 2
    MaxPending = 1
INVARIANT
    ScriptsAreTimed
PROPERTIES
    EventLoopResumes
    QueuedRunsAreTaken
    AnsweredModalEnds
