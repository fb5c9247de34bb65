SPECIFICATION Spec
CONSTANTS
    Consoles = {A, B}
    NoConsole = NoConsole
    Ids = {i1, i2}
    NoId = NoId
    Modals = {"message", "dialogue", "file"}
    Practices = {}
    Giving = {TRUE, FALSE}
    MaxDepth = 3
SYMMETRY Symmetry
VIEW View
INVARIANTS
    TypeOK
    NoUndefinedBehaviour
    AwaitedReplyIsOwed
    ReplyIsForRequest
    NoCircularWait
    BriefIsForThisRun
    TimedIsRunning
    IInv
