SPECIFICATION Spec
CONSTANTS
    Consoles = {A, B}
    NoConsole = NoConsole
    Ids = {i1, i2}
    NoId = NoId
    Modals = {"message"}
    Practices = {"unreadBrief"}
    Giving = {TRUE, FALSE}
    MaxDepth = 3
SYMMETRY Symmetry
INVARIANTS
    BriefIsForThisRun
