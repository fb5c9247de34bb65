SPECIFICATION Spec
CONSTANTS
    Names = {n1, n2}
    Widths = {1, 2}
    Wide = 4
    Xs = {3}
    Levels = {"level", "off"}
    FirstX = 1
    Sep = 1
SYMMETRY Interchangeable
INVARIANTS
    TypeOK
    NoProgramError
    RowIsPacked
    ConfigIsTruthful
    IInv
PROPERTIES
    OrderIsKept
    RestartMovesNothing
