SPECIFICATION Spec
CONSTANTS
    Server = {0, 1, 2}
    n = 3
    Client = {k1}
    Call = {c1}
    MaxLife = 2
    unreliable = TRUE
    longReordering = TRUE
    MaxOps = 3
CHECK_DEADLOCK FALSE
INVARIANTS
    AckedIsSaved
    Isolated
PROPERTY CallReturns
