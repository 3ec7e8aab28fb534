SPECIFICATION Spec
CONSTANTS
    Worker = {w1}
    NFiles = 1
    NReduce = 1
    Limited = {}
    RPCLimit = 1
    Crashing = {}
    LateStart = FALSE
CHECK_DEADLOCK FALSE
INVARIANTS
    CountIsExact
