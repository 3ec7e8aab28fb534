SPECIFICATION Spec
CONSTANTS
    Worker = {w1}
    NFiles = 2
    NReduce = 1
    Limited = {}
    RPCLimit = 1
    Crashing = {}
    LateStart = TRUE
CHECK_DEADLOCK FALSE
INVARIANTS
    PhaseBarrier
