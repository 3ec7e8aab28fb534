SPECIFICATION FairSpec
CONSTANTS
    Worker = {w1, w2, w3}
    NFiles = 2
    NReduce = 1
    Limited = {w1}
    RPCLimit = 2
    Crashing = {w2}
    LateStart = FALSE
CHECK_DEADLOCK FALSE
INVARIANTS
    WorkerAccounted
    PhaseBarrier
    OutputComplete
PROPERTY
    JobCompletes
