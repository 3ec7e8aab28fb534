SPECIFICATION Spec
CONSTANTS
    Server = {s1, s2}
    c1 = c1
    c2 = c2
    Clerks = {c1, c2}
    Script <- WriterAndReader
    MaxCalls = 3
    MaxIndex = 3
    MaxRestarts = 1
SYMMETRY ServerSymmetry
CONSTRAINT
    FewHandlers
CHECK_DEADLOCK FALSE
INVARIANTS
    OnceInOrder
    AckedApplied
    ReplicasAgree
PROPERTY
    Linearizable
