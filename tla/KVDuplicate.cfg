SPECIFICATION Spec
CONSTANTS
    Server = {s1}
    c1 = c1
    c2 = c2
    Clerks = {c1}
    Script <- ReadAndAppend
    MaxCalls = 4
    MaxIndex = 4
    MaxRestarts = 0
CHECK_DEADLOCK FALSE
INVARIANTS
    OnceInOrder
