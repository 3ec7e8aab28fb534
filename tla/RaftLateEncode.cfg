SPECIFICATION SendSpec
CONSTANTS
    s1 = s1
    s2 = s2
    s3 = s3
    s4 = s4
    s5 = s5
    Server = {s1, s2, s3, s4, s5}
    Command = {c1}
    None = None
    MaxTerm = 3
    MaxIndex = 2
    MaxInFlight = 2
    MaxRestarts = 0
CONSTRAINTS
    Deposed
CHECK_DEADLOCK FALSE
INVARIANTS
    LogMatching
