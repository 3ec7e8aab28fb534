SPECIFICATION Spec
CONSTANTS
    s1 = s1
    s2 = s2
    s3 = s3
    Server = {s1, s2, s3}
    Command = {c1}
    None = None
    MaxTerm = 5
    MaxIndex = 3
    MaxInFlight = 2
    MaxRestarts = 1
CONSTRAINTS
    Overwritten
CHECK_DEADLOCK FALSE
INVARIANTS
    LateRepliesHandled
