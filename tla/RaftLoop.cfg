SPECIFICATION Spec
CONSTANTS
    Handler = {h1}
    Caller = {k1}
    Sender = {s1}
    Command = {a}
    MaxIndex = 3
    TickCap = 1
CHECK_DEADLOCK FALSE
INVARIANTS
    NoPanic
    AppliedIsCommitted
PROPERTIES
    PeersAnswered
    AppendLogReturns
    CommittedIsApplied
