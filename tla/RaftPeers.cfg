SPECIFICATION MCSpec
CONSTANTS
    s1 = s1
    s2 = s2
    s3 = s3
    Server = {s1, s2, s3}
    Command = {c1}
    None = None
    MaxTerm = 5
    MaxIndex = 2
    MaxInFlight = 2
    MaxRestarts = 1
CHECK_DEADLOCK FALSE
INVARIANTS
    TypeOK
    ElectionSafety
    VotesAreDurable
    OneVotePerTerm
    LogMatching
    LeaderCompleteness
    StateMachineSafety
    LogIsDurable
    NoPanic
    CommitCovered
    MatchIndexSound
PROPERTIES
    TermMonotonic
    LeaderAppendOnly
    ImplementsLog
