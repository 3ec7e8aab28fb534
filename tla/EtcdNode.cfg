SPECIFICATION Spec
CONSTANTS
    MaxIndex = 4
    Logs <- SomeLogs
    MaxCrashes = 1
    MaxCrashIndex = 2
    snapCount = 1
    snapshotCatchUpEntriesN = 1
CHECK_DEADLOCK FALSE
INVARIANTS
    AppliedInOrder
    WrittenAhead
    ReadsSurviveRestart
    NoFatal
PROPERTIES
    SnapshotLacksAtMostLast
    RemovedNodeExits
    ShutdownCompletes
    ComesToServe
