SPECIFICATION Spec
CONSTANTS
    MaxIndex = 2
    Logs <- AllLogs
    MaxCrashes = 2
    MaxCrashIndex = 2
    snapCount = 1
    snapshotCatchUpEntriesN = 1
CHECK_DEADLOCK FALSE
PROPERTIES
    Recovers
