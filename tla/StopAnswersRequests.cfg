SPECIFICATION FairSpec
CONSTANTS
    Tasks = {t1}
    Workers = {w1, w2}
    NoTask = NoTask
    MaxAttempts = 2
    LockTimeout = 1
    MaxExec = 1
    MaxDelay = 2
    MaxOverdue = 0
    MaxCrashes = 0
    MaxDBFaults = 0
    MaxStops = 1
PROPERTIES
    StopAnswersRequests
