SPECIFICATION ReadersSpec
CONSTANTS
    Tasks = {t1, t2}
    Workers = {w1}
    NoTask = NoTask
    Shots = {s1, s2}
    NoShot = NoShot
    MaxAttempts = 1
    LockTimeout = 1
    MaxExec = 1
    MaxDelay = 1
    MaxOverdue = 0
    MaxCrashes = 1
    MaxDBFaults = 1
    MaxStops = 0
SYMMETRY Symmetry
INVARIANTS
    ReadersTypeOK
    StatsAddUp
    P95IsFound
    DetailIsComplete
CHECK_DEADLOCK FALSE
