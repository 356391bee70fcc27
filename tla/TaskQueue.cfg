SPECIFICATION Spec
CONSTANTS
    Tasks = {t1, t2}
    Workers = {w1, w2}
    NoTask = NoTask
    MaxAttempts = 2
    LockTimeout = 2
    MaxExec = 2
    MaxDelay = 3
    MaxOverdue = 1
    MaxCrashes = 2
    MaxDBFaults = 1
    MaxStops = 1
SYMMETRY Symmetry
INVARIANTS
    TypeOK
    LeaseExclusive
    AttemptsWithinFaults
    OrphanedOnlyByFault
    RunAgreesWithTask
PROPERTIES
    SettledIsFinal
    ImplementsLeasedQueue
