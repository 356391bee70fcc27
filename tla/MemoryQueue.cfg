SPECIFICATION FairSpec
CONSTANTS
    Runs = {r1, r2}
    Shots = {s1, s2}
    NoShot = NoShot
    Workers = {w1, w2}
    MaxAttempts = 2
INVARIANTS
    TypeOK
    OneHolder
    AttemptsWithinMax
    TakenInOrder
    OneTaskAfterStop
    StatsAddUp
PROPERTIES
    ImplementsLeasedQueue
    AcceptedIsSettled
    StopEnds
CHECK_DEADLOCK FALSE
