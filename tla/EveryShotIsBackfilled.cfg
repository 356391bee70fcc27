SPECIFICATION Spec
CONSTANTS
    s1 = s1
    s2 = s2
    Shots = {s1, s2}
    Runs = {r1, r2}
    NoShot = NoShot
    Degraded = Degraded
    CreatedAt <- SameSecond
    Hints <- AllTyped
    BatchSize = 1
    MaxRounds = 1
    MaxFaults = 1
SYMMETRY Symmetry
INVARIANTS
    EveryShotIsBackfilled
CHECK_DEADLOCK FALSE
