SPECIFICATION Spec
CONSTANTS
    s1 = s1
    s2 = s2
    Shots = {s1, s2}
    Runs = {r1, r2}
    NoShot = NoShot
    Degraded = Degraded
    CreatedAt <- OneSecondApart
    Hints <- FirstMayBeBlank
    BatchSize = 1
    MaxRounds = 2
    MaxFaults = 2
SYMMETRY Symmetry
INVARIANTS
    TypeOK
    InsightFitsText
    IndexIsCurrent
    BackfillCovers
PROPERTIES
    PointsWereSaved
    RecognizedTextStays
CHECK_DEADLOCK FALSE
