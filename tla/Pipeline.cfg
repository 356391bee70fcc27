SPECIFICATION Spec
CONSTANTS
    Plans <- AllPlans
    MaxRounds = 2
    MaxTraceFaults = 1
    LockTimeout = 300
INVARIANTS
    TypeOK
    OutcomeIsEarned
    InputsArePresent
    TraceMatchesResults
    TraceIsRooted
    FitsTheLease
CHECK_DEADLOCK FALSE
