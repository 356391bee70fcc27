SPECIFICATION Spec
CONSTANTS
    Ids = {1, 2, 3, 4}
    Limits = {1, 2}
    K = 60
    MinFetch = 3
INVARIANTS
    TypeOK
    DegradesToKeyword
    FusionKeepsAgreedOrder
CHECK_DEADLOCK FALSE
