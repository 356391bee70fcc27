SPECIFICATION Spec
CONSTANTS
    Segments <- Files
    Servers = {api}
    AutoMigrate = {api}
    Commands = {migrate}
    MaxStarts = 1
    MaxFaults = 0
INVARIANTS
    StartsAreRepeatable
CHECK_DEADLOCK FALSE
