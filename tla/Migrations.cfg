SPECIFICATION FairSpec
CONSTANTS
    Segments <- Files
    Servers = {api, second}
    AutoMigrate = {api}
    Commands = {migrate}
    MaxStarts = 2
    MaxFaults = 2
INVARIANTS
    TypeOK
    UpMeansMigrated
    VectorsFollowCollection
PROPERTIES
    FirstMigrationCompletes
CHECK_DEADLOCK FALSE
