SPECIFICATION FairSpec
CONSTANTS
    Events = {1, 2, 3}
    Producers = {p1, p2}
    BatchSize = 2
    MaxAttempts = 2
    MaxCrashes = 1
INVARIANTS
    TypeOK
    CopiesExplained
    GivenUpAtTheLimit
PROPERTIES
    EveryEventDecided
    ImplementsContract
CHECK_DEADLOCK FALSE
