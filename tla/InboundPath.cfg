SPECIFICATION FairSpec
CONSTANTS
    Messages = {f1, f2}
    Processes = {c1}
    DeliveryLimit = 1
    MaxRestarts = 1
INVARIANTS
    TypeOK
    AckedIsPersisted
    LossExplained
    AckedWasHandled
PROPERTY FramesEnd
CHECK_DEADLOCK FALSE
