SPECIFICATION FairSpec
CONSTANTS
    Messages = {f1, f2}
    Processes = {c1}
    DeliveryLimit = 1
    MaxRestarts = 0
PROPERTY FramesReachQueue
CHECK_DEADLOCK FALSE
