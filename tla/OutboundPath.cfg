SPECIFICATION FairSpec
CONSTANTS
    Events = {e1}
    MaxCopies = 2
    Gateways = {g1, g2}
    DeliveryLimit = 3
INVARIANTS
    TypeOK
    NothingVanishes
    RetriesBounded
PROPERTY EveryEventEnds
CHECK_DEADLOCK FALSE
