SPECIFICATION Spec
CONSTANTS
    Requests = {r1, r2}
    Registered = {"db", "provider"}
INVARIANTS
    TypeOK
    ReadyWasUp
    RefusalNamesCulprit
    StoppedShowsNothing
PROPERTY StartedSticks
CHECK_DEADLOCK FALSE
