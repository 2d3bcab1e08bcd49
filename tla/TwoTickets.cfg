SPECIFICATION Spec
CONSTANTS
    Tickets = {t1, t2}
    Handlers = {h1}
    Senders = {g1}
    Reconcilers = {r1}
    NoSession = NoSession
    NoTicket = NoTicket
    MaxEvents = 5
    MaxFrames = 1
    BatchSize = 2
SYMMETRY Symmetry
CHECK_DEADLOCK FALSE
INVARIANTS
    TransactionalOutbox
    LocksMatchWork
PROPERTIES
    LockedRowsUntouched
    ImplementsDecisionContract
