SPECIFICATION Spec
CONSTANTS
    Tickets = {t1}
    Handlers = {h1, h2}
    Senders = {g1}
    Reconcilers = {r1}
    NoSession = NoSession
    NoTicket = NoTicket
    MaxEvents = 3
    MaxFrames = 2
    BatchSize = 2
SYMMETRY Symmetry
CHECK_DEADLOCK FALSE
PROPERTY SettleSparesTerminal
