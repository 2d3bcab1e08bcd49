SPECIFICATION FairSpec
CONSTANTS
    Tickets = {t1}
    Handlers = {h1}
    Senders = {g1}
    Reconcilers = {r1}
    NoSession = NoSession
    NoTicket = NoTicket
    MaxEvents = 4
    MaxFrames = 2
    BatchSize = 1
PROPERTIES
    AskedAgain
    ImplementsDecisionContract
CHECK_DEADLOCK FALSE
