SPECIFICATION Spec
CONSTANTS
    Tickets = {t1}
    Handlers = {h1, h2}
    Senders = {g1, g2}
    Reconcilers = {r1}
    NoSession = NoSession
    NoTicket = NoTicket
    MaxEvents = 4
    MaxFrames = 2
    BatchSize = 2
SYMMETRY Symmetry
CHECK_DEADLOCK FALSE
INVARIANTS
    TypeOK
    DecisionGrounded
    CancellationGrounded
    OneAnswerPerFrame
    NoEarlyRegress
PROPERTIES
    ClaimCommitsWithEffect
    TerminalReopensOnlyStale
    ImplementsFrameContract
