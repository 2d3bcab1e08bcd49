SPECIFICATION Spec
CONSTANTS
    Requests = {r1, r2, r3}
    Keys = {k1, k2}
    NoTicket = NoTicket
INVARIANTS
    TypeOK
    OneTicketPerKey
    ConflictFindsRow
CHECK_DEADLOCK FALSE
