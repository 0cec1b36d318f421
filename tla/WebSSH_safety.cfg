SPECIFICATION Spec
CONSTANTS
    Tickets = {t1, t2}
    Conns = {c1, c2}
    Keys = {k1}
    Max = 1
    MaxConsumed = 1
    MaxConcurrent = 2
    TTL = 1
    UpMax = 1
    UpMaxConsumed = 1
    UpConcurrent = 1
    UpTTL = 2
    MaxTime = 2
SYMMETRY MCSymmetry
INVARIANTS
    TicketUsedOnce
    TicketsBounded
    AuditTrail
CHECK_DEADLOCK FALSE
