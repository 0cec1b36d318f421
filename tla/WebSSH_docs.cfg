SPECIFICATION Spec
CONSTANTS
    Tickets = {t1}
    Conns = {c1}
    Keys = {k1, k2}
    Max = 1
    MaxConsumed = 1
    MaxConcurrent = 1
    TTL = 1
    UpMax = 1
    UpMaxConsumed = 1
    UpConcurrent = 1
    UpTTL = 1
    MaxTime = 0
PROPERTY TicketBoundToHostKey
CHECK_DEADLOCK FALSE
