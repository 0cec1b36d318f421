SPECIFICATION FairSpec
CONSTANTS
    Tickets = {t1}
    Conns = {c1, c2}
    Keys = {k1}
    Max = 1
    MaxConsumed = 1
    MaxConcurrent = 1
    TTL = 1
    UpMax = 1
    UpMaxConsumed = 1
    UpConcurrent = 1
    UpTTL = 2
    MaxTime = 2
PROPERTIES
    RevokedTerminalsClose
    ShutdownCompletes
CHECK_DEADLOCK FALSE
