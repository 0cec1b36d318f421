SPECIFICATION Spec
CONSTANTS
    Requests = {q1, q2}
    Assertions = {a1}
    Handlers = {h1, h2, h3}
    Skew = 3
    MaxNonces = 1
    MaxConcurrent = 1
    IdSkew = 1
    Lifetime = 1
    SessionTTL = 2
    Margin = 0
    Drift = 1
    Stall = 1
    MaxTime = 6
SYMMETRY MCSymmetry
INVARIANTS
    NoReplay
PROPERTIES
    LateMessagesRefused
    EndedSessionsStayEnded
CHECK_DEADLOCK FALSE
