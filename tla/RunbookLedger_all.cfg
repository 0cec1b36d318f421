SPECIFICATION LedgerFairSpec
CONSTANTS
    Requests = {r1, r2, r3}
    Jobs = {j1, j2}
    Scopes = {s1, s2}
    Max = 1
    MaxConcurrent = 2
    Steps = 1
    MaxTime = 1
    MaxRestarts = 1
INVARIANTS
    ExclusiveExecution
    UnderCapacityRunsOnce
    ReplayIsOwnResult
    InProgressHasOwner
PROPERTIES
    AdmittedIsAnswered
CHECK_DEADLOCK FALSE
