SPECIFICATION FairSpec
CONSTANTS
    Requests = {r1, r2}
    Jobs = {j1}
    Targets = {t1, t2}
    Keys = {k1, k2}
    Creds = {c1}
    Scopes <- MCScopes
    Max = 1
    MaxConcurrent = 1
    Steps = 2
    MaxTime = 0
    MaxRestarts = 1
INVARIANTS
    FlowTypeOK
    PlanStartsAtMostOnce
    RunsApprovedBinding
    SucceededMeansExecuted
    ClosedOnce
PROPERTIES
    ImplementsStateMachine
    RevokedBeforeApprovalNeverRuns
    RunningComesToRest
CHECK_DEADLOCK FALSE
