SPECIFICATION FairSpec
CONSTANTS
    Jobs = {j1}
    Hosts = {h1}
    Sessions = {s1, s2}
    Kinds = {"runtime_snapshot", "process_anomaly_scan"}
    Access <- MCAccess
    MaxCancels = 2
INVARIANTS
    FinishAuditedOnce
    OpenJobsAreCancellable
    CancellationHasCause
PROPERTIES
    ImplementsStateMachine
    RevocationStopsExecution
    CancelBeforeDialStopsExecution
    EveryJobEnds
    CancelHandlesAreReleased
CHECK_DEADLOCK FALSE
