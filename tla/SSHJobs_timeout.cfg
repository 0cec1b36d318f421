SPECIFICATION FairSpec
CONSTANTS
    Jobs = {j1}
    Hosts = {h1}
    Sessions = {s1}
    Kinds = {"runtime_snapshot"}
    Access <- MCAccess
    MaxCancels = 1
PROPERTY StoppedJobsEnd
CHECK_DEADLOCK FALSE
