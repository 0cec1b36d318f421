SPECIFICATION Spec
CONSTANTS
    Deployments = {d1, d2}
    Requests = {r1, r2}
    Versions = {v1, v2}
PROPERTIES
    SupersededPlanNeverClaimed
CHECK_DEADLOCK FALSE
