SPECIFICATION Spec
CONSTANTS
    Deployments = {d1, d2, d3}
    Requests = {r1, r2, r3}
    Versions = {v1, v2}
SYMMETRY MCSymmetry
INVARIANTS
    CloudTypeOK
    ExecutedOnce
    SucceededMeansDeployed
    PlansChain
    EndIsAccepted
CHECK_DEADLOCK FALSE
