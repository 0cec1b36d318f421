SPECIFICATION Spec
CONSTANTS
    Calls = {c1, c2, c3}
    MinTTL = 1
    MaxTTL = 2
    MaxDelay = 1
    MaxTime = 3
    MaxFaults = 1
    MaxKinds = 1
SYMMETRY MCSymmetry
INVARIANTS
    LeaseOverlapBounded
    RecordKept
    SignalKept
CHECK_DEADLOCK FALSE
