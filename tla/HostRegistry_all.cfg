SPECIFICATION Spec
CONSTANTS
    Clients = {c1, c2}
    Admins = {c1}
    Addresses = {a1, a2}
    ProbeSlots = 1
    MaxVersion = 2
    MaxKeys = 2
INVARIANTS
    HostTypeOK
    KeyConfirmedForAddress
PROPERTIES
    NoLostUpdate
CHECK_DEADLOCK FALSE
