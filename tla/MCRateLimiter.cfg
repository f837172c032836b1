SPECIFICATION Spec
CONSTANTS
    Requests = {r1, r2}
    Keys = {k1}
    Limit = 1
    Window = 3
    Latency = 1
    MaxClock = 4
    MaxCalls = 2
    MaxFaults = 1
SYMMETRY Symmetry
INVARIANTS
    TypeOK
    RejectedOnlyOverLimit
    KeysExpire
    AdmittedBounded
CHECK_DEADLOCK FALSE
