\* A lookup that straddles a second: the burst ceiling is exceeded.
SPECIFICATION MCSpec
CONSTANTS
    u1 = u1  k1 = k1  k2 = k2  a1 = a1
    Environments = {"full"}
    NoCeiling = NoCeiling  NoKey = NoKey  NoAddress = NoAddress
    Users = {u1}
    Keys = {k1}
    Addresses = {a1}
    Owner <- MCOwner
    Plan <- MCBurstPlan
    Requests = {r1, r2}
    AnonRequests = 1
    Hour = 2
    Burst = 1
    MaxTracked = 9
    MaxDelay = 1
    MaxClock = 2
    MaxCharges = 30
    MaxRestarts = 0
SYMMETRY Symmetry
INVARIANTS CeilingRespected
CHECK_DEADLOCK FALSE
