\* Both environments.
SPECIFICATION MCSpec
CONSTANTS
    u1 = u1  k1 = k1  k2 = k2  a1 = a1
    Environments = {"full", "orderly"}
    NoCeiling = NoCeiling  NoKey = NoKey  NoAddress = NoAddress
    Users = {u1}
    Keys = {k1, k2}
    Addresses = {a1, a2, NoAddress}
    Owner <- MCOwner
    Plan <- MCPlan
    Requests = {r1, r2}
    AnonRequests = 1
    Hour = 2
    Burst = 1
    MaxTracked = 4
    MaxDelay = 1
    MaxClock = 2
    MaxCharges = 4
    MaxRestarts = 1
SYMMETRY Symmetry
INVARIANTS
    NeverOvercharged RefusalJustified TrackedBounded
    OrderlyCeilings UsageIsWhatWasAdmitted
CHECK_DEADLOCK FALSE
