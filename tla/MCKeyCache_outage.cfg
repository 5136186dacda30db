\* Two requests with the same key in one failure lifetime.
SPECIFICATION MCSpec
CONSTANTS
    NoCaller = NoCaller
    Keys = {k1}
    Plans = {p1}
    SprayKeys = {}
    SprayPlans = {}
    Requests = {r1, r2}
    Ttl = 3
    FailureTtl = 1
    MaxEntries = 2
    LookupSeconds = 1
    MaxClock = 2
    MaxChanges = 0
SYMMETRY Symmetry
INVARIANTS OneStallPerOutage
CHECK_DEADLOCK FALSE
