\* One key with changes, and three keys without.
SPECIFICATION MCSpec
CONSTANTS
    NoCaller = NoCaller
    Keys = {k1}
    Plans = {p1, p2}
    SprayKeys = {k2, k3, k4}
    SprayPlans = {p3}
    Requests = {r1, r2}
    Ttl = 3
    FailureTtl = 1
    MaxEntries = 2
    LookupSeconds = 1
    MaxClock = 4
    MaxChanges = 2
SYMMETRY Symmetry
INVARIANTS AnswersAreRecent NoEntryOutlivesItsTruth CacheBounded
CHECK_DEADLOCK FALSE
