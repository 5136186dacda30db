----------------------------- MODULE RateLimiter -----------------------------
(***************************************************************************)
(* The per-process request limiter of the API (apps/api/src/rate_limit.rs): *)
(* fixed windows held in one mutex-protected map, every limit of a request *)
(* checked in one pass, and the axum layer that reads the wall clock,      *)
(* awaits the API key lookup, and only then checks with the instant it     *)
(* read before the await.                                                  *)
(*                                                                         *)
(* A step is what runs under the mutex or between two awaits.  Time is     *)
(* counted in seconds of the wall clock, as the code counts it.            *)
(***************************************************************************)
EXTENDS Integers, FiniteSets, Sequences, Bags, Functions

CONSTANTS
    Users,          \* rows of the users table that own a key
    Keys,           \* issued API keys
    Owner,          \* Owner[k]: the user a key belongs to
    Plan,           \* Plan[u]: the plan's [requests, burst, ipCeiling]
    NoCeiling,      \* the ipCeiling of a plan without one
    NoKey,          \* no x-api-key header, or one that resolves to nothing
    Addresses,      \* what client_ip::resolve_from returns, NoAddress among them or not
    NoAddress,      \* it found none
    AnonRequests,   \* state.anon_requests
    Hour,           \* WINDOW_SECONDS and SECONDS_PER_HOUR
    Burst,          \* BURST_WINDOW_SECONDS
    MaxTracked,     \* RATE_LIMIT_MAX_TRACKED
    Requests,       \* request slots: how many requests can be in flight
    MaxDelay,       \* seconds that may pass between reading the clock and checking
    MaxClock,       \* bound: the last second of the modelled period
    MaxCharges,     \* bound: charges made by the admitted requests of a behaviour
    MaxRestarts     \* bound: restarts of the process

ASSUME LimiterConstants ==
    /\ Owner \in [Keys -> Users]
    /\ NoCeiling \notin Nat
    /\ Plan \in [Users -> [requests : Nat, burst : Nat, ipCeiling : Nat \cup {NoCeiling}]]
    /\ NoKey \notin Keys
    /\ IsFiniteSet(Keys)
    /\ AnonRequests \in Nat
    /\ Hour \in Nat \ {0}
    /\ Burst \in Nat \ {0}
    /\ MaxTracked \in Nat \ {0}
    /\ MaxDelay \in Nat
    /\ MaxClock \in Nat
    /\ MaxCharges \in Nat
    /\ MaxRestarts \in Nat

VARIABLES
    windows,    \* Limiter.windows: tracked bucket -> [expires, count]
    clock,      \* now_seconds()
    request,    \* the requests between the clock read and check_all
    restarts,   \* how often the process restarted
    outcome,    \* what the last request of each slot was refused for
    admitted,   \* history: bag of <<bucket, window end>>, one copy per admission
    recorded,   \* history: bag of <<key, hour>> passed to UsageRecorder::record
    disturbed   \* history: a window that was still open has been forgotten

vars == <<windows, clock, request, restarts, outcome, admitted, recorded, disturbed>>

-----------------------------------------------------------------------------
(* Buckets and limits.                                                     *)

UserBucket(u)  == [kind |-> "user", of |-> u]
BurstBucket(u) == [kind |-> "burst", of |-> u]
KeyedIp(a)     == [kind |-> "keyed_ip", of |-> a]
Ip(a)          == [kind |-> "ip", of |-> a]
Unknown        == [kind |-> "unknown", of |-> NoAddress]

Bucket ==
    {UserBucket(u) : u \in Users} \cup {BurstBucket(u) : u \in Users}
        \cup {KeyedIp(a) : a \in Addresses} \cup {Ip(a) : a \in Addresses} \cup {Unknown}

Limit(bucket, ceiling, window) ==
    [bucket |-> bucket, ceiling |-> ceiling, window |-> window]

AnonymousLimit(address) ==
    Limit(IF address = NoAddress THEN Unknown ELSE Ip(address), AnonRequests, Hour)

UserLimit(user)             == Limit(UserBucket(user), Plan[user].requests, Hour)
BurstLimit(user)            == Limit(BurstBucket(user), Plan[user].burst, Burst)
AddressLimit(user, address) == Limit(KeyedIp(address), Plan[user].ipCeiling, Hour)

\* An address ceiling applies only to a plan that has one and a caller that has an address.
HasAddressLimit(user, address) ==
    address # NoAddress /\ Plan[user].ipCeiling # NoCeiling

\* limits_for: the limits of one request, the sustained one first.
LimitsFor(key, address) ==
    LET user == Owner[key] IN
    IF key = NoKey THEN <<AnonymousLimit(address)>>
    ELSE IF HasAddressLimit(user, address)
         THEN <<UserLimit(user), BurstLimit(user), AddressLimit(user, address)>>
         ELSE <<UserLimit(user), BurstLimit(user)>>

LimitsOf(limits) == {limits[i] : i \in DOMAIN limits}
BucketsOf(limits) == {limit.bucket : limit \in LimitsOf(limits)}

\* The end of the window of the given length that holds the instant `now`.
WindowEnd(now, window) == (now \div window + 1) * window

\* Mutant: a request is attributed to the nearest hour.
NearestHour(now) == (now + Hour \div 2) \div Hour

HourOf(now) == now \div Hour

-----------------------------------------------------------------------------
(* What check_all does to the map.                                         *)

Live(ws, now) == {b \in DOMAIN ws : now < ws[b].expires}

Keep(ws, buckets) == [b \in buckets |-> ws[b]]

\* Mutant: a map full of live windows goes on growing.
NeverForgets(ws, now) ==
    IF Cardinality(DOMAIN ws) < MaxTracked THEN ws ELSE Keep(ws, Live(ws, now))

\* At the ceiling drop what has expired; if that frees nothing, forget everything.
Bound(ws, now) ==
    IF Cardinality(DOMAIN ws) < MaxTracked THEN ws
    ELSE IF Cardinality(Live(ws, now)) < MaxTracked THEN Keep(ws, Live(ws, now))
    ELSE Keep(ws, {})

\* Mutant: a new window inherits the count of the old one.
InheritsCount(ws, limit, now) ==
    [expires |-> WindowEnd(now, limit.window),
     count |-> IF limit.bucket \in DOMAIN ws THEN ws[limit.bucket].count ELSE 0]

\* The window of one limit, opened anew unless the tracked one is still the one of `now`.
WindowFor(ws, limit, now) ==
    LET expires == WindowEnd(now, limit.window) IN
    IF limit.bucket \in DOMAIN ws /\ ws[limit.bucket].expires = expires
    THEN ws[limit.bucket]
    ELSE [expires |-> expires, count |-> 0]

LimitAt(limits, bucket) == CHOOSE limit \in LimitsOf(limits) : limit.bucket = bucket

Opened(ws, limits, now) ==
    [b \in DOMAIN ws \cup BucketsOf(limits) |->
        IF b \in BucketsOf(limits) THEN WindowFor(ws, LimitAt(limits, b), now) ELSE ws[b]]

\* Mutants: the comparison is off by one, either way.
SpentOneLate(ws, limit) == ws[limit.bucket].count > limit.ceiling

SpentOneEarly(ws, limit) == ws[limit.bucket].count + 1 >= limit.ceiling

Spent(ws, limit) == ws[limit.bucket].count >= limit.ceiling

Charged(ws, limits) ==
    [b \in DOMAIN ws |->
        IF b \in BucketsOf(limits) THEN [ws[b] EXCEPT !.count = @ + 1] ELSE ws[b]]

\* The first limit, in the order of the request, that has no allowance left.
Refusing(ws, limits) ==
    limits[CHOOSE i \in DOMAIN limits :
              /\ Spent(ws, limits[i])
              /\ \A j \in 1..(i - 1) : ~Spent(ws, limits[j])]

\* How often an element of a bag was put in.
Copies(e, bag) == IF e \in DOMAIN bag THEN bag[e] ELSE 0

\* The windows one admission is charged to.
Charges(limits, now) ==
    {<<limit.bucket, WindowEnd(now, limit.window)>> : limit \in LimitsOf(limits)}

-----------------------------------------------------------------------------
Idle == [busy |-> FALSE, now |-> 0, key |-> NoKey, address |-> NoAddress]

NotRefused == [refused |-> FALSE, bucket |-> Unknown, expires |-> 0, ceiling |-> 0]

Init ==
    /\ windows = [b \in {} |-> 0]
    /\ clock = 0
    /\ request = [r \in Requests |-> Idle]
    /\ restarts = 0
    /\ outcome = [r \in Requests |-> NotRefused]
    /\ admitted = EmptyBag
    /\ recorded = EmptyBag
    /\ disturbed = FALSE

\* A limited request enters the layer: the clock is read before the key lookup is awaited.
Arrive(r) ==
    /\ ~request[r].busy
    /\ BagCardinality(admitted) < MaxCharges
    /\ \E key \in Keys \cup {NoKey}, address \in Addresses :
          request' = [request EXCEPT ![r] =
              [busy |-> TRUE, now |-> clock, key |-> key, address |-> address]]
    /\ UNCHANGED <<windows, clock, restarts, outcome, admitted, recorded, disturbed>>

\* History: a pass forgets windows that are still open, because the map was full of live
\* ones or because the instant of the request lies in a window that has ended meanwhile.
Forgets(limits, now) ==
    \/ ~(Live(windows, clock) \subseteq DOMAIN Bound(windows, now))
    \/ \E limit \in LimitsOf(limits) : WindowEnd(now, limit.window) <= clock

\* The lookup answered: one pass over every limit, under the mutex.
CheckAll(r, caller) ==
    LET now    == request[r].now
        limits == LimitsFor(caller, request[r].address)
        opened == Opened(Bound(windows, now), limits, now)
        allowed == \A limit \in LimitsOf(limits) : ~Spent(opened, limit)
        refusing == Refusing(opened, limits)
    IN  /\ disturbed' = (disturbed \/ Forgets(limits, now))
        /\ \/ /\ allowed
              /\ windows' = Charged(opened, limits)
              /\ outcome' = [outcome EXCEPT ![r] = NotRefused]
              /\ admitted' = admitted (+) SetToBag(Charges(limits, now))
              /\ recorded' = IF caller = NoKey THEN recorded
                             ELSE recorded (+) SetToBag({<<caller, HourOf(now)>>})
           \/ /\ ~allowed
              /\ windows' = opened
              /\ outcome' = [outcome EXCEPT ![r] =
                    [refused |-> TRUE, bucket |-> refusing.bucket,
                     expires |-> opened[refusing.bucket].expires,
                     ceiling |-> refusing.ceiling]]
              /\ UNCHANGED <<admitted, recorded>>

\* The request leaves the layer.  A key that is unknown, revoked, or whose lookup
\* failed leaves its caller anonymous.
Check(r) ==
    /\ request[r].busy
    /\ \E caller \in {request[r].key, NoKey} : CheckAll(r, caller)
    /\ request' = [request EXCEPT ![r] = Idle]
    /\ UNCHANGED <<clock, restarts>>

\* The sweeper task drops every expired window.
Sweep ==
    /\ Live(windows, clock) # DOMAIN windows
    /\ windows' = Keep(windows, Live(windows, clock))
    /\ UNCHANGED <<clock, request, restarts, outcome, admitted, recorded, disturbed>>

\* A second passes.  The lookup timeout bounds how stale a request's instant can get.
Tick ==
    /\ clock < MaxClock
    /\ \A r \in Requests : request[r].busy => clock + 1 - request[r].now <= MaxDelay
    /\ clock' = clock + 1
    /\ UNCHANGED <<windows, request, restarts, outcome, admitted, recorded, disturbed>>

\* The process restarts: the map is in memory only, and requests in flight are gone.
Restart ==
    /\ restarts < MaxRestarts
    /\ restarts' = restarts + 1
    /\ windows' = [b \in {} |-> 0]
    /\ request' = [r \in Requests |-> Idle]
    /\ disturbed' = (disturbed \/ Live(windows, clock) # {})
    /\ UNCHANGED <<clock, outcome, admitted, recorded>>

Next ==
    \/ \E r \in Requests : Arrive(r) \/ Check(r)
    \/ Sweep
    \/ Tick
    \/ Restart

Spec == Init /\ [][Next]_vars

-----------------------------------------------------------------------------
(* Properties.                                                             *)

Window == [expires : Int, count : Nat]

Request ==
    [busy : BOOLEAN, now : Int, key : Keys \cup {NoKey}, address : Addresses \cup {NoAddress}]

Outcome == [refused : BOOLEAN, bucket : Bucket, expires : Int, ceiling : Nat]

\* Every variable has its type; the map only tracks buckets that limits_for can build.
TypeOK ==
    /\ DOMAIN windows \subseteq Bucket
    /\ windows \in [DOMAIN windows -> Window]
    /\ clock \in Int
    /\ request \in [Requests -> Request]
    /\ restarts \in Nat
    /\ outcome \in [Requests -> Outcome]
    /\ IsABag(admitted)
    /\ IsABag(recorded)
    /\ disturbed \in BOOLEAN

\* A caller never pays for a request that was refused: what a window has counted never
\* exceeds the requests that were admitted in it, whatever the order in which the
\* requests of two seconds reach the mutex (docs/exceptions.md, "Every rate limit is
\* checked in one pass": a refused request consumes none of the limits that allowed it).
NeverOvercharged ==
    \A b \in DOMAIN windows :
        windows[b].count <= Copies(<<b, windows[b].expires>>, admitted)

\* No 429 without cause: a request is refused only on account of a limit whose whole
\* ceiling was really admitted in the window the refusal names.
RefusalJustified ==
    \A r \in Requests :
        outcome[r].refused =>
            Copies(<<outcome[r].bucket, outcome[r].expires>>, admitted) >= outcome[r].ceiling

\* The map is bounded: it is trimmed before a request adds its buckets, at most three,
\* so it holds at most two buckets above the ceiling.
TrackedBounded == Cardinality(DOMAIN windows) <= MaxTracked + 2

\* The ceilings a bucket can be checked against.
CeilingsOf(bucket) ==
    {limit.ceiling : limit \in
        {l \in UNION {LimitsOf(LimitsFor(k, a)) :
                          k \in Keys \cup {NoKey}, a \in Addresses} :
            l.bucket = bucket}}

\* No window ever admits more requests than its ceiling (README.md, "Public API": 60
\* requests per hour per address without a key, 500 per hour and 10 per second with one).
CeilingRespected ==
    \A w \in BagToSet(admitted) : \E ceiling \in CeilingsOf(w[1]) : admitted[w] <= ceiling

\* Nothing but a forgotten window lets a ceiling be exceeded: as long as the process has
\* not restarted over an open window, the map was never full of live ones, and no request
\* was checked after its window had ended, no window admits more than its ceiling.
OrderlyCeilings == ~disturbed => CeilingRespected

KeysOf(user) == {k \in Keys : Owner[k] = user}

RecordedIn(user, hour) ==
    SumFunctionOnSet([k \in KeysOf(user) |-> Copies(<<k, hour>>, recorded)], KeysOf(user))

\* The usage a user is shown and the allowance they are charged agree: the requests
\* recorded for the keys of a user in an hour are the requests admitted to the user's
\* hourly window, however many keys the user holds, whatever was refused or forgotten.
UsageIsWhatWasAdmitted ==
    \A u \in Users : \A h \in 0 .. MaxClock :
        RecordedIn(u, h) = Copies(<<UserBucket(u), (h + 1) * Hour>>, admitted)

=============================================================================
