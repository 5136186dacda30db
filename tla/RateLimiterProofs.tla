-------------------------- MODULE RateLimiterProofs --------------------------
(***************************************************************************)
(* Theorems about RateLimiter, for every number of users, keys, addresses  *)
(* and requests in flight, every plan and every bound.                     *)
(***************************************************************************)
EXTENDS RateLimiter, DataLemmas

-----------------------------------------------------------------------------
(* Facts about the operators of check_all.                                 *)

LimitType == [bucket : Bucket, ceiling : Nat, window : Nat \ {0}]

\* The limits of a request are well typed, there are one to three of them, and no two
\* of them share a bucket.
LEMMA LimitsForType ==
    ASSUME NEW key \in Keys \cup {NoKey}, NEW address \in Addresses \cup {NoAddress}
    PROVE  LET limits == LimitsFor(key, address) IN
           /\ \A i \in DOMAIN limits : limits[i] \in LimitType
           /\ DOMAIN limits \in {1..1, 1..2, 1..3}
           /\ \A i, j \in DOMAIN limits : limits[i].bucket = limits[j].bucket => i = j
<1> USE LimiterConstants
<1> DEFINE u == Owner[key]
<1>1. CASE key = NoKey
  <2>1. AnonymousLimit(address) \in LimitType
    BY DEF AnonymousLimit, Limit, LimitType, Bucket, Unknown, Ip
  <2>2. LimitsFor(key, address) = <<AnonymousLimit(address)>>
    BY <1>1 DEF LimitsFor
  <2>3. QED
    BY <2>1, <2>2
<1>2. CASE key # NoKey
  <2>1. u \in Users
    BY <1>2
  <2>2. UserLimit(u) \in LimitType /\ BurstLimit(u) \in LimitType
    BY <2>1 DEF UserLimit, BurstLimit, Limit, LimitType, Bucket, UserBucket, BurstBucket
  <2>3. /\ UserLimit(u).bucket # BurstLimit(u).bucket
        /\ UserLimit(u).bucket # AddressLimit(u, address).bucket
        /\ BurstLimit(u).bucket # AddressLimit(u, address).bucket
    BY DEF UserLimit, BurstLimit, AddressLimit, Limit, UserBucket, BurstBucket, KeyedIp
  <2>4. CASE HasAddressLimit(u, address)
    <3>1. AddressLimit(u, address) \in LimitType
      BY <2>1, <2>4 DEF HasAddressLimit, AddressLimit, Limit, LimitType, Bucket, KeyedIp
    <3>2. LimitsFor(key, address)
            = <<UserLimit(u), BurstLimit(u), AddressLimit(u, address)>>
      BY <1>2, <2>4 DEF LimitsFor
    <3>3. QED
      BY <3>1, <3>2, <2>2, <2>3
  <2>5. CASE ~HasAddressLimit(u, address)
    <3>1. LimitsFor(key, address) = <<UserLimit(u), BurstLimit(u)>>
      BY <1>2, <2>5 DEF LimitsFor
    <3>2. QED
      BY <3>1, <2>2, <2>3
  <2>6. QED
    BY <2>4, <2>5
<1>3. QED
  BY <1>1, <1>2

\* What LimitsForType says of a list of limits.
LimitList(limits) ==
    /\ \A i \in DOMAIN limits : limits[i] \in LimitType
    /\ DOMAIN limits \in {1..1, 1..2, 1..3}

WindowMap(ws) == DOMAIN ws \subseteq Bucket /\ ws \in [DOMAIN ws -> Window]

LEMMA WindowEndType ==
    ASSUME NEW now \in Int, NEW window \in Nat \ {0}
    PROVE  WindowEnd(now, window) \in Int
BY DEF WindowEnd

\* Trimming the map keeps every window it keeps as it was.
LEMMA BoundKeeps ==
    ASSUME NEW ws, WindowMap(ws), NEW now \in Int
    PROVE  /\ WindowMap(Bound(ws, now))
           /\ DOMAIN Bound(ws, now) \subseteq DOMAIN ws
           /\ \A b \in DOMAIN Bound(ws, now) : Bound(ws, now)[b] = ws[b]
<1>1. Live(ws, now) \subseteq DOMAIN ws
  BY DEF Live
<1>2. ASSUME NEW S \in SUBSET DOMAIN ws
      PROVE  /\ WindowMap(Keep(ws, S))
             /\ DOMAIN Keep(ws, S) \subseteq DOMAIN ws
             /\ \A b \in DOMAIN Keep(ws, S) : Keep(ws, S)[b] = ws[b]
  BY DEF Keep, WindowMap
<1>3. QED
  BY <1>1, <1>2 DEF Bound

\* A window of the map after the pass is a fresh one or the one the map had.
FreshOrKept(opened, ws, b) ==
    opened[b].count = 0 \/ (b \in DOMAIN ws /\ opened[b] = ws[b])

\* Opening windows for the limits of a request: each of them has the window of `now`,
\* fresh or as it was, and the other buckets are left alone.
LEMMA OpenedWindows ==
    ASSUME NEW ws, WindowMap(ws), NEW limits, LimitList(limits), NEW now \in Int,
           NEW opened, opened = Opened(ws, limits, now)
    PROVE  /\ WindowMap(opened)
           /\ DOMAIN opened = DOMAIN ws \cup BucketsOf(limits)
           /\ \A b \in BucketsOf(limits) : <<b, opened[b].expires>> \in Charges(limits, now)
           /\ \A b \in DOMAIN opened : FreshOrKept(opened, ws, b)
<1>1. ASSUME NEW b \in BucketsOf(limits)
      PROVE  /\ LimitAt(limits, b) \in LimitsOf(limits)
             /\ LimitAt(limits, b).bucket = b
             /\ LimitAt(limits, b) \in LimitType
  <2>1. \E limit \in LimitsOf(limits) : limit.bucket = b
    BY DEF BucketsOf
  <2>2. LimitAt(limits, b) \in LimitsOf(limits) /\ LimitAt(limits, b).bucket = b
    BY <2>1 DEF LimitAt
  <2>3. QED
    BY <2>2 DEF LimitsOf, LimitList
<1>2. ASSUME NEW b \in BucketsOf(limits), NEW limit, limit = LimitAt(limits, b)
      PROVE  /\ b \in Bucket
             /\ WindowFor(ws, limit, now) \in Window
             /\ WindowFor(ws, limit, now).expires = WindowEnd(now, limit.window)
             /\ \/ WindowFor(ws, limit, now).count = 0
                \/ b \in DOMAIN ws /\ WindowFor(ws, limit, now) = ws[b]
  <2>1. limit.bucket = b /\ b \in Bucket /\ limit.window \in Nat \ {0}
    BY <1>1, <1>2 DEF LimitType
  <2>2. WindowEnd(now, limit.window) \in Int
    BY <2>1, WindowEndType
  <2>3. QED
    BY <2>1, <2>2 DEF WindowFor, WindowMap, Window
<1>3. DOMAIN opened = DOMAIN ws \cup BucketsOf(limits)
  BY DEF Opened
<1>4. ASSUME NEW b \in BucketsOf(limits)
      PROVE  opened[b] = WindowFor(ws, LimitAt(limits, b), now)
  BY DEF Opened
<1>5. ASSUME NEW b \in DOMAIN opened, b \notin BucketsOf(limits)
      PROVE  b \in DOMAIN ws /\ opened[b] = ws[b]
  BY <1>5 DEF Opened
<1>6. opened = [b \in DOMAIN opened |-> opened[b]]
  BY DEF Opened
<1>7. ASSUME NEW b \in BucketsOf(limits)
      PROVE  <<b, opened[b].expires>> \in Charges(limits, now)
  BY <1>1, <1>2, <1>4 DEF Charges
<1>8. WindowMap(opened)
  BY <1>2, <1>3, <1>4, <1>5, <1>6 DEF WindowMap
<1>9. ASSUME NEW b \in DOMAIN opened
      PROVE  FreshOrKept(opened, ws, b)
  BY <1>2, <1>4, <1>5 DEF FreshOrKept
<1>10. QED
  BY <1>3, <1>7, <1>8, <1>9

-----------------------------------------------------------------------------
(* Type correctness, and that nobody pays for a refused request.            *)

LEMMA CopiesGrow ==
    ASSUME NEW bag, IsABag(bag), NEW S
    PROVE  /\ IsABag(bag (+) SetToBag(S))
           /\ \A e : Copies(e, bag) \in Nat
           /\ \A e : Copies(e, bag (+) SetToBag(S)) =
                       IF e \in S THEN Copies(e, bag) + 1 ELSE Copies(e, bag)
<1>1. SetToBag(S) = [x \in S |-> 1]
  BY DEF SetToBag
<1>2. \A x \in DOMAIN bag : bag[x] \in Nat /\ bag[x] > 0
  BY DEF IsABag
<1> DEFINE sum == bag (+) SetToBag(S)
<1>3. sum = [x \in DOMAIN bag \cup S |->
                (IF x \in DOMAIN bag THEN bag[x] ELSE 0) + (IF x \in S THEN 1 ELSE 0)]
  BY <1>1 DEF (+)
<1>4. \A e : Copies(e, bag) \in Nat
  BY <1>2 DEF Copies
<1>5. IsABag(sum)
  <2>1. DOMAIN sum = DOMAIN bag \cup S
    BY <1>3
  <2>2. ASSUME NEW x \in DOMAIN bag \cup S PROVE sum[x] \in Nat /\ sum[x] > 0
    BY <1>2, <1>3
  <2>3. QED
    BY <1>3, <2>1, <2>2 DEF IsABag
<1>6. \A e : Copies(e, sum) = IF e \in S THEN Copies(e, bag) + 1 ELSE Copies(e, bag)
  BY <1>2, <1>3 DEF Copies
<1>7. QED
  BY <1>4, <1>5, <1>6

\* The limiter's inductive invariant.
LimiterInv == TypeOK /\ NeverOvercharged /\ RefusalJustified

LEMMA LimiterInit == Init => LimiterInv
<1> SUFFICES ASSUME Init PROVE LimiterInv
  OBVIOUS
<1> USE LimiterConstants
<1>1. IsABag(EmptyBag)
  BY DEF IsABag, EmptyBag, SetToBag
<1>2. NotRefused \in Outcome
  BY DEF NotRefused, Outcome, Bucket
<1>3. Idle \in [busy : BOOLEAN, now : Int, key : Keys \cup {NoKey}, address : Addresses \cup {NoAddress}]
  BY DEF Idle
<1>4. TypeOK
  <2>1. disturbed \in BOOLEAN
    BY DEF Init
  <2>2. windows \in [DOMAIN windows -> Window] /\ DOMAIN windows = {}
    BY DEF Init
  <2>3. QED
    BY <1>1, <1>2, <1>3, <2>1, <2>2 DEF Init, TypeOK, Request
<1>5. QED
  BY <1>4 DEF Init, LimiterInv, NeverOvercharged, RefusalJustified, NotRefused

\* The limit named by a refusal is one of the request's, and it has no allowance left.
LEMMA RefusingLimit ==
    ASSUME NEW ws, WindowMap(ws), NEW limits, LimitList(limits),
           BucketsOf(limits) \subseteq DOMAIN ws,
           \E limit \in LimitsOf(limits) : Spent(ws, limit)
    PROVE  /\ Refusing(ws, limits) \in LimitsOf(limits)
           /\ Refusing(ws, limits) \in LimitType
           /\ Spent(ws, Refusing(ws, limits))
<1> DEFINE First(i) == Spent(ws, limits[i]) /\ \A j \in 1..(i - 1) : ~Spent(ws, limits[j])
<1>1. PICK i \in DOMAIN limits : Spent(ws, limits[i])
  BY DEF LimitsOf
<1>2. i \in {1, 2, 3} /\ \A j \in 1..i : j \in DOMAIN limits
  BY DEF LimitList
<1>3. \E j \in DOMAIN limits : First(j)
  <2>1. CASE Spent(ws, limits[1])
    BY <1>2, <2>1
  <2>2. CASE ~Spent(ws, limits[1]) /\ i = 2
    BY <1>1, <2>2
  <2>3. CASE ~Spent(ws, limits[1]) /\ i = 3 /\ Spent(ws, limits[2])
    BY <1>2, <2>3
  <2>4. CASE ~Spent(ws, limits[1]) /\ i = 3 /\ ~Spent(ws, limits[2])
    BY <1>1, <2>4
  <2>5. QED
    BY <1>1, <1>2, <2>1, <2>2, <2>3, <2>4
<1>4. PICK j \in DOMAIN limits : First(j) /\ Refusing(ws, limits) = limits[j]
  BY <1>3 DEF Refusing
<1>5. QED
  BY <1>4 DEF LimitsOf, LimitList

LEMMA ChargedWindow ==
    ASSUME NEW w \in Window
    PROVE  /\ [w EXCEPT !.count = @ + 1] \in Window
           /\ [w EXCEPT !.count = @ + 1].expires = w.expires
           /\ [w EXCEPT !.count = @ + 1].count = w.count + 1
BY DEF Window

\* One pass of check_all preserves the invariant, admitted or refused.
LEMMA CheckAllInv ==
    ASSUME LimiterInv, NEW r \in Requests, request[r].busy,
           NEW caller \in {request[r].key, NoKey}, CheckAll(r, caller)
    PROVE  /\ WindowMap(windows')
           /\ outcome' \in [Requests -> Outcome]
           /\ IsABag(admitted') /\ IsABag(recorded')
           /\ NeverOvercharged'
           /\ RefusalJustified'
<1> USE LimiterConstants
<1> DEFINE now    == request[r].now
           limits == LimitsFor(caller, request[r].address)
           kept   == Bound(windows, now)
           opened == Opened(kept, limits, now)
           allowed == \A limit \in LimitsOf(limits) : ~Spent(opened, limit)
           refusing == Refusing(opened, limits)
<1>1. /\ now \in Int
      /\ caller \in Keys \cup {NoKey}
      /\ request[r].address \in Addresses \cup {NoAddress}
      /\ WindowMap(windows)
  BY DEF LimiterInv, TypeOK, Request, WindowMap
<1>2. LimitList(limits)
  BY <1>1, LimitsForType DEF LimitList
<1>3. /\ WindowMap(kept)
      /\ DOMAIN kept \subseteq DOMAIN windows
      /\ \A b \in DOMAIN kept : kept[b] = windows[b]
  BY <1>1, BoundKeeps
<1>4. /\ WindowMap(opened)
      /\ DOMAIN opened = DOMAIN kept \cup BucketsOf(limits)
      /\ \A b \in BucketsOf(limits) : <<b, opened[b].expires>> \in Charges(limits, now)
      /\ \A b \in DOMAIN opened : FreshOrKept(opened, kept, b)
  <2>1. opened = Opened(kept, limits, now)
    OBVIOUS
  <2> HIDE DEF now, limits, kept, opened
  <2>2. QED
    BY <1>1, <1>2, <1>3, <2>1, OpenedWindows
<1>5. IsABag(admitted) /\ IsABag(recorded) /\ outcome \in [Requests -> Outcome]
  BY DEF LimiterInv, TypeOK
<1>6. \A e : Copies(e, admitted) \in Nat
  BY <1>5, CopiesGrow
<1>7. \A b \in DOMAIN opened :
        opened[b].count <= Copies(<<b, opened[b].expires>>, admitted)
  <2> TAKE b \in DOMAIN opened
  <2>1. CASE opened[b].count = 0
    BY <1>6, <2>1
  <2>2. CASE b \in DOMAIN kept /\ opened[b] = kept[b]
    BY <1>3, <2>2 DEF LimiterInv, NeverOvercharged
  <2>3. QED
    BY <1>4, <2>1, <2>2 DEF FreshOrKept
<1>8. \/ /\ allowed
         /\ windows' = Charged(opened, limits)
         /\ outcome' = [outcome EXCEPT ![r] = NotRefused]
         /\ admitted' = admitted (+) SetToBag(Charges(limits, now))
         /\ recorded' = IF caller = NoKey THEN recorded
                        ELSE recorded (+) SetToBag({<<caller, HourOf(now)>>})
      \/ /\ ~allowed
         /\ windows' = opened
         /\ outcome' = [outcome EXCEPT ![r] =
               [refused |-> TRUE, bucket |-> refusing.bucket,
                expires |-> opened[refusing.bucket].expires, ceiling |-> refusing.ceiling]]
         /\ UNCHANGED <<admitted, recorded>>
  BY DEF CheckAll
<1> HIDE DEF now, limits, kept, opened, refusing
<1>9. CASE /\ windows' = Charged(opened, limits)
           /\ outcome' = [outcome EXCEPT ![r] = NotRefused]
           /\ admitted' = admitted (+) SetToBag(Charges(limits, now))
           /\ recorded' = IF caller = NoKey THEN recorded
                          ELSE recorded (+) SetToBag({<<caller, HourOf(now)>>})
  <2>1. \A e : Copies(e, admitted') =
                  IF e \in Charges(limits, now) THEN Copies(e, admitted) + 1
                  ELSE Copies(e, admitted)
    BY <1>5, <1>9, CopiesGrow
  <2>2. IsABag(admitted')
    BY <1>5, <1>9, CopiesGrow
  <2>3. IsABag(recorded')
    BY <1>5, <1>9, CopiesGrow
  <2>4. NotRefused \in Outcome /\ ~NotRefused.refused
    BY DEF NotRefused, Outcome, Bucket
  <2>5. outcome' \in [Requests -> Outcome]
    BY <1>5, <1>9, <2>4
  <2>6. /\ DOMAIN windows' = DOMAIN opened
        /\ \A b \in DOMAIN opened :
              windows'[b] = IF b \in BucketsOf(limits)
                            THEN [opened[b] EXCEPT !.count = @ + 1] ELSE opened[b]
        /\ windows' = [b \in DOMAIN windows' |-> windows'[b]]
    BY <1>9 DEF Charged
  <2>7. \A b \in DOMAIN opened :
          /\ windows'[b] \in Window
          /\ windows'[b].expires = opened[b].expires
          /\ windows'[b].count =
                IF b \in BucketsOf(limits) THEN opened[b].count + 1 ELSE opened[b].count
    <3> TAKE b \in DOMAIN opened
    <3>1. opened[b] \in Window
      BY <1>4 DEF WindowMap
    <3>2. QED
      BY <2>6, <3>1, ChargedWindow
  <2>8. WindowMap(windows')
    BY <1>4, <2>6, <2>7 DEF WindowMap
  <2>9. NeverOvercharged'
    <3>1. SUFFICES ASSUME NEW b \in DOMAIN opened
                   PROVE  windows'[b].count
                            <= Copies(<<b, windows'[b].expires>>, admitted')
      BY <2>6 DEF NeverOvercharged
    <3>2. opened[b].count \in Nat
      BY <1>4 DEF WindowMap, Window
    <3>3. QED
      BY <1>4, <1>6, <1>7, <2>1, <2>7, <3>2
  <2>10. RefusalJustified'
    <3>1. SUFFICES ASSUME NEW q \in Requests, outcome'[q].refused
                   PROVE  Copies(<<outcome'[q].bucket, outcome'[q].expires>>, admitted')
                            >= outcome'[q].ceiling
      BY DEF RefusalJustified
    <3>2. q # r /\ outcome'[q] = outcome[q]
      BY <1>5, <1>9, <2>4, <3>1
    <3>3. Copies(<<outcome[q].bucket, outcome[q].expires>>, admitted) >= outcome[q].ceiling
      BY <3>1, <3>2 DEF LimiterInv, RefusalJustified
    <3>4. outcome[q].ceiling \in Nat
      BY <1>5 DEF Outcome
    <3>5. QED
      BY <1>6, <2>1, <3>2, <3>3, <3>4
  <2>11. QED
    BY <2>2, <2>3, <2>5, <2>8, <2>9, <2>10
<1>10. CASE /\ ~allowed
            /\ windows' = opened
            /\ outcome' = [outcome EXCEPT ![r] =
                  [refused |-> TRUE, bucket |-> refusing.bucket,
                   expires |-> opened[refusing.bucket].expires, ceiling |-> refusing.ceiling]]
            /\ UNCHANGED <<admitted, recorded>>
  <2>1. /\ refusing \in LimitsOf(limits)
        /\ refusing \in LimitType
        /\ Spent(opened, refusing)
    BY <1>2, <1>4, <1>10, RefusingLimit DEF refusing
  <2>2. refusing.bucket \in DOMAIN opened
    BY <1>4, <2>1 DEF BucketsOf
  <2>3. opened[refusing.bucket] \in Window
    BY <1>4, <2>2 DEF WindowMap
  <2>4. outcome' \in [Requests -> Outcome]
    BY <1>5, <1>10, <2>1, <2>3 DEF Outcome, LimitType, Window
  <2>5. NeverOvercharged'
    BY <1>7, <1>10 DEF NeverOvercharged
  <2>6. Copies(<<refusing.bucket, opened[refusing.bucket].expires>>, admitted) >= refusing.ceiling
    <3>1. opened[refusing.bucket].count >= refusing.ceiling
      BY <2>1 DEF Spent
    <3>2. opened[refusing.bucket].count \in Nat /\ refusing.ceiling \in Nat
      BY <2>1, <2>3 DEF Window, LimitType
    <3>3. QED
      BY <1>6, <1>7, <2>2, <3>1, <3>2
  <2>7. RefusalJustified'
    <3>1. SUFFICES ASSUME NEW q \in Requests, outcome'[q].refused
                   PROVE  Copies(<<outcome'[q].bucket, outcome'[q].expires>>, admitted)
                            >= outcome'[q].ceiling
      BY <1>10 DEF RefusalJustified
    <3>2. CASE q = r
      BY <1>5, <1>10, <2>6, <3>2
    <3>3. CASE q # r
      BY <1>5, <1>10, <3>1, <3>3 DEF LimiterInv, RefusalJustified
    <3>4. QED
      BY <3>2, <3>3
  <2>8. QED
    BY <1>4, <1>5, <1>10, <2>4, <2>5, <2>7
<1>11. QED
  BY <1>8, <1>9, <1>10

LEMMA LimiterStep == LimiterInv /\ [Next]_vars => LimiterInv'
<1> SUFFICES ASSUME LimiterInv, [Next]_vars PROVE LimiterInv'
  OBVIOUS
<1> USE LimiterConstants
<1>1. ASSUME NEW r \in Requests, Arrive(r) PROVE LimiterInv'
  BY <1>1 DEF Arrive, LimiterInv, TypeOK, NeverOvercharged, RefusalJustified, Request
<1>2. ASSUME NEW r \in Requests, Check(r) PROVE LimiterInv'
  <2>1. PICK caller \in {request[r].key, NoKey} : CheckAll(r, caller)
    BY <1>2 DEF Check
  <2>2. /\ WindowMap(windows')
        /\ outcome' \in [Requests -> Outcome]
        /\ IsABag(admitted') /\ IsABag(recorded')
        /\ NeverOvercharged'
        /\ RefusalJustified'
    BY <1>2, <2>1, CheckAllInv DEF Check
  <2>3. Idle \in Request
    BY DEF Idle, Request
  <2>4. request' \in [Requests -> Request] /\ clock' \in Int /\ restarts' \in Nat
    BY <1>2, <2>3 DEF Check, LimiterInv, TypeOK
  <2>5. disturbed' \in BOOLEAN
    BY <2>1 DEF CheckAll
  <2>6. QED
    BY <2>2, <2>4, <2>5 DEF LimiterInv, TypeOK, WindowMap
<1>3. CASE Sweep
  <2>1. windows' = [b \in Live(windows, clock) |-> windows[b]] /\ Live(windows, clock) \subseteq DOMAIN windows
    BY <1>3 DEF Sweep, Keep, Live
  <2>2. TypeOK'
    BY <1>3, <2>1 DEF Sweep, LimiterInv, TypeOK
  <2>3. NeverOvercharged' /\ RefusalJustified'
    BY <1>3, <2>1 DEF Sweep, LimiterInv, NeverOvercharged, RefusalJustified
  <2>4. QED
    BY <2>2, <2>3 DEF LimiterInv
<1>4. CASE Tick
  BY <1>4 DEF Tick, LimiterInv, TypeOK, NeverOvercharged, RefusalJustified
<1>5. CASE Restart
  <2>1. Idle \in Request
    BY DEF Idle, Request
  <2>2. TypeOK'
    BY <1>5, <2>1 DEF Restart, LimiterInv, TypeOK
  <2>3. NeverOvercharged' /\ RefusalJustified'
    BY <1>5 DEF Restart, LimiterInv, NeverOvercharged, RefusalJustified
  <2>4. QED
    BY <2>2, <2>3 DEF LimiterInv
<1>6. CASE UNCHANGED vars
  BY <1>6 DEF vars, LimiterInv, TypeOK, NeverOvercharged, RefusalJustified
<1>7. QED
  BY <1>1, <1>2, <1>3, <1>4, <1>5, <1>6 DEF Next

LEMMA LimiterInvHolds == Spec => []LimiterInv
<1>1. QED
  BY LimiterInit, LimiterStep, PTL DEF Spec

\* The map, the requests in flight and the histories always have their types.
THEOREM TypeCorrect == Spec => []TypeOK
<1>1. LimiterInv => TypeOK
  BY DEF LimiterInv
<1>2. QED
  BY <1>1, LimiterInvHolds, PTL

\* Whatever the order in which requests of different seconds reach the mutex, and
\* across map flushes and restarts, no window counts a request it did not admit.
THEOREM ChargedOnlyForAdmissions == Spec => []NeverOvercharged
<1>1. LimiterInv => NeverOvercharged
  BY DEF LimiterInv
<1>2. QED
  BY <1>1, LimiterInvHolds, PTL

\* Every 429 names a limit whose ceiling was admitted in the window it names.
THEOREM RefusalsAreJustified == Spec => []RefusalJustified
<1>1. LimiterInv => RefusalJustified
  BY DEF LimiterInv
<1>2. QED
  BY <1>1, LimiterInvHolds, PTL

-----------------------------------------------------------------------------
(* The bound on the map.                                                   *)

\* A request adds at most three buckets.
LEMMA AtMostThreeBuckets ==
    ASSUME NEW limits, LimitList(limits)
    PROVE  IsFiniteSet(BucketsOf(limits)) /\ Cardinality(BucketsOf(limits)) <= 3
<1> DEFINE B(i) == limits[i].bucket
           S1 == {B(1)}
           S2 == S1 \cup {B(2)}
           S3 == S2 \cup {B(3)}
<1>1. IsFiniteSet(S1) /\ Cardinality(S1) = 1
  BY FS_Singleton
<1>2. IsFiniteSet(S2) /\ Cardinality(S2) \in {1, 2}
  BY <1>1, FS_AddElement
<1>3. IsFiniteSet(S3) /\ Cardinality(S3) \in {1, 2, 3}
  BY <1>2, FS_AddElement
<1>4. BucketsOf(limits) \subseteq S3
  BY DEF BucketsOf, LimitsOf, LimitList
<1> HIDE DEF S3
<1>5. IsFiniteSet(BucketsOf(limits)) /\ Cardinality(BucketsOf(limits)) <= Cardinality(S3)
  BY <1>3, <1>4, FS_Subset
<1>6. Cardinality(BucketsOf(limits)) \in Nat
  BY <1>5, FS_CardinalityType
<1>7. QED
  BY <1>3, <1>5, <1>6

\* Trimming leaves room: fewer buckets than the ceiling.
LEMMA BoundLeavesRoom ==
    ASSUME NEW ws, IsFiniteSet(DOMAIN ws), NEW now
    PROVE  /\ IsFiniteSet(DOMAIN Bound(ws, now))
           /\ Cardinality(DOMAIN Bound(ws, now)) < MaxTracked
<1> USE LimiterConstants
<1>1. \A S : DOMAIN Keep(ws, S) = S
  BY DEF Keep
<1>2. IsFiniteSet(Live(ws, now))
  BY FS_Subset DEF Live
<1>3. IsFiniteSet({}) /\ Cardinality({}) = 0
  BY FS_EmptySet
<1>4. QED
  BY <1>1, <1>2, <1>3 DEF Bound

\* The map never holds more than two buckets above RATE_LIMIT_MAX_TRACKED.
THEOREM TrackedIsBounded == Spec => []TrackedBounded
<1> USE LimiterConstants
<1>1. Init => IsFiniteSet(DOMAIN windows) /\ TrackedBounded
  BY FS_EmptySet DEF Init, TrackedBounded
<1>2. ASSUME LimiterInv, IsFiniteSet(DOMAIN windows), TrackedBounded, [Next]_vars
      PROVE  IsFiniteSet(DOMAIN windows)' /\ TrackedBounded'
  <2>1. ASSUME NEW r \in Requests, Check(r)
        PROVE  IsFiniteSet(DOMAIN windows)' /\ TrackedBounded'
    <3>1. PICK caller \in {request[r].key, NoKey} : CheckAll(r, caller)
      BY <2>1 DEF Check
    <3> DEFINE now    == request[r].now
               limits == LimitsFor(caller, request[r].address)
               kept   == Bound(windows, now)
               opened == Opened(kept, limits, now)
    <3>2. caller \in Keys \cup {NoKey} /\ request[r].address \in Addresses \cup {NoAddress}
      BY <1>2 DEF LimiterInv, TypeOK, Request
    <3>3. LimitList(limits)
      BY <3>2, LimitsForType DEF LimitList
    <3>4. windows' = Charged(opened, limits) \/ windows' = opened
      BY <3>1 DEF CheckAll
    <3>5. DOMAIN opened = DOMAIN kept \cup BucketsOf(limits)
      BY DEF Opened
    <3>6. DOMAIN windows' = DOMAIN kept \cup BucketsOf(limits)
      BY <3>4, <3>5 DEF Charged
    <3>7. IsFiniteSet(DOMAIN kept) /\ Cardinality(DOMAIN kept) < MaxTracked
      BY <1>2, BoundLeavesRoom
    <3>8. IsFiniteSet(BucketsOf(limits)) /\ Cardinality(BucketsOf(limits)) <= 3
      BY <3>3, AtMostThreeBuckets
    <3> DEFINE K == DOMAIN kept
               B == BucketsOf(limits)
    <3>9. DOMAIN windows' = K \cup B /\ IsFiniteSet(K) /\ IsFiniteSet(B)
      BY <3>6, <3>7, <3>8
    <3> HIDE DEF K, B
    <3>10. /\ IsFiniteSet(K \cup B)
           /\ Cardinality(K \cup B) =
                Cardinality(K) + Cardinality(B) - Cardinality(K \cap B)
      BY <3>9, FS_Union
    <3>11. /\ Cardinality(K) \in Nat
           /\ Cardinality(B) \in Nat
           /\ Cardinality(K \cap B) \in Nat
      BY <3>9, FS_CardinalityType, FS_Intersection
    <3>12. Cardinality(K) < MaxTracked /\ Cardinality(B) <= 3
      BY <3>7, <3>8 DEF K, B
    <3>13. QED
      BY <3>9, <3>10, <3>11, <3>12 DEF TrackedBounded
  <2>2. CASE Sweep
    <3>1. DOMAIN windows' \subseteq DOMAIN windows
      BY <2>2 DEF Sweep, Keep, Live
    <3>2. /\ IsFiniteSet(DOMAIN windows')
          /\ Cardinality(DOMAIN windows') <= Cardinality(DOMAIN windows)
      BY <1>2, <3>1, FS_Subset
    <3>3. Cardinality(DOMAIN windows) \in Nat /\ Cardinality(DOMAIN windows') \in Nat
      BY <1>2, <3>2, FS_CardinalityType
    <3>4. QED
      BY <1>2, <3>2, <3>3 DEF TrackedBounded
  <2>3. CASE Restart
    <3>1. DOMAIN windows' = {}
      BY <2>3 DEF Restart
    <3>2. QED
      BY <3>1, FS_EmptySet DEF TrackedBounded
  <2>4. CASE UNCHANGED windows
    BY <1>2, <2>4 DEF TrackedBounded
  <2>5. QED
    BY <1>2, <2>1, <2>2, <2>3, <2>4 DEF Next, vars, Arrive, Tick
<1>3. QED
  BY <1>1, <1>2, LimiterInvHolds, PTL DEF Spec

-----------------------------------------------------------------------------
(* Windows are aligned to the clock.                                       *)

LEMMA DivisionFacts ==
    ASSUME NEW now \in Int, NEW window \in Nat \ {0}
    PROVE  /\ now \div window \in Int
           /\ (now \div window) * window <= now
           /\ now < (now \div window) * window + window
OBVIOUS

LEMMA MultipleMonotone ==
    ASSUME NEW p \in Int, NEW q \in Int, NEW window \in Nat \ {0}, p <= q
    PROVE  p * window <= q * window
OBVIOUS

\* Two instants have the same window if the later one comes before its end.
LEMMA SameWindow ==
    ASSUME NEW now \in Int, NEW later \in Int, NEW window \in Nat \ {0},
           now <= later, later < WindowEnd(now, window)
    PROVE  WindowEnd(later, window) = WindowEnd(now, window)
<1> DEFINE p == now \div window
           q == later \div window
<1>1. /\ p \in Int /\ q \in Int
      /\ p * window <= now /\ now < p * window + window
      /\ q * window <= later /\ later < q * window + window
  BY DivisionFacts
<1>2. later < p * window + window
  BY <1>1 DEF WindowEnd
<1> HIDE DEF p, q
<1>3. (p + 1) * window = p * window + window /\ (q + 1) * window = q * window + window
  BY <1>1
<1>4. p * window \in Int /\ q * window \in Int
  BY <1>1
<1>5. ASSUME p + 1 <= q PROVE FALSE
  BY <1>1, <1>2, <1>3, <1>4, <1>5, MultipleMonotone
<1>6. ASSUME q + 1 <= p PROVE FALSE
  BY <1>1, <1>3, <1>4, <1>6, MultipleMonotone
<1>7. p = q
  BY <1>1, <1>5, <1>6
<1>8. QED
  BY <1>7 DEF WindowEnd, p, q

\* The length of a bucket's window.
WindowOf(bucket) == IF bucket.kind = "burst" THEN Burst ELSE Hour

\* A bucket has the same window length in every request it is part of, and its limit is
\* determined by its place among the limits of that request.
LEMMA LimitWindows ==
    ASSUME NEW key \in Keys \cup {NoKey}, NEW address \in Addresses \cup {NoAddress},
           NEW limit \in LimitsOf(LimitsFor(key, address))
    PROVE  limit.window = WindowOf(limit.bucket) /\ limit.window \in Nat \ {0}
<1> USE LimiterConstants DEF WindowOf, Limit, LimitsOf
<1>1. ASSUME NEW a PROVE AnonymousLimit(a).window = WindowOf(AnonymousLimit(a).bucket)
  BY DEF AnonymousLimit, Ip, Unknown
<1>2. ASSUME NEW u, NEW a
      PROVE  /\ UserLimit(u).window = WindowOf(UserLimit(u).bucket)
             /\ BurstLimit(u).window = WindowOf(BurstLimit(u).bucket)
             /\ AddressLimit(u, a).window = WindowOf(AddressLimit(u, a).bucket)
  BY DEF UserLimit, BurstLimit, AddressLimit, UserBucket, BurstBucket, KeyedIp
<1>3. LimitsFor(key, address) \in
         {<<AnonymousLimit(address)>>,
          <<UserLimit(Owner[key]), BurstLimit(Owner[key])>>,
          <<UserLimit(Owner[key]), BurstLimit(Owner[key]), AddressLimit(Owner[key], address)>>}
  BY DEF LimitsFor
<1>4. limit \in {AnonymousLimit(address), UserLimit(Owner[key]), BurstLimit(Owner[key]),
                 AddressLimit(Owner[key], address)}
  BY <1>3
<1>5. limit.window = WindowOf(limit.bucket)
  BY <1>1, <1>2, <1>4
<1>6. QED
  BY <1>5

-----------------------------------------------------------------------------
(* Ceilings, as long as no open window has been forgotten.                  *)

\* What is in flight was read from the clock, for an address the client code can return.
RequestsAreReal ==
    /\ \A r \in Requests :
          request[r].busy => request[r].address \in Addresses /\ request[r].now <= clock
    /\ DOMAIN admitted \subseteq Bucket \X Int

\* The window a bucket has open at this instant is the one of this instant.
OpenWindowsAreCurrent ==
    \A b \in DOMAIN windows :
        clock < windows[b].expires => windows[b].expires = WindowEnd(clock, WindowOf(b))

\* What was admitted in a window that is still open is counted in the map.
OpenWindowsAreTracked ==
    \A b \in Bucket, e \in Int :
        Copies(<<b, e>>, admitted) # 0 /\ clock < e =>
            /\ b \in DOMAIN windows
            /\ windows[b].expires = e
            /\ Copies(<<b, e>>, admitted) <= windows[b].count

WithinCeilings ==
    \A b \in Bucket, e \in Int :
        Copies(<<b, e>>, admitted) # 0 =>
            \E ceiling \in CeilingsOf(b) : Copies(<<b, e>>, admitted) <= ceiling

CeilingInv ==
    /\ RequestsAreReal
    /\ ~disturbed => OpenWindowsAreCurrent /\ OpenWindowsAreTracked /\ WithinCeilings

LEMMA CeilingInit == Init => CeilingInv
<1> SUFFICES ASSUME Init PROVE CeilingInv
  OBVIOUS
<1>1. DOMAIN EmptyBag = {}
  BY DEF EmptyBag, SetToBag
<1>2. RequestsAreReal
  BY <1>1 DEF Init, RequestsAreReal, Idle
<1>3. \A e : Copies(e, admitted) = 0
  BY <1>1 DEF Init, Copies
<1>4. DOMAIN windows = {}
  BY DEF Init
<1>5. QED
  BY <1>2, <1>3, <1>4
  DEF CeilingInv, OpenWindowsAreCurrent, OpenWindowsAreTracked, WithinCeilings

\* A pass that forgets no open window leaves each bucket of the request with the window
\* of this instant, counting at least what was admitted in it.
LEMMA UndisturbedPass ==
    ASSUME LimiterInv, CeilingInv, ~disturbed,
           NEW now \in Int, now <= clock,
           NEW key \in Keys \cup {NoKey}, NEW address \in Addresses \cup {NoAddress},
           NEW limits, limits = LimitsFor(key, address), ~Forgets(limits, now),
           NEW opened, opened = Opened(Bound(windows, now), limits, now)
    PROVE  /\ \A b \in BucketsOf(limits) :
                 /\ opened[b].expires = WindowEnd(clock, WindowOf(b))
                 /\ Copies(<<b, opened[b].expires>>, admitted) <= opened[b].count
           /\ \A b \in DOMAIN windows :
                 clock < windows[b].expires => b \in DOMAIN opened /\ opened[b] = windows[b]
           /\ \A b \in DOMAIN opened \ BucketsOf(limits) :
                 b \in DOMAIN windows /\ opened[b] = windows[b]
           /\ \A limit \in LimitsOf(limits) :
                 WindowEnd(now, limit.window) = WindowEnd(clock, WindowOf(limit.bucket))
<1> DEFINE kept == Bound(windows, now)
<1>1. WindowMap(windows) /\ clock \in Int
  BY DEF LimiterInv, TypeOK, WindowMap
<1>2. /\ WindowMap(kept)
      /\ DOMAIN kept \subseteq DOMAIN windows
      /\ \A b \in DOMAIN kept : kept[b] = windows[b]
  BY <1>1, BoundKeeps
<1>3. \A b \in DOMAIN windows :
        clock < windows[b].expires => b \in DOMAIN kept /\ kept[b] = windows[b]
  BY <1>2 DEF Forgets, Live
<1> HIDE DEF kept
<1>4. opened = Opened(kept, limits, now)
  BY DEF kept
<1>5. ASSUME NEW limit \in LimitsOf(limits)
      PROVE  /\ limit.window = WindowOf(limit.bucket)
             /\ limit.window \in Nat \ {0}
             /\ clock < WindowEnd(now, limit.window)
             /\ WindowEnd(now, limit.window) = WindowEnd(clock, WindowOf(limit.bucket))
  <2>1. limit.window = WindowOf(limit.bucket) /\ limit.window \in Nat \ {0}
    BY LimitWindows
  <2>2. WindowEnd(now, limit.window) \in Int
    BY <2>1, WindowEndType
  <2>3. clock < WindowEnd(now, limit.window)
    BY <1>1, <2>2 DEF Forgets
  <2>4. QED
    BY <1>1, <2>1, <2>3, SameWindow
<1>6. DOMAIN opened = DOMAIN kept \cup BucketsOf(limits)
  BY <1>4 DEF Opened
<1>7. ASSUME NEW b \in BucketsOf(limits)
      PROVE  /\ opened[b] = WindowFor(kept, LimitAt(limits, b), now)
             /\ LimitAt(limits, b) \in LimitsOf(limits)
             /\ LimitAt(limits, b).bucket = b
             /\ b \in Bucket
  <2>1. \E limit \in LimitsOf(limits) : limit.bucket = b
    BY DEF BucketsOf
  <2>2. LimitAt(limits, b) \in LimitsOf(limits) /\ LimitAt(limits, b).bucket = b
    BY <2>1 DEF LimitAt
  <2>3. b \in Bucket
    BY <2>2, LimitsForType DEF LimitsOf, LimitType
  <2>4. QED
    BY <1>4, <2>2, <2>3 DEF Opened
<1>8. ASSUME NEW b \in DOMAIN opened, b \notin BucketsOf(limits)
      PROVE  b \in DOMAIN windows /\ opened[b] = windows[b]
  BY <1>2, <1>4, <1>6, <1>8 DEF Opened
<1>9. ASSUME NEW b \in BucketsOf(limits)
      PROVE  /\ opened[b].expires = WindowEnd(clock, WindowOf(b))
             /\ Copies(<<b, opened[b].expires>>, admitted) <= opened[b].count
             /\ b \in DOMAIN windows /\ clock < windows[b].expires => opened[b] = windows[b]
  <2> DEFINE limit == LimitAt(limits, b)
             end == WindowEnd(clock, WindowOf(b))
  <2>1. WindowEnd(now, limit.window) = end /\ clock < end /\ end \in Int
    BY <1>1, <1>5, <1>7, WindowEndType
  <2>2. limit.bucket = b
    BY <1>7
  <2> HIDE DEF limit, end
  <2>3. opened[b] = IF b \in DOMAIN kept /\ kept[b].expires = end
                    THEN kept[b] ELSE [expires |-> end, count |-> 0]
    BY <1>7, <2>1, <2>2 DEF WindowFor, limit
  <2>4. opened[b].expires = end
    BY <2>3
  <2>5. Copies(<<b, end>>, admitted) \in Nat
    BY CopiesGrow DEF LimiterInv, TypeOK
  <2>6. b \in DOMAIN windows /\ clock < windows[b].expires => opened[b] = windows[b]
    BY <1>3, <2>3 DEF CeilingInv, OpenWindowsAreCurrent, end
  <2>7. Copies(<<b, end>>, admitted) <= opened[b].count
    <3>1. CASE Copies(<<b, end>>, admitted) # 0
      <4>1. /\ b \in DOMAIN windows /\ windows[b].expires = end
            /\ Copies(<<b, end>>, admitted) <= windows[b].count
        BY <1>7, <2>1, <3>1 DEF CeilingInv, OpenWindowsAreTracked
      <4>2. QED
        BY <2>1, <2>6, <4>1
    <3>2. CASE Copies(<<b, end>>, admitted) = 0
      <4>1. opened[b].count \in Nat
        BY <1>2, <2>3 DEF WindowMap, Window
      <4>2. QED
        BY <3>2, <4>1
    <3>3. QED
      BY <3>1, <3>2
  <2>8. QED
    BY <2>4, <2>6, <2>7 DEF end
<1>10. ASSUME NEW b \in DOMAIN windows, clock < windows[b].expires
       PROVE  b \in DOMAIN opened /\ opened[b] = windows[b]
  BY <1>3, <1>6, <1>8, <1>9, <1>10
<1>11. QED
  BY <1>5, <1>8, <1>9, <1>10

LEMMA CeilingCheck ==
    ASSUME LimiterInv, CeilingInv, NEW r \in Requests, Check(r)
    PROVE  CeilingInv'
<1> USE LimiterConstants
<1> PICK caller \in {request[r].key, NoKey} : CheckAll(r, caller)
  BY DEF Check
<1> DEFINE now     == request[r].now
           address == request[r].address
           limits  == LimitsFor(caller, address)
           opened  == Opened(Bound(windows, now), limits, now)
           allowed == \A limit \in LimitsOf(limits) : ~Spent(opened, limit)
<1>1. /\ now \in Int /\ now <= clock /\ clock \in Int
      /\ caller \in Keys \cup {NoKey}
      /\ address \in Addresses /\ address \in Addresses \cup {NoAddress}
      /\ IsABag(admitted) /\ \A e : Copies(e, admitted) \in Nat
  <2>1. request[r].busy /\ request[r] \in Request /\ clock \in Int /\ IsABag(admitted)
    BY DEF Check, LimiterInv, TypeOK
  <2>2. address \in Addresses /\ now <= clock
    BY <2>1 DEF CeilingInv, RequestsAreReal
  <2>3. now \in Int /\ caller \in Keys \cup {NoKey}
    BY <2>1 DEF Request
  <2>4. \A e : Copies(e, admitted) \in Nat
    BY <2>1, CopiesGrow
  <2>5. QED
    BY <2>1, <2>2, <2>3, <2>4
<1>2. \A i \in DOMAIN limits : limits[i] \in LimitType
  BY <1>1, LimitsForType
<1>3. \A limit \in LimitsOf(limits) : limit \in LimitType /\ limit.bucket \in BucketsOf(limits)
  BY <1>2 DEF LimitsOf, BucketsOf
<1>4. \A w \in Charges(limits, now) : w \in Bucket \X Int
  BY <1>1, <1>3, WindowEndType, SMTT(20) DEF Charges, LimitType
<1>5. clock' = clock /\ request' = [request EXCEPT ![r] = Idle]
  BY DEF Check
<1>6. \/ /\ allowed
         /\ windows' = Charged(opened, limits)
         /\ admitted' = admitted (+) SetToBag(Charges(limits, now))
      \/ windows' = opened /\ admitted' = admitted
  BY DEF CheckAll
<1>7. disturbed' = (disturbed \/ Forgets(limits, now))
  BY DEF CheckAll
<1> HIDE DEF now, address, limits, opened, allowed
<1>8. RequestsAreReal'
  <2>1. \A q \in Requests : request'[q].busy => q # r /\ request'[q] = request[q]
    BY <1>5 DEF Idle, LimiterInv, TypeOK
  <2>2. DOMAIN admitted' \subseteq Bucket \X Int
    <3>1. CASE admitted' = admitted (+) SetToBag(Charges(limits, now))
      <4>1. DOMAIN admitted' = DOMAIN admitted \cup Charges(limits, now)
        BY <3>1 DEF (+), SetToBag
      <4>2. QED
        BY <1>4, <4>1 DEF CeilingInv, RequestsAreReal
    <3>2. QED
      BY <1>6, <3>1 DEF CeilingInv, RequestsAreReal
  <2>3. QED
    BY <1>5, <2>1, <2>2 DEF CeilingInv, RequestsAreReal
<1>9. SUFFICES ASSUME ~disturbed, ~Forgets(limits, now)
               PROVE  OpenWindowsAreCurrent' /\ OpenWindowsAreTracked' /\ WithinCeilings'
  BY <1>7, <1>8 DEF CeilingInv
<1>10. /\ \A b \in BucketsOf(limits) :
             /\ opened[b].expires = WindowEnd(clock, WindowOf(b))
             /\ Copies(<<b, opened[b].expires>>, admitted) <= opened[b].count
       /\ \A b \in DOMAIN windows :
             clock < windows[b].expires => b \in DOMAIN opened /\ opened[b] = windows[b]
       /\ \A b \in DOMAIN opened \ BucketsOf(limits) :
             b \in DOMAIN windows /\ opened[b] = windows[b]
       /\ \A limit \in LimitsOf(limits) :
             WindowEnd(now, limit.window) = WindowEnd(clock, WindowOf(limit.bucket))
  BY <1>1, <1>9, UndisturbedPass DEF limits, opened
<1>11. WindowMap(opened) /\ BucketsOf(limits) \subseteq DOMAIN opened
  <2>1. WindowMap(windows)
    BY DEF LimiterInv, TypeOK, WindowMap
  <2>2. LimitList(limits)
    BY <1>1, LimitsForType DEF limits, LimitList
  <2>3. WindowMap(Bound(windows, now))
    BY <1>1, <2>1, BoundKeeps
  <2> DEFINE kept == Bound(windows, now)
  <2>4. WindowMap(kept) /\ opened = Opened(kept, limits, now)
    BY <2>3 DEF opened
  <2> HIDE DEF kept
  <2>5. now \in Int
    BY <1>1
  <2>6. WindowMap(opened) /\ DOMAIN opened = DOMAIN kept \cup BucketsOf(limits)
    BY <2>2, <2>4, <2>5, OpenedWindows
  <2>7. QED
    BY <2>6
<1>12. Charges(limits, now) = {<<b, opened[b].expires>> : b \in BucketsOf(limits)}
  <2>1. \A limit \in LimitsOf(limits) :
          /\ limit.bucket \in BucketsOf(limits)
          /\ WindowEnd(now, limit.window) = opened[limit.bucket].expires
    BY <1>3, <1>10
  <2>2. \A b \in BucketsOf(limits) : \E limit \in LimitsOf(limits) : limit.bucket = b
    BY DEF BucketsOf
  <2>3. QED
    BY <2>1, <2>2 DEF Charges
<1>13. /\ DOMAIN windows' = DOMAIN opened
       /\ \A b \in DOMAIN opened : windows'[b].expires = opened[b].expires
  <2>1. \A b \in DOMAIN opened : opened[b] \in Window
    BY <1>11 DEF WindowMap
  <2>2. CASE windows' = Charged(opened, limits)
    BY <2>1, <2>2, ChargedWindow DEF Charged
  <2>3. QED
    BY <1>6, <2>2
<1>14. \A b \in DOMAIN opened :
          opened[b].expires > clock =>
              opened[b].expires = WindowEnd(clock, WindowOf(b))
  BY <1>9, <1>10 DEF CeilingInv, OpenWindowsAreCurrent
<1>15. OpenWindowsAreCurrent'
  BY <1>1, <1>5, <1>11, <1>13, <1>14 DEF OpenWindowsAreCurrent, WindowMap, Window
<1>16. \A b \in Bucket, e \in Int :
         Copies(<<b, e>>, admitted) # 0 /\ clock < e =>
             /\ b \in DOMAIN opened
             /\ opened[b].expires = e
             /\ Copies(<<b, e>>, admitted) <= opened[b].count
  BY <1>9, <1>10 DEF CeilingInv, OpenWindowsAreTracked
<1>17. CASE windows' = opened /\ admitted' = admitted
  <2>1. OpenWindowsAreTracked'
    BY <1>5, <1>16, <1>17 DEF OpenWindowsAreTracked
  <2>2. WithinCeilings'
    BY <1>9, <1>17 DEF CeilingInv, WithinCeilings
  <2>3. QED
    BY <1>15, <2>1, <2>2
<1>18. CASE /\ allowed
            /\ windows' = Charged(opened, limits)
            /\ admitted' = admitted (+) SetToBag(Charges(limits, now))
  <2>1. \A e : Copies(e, admitted') =
                  IF e \in Charges(limits, now) THEN Copies(e, admitted) + 1
                  ELSE Copies(e, admitted)
    BY <1>1, <1>18, CopiesGrow
  <2>2. \A b \in DOMAIN opened :
          /\ opened[b].count \in Nat
          /\ windows'[b].count =
                IF b \in BucketsOf(limits) THEN opened[b].count + 1 ELSE opened[b].count
    <3>1. \A b \in DOMAIN opened : opened[b] \in Window
      BY <1>11 DEF WindowMap
    <3>2. QED
      BY <1>18, <3>1, ChargedWindow DEF Charged, Window
  <2>3. OpenWindowsAreTracked'
    <3>1. SUFFICES ASSUME NEW b \in Bucket, NEW e \in Int,
                          Copies(<<b, e>>, admitted') # 0, clock < e
                   PROVE  /\ b \in DOMAIN windows'
                          /\ windows'[b].expires = e
                          /\ Copies(<<b, e>>, admitted') <= windows'[b].count
      BY <1>5 DEF OpenWindowsAreTracked
    <3>2. CASE <<b, e>> \in Charges(limits, now)
      <4>1. b \in BucketsOf(limits) /\ e = opened[b].expires
        BY <1>12, <3>2
      <4>2. Copies(<<b, e>>, admitted) <= opened[b].count
        BY <1>10, <4>1
      <4>3. QED
        BY <1>1, <1>11, <1>13, <2>1, <2>2, <3>2, <4>1, <4>2
    <3>3. CASE <<b, e>> \notin Charges(limits, now)
      <4>1. /\ Copies(<<b, e>>, admitted') = Copies(<<b, e>>, admitted)
            /\ b \in DOMAIN opened
            /\ opened[b].expires = e
            /\ Copies(<<b, e>>, admitted) <= opened[b].count
        BY <1>16, <2>1, <3>1, <3>3
      <4>2. b \notin BucketsOf(limits)
        BY <1>12, <3>3, <4>1
      <4>3. QED
        BY <1>13, <2>2, <4>1, <4>2
    <3>4. QED
      BY <3>2, <3>3
  <2>4. WithinCeilings'
    <3>1. SUFFICES ASSUME NEW b \in Bucket, NEW e \in Int, Copies(<<b, e>>, admitted') # 0
                   PROVE  \E ceiling \in CeilingsOf(b) : Copies(<<b, e>>, admitted') <= ceiling
      BY DEF WithinCeilings
    <3>2. CASE <<b, e>> \in Charges(limits, now)
      <4>1. PICK limit \in LimitsOf(limits) : limit.bucket = b
        BY <3>2 DEF Charges
      <4>2. limit.ceiling \in CeilingsOf(b)
        <5>1. limit \in UNION {LimitsOf(LimitsFor(k, a)) :
                                  k \in Keys \cup {NoKey}, a \in Addresses}
          BY <1>1 DEF limits
        <5>2. QED
          BY <4>1, <5>1 DEF CeilingsOf
      <4>3. b \in BucketsOf(limits) /\ e = opened[b].expires
        BY <1>12, <3>2
      <4>4. opened[b].count < limit.ceiling
        <5>1. limit.ceiling \in Nat /\ opened[b].count \in Nat
          BY <1>3, <1>11, <2>2, <4>1, <4>3 DEF LimitType
        <5>2. ~(opened[b].count >= limit.ceiling)
          BY <1>18, <4>1 DEF allowed, Spent
        <5>3. QED
          BY <5>1, <5>2
      <4>5. Copies(<<b, e>>, admitted) <= opened[b].count
        BY <1>10, <4>3
      <4>6. limit.ceiling \in Nat /\ opened[b].count \in Nat
        BY <1>3, <1>11, <2>2, <4>1, <4>3 DEF LimitType
      <4>7. Copies(<<b, e>>, admitted') <= limit.ceiling
        BY <1>1, <2>1, <3>2, <4>4, <4>5, <4>6
      <4>8. QED
        BY <4>2, <4>7
    <3>3. CASE <<b, e>> \notin Charges(limits, now)
      BY <1>9, <2>1, <3>1, <3>3 DEF CeilingInv, WithinCeilings
    <3>4. QED
      BY <3>2, <3>3
  <2>5. QED
    BY <1>15, <2>3, <2>4
<1>19. QED
  BY <1>6, <1>15, <1>17, <1>18

LEMMA CeilingStep == LimiterInv /\ CeilingInv /\ [Next]_vars => CeilingInv'
<1> SUFFICES ASSUME LimiterInv, CeilingInv, [Next]_vars PROVE CeilingInv'
  OBVIOUS
<1> USE LimiterConstants
<1>1. clock \in Int /\ \A b \in DOMAIN windows : windows[b] \in Window
  BY DEF LimiterInv, TypeOK
<1>2. ASSUME NEW r \in Requests, Arrive(r) PROVE CeilingInv'
  <2>1. RequestsAreReal'
    BY <1>1, <1>2 DEF Arrive, CeilingInv, RequestsAreReal, LimiterInv, TypeOK
  <2>2. QED
    BY <1>2, <2>1
    DEF Arrive, CeilingInv, OpenWindowsAreCurrent, OpenWindowsAreTracked, WithinCeilings
<1>3. ASSUME NEW r \in Requests, Check(r) PROVE CeilingInv'
  BY <1>3, CeilingCheck
<1>4. CASE Sweep
  <2>1. /\ DOMAIN windows' = {b \in DOMAIN windows : clock < windows[b].expires}
        /\ \A b \in DOMAIN windows' : windows'[b] = windows[b]
    BY <1>4 DEF Sweep, Keep, Live
  <2>2. RequestsAreReal'
    BY <1>4 DEF Sweep, CeilingInv, RequestsAreReal
  <2>3. QED
    BY <1>4, <2>1, <2>2
    DEF Sweep, CeilingInv, OpenWindowsAreCurrent, OpenWindowsAreTracked, WithinCeilings
<1>5. CASE Tick
  <2>1. clock' = clock + 1 /\ UNCHANGED <<windows, request, admitted, disturbed>>
    BY <1>5 DEF Tick
  <2>2. RequestsAreReal'
    BY <1>1, <2>1 DEF CeilingInv, RequestsAreReal, LimiterInv, TypeOK, Request
  <2>3. OpenWindowsAreCurrent => OpenWindowsAreCurrent'
    <3>1. SUFFICES ASSUME OpenWindowsAreCurrent, NEW b \in DOMAIN windows,
                          clock + 1 < windows[b].expires
                   PROVE  windows[b].expires = WindowEnd(clock + 1, WindowOf(b))
      BY <2>1 DEF OpenWindowsAreCurrent
    <3>2. windows[b].expires \in Int
      BY <1>1 DEF Window
    <3>3. windows[b].expires = WindowEnd(clock, WindowOf(b))
      BY <1>1, <3>1, <3>2 DEF OpenWindowsAreCurrent
    <3>4. WindowOf(b) \in Nat \ {0}
      BY DEF WindowOf
    <3>5. QED
      BY <1>1, <3>1, <3>3, <3>4, SameWindow
  <2>4. OpenWindowsAreTracked => OpenWindowsAreTracked'
    BY <1>1, <2>1 DEF OpenWindowsAreTracked
  <2>5. QED
    BY <2>1, <2>2, <2>3, <2>4 DEF CeilingInv, WithinCeilings
<1>6. CASE Restart
  <2>1. RequestsAreReal'
    BY <1>6 DEF Restart, CeilingInv, RequestsAreReal, Idle
  <2>2. SUFFICES ASSUME ~disturbed, Live(windows, clock) = {}
                 PROVE  OpenWindowsAreCurrent' /\ OpenWindowsAreTracked' /\ WithinCeilings'
    BY <1>6, <2>1 DEF Restart, CeilingInv
  <2>3. \A b \in Bucket, e \in Int : ~(Copies(<<b, e>>, admitted) # 0 /\ clock < e)
    BY <2>2 DEF Live, CeilingInv, OpenWindowsAreTracked
  <2>4. DOMAIN windows' = {} /\ admitted' = admitted /\ clock' = clock
    BY <1>6 DEF Restart
  <2>5. QED
    BY <2>2, <2>3, <2>4
    DEF CeilingInv, OpenWindowsAreCurrent, OpenWindowsAreTracked, WithinCeilings
<1>7. CASE UNCHANGED vars
  BY <1>7 DEF vars, CeilingInv, RequestsAreReal, OpenWindowsAreCurrent,
              OpenWindowsAreTracked, WithinCeilings
<1>8. QED
  BY <1>2, <1>3, <1>4, <1>5, <1>6, <1>7 DEF Next

\* As long as no open window has been forgotten, no window of any bucket admits more
\* requests than a ceiling the bucket is checked against, for any plans, any number of
\* requests in flight and any delay between reading the clock and checking.
THEOREM CeilingsAreRespected == Spec => []OrderlyCeilings
<1>1. LimiterInv /\ CeilingInv => OrderlyCeilings
  <2>1. SUFFICES ASSUME LimiterInv, CeilingInv, ~disturbed PROVE CeilingRespected
    BY DEF OrderlyCeilings
  <2>2. SUFFICES ASSUME NEW w \in DOMAIN admitted
                 PROVE  \E ceiling \in CeilingsOf(w[1]) : admitted[w] <= ceiling
    BY DEF CeilingRespected, BagToSet
  <2>3. PICK b \in Bucket, e \in Int : w = <<b, e>>
    BY <2>1 DEF CeilingInv, RequestsAreReal
  <2>4. admitted[w] = Copies(<<b, e>>, admitted) /\ admitted[w] # 0
    BY <2>1, <2>3 DEF Copies, LimiterInv, TypeOK, IsABag
  <2>5. QED
    BY <2>1, <2>3, <2>4 DEF CeilingInv, WithinCeilings
<1>2. QED
  BY <1>1, CeilingInit, CeilingStep, LimiterInvHolds, PTL DEF Spec

-----------------------------------------------------------------------------
(* The usage that is recorded, and the allowance that is charged.           *)

\* A request is charged to a user's hourly window if its key is one of that user's.
LEMMA ChargedToUser ==
    ASSUME NEW key \in Keys \cup {NoKey}, NEW address \in Addresses \cup {NoAddress},
           NEW now \in Int, NEW u \in Users, NEW end
    PROVE  <<UserBucket(u), end>> \in Charges(LimitsFor(key, address), now)
              <=> key \in KeysOf(u) /\ end = WindowEnd(now, Hour)
<1> USE LimiterConstants DEF Limit
<1> DEFINE limits == LimitsFor(key, address)
<1>1. \A x : AnonymousLimit(x).bucket # UserBucket(u)
  BY DEF AnonymousLimit, UserBucket, Ip, Unknown
<1>2. \A x, a : /\ BurstLimit(x).bucket # UserBucket(u)
                /\ AddressLimit(x, a).bucket # UserBucket(u)
                /\ (UserLimit(x).bucket = UserBucket(u) <=> x = u)
                /\ UserLimit(x).window = Hour
  BY DEF UserLimit, BurstLimit, AddressLimit, UserBucket, BurstBucket, KeyedIp
<1>3. CASE key = NoKey
  <2>1. LimitsOf(limits) = {AnonymousLimit(address)}
    BY <1>3 DEF LimitsFor, LimitsOf
  <2>2. QED
    BY <1>1, <1>3, <2>1 DEF Charges, KeysOf
<1>4. CASE key # NoKey
  <2>1. limits \in {<<UserLimit(Owner[key]), BurstLimit(Owner[key])>>,
                    <<UserLimit(Owner[key]), BurstLimit(Owner[key]),
                      AddressLimit(Owner[key], address)>>}
    BY <1>4 DEF LimitsFor
  <2>2. /\ UserLimit(Owner[key]) \in LimitsOf(limits)
        /\ LimitsOf(limits) \subseteq {UserLimit(Owner[key]), BurstLimit(Owner[key]),
                                       AddressLimit(Owner[key], address)}
    BY <2>1 DEF LimitsOf
  <2> HIDE DEF limits
  <2>3. <<UserBucket(u), end>> \in Charges(limits, now)
           <=> \E limit \in LimitsOf(limits) :
                  limit.bucket = UserBucket(u) /\ end = WindowEnd(now, limit.window)
    BY DEF Charges
  <2>4. (\E limit \in LimitsOf(limits) :
            limit.bucket = UserBucket(u) /\ end = WindowEnd(now, limit.window))
           <=> Owner[key] = u /\ end = WindowEnd(now, Hour)
    BY <1>2, <2>2
  <2>5. QED
    BY <1>4, <2>3, <2>4 DEF limits, KeysOf
<1>5. QED
  BY <1>3, <1>4

\* Different hours end at different instants.
LEMMA HoursDiffer ==
    ASSUME NEW h \in Int, NEW now \in Int
    PROVE  (h + 1) * Hour = WindowEnd(now, Hour) <=> h = HourOf(now)
<1> USE LimiterConstants
<1> DEFINE q == now \div Hour
<1>1. q \in Int
  BY DivisionFacts
<1>2. HourOf(now) = q /\ WindowEnd(now, Hour) = (q + 1) * Hour
  BY DEF HourOf, WindowEnd
<1> HIDE DEF q
<1>3. ASSUME h < q PROVE (h + 1) * Hour < (q + 1) * Hour
  <2>1. (h + 1) * Hour <= q * Hour
    BY <1>1, <1>3, MultipleMonotone
  <2>2. (q + 1) * Hour = q * Hour + Hour /\ q * Hour \in Int /\ (h + 1) * Hour \in Int
    BY <1>1
  <2>3. QED
    BY <2>1, <2>2
<1>4. ASSUME q < h PROVE (q + 1) * Hour < (h + 1) * Hour
  <2>1. (q + 1) * Hour <= h * Hour
    BY <1>1, <1>4, MultipleMonotone
  <2>2. (h + 1) * Hour = h * Hour + Hour /\ h * Hour \in Int /\ (q + 1) * Hour \in Int
    BY <1>1
  <2>3. QED
    BY <2>1, <2>2
<1>5. (h + 1) * Hour \in Int /\ (q + 1) * Hour \in Int
  BY <1>1
<1>6. h = q \/ h < q \/ q < h
  BY <1>1
<1>7. QED
  BY <1>1, <1>2, <1>3, <1>4, <1>5, <1>6

LEMMA UsageCheck ==
    ASSUME LimiterInv, UsageIsWhatWasAdmitted, NEW r \in Requests, Check(r)
    PROVE  UsageIsWhatWasAdmitted'
<1> USE LimiterConstants
<1> PICK caller \in {request[r].key, NoKey} : CheckAll(r, caller)
  BY DEF Check
<1> DEFINE now    == request[r].now
           limits == LimitsFor(caller, request[r].address)
<1>1. /\ now \in Int
      /\ caller \in Keys \cup {NoKey}
      /\ request[r].address \in Addresses \cup {NoAddress}
  BY DEF LimiterInv, TypeOK, Request
<1>2. IsABag(admitted) /\ IsABag(recorded)
  BY DEF LimiterInv, TypeOK
<1>3. CASE UNCHANGED <<admitted, recorded>>
  BY <1>3 DEF UsageIsWhatWasAdmitted, RecordedIn
<1>4. CASE /\ admitted' = admitted (+) SetToBag(Charges(limits, now))
           /\ recorded' = IF caller = NoKey THEN recorded
                          ELSE recorded (+) SetToBag({<<caller, HourOf(now)>>})
  <2>1. SUFFICES ASSUME NEW u \in Users, NEW h \in 0 .. MaxClock
                 PROVE  RecordedIn(u, h)' = Copies(<<UserBucket(u), (h + 1) * Hour>>, admitted')
    BY DEF UsageIsWhatWasAdmitted
  <2> DEFINE K     == KeysOf(u)
             Of(k) == Copies(<<k, h>>, recorded)
             OfNext(k) == Copies(<<k, h>>, recorded')
             before == [k \in K |-> Of(k)]
             after  == [k \in K |-> OfNext(k)]
             paid   == Copies(<<UserBucket(u), (h + 1) * Hour>>, admitted)
  <2>2. IsFiniteSet(K) /\ K \subseteq Keys
    BY FS_Subset DEF KeysOf
  <2>3. RecordedIn(u, h) = SumFunctionOnSet(before, K) /\ RecordedIn(u, h)' = SumFunctionOnSet(after, K)
    BY DEF RecordedIn
  <2>4. SumFunctionOnSet(before, K) = paid
    BY <2>3 DEF UsageIsWhatWasAdmitted
  <2>5. \A e : Copies(e, recorded') =
                 IF caller # NoKey /\ e = <<caller, HourOf(now)>>
                 THEN Copies(e, recorded) + 1 ELSE Copies(e, recorded)
    <3>1. CASE caller = NoKey
      BY <1>4, <3>1
    <3>2. CASE caller # NoKey
      BY <1>2, <1>4, <3>2, CopiesGrow
    <3>3. QED
      BY <3>1, <3>2
  <2>6. Copies(<<UserBucket(u), (h + 1) * Hour>>, admitted') =
           IF caller \in K /\ h = HourOf(now) THEN paid + 1 ELSE paid
    <3>1. <<UserBucket(u), (h + 1) * Hour>> \in Charges(limits, now)
             <=> caller \in K /\ h = HourOf(now)
      BY <1>1, ChargedToUser, HoursDiffer
    <3> HIDE DEF limits, now
    <3>2. QED
      BY <1>2, <1>4, <3>1, CopiesGrow
  <2>7. \A e : Copies(e, recorded) \in Nat /\ Copies(e, recorded') \in Nat
    BY <1>2, <2>5, CopiesGrow
  <2>8. /\ \A k \in K : before[k] \in Nat /\ after[k] \in Nat
        /\ \A k \in K : after[k] = IF k = caller /\ h = HourOf(now)
                                   THEN before[k] + 1 ELSE before[k]
    BY <2>2, <2>5, <2>7
  <2> HIDE DEF K, before, after, now, limits
  <2>9. CASE caller \in K /\ h = HourOf(now)
    <3>1. /\ before[caller] \in Nat
          /\ after[caller] = before[caller] + 1
          /\ \A k \in K \ {caller} : after[k] = before[k]
      BY <2>8, <2>9
    <3>2. SumFunctionOnSet(after, K) = SumFunctionOnSet(before, K) - before[caller] + after[caller]
      <4>1. (\A k \in K : before[k] \in Nat) /\ (\A k \in K : after[k] \in Nat)
        BY <2>8
      <4>2. IsFiniteSet(K) /\ caller \in K /\ \A k \in K \ {caller} : after[k] = before[k]
        BY <2>2, <2>9, <3>1
      <4>3. QED
        BY <4>1, <4>2, SumOfOneChanged
    <3>3. SumFunctionOnSet(before, K) \in Nat
      BY <2>2, <2>8, SumWithout
    <3>4. SumFunctionOnSet(after, K) = SumFunctionOnSet(before, K) + 1
      BY <3>1, <3>2, <3>3
    <3>5. QED
      BY <2>3, <2>4, <2>6, <2>9, <3>4
  <2>10. CASE ~(caller \in K /\ h = HourOf(now))
    <3>1. \A k \in K : after[k] = before[k]
      BY <2>8, <2>10
    <3>2. SumFunctionOnSet(after, K) = SumFunctionOnSet(before, K)
      BY <2>2, <3>1, SumOfEqual
    <3>3. QED
      BY <2>3, <2>4, <2>6, <2>10, <3>2
  <2>11. QED
    BY <2>9, <2>10
<1>5. QED
  BY <1>3, <1>4 DEF CheckAll

\* What a user is shown and what a user is charged agree, for any number of keys and
\* requests, through refusals, late checks, restarts and full maps.
THEOREM UsageAgrees == Spec => []UsageIsWhatWasAdmitted
<1>1. Init => UsageIsWhatWasAdmitted
  <2>1. SUFFICES ASSUME Init, NEW u \in Users, NEW h \in 0 .. MaxClock
                 PROVE  RecordedIn(u, h) = Copies(<<UserBucket(u), (h + 1) * Hour>>, admitted)
    BY DEF UsageIsWhatWasAdmitted
  <2>2. \A e : Copies(e, recorded) = 0 /\ Copies(e, admitted) = 0
    BY <2>1 DEF Init, EmptyBag, SetToBag, Copies
  <2> DEFINE K == KeysOf(u)
             none == [k \in K |-> Copies(<<k, h>>, recorded)]
  <2>3. IsFiniteSet(K)
    BY LimiterConstants, FS_Subset DEF KeysOf
  <2>4. \A k \in K : none[k] = 0
    BY <2>2
  <2>5. RecordedIn(u, h) = SumFunctionOnSet(none, K)
    BY DEF RecordedIn
  <2> HIDE DEF K, none
  <2>6. SumFunctionOnSet(none, K) = 0
    BY <2>3, <2>4, SumOfZeros
  <2>7. QED
    BY <2>2, <2>5, <2>6
<1>2. LimiterInv /\ UsageIsWhatWasAdmitted /\ [Next]_vars => UsageIsWhatWasAdmitted'
  <2>1. SUFFICES ASSUME LimiterInv, UsageIsWhatWasAdmitted, [Next]_vars
                 PROVE  UsageIsWhatWasAdmitted'
    OBVIOUS
  <2>2. CASE UNCHANGED <<admitted, recorded>>
    BY <2>1, <2>2 DEF UsageIsWhatWasAdmitted, RecordedIn
  <2>3. ASSUME NEW r \in Requests, Check(r) PROVE UsageIsWhatWasAdmitted'
    BY <2>1, <2>3, UsageCheck
  <2>4. QED
    BY <2>1, <2>2, <2>3 DEF Next, vars, Arrive, Sweep, Tick, Restart
<1>3. QED
  BY <1>1, <1>2, LimiterInvHolds, PTL DEF Spec

=============================================================================
