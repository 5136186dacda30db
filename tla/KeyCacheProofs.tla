--------------------------- MODULE KeyCacheProofs ----------------------------
(***************************************************************************)
(* What the key cache promises, for every set of keys, plans and request   *)
(* slots and for every lifetime, ceiling and timeout.  The argument: what  *)
(* a lookup has read was true at some instant since the request came in    *)
(* (ReadsWereTrue), that stays so whatever happens next (HeldStays), and   *)
(* an entry carries the instant of the request that stored it.             *)
(***************************************************************************)
EXTENDS KeyCache, FiniteSetTheorems, TLAPS

\* A request under way came in before now, and what left the database left it before now.
NothingFromTheFuture ==
    /\ \A r \in Requests : lookup[r] # NoLookup => lookup[r].now <= clock
    /\ \A k \in Keys : \A record \in DOMAIN left[k] : left[k][record] <= clock

\* The record a lookup carries held at some instant since its request came in.
ReadsWereTrue ==
    \A r \in Requests :
        lookup[r].phase = "read" => HeldSince(lookup[r].key, lookup[r].record, lookup[r].now)

CacheInv ==
    /\ TypeOK
    /\ NothingFromTheFuture
    /\ ReadsWereTrue
    /\ NoEntryOutlivesItsTruth
    /\ AnswersAreRecent
    /\ IsFiniteSet(DOMAIN entries)
    /\ CacheBounded

-----------------------------------------------------------------------------
(* Lookups and entries.                                                    *)

\* A lookup that is under way is a record with its key and its instant.
LEMMA LookupUnderWay ==
    ASSUME NEW l \in Lookup, l.phase \in {"asking", "read"}
    PROVE  /\ l # NoLookup
           /\ l.key \in Keys
           /\ l.now \in Int
           /\ l.phase = "read" => l.record \in Record
  BY DEF Lookup, NoLookup

\* A lookup that is not under way is NoLookup, and one is under way otherwise.
LEMMA LookupPhases ==
    ASSUME NEW l \in Lookup
    PROVE  l # NoLookup => l.phase \in {"asking", "read"}
  BY DEF Lookup, NoLookup

\* insert adds its entry, keeps others as they were, and respects the ceiling.
LEMMA InsertedEntries ==
    ASSUME CacheConstants,
           NEW key, NEW entry, NEW new, new = Inserted(key, entry),
           IsFiniteSet(DOMAIN entries), Cardinality(DOMAIN entries) <= MaxEntries
    PROVE  /\ DOMAIN new \subseteq DOMAIN entries \cup {key}
           /\ key \in DOMAIN new
           /\ new = [k \in DOMAIN new |-> IF k = key THEN entry ELSE entries[k]]
           /\ IsFiniteSet(DOMAIN new)
           /\ Cardinality(DOMAIN new) <= MaxEntries
<1> DEFINE kept == IF Cardinality(DOMAIN entries) >= MaxEntries THEN {} ELSE DOMAIN entries
<1>1. DOMAIN new = kept \cup {key} /\ new = [k \in kept \cup {key} |-> IF k = key THEN entry ELSE entries[k]]
  BY DEF Inserted
<1>2. IsFiniteSet(kept) /\ Cardinality(kept) \in Nat /\ Cardinality(kept) < MaxEntries
  BY FS_EmptySet, FS_CardinalityType, Cardinality({}) = 0 DEF CacheConstants
<1>3. /\ IsFiniteSet(kept \cup {key})
      /\ Cardinality(kept \cup {key}) = Cardinality(kept) \/ Cardinality(kept \cup {key}) = Cardinality(kept) + 1
  BY <1>2, FS_AddElement
<1>4. Cardinality(kept \cup {key}) <= MaxEntries
  BY <1>2, <1>3 DEF CacheConstants
<1>5. kept \subseteq DOMAIN entries
  OBVIOUS
<1> HIDE DEF kept
<1>6. DOMAIN new \subseteq DOMAIN entries \cup {key} /\ key \in DOMAIN new
  BY <1>1, <1>5
<1>7. new = [k \in DOMAIN new |-> IF k = key THEN entry ELSE entries[k]]
  BY <1>1
<1> QED
  BY <1>1, <1>3, <1>4, <1>6, <1>7

-----------------------------------------------------------------------------
(* The two facts a step never takes back.                                  *)

\* A record that held at some instant since n still did, whatever step is taken.
LEMMA HeldStays ==
    ASSUME TypeOK, NothingFromTheFuture, [Next]_vars,
           NEW key \in Keys, NEW record, NEW n \in Int, HeldSince(key, record, n)
    PROVE  HeldSince(key, record, n)'
<1>1. CASE \E k \in Keys : Change(k)
  <2>1. PICK k \in Keys : Change(k)
    BY <1>1
  <2>2. CASE k # key
    <3>1. left'[key] = left[key] /\ account'[key] = account[key] /\ clock' = clock
      BY <2>1, <2>2 DEF Change, TypeOK
    <3> QED
      BY <3>1 DEF HeldSince
  <2>3. CASE k = key
    <3>1. /\ left'[key] = [rec \in DOMAIN left[key] \cup {account[key]} |->
                              IF rec = account[key] THEN clock ELSE left[key][rec]]
          /\ clock' = clock
      BY <2>1, <2>3 DEF Change, TypeOK
    <3>2. CASE record = account[key]
      <4>1. n <= clock
        <5>1. CASE n <= clock
          BY <5>1
        <5>2. CASE record \in DOMAIN left[key] /\ n <= left[key][record]
          <6>1. left[key][record] <= clock
            BY <5>2 DEF NothingFromTheFuture
          <6>2. left[key] \in [DOMAIN left[key] -> Int]
            BY DEF TypeOK
          <6>3. left[key][record] \in Int /\ clock \in Int
            BY <5>2, <6>2 DEF TypeOK
          <6> QED
            BY <5>2, <6>1, <6>3
        <5> QED
          BY <5>1, <5>2 DEF HeldSince
      <4>2. record \in DOMAIN left'[key] /\ left'[key][record] = clock
        BY <3>1, <3>2
      <4> QED
        BY <4>1, <4>2 DEF HeldSince
    <3>3. CASE record # account[key]
      <4>1. record \in DOMAIN left[key] /\ n <= left[key][record]
        BY <3>3 DEF HeldSince
      <4>2. record \in DOMAIN left'[key] /\ left'[key][record] = left[key][record]
        BY <3>1, <3>3, <4>1
      <4> QED
        BY <4>1, <4>2 DEF HeldSince
    <3> QED
      BY <3>2, <3>3
  <2> QED
    BY <2>2, <2>3
<1>2. CASE ~\E k \in Keys : Change(k)
  <2>1. account' = account /\ left' = left /\ (clock' = clock \/ clock' = clock + 1)
    <3>1. CASE Tick
      BY <3>1 DEF Tick
    <3>2. CASE UNCHANGED vars
      BY <3>2 DEF vars
    <3>3. ASSUME NEW r \in Requests,
                 \/ \E k \in Keys : Hit(r, k) \/ Ask(r, k)
                 \/ Read(r) \/ Store(r) \/ Fail(r) \/ Abandon(r)
          PROVE  account' = account /\ left' = left /\ clock' = clock
      BY <3>3 DEF Hit, Ask, Read, Store, Fail, Abandon
    <3> QED
      BY <1>2, <3>1, <3>2, <3>3 DEF Next
  <2> QED
    BY <2>1 DEF HeldSince, TypeOK
<1> QED
  BY <1>1, <1>2

\* A failure since n stays one, whatever step is taken.
LEMMA FailedStays ==
    ASSUME TypeOK, [Next]_vars, NEW key \in Keys, NEW n \in Int, FailedSince(key, n)
    PROVE  FailedSince(key, n)'
<1>1. CASE \E r \in Requests : Fail(r)
  <2>1. PICK r \in Requests : Fail(r)
    BY <1>1
  <2>2. lookup[r].now \in Int
    BY <2>1, LookupUnderWay DEF Fail, TypeOK
  <2>3. failed[key] \in Int /\ key \in DOMAIN failed /\ n <= failed[key]
    BY DEF FailedSince, TypeOK
  <2>4. key \in DOMAIN failed' /\ failed'[key] \in {failed[key], lookup[r].now}
        /\ failed'[key] >= failed[key]
    BY <2>1, <2>2, <2>3 DEF Fail
  <2> QED
    BY <2>2, <2>3, <2>4 DEF FailedSince
<1>2. CASE ~\E r \in Requests : Fail(r)
  <2>1. failed' = failed
    BY <1>2 DEF Next, vars, Hit, Ask, Read, Store, Abandon, Change, Tick
  <2> QED
    BY <2>1 DEF FailedSince
<1> QED
  BY <1>1, <1>2

\* What held since n held since any earlier instant.
LEMMA HeldEarlier ==
    ASSUME TypeOK, NEW key \in Keys, NEW record, NEW m \in Int, NEW n \in Int, m <= n,
           HeldSince(key, record, n)
    PROVE  HeldSince(key, record, m)
<1>1. CASE account[key] = record /\ n <= clock
  BY <1>1 DEF HeldSince, TypeOK
<1>2. CASE record \in DOMAIN left[key] /\ n <= left[key][record]
  <2>1. left[key] \in [DOMAIN left[key] -> Int]
    BY DEF TypeOK
  <2>2. left[key][record] \in Int
    BY <1>2, <2>1
  <2> QED
    BY <1>2, <2>2 DEF HeldSince
<1> QED
  BY <1>1, <1>2 DEF HeldSince

\* A failure since n is one since any earlier instant.
LEMMA FailedEarlier ==
    ASSUME TypeOK, NEW key, NEW m \in Int, NEW n \in Int, m <= n, FailedSince(key, n)
    PROVE  FailedSince(key, m)
  BY DEF FailedSince, TypeOK

-----------------------------------------------------------------------------
(* The invariant.                                                          *)

LEMMA CacheInit == ASSUME CacheConstants, Init PROVE CacheInv
<1>1. TypeOK
  <2>1. /\ left \in [Keys -> {left[k] : k \in Keys}]
        /\ \A k \in Keys : DOMAIN left[k] \subseteq Record /\ left[k] \in [DOMAIN left[k] -> Int]
    BY DEF Init
  <2>2. lookup \in [Requests -> Lookup] /\ answer \in [Requests -> Answer]
    BY DEF Init, Lookup, Answer
  <2>3. account \in [Keys -> Record] /\ clock \in Int /\ changes \in Nat
    BY DEF Init
  <2>4. /\ DOMAIN entries = {} /\ DOMAIN failed = {}
        /\ entries \in [DOMAIN entries -> [record : Record, storedAt : Int, ttl : {Ttl, FailureTtl}]]
        /\ failed \in [DOMAIN failed -> Int]
    BY DEF Init
  <2> QED
    BY <2>1, <2>2, <2>3, <2>4 DEF TypeOK
<1>2. NothingFromTheFuture /\ ReadsWereTrue
  BY DEF Init, NothingFromTheFuture, ReadsWereTrue, NoLookup
<1>3. DOMAIN entries = {}
  BY DEF Init
<1>4. IsFiniteSet(DOMAIN entries) /\ CacheBounded
  BY <1>3, FS_EmptySet, Cardinality({}) = 0 DEF CacheBounded, CacheConstants
<1>5. NoEntryOutlivesItsTruth /\ AnswersAreRecent
  BY <1>3 DEF Init, NoEntryOutlivesItsTruth, AnswersAreRecent
<1> QED
  BY <1>1, <1>2, <1>4, <1>5 DEF CacheInv

LEMMA CacheTypeStep == ASSUME CacheConstants, CacheInv, [Next]_vars PROVE TypeOK'
<1> USE CacheConstants DEF CacheInv
<1>1. ASSUME NEW r \in Requests, NEW key \in Keys, Hit(r, key) PROVE TypeOK'
  <2>1. entries[key].record \in Record
    BY <1>1 DEF Hit, Cached, TypeOK
  <2>2. [kind |-> "cached", key |-> key, now |-> clock, record |-> entries[key].record] \in Answer
    BY <2>1 DEF Answer, TypeOK
  <2> QED
    BY <1>1, <2>2 DEF Hit, TypeOK
<1>2. ASSUME NEW r \in Requests, NEW key \in Keys, Ask(r, key) PROVE TypeOK'
  <2>1. [phase |-> "asking", key |-> key, now |-> clock] \in Lookup
    BY DEF Lookup, TypeOK
  <2> QED
    BY <1>2, <2>1 DEF Ask, TypeOK
<1>3. ASSUME NEW r \in Requests, Read(r) PROVE TypeOK'
  <2>1. lookup[r].key \in Keys /\ lookup[r].now \in Int
    BY <1>3, LookupUnderWay DEF Read, TypeOK
  <2>2. [phase |-> "read", key |-> lookup[r].key, now |-> lookup[r].now,
         record |-> account[lookup[r].key]] \in Lookup
    BY <2>1 DEF Lookup, TypeOK
  <2> QED
    BY <1>3, <2>2 DEF Read, TypeOK
<1>4. ASSUME NEW r \in Requests, NEW kind \in {"read", "failed"}, NEW record \in Record,
             NEW ttl \in {Ttl, FailureTtl}, lookup[r].phase \in {"asking", "read"},
             entries' = Inserted(lookup[r].key, Entry(record, lookup[r].now, ttl)),
             Answered(r, kind, record),
             lookup' = [lookup EXCEPT ![r] = NoLookup],
             UNCHANGED <<account, clock, changes, left>>,
             DOMAIN failed' \subseteq Keys, failed' \in [DOMAIN failed' -> Int]
      PROVE  TypeOK'
  <2>1. lookup[r].key \in Keys /\ lookup[r].now \in Int
    BY <1>4, LookupUnderWay DEF TypeOK
  <2>2. [kind |-> kind, key |-> lookup[r].key, now |-> lookup[r].now, record |-> record] \in Answer
    BY <2>1 DEF Answer
  <2>3. answer' \in [Requests -> Answer] /\ lookup' \in [Requests -> Lookup]
    BY <1>4, <2>2 DEF Answered, TypeOK, Lookup
  <2>4. Entry(record, lookup[r].now, ttl) \in [record : Record, storedAt : Int, ttl : {Ttl, FailureTtl}]
    BY <2>1 DEF Entry
  <2>5. /\ DOMAIN entries' \subseteq DOMAIN entries \cup {lookup[r].key}
        /\ entries' = [k \in DOMAIN entries' |->
              IF k = lookup[r].key THEN Entry(record, lookup[r].now, ttl) ELSE entries[k]]
    BY <1>4, InsertedEntries DEF CacheBounded
  <2>6. /\ DOMAIN entries' \subseteq Keys
        /\ entries' \in [DOMAIN entries' -> [record : Record, storedAt : Int, ttl : {Ttl, FailureTtl}]]
    BY <2>1, <2>4, <2>5 DEF TypeOK
  <2> QED
    BY <1>4, <2>3, <2>6 DEF TypeOK
<1>5. ASSUME NEW r \in Requests, Store(r) PROVE TypeOK'
  <2>1. lookup[r].record \in Record
    BY <1>5, LookupUnderWay DEF Store, TypeOK
  <2>2. DOMAIN failed' \subseteq Keys /\ failed' \in [DOMAIN failed' -> Int]
    BY <1>5 DEF Store, TypeOK
  <2> QED
    BY <1>4, <1>5, <2>1, <2>2 DEF Store
<1>6. ASSUME NEW r \in Requests, Fail(r) PROVE TypeOK'
  <2>1. lookup[r].key \in Keys /\ lookup[r].now \in Int
    BY <1>6, LookupUnderWay DEF Fail, TypeOK
  <2>2. DOMAIN failed' \subseteq Keys /\ failed' \in [DOMAIN failed' -> Int]
    BY <1>6, <2>1 DEF Fail, TypeOK
  <2>3. NoCaller \in Record
    BY DEF Record
  <2> QED
    BY <1>4, <1>6, <2>2, <2>3 DEF Fail
<1>7. ASSUME NEW r \in Requests, Abandon(r) PROVE TypeOK'
  BY <1>7 DEF Abandon, TypeOK, Lookup
<1>8. ASSUME NEW key \in Keys, Change(key) PROVE TypeOK'
  <2>1. account' \in [Keys -> Record] /\ account[key] \in Record /\ changes' \in Nat
    BY <1>8 DEF Change, TypeOK
  <2>2. left[key] \in [DOMAIN left[key] -> Int] /\ DOMAIN left[key] \subseteq Record
    BY DEF TypeOK
  <2>3. left'[key] \in [DOMAIN left[key] \cup {account[key]} -> Int]
    BY <1>8, <2>1, <2>2 DEF Change, TypeOK
  <2>4. DOMAIN left'[key] \subseteq Record /\ left'[key] \in [DOMAIN left'[key] -> Int]
    BY <2>1, <2>2, <2>3
  <2>5. DOMAIN left' = Keys /\ left' = [k \in Keys |-> left'[k]]
    BY <1>8 DEF Change, TypeOK
  <2>6. \A k \in Keys \ {key} : left'[k] = left[k]
    BY <1>8 DEF Change, TypeOK
  <2>7. /\ left' \in [Keys -> {left'[k] : k \in Keys}]
        /\ \A k \in Keys : DOMAIN left'[k] \subseteq Record /\ left'[k] \in [DOMAIN left'[k] -> Int]
    BY <2>4, <2>5, <2>6 DEF TypeOK
  <2> QED
    BY <1>8, <2>1, <2>7 DEF Change, TypeOK
<1>9. CASE Tick
  BY <1>9 DEF Tick, TypeOK
<1>10. CASE UNCHANGED vars
  BY <1>10 DEF vars, TypeOK
<1> QED
  BY <1>1, <1>2, <1>3, <1>5, <1>6, <1>7, <1>8, <1>9, <1>10 DEF Next

\* The clock never runs backwards.
LEMMA ClockForward == ASSUME TypeOK, [Next]_vars PROVE clock' \in Int /\ clock <= clock'
<1>1. CASE Tick
  BY <1>1 DEF Tick, TypeOK
<1>2. CASE UNCHANGED vars
  BY <1>2 DEF vars, TypeOK
<1>3. ASSUME NEW r \in Requests,
             \/ \E k \in Keys : Hit(r, k) \/ Ask(r, k)
             \/ Read(r) \/ Store(r) \/ Fail(r) \/ Abandon(r)
      PROVE  clock' = clock
  BY <1>3 DEF Hit, Ask, Read, Store, Fail, Abandon
<1>4. ASSUME NEW k \in Keys, Change(k) PROVE clock' = clock
  BY <1>4 DEF Change
<1> QED
  BY <1>1, <1>2, <1>3, <1>4 DEF Next, TypeOK

\* What a step does to one lookup: nothing, an end, a question or an answer.
Asked(q) == lookup'[q].phase = "asking" /\ lookup'[q].now = clock

AnsweredFromDatabase(q) ==
    /\ lookup[q].phase = "asking"
    /\ lookup'[q].phase = "read"
    /\ lookup'[q].key = lookup[q].key
    /\ lookup'[q].now = lookup[q].now
    /\ lookup'[q].record = account[lookup[q].key]
    /\ UNCHANGED <<account, clock>>

LEMMA LookupSteps ==
    ASSUME TypeOK, [Next]_vars, NEW q \in Requests
    PROVE  \/ lookup'[q] = lookup[q]
           \/ lookup'[q] = NoLookup
           \/ Asked(q)
           \/ AnsweredFromDatabase(q)
<1>1. ASSUME NEW r \in Requests, NEW k \in Keys, Hit(r, k) PROVE lookup'[q] = lookup[q]
  BY <1>1 DEF Hit
<1>2. ASSUME NEW r \in Requests, NEW k \in Keys, Ask(r, k) PROVE lookup'[q] = lookup[q] \/ Asked(q)
  BY <1>2 DEF Ask, Asked, TypeOK
<1>3. ASSUME NEW r \in Requests, Read(r) PROVE lookup'[q] = lookup[q] \/ AnsweredFromDatabase(q)
  BY <1>3 DEF Read, AnsweredFromDatabase, TypeOK
<1>4. ASSUME NEW r \in Requests, Store(r) \/ Fail(r) \/ Abandon(r)
      PROVE  lookup'[q] = lookup[q] \/ lookup'[q] = NoLookup
  BY <1>4 DEF Store, Fail, Abandon, TypeOK
<1>5. ASSUME NEW k \in Keys, Change(k) PROVE lookup'[q] = lookup[q]
  BY <1>5 DEF Change
<1>6. CASE Tick \/ UNCHANGED vars
  BY <1>6 DEF Tick, vars
<1> QED
  BY <1>1, <1>2, <1>3, <1>4, <1>5, <1>6 DEF Next

LEMMA CacheFutureStep == ASSUME CacheInv, [Next]_vars PROVE NothingFromTheFuture'
<1> USE DEF CacheInv
<1>1. clock \in Int /\ clock' \in Int /\ clock <= clock'
  BY ClockForward DEF TypeOK
<1>2. ASSUME NEW q \in Requests, lookup'[q] # NoLookup PROVE lookup'[q].now <= clock'
  <2>1. CASE lookup'[q] = lookup[q]
    <3>1. lookup[q].now \in Int /\ lookup[q].now <= clock
      BY <1>2, <2>1, LookupUnderWay, LookupPhases DEF TypeOK, NothingFromTheFuture
    <3> QED
      BY <1>1, <2>1, <3>1
  <2>2. CASE AnsweredFromDatabase(q)
    <3>1. lookup[q].now \in Int /\ lookup[q].now <= clock
      BY <2>2, LookupUnderWay DEF TypeOK, NothingFromTheFuture, AnsweredFromDatabase
    <3> QED
      BY <1>1, <2>2, <3>1 DEF AnsweredFromDatabase
  <2>3. CASE Asked(q)
    BY <1>1, <2>3 DEF Asked
  <2> QED
    BY <1>2, <2>1, <2>2, <2>3, LookupSteps
<1>3. ASSUME NEW key \in Keys, NEW record \in DOMAIN left'[key] PROVE left'[key][record] <= clock'
  <2>1. ASSUME NEW k \in Keys, Change(k) PROVE left'[key][record] <= clock'
    <3>1. CASE k # key
      BY <2>1, <3>1, <1>3 DEF Change, TypeOK, NothingFromTheFuture
    <3>2. CASE k = key
      <4>1. left'[key] = [rec \in DOMAIN left[key] \cup {account[key]} |->
                            IF rec = account[key] THEN clock ELSE left[key][rec]]
        BY <2>1, <3>2 DEF Change, TypeOK
      <4>2. left'[key][record] = clock \/ (record \in DOMAIN left[key] /\ left'[key][record] = left[key][record])
        BY <1>3, <4>1
      <4> QED
        BY <1>1, <2>1, <4>2 DEF NothingFromTheFuture, Change
    <3> QED
      BY <3>1, <3>2
  <2>2. CASE left' = left
    <3>1. left[key] \in [DOMAIN left[key] -> Int]
      BY DEF TypeOK
    <3>2. left[key][record] \in Int /\ left[key][record] <= clock
      BY <1>3, <2>2, <3>1 DEF NothingFromTheFuture
    <3> QED
      BY <1>1, <2>2, <3>2
  <2>3. ASSUME NEW r \in Requests,
               \/ \E k \in Keys : Hit(r, k) \/ Ask(r, k)
               \/ Read(r) \/ Store(r) \/ Fail(r) \/ Abandon(r)
        PROVE  left' = left
    BY <2>3 DEF Hit, Ask, Read, Store, Fail, Abandon
  <2>4. CASE Tick \/ UNCHANGED vars
    BY <2>2, <2>4 DEF Tick, vars
  <2> QED
    BY <2>1, <2>2, <2>3, <2>4 DEF Next
<1> QED
  BY <1>2, <1>3 DEF NothingFromTheFuture

LEMMA CacheReadsStep == ASSUME CacheInv, [Next]_vars PROVE ReadsWereTrue'
<1> USE DEF CacheInv
<1> SUFFICES ASSUME NEW q \in Requests, lookup'[q].phase = "read"
             PROVE  HeldSince(lookup[q].key, lookup[q].record, lookup[q].now)'
  BY DEF ReadsWereTrue
<1>1. CASE lookup'[q] = lookup[q]
  <2>1. lookup[q].key \in Keys /\ lookup[q].now \in Int
        /\ HeldSince(lookup[q].key, lookup[q].record, lookup[q].now)
    BY <1>1, LookupUnderWay DEF ReadsWereTrue, TypeOK
  <2>2. PICK key \in Keys, n \in Int, record \in {lookup[q].record} :
            key = lookup[q].key /\ n = lookup[q].now /\ record = lookup[q].record
    BY <2>1
  <2>3. HeldSince(key, record, n)'
    BY <2>1, <2>2, HeldStays
  <2> QED
    BY <1>1, <2>2, <2>3 DEF HeldSince
<1>2. CASE AnsweredFromDatabase(q)
  <2>1. lookup[q].now <= clock
    BY <1>2, LookupUnderWay DEF AnsweredFromDatabase, TypeOK, NothingFromTheFuture
  <2> QED
    BY <1>2, <2>1 DEF AnsweredFromDatabase, HeldSince
<1> QED
  BY <1>1, <1>2, LookupSteps DEF Asked, NoLookup

-----------------------------------------------------------------------------
(* Entries and answers.                                                    *)

\* What NoEntryOutlivesItsTruth says of one entry, and AnswersAreRecent of one answer.
Truthful(key, record, storedAt, ttl) ==
    \/ ttl = Ttl /\ HeldSince(key, record, storedAt)
    \/ record = NoCaller /\ ttl = FailureTtl /\ FailedSince(key, storedAt)

Recent(key, record, now) ==
    \/ HeldSince(key, record, now - Ttl + 1)
    \/ record = NoCaller /\ FailedSince(key, now - FailureTtl + 1)

LEMMA TruthfulStays ==
    ASSUME CacheInv, [Next]_vars, NEW key \in Keys, NEW record, NEW storedAt \in Int, NEW ttl,
           Truthful(key, record, storedAt, ttl)
    PROVE  Truthful(key, record, storedAt, ttl)'
  BY HeldStays, FailedStays DEF Truthful, CacheInv

LEMMA RecentStays ==
    ASSUME CacheConstants, CacheInv, [Next]_vars, NEW key \in Keys, NEW record, NEW now \in Int,
           Recent(key, record, now)
    PROVE  Recent(key, record, now)'
<1>1. now - Ttl + 1 \in Int /\ now - FailureTtl + 1 \in Int
  BY DEF CacheConstants
<1>2. PICK m \in Int, n \in Int : m = now - Ttl + 1 /\ n = now - FailureTtl + 1
  BY <1>1
<1>3. CASE HeldSince(key, record, m)
  BY <1>2, <1>3, HeldStays DEF Recent, CacheInv
<1>4. CASE record = NoCaller /\ FailedSince(key, n)
  BY <1>2, <1>4, FailedStays DEF Recent, CacheInv
<1> QED
  BY <1>2, <1>3, <1>4 DEF Recent

\* What is truthful as of n is recent for a request that came in within the lifetime.
LEMMA TruthfulIsRecent ==
    ASSUME CacheConstants, TypeOK, NEW key \in Keys, NEW record, NEW storedAt \in Int, NEW ttl,
           NEW now \in Int, ttl = Ttl \/ ttl = FailureTtl,
           Truthful(key, record, storedAt, ttl), now - storedAt < ttl
    PROVE  Recent(key, record, now)
<1>1. PICK m \in Int, n \in Int : m = now - Ttl + 1 /\ n = now - FailureTtl + 1
  BY DEF CacheConstants
<1>2. CASE ttl = Ttl /\ HeldSince(key, record, storedAt)
  <2>1. m <= storedAt
    BY <1>1, <1>2 DEF CacheConstants
  <2> QED
    BY <1>1, <1>2, <2>1, HeldEarlier DEF Recent
<1>3. CASE record = NoCaller /\ ttl = FailureTtl /\ FailedSince(key, storedAt)
  <2>1. n <= storedAt
    BY <1>1, <1>3 DEF CacheConstants
  <2> QED
    BY <1>1, <1>3, <2>1, FailedEarlier DEF Recent
<1> QED
  BY <1>2, <1>3 DEF Truthful

\* What Store and Fail put under their key is truthful.
LEMMA StoredIsTruthful ==
    ASSUME CacheConstants, CacheInv, NEW r \in Requests, Store(r),
           NEW key, NEW record, NEW now,
           key = lookup[r].key, record = lookup[r].record, now = lookup[r].now
    PROVE  /\ key \in Keys /\ now \in Int
           /\ HeldSince(key, record, now)
           /\ HeldSince(key, record, now)'
  BY LookupUnderWay DEF Store, CacheInv, ReadsWereTrue, HeldSince, TypeOK

LEMMA FailureIsTruthful ==
    ASSUME CacheConstants, CacheInv, NEW r \in Requests, Fail(r), NEW key, NEW now,
           key = lookup[r].key, now = lookup[r].now
    PROVE  /\ key \in Keys /\ now \in Int
           /\ FailedSince(key, now)'
<1>1. key \in Keys /\ now \in Int
  BY LookupUnderWay DEF Fail, CacheInv, TypeOK
<1>2. /\ key \in DOMAIN failed'
      /\ key \in DOMAIN failed => failed[key] \in Int
      /\ \/ failed'[key] = now
         \/ failed'[key] = failed[key] /\ key \in DOMAIN failed /\ ~(failed[key] < now)
  BY DEF Fail, CacheInv, TypeOK
<1> QED
  BY <1>1, <1>2 DEF FailedSince

LEMMA EntrySteps ==
    ASSUME CacheConstants, CacheInv, [Next]_vars, NEW k \in DOMAIN entries',
           NEW e, e = entries'[k]
    PROVE  \/ k \in DOMAIN entries /\ e = entries[k]
           \/ Truthful(k, e.record, e.storedAt, e.ttl)'
<1>1. ASSUME NEW key, NEW record, NEW now, NEW ttl,
             entries' = Inserted(key, Entry(record, now, ttl)),
             Truthful(key, record, now, ttl)'
      PROVE  \/ k \in DOMAIN entries /\ e = entries[k]
             \/ Truthful(k, e.record, e.storedAt, e.ttl)'
  <2>1. /\ DOMAIN entries' \subseteq DOMAIN entries \cup {key}
        /\ entries' = [i \in DOMAIN entries' |->
              IF i = key THEN Entry(record, now, ttl) ELSE entries[i]]
    BY <1>1, InsertedEntries DEF CacheInv, CacheBounded
  <2>2. CASE k = key
    <3>1. e = Entry(record, now, ttl)
      BY <2>1, <2>2
    <3>2. e.record = record /\ e.storedAt = now /\ e.ttl = ttl
      BY <3>1 DEF Entry
    <3> QED
      BY <1>1, <2>2, <3>2
  <2>3. CASE k # key
    BY <2>1, <2>3
  <2> QED
    BY <2>2, <2>3
<1>2. ASSUME NEW r \in Requests, Store(r)
      PROVE  \/ k \in DOMAIN entries /\ e = entries[k]
             \/ Truthful(k, e.record, e.storedAt, e.ttl)'
  <2>1. PICK key, record, now :
            key = lookup[r].key /\ record = lookup[r].record /\ now = lookup[r].now
    OBVIOUS
  <2>2. Truthful(key, record, now, Ttl)'
    BY <1>2, <2>1, StoredIsTruthful DEF Truthful
  <2>3. entries' = Inserted(key, Entry(record, now, Ttl))
    BY <1>2, <2>1 DEF Store
  <2> QED
    BY <1>1, <2>2, <2>3
<1>3. ASSUME NEW r \in Requests, Fail(r)
      PROVE  \/ k \in DOMAIN entries /\ e = entries[k]
             \/ Truthful(k, e.record, e.storedAt, e.ttl)'
  <2>1. PICK key, now : key = lookup[r].key /\ now = lookup[r].now
    OBVIOUS
  <2>2. Truthful(key, NoCaller, now, FailureTtl)'
    BY <1>3, <2>1, FailureIsTruthful DEF Truthful
  <2>3. entries' = Inserted(key, Entry(NoCaller, now, FailureTtl))
    BY <1>3, <2>1 DEF Fail
  <2> QED
    BY <1>1, <2>2, <2>3
<1>4. ASSUME NEW r \in Requests,
             \/ \E key \in Keys : Hit(r, key) \/ Ask(r, key)
             \/ Read(r) \/ Abandon(r)
      PROVE  entries' = entries
  BY <1>4 DEF Hit, Ask, Read, Abandon
<1>5. ASSUME NEW key \in Keys, Change(key) PROVE entries' = entries
  BY <1>5 DEF Change
<1>6. CASE Tick \/ UNCHANGED vars
  BY <1>6 DEF Tick, vars
<1> QED
  BY <1>2, <1>3, <1>4, <1>5, <1>6 DEF Next

LEMMA CacheEntriesStep ==
    ASSUME CacheConstants, CacheInv, [Next]_vars PROVE NoEntryOutlivesItsTruth'
<1>1. ASSUME NEW k \in DOMAIN entries', NEW e, e = entries'[k]
      PROVE  Truthful(k, e.record, e.storedAt, e.ttl)'
  <2>1. CASE k \in DOMAIN entries /\ e = entries[k]
    <3>1. k \in Keys /\ e.storedAt \in Int /\ Truthful(k, e.record, e.storedAt, e.ttl)
      BY <2>1 DEF CacheInv, NoEntryOutlivesItsTruth, Truthful, TypeOK
    <3> QED
      BY <3>1, TruthfulStays
  <2> QED
    BY <1>1, <2>1, EntrySteps
<1> QED
  BY <1>1 DEF NoEntryOutlivesItsTruth, Truthful

LEMMA AnswerSteps ==
    ASSUME CacheConstants, CacheInv, [Next]_vars, NEW q \in Requests, NEW a, a = answer'[q]
    PROVE  a = answer[q] \/ Recent(a.key, a.record, a.now)'
<1>1. ASSUME NEW r \in Requests, NEW key \in Keys, Hit(r, key), a # answer[q]
      PROVE  Recent(a.key, a.record, a.now)'
  <2>1. a.key = key /\ a.record = entries[key].record /\ a.now = clock
    BY <1>1 DEF Hit, CacheInv, TypeOK
  <2>2. /\ Truthful(key, entries[key].record, entries[key].storedAt, entries[key].ttl)
        /\ entries[key].storedAt \in Int /\ clock \in Int
        /\ entries[key].ttl = Ttl \/ entries[key].ttl = FailureTtl
    BY <1>1 DEF Hit, Cached, CacheInv, NoEntryOutlivesItsTruth, Truthful, TypeOK
  <2>3. clock - entries[key].storedAt < entries[key].ttl
    BY <1>1, <2>2 DEF Hit, Cached, Expired, CacheConstants
  <2>4. PICK storedAt \in Int, ttl \in {entries[key].ttl} : storedAt = entries[key].storedAt /\ ttl = entries[key].ttl
    BY <2>2
  <2>5. Recent(key, a.record, a.now) /\ a.now \in Int
    BY <2>1, <2>2, <2>3, <2>4, TruthfulIsRecent DEF CacheInv
  <2> QED
    BY <2>1, <2>5, RecentStays
<1>2. ASSUME NEW r \in Requests, Store(r), a # answer[q]
      PROVE  Recent(a.key, a.record, a.now)'
  <2>1. a.key = lookup[r].key /\ a.record = lookup[r].record /\ a.now = lookup[r].now
    BY <1>2 DEF Store, Answered, CacheInv, TypeOK
  <2>2. a.key \in Keys /\ a.now \in Int /\ HeldSince(a.key, a.record, a.now)
    BY <1>2, <2>1, StoredIsTruthful
  <2>3. PICK m \in Int : m = a.now - Ttl + 1 /\ m <= a.now
    BY <2>2 DEF CacheConstants
  <2>4. Recent(a.key, a.record, a.now)
    BY <2>2, <2>3, HeldEarlier DEF CacheInv, Recent
  <2> QED
    BY <2>2, <2>4, RecentStays
<1>3. ASSUME NEW r \in Requests, Fail(r), a # answer[q]
      PROVE  Recent(a.key, a.record, a.now)'
  <2>1. a.key = lookup[r].key /\ a.record = NoCaller /\ a.now = lookup[r].now
    BY <1>3 DEF Fail, Answered, CacheInv, TypeOK
  <2>2. a.now \in Int /\ FailedSince(a.key, a.now)'
    BY <1>3, <2>1, FailureIsTruthful
  <2>3. PICK n \in Int : n = a.now - FailureTtl + 1 /\ n <= a.now
    BY <2>2 DEF CacheConstants
  <2>4. TypeOK'
    BY CacheTypeStep
  <2>5. FailedSince(a.key, n)'
    BY <2>2, <2>3, <2>4 DEF FailedSince, TypeOK
  <2> QED
    BY <2>1, <2>3, <2>5 DEF Recent
<1>4. ASSUME NEW r \in Requests, (\E key \in Keys : Ask(r, key)) \/ Read(r) \/ Abandon(r)
      PROVE  answer' = answer
  BY <1>4 DEF Ask, Read, Abandon
<1>5. ASSUME NEW key \in Keys, Change(key) PROVE answer' = answer
  BY <1>5 DEF Change
<1>6. CASE Tick \/ UNCHANGED vars
  BY <1>6 DEF Tick, vars
<1> QED
  BY <1>1, <1>2, <1>3, <1>4, <1>5, <1>6 DEF Next

LEMMA CacheAnswersStep ==
    ASSUME CacheConstants, CacheInv, [Next]_vars PROVE AnswersAreRecent'
<1>1. ASSUME NEW q \in Requests, NEW a, a = answer'[q], a # NoAnswer
      PROVE  Recent(a.key, a.record, a.now)'
  <2>1. CASE a = answer[q]
    <3>1. a \in Answer
      BY <2>1 DEF CacheInv, TypeOK
    <3>2. a.key \in Keys /\ a.now \in Int
      BY <1>1, <3>1 DEF Answer
    <3>3. Recent(a.key, a.record, a.now)
      BY <1>1, <2>1 DEF CacheInv, AnswersAreRecent, Recent
    <3> QED
      BY <3>2, <3>3, RecentStays
  <2> QED
    BY <1>1, <2>1, AnswerSteps
<1> QED
  BY <1>1 DEF AnswersAreRecent, Recent

LEMMA CacheBoundStep ==
    ASSUME CacheConstants, CacheInv, [Next]_vars
    PROVE  IsFiniteSet(DOMAIN entries') /\ CacheBounded'
<1>1. CASE entries' = entries
  BY <1>1 DEF CacheInv, CacheBounded
<1>2. ASSUME NEW key, NEW entry, entries' = Inserted(key, entry)
      PROVE  IsFiniteSet(DOMAIN entries') /\ CacheBounded'
  BY <1>2, InsertedEntries DEF CacheInv, CacheBounded
<1>3. ASSUME NEW r \in Requests, Store(r) \/ Fail(r)
      PROVE  IsFiniteSet(DOMAIN entries') /\ CacheBounded'
  BY <1>2, <1>3 DEF Store, Fail
<1>4. ASSUME NEW r \in Requests,
             \/ \E key \in Keys : Hit(r, key) \/ Ask(r, key)
             \/ Read(r) \/ Abandon(r)
      PROVE  entries' = entries
  BY <1>4 DEF Hit, Ask, Read, Abandon
<1>5. ASSUME NEW key \in Keys, Change(key) PROVE entries' = entries
  BY <1>5 DEF Change
<1>6. CASE Tick \/ UNCHANGED vars
  BY <1>1, <1>6 DEF Tick, vars
<1> QED
  BY <1>1, <1>3, <1>4, <1>5, <1>6 DEF Next

LEMMA CacheInvHolds == Spec => []CacheInv
<1>1. Init => CacheInv
  BY CacheInit, CacheConstants
<1>2. CacheInv /\ [Next]_vars => CacheInv'
  BY CacheConstants, CacheTypeStep, CacheFutureStep, CacheReadsStep, CacheEntriesStep,
     CacheAnswersStep, CacheBoundStep DEF CacheInv
<1> QED
  BY <1>1, <1>2, PTL DEF Spec

-----------------------------------------------------------------------------
(* Theorems.                                                               *)

\* Every variable keeps its type.
THEOREM CacheTypeCorrect == Spec => []TypeOK
<1>1. CacheInv => TypeOK
  BY DEF CacheInv
<1> QED
  BY <1>1, CacheInvHolds, PTL

\* A revocation or a plan change applies to every request that comes in Ttl seconds
\* later, however many lookups were on the way, and the miss of a failed lookup is
\* answered for FailureTtl seconds at most (cache.rs, resolve).
THEOREM RevocationIsHonoured == Spec => []AnswersAreRecent
<1>1. CacheInv => AnswersAreRecent
  BY DEF CacheInv
<1> QED
  BY <1>1, CacheInvHolds, PTL

\* No cached record is older than the instant it is stamped with (cache.rs, insert and
\* resolve: the stamp is taken before the database is asked).
THEOREM EntriesAreTruthful == Spec => []NoEntryOutlivesItsTruth
<1>1. CacheInv => NoEntryOutlivesItsTruth
  BY DEF CacheInv
<1> QED
  BY <1>1, CacheInvHolds, PTL

\* The cache never holds more entries than its ceiling (cache.rs, insert).
THEOREM CacheIsBounded == Spec => []CacheBounded
<1>1. CacheInv => CacheBounded
  BY DEF CacheInv
<1> QED
  BY <1>1, CacheInvHolds, PTL

=============================================================================
