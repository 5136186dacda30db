------------------------------ MODULE KeyCache -------------------------------
(***************************************************************************)
(* How the API turns an x-api-key header into a caller: the in-memory cache *)
(* of lookups in apps/api/src/accounts/cache.rs in front of the query of   *)
(* accounts/keys.rs::lookup.  No lock is held while the database is asked, *)
(* so lookups of the same key overlap, an older answer can be stored after *)
(* a newer one, and an entry is stamped with the instant the request read  *)
(* before it asked.                                                        *)
(***************************************************************************)
EXTENDS Integers, FiniteSets

CONSTANTS
    Keys,           \* well-formed raw keys, issued or not
    Plans,          \* the records a live key can resolve to (its owner's plan)
    NoCaller,       \* lookup's None: unknown or revoked
    Requests,       \* request slots: how many requests can be in flight
    Ttl,            \* API_KEY_CACHE_TTL_SECONDS
    FailureTtl,     \* API_KEY_CACHE_MISS_TTL_SECONDS
    MaxEntries,     \* API_KEY_CACHE_MAX_ENTRIES
    LookupSeconds,  \* clock seconds a lookup can span before its timeout ends it
    MaxClock,       \* bound: the last second of the modelled period
    MaxChanges      \* bound: revocations and plan changes

Record == Plans \cup {NoCaller}

ASSUME CacheConstants ==
    /\ NoCaller \notin Plans
    /\ Ttl \in Nat \ {0}
    /\ FailureTtl \in Nat \ {0}
    /\ MaxEntries \in Nat \ {0}
    /\ LookupSeconds \in Nat
    /\ MaxClock \in Nat
    /\ MaxChanges \in Nat

VARIABLES
    account,    \* what the accounts database answers for each key
    entries,    \* KeyCache.entries: key -> [record, storedAt, ttl]
    clock,      \* now_seconds()
    lookup,     \* the requests inside resolve, past a cache miss
    answer,     \* the last answer of each slot
    changes,    \* how often the accounts database changed
    left,       \* history: left[k][record], when k last stopped resolving to record
    failed      \* history: failed[k], the instant of k's latest failed lookup

vars == <<account, entries, clock, lookup, answer, changes, left, failed>>

-----------------------------------------------------------------------------
NoLookup == [phase |-> "idle"]

NoAnswer == [kind |-> "none"]

\* Mutant: an entry is stamped when it is stored.
StampedAtArrival(record, now, ttl) == [record |-> record, storedAt |-> clock, ttl |-> ttl]

Entry(record, now, ttl) == [record |-> record, storedAt |-> now, ttl |-> ttl]

\* Mutant: an entry lives a second too long.
ExpiresLate(entry, now) == now - entry.storedAt > entry.ttl

Expired(entry, now) == now - entry.storedAt >= entry.ttl

\* KeyCache::get: an entry that is present and has not expired.
Cached(key, now) == key \in DOMAIN entries /\ ~Expired(entries[key], now)

\* Mutant: the map is dropped one entry too late.
InsertedBeforeCheck(key, entry) ==
    LET kept == IF Cardinality(DOMAIN entries) > MaxEntries THEN {} ELSE DOMAIN entries
    IN  [k \in kept \cup {key} |-> IF k = key THEN entry ELSE entries[k]]

\* KeyCache::insert: at the ceiling the whole map is dropped first.
Inserted(key, entry) ==
    LET kept == IF Cardinality(DOMAIN entries) >= MaxEntries THEN {} ELSE DOMAIN entries
    IN  [k \in kept \cup {key} |-> IF k = key THEN entry ELSE entries[k]]

Answered(r, kind, record) ==
    answer' = [answer EXCEPT ![r] =
        [kind |-> kind, key |-> lookup[r].key, now |-> lookup[r].now, record |-> record]]

-----------------------------------------------------------------------------
Init ==
    /\ account \in [Keys -> Record]
    /\ entries = [k \in {} |-> NoCaller]
    /\ clock = 0
    /\ lookup = [r \in Requests |-> NoLookup]
    /\ answer = [r \in Requests |-> NoAnswer]
    /\ changes = 0
    /\ left = [k \in Keys |-> [record \in {} |-> 0]]
    /\ failed = [k \in {} |-> 0]

\* resolve, on a hit: answered without waiting.
Hit(r, key) ==
    /\ lookup[r] = NoLookup
    /\ Cached(key, clock)
    /\ answer' = [answer EXCEPT ![r] =
          [kind |-> "cached", key |-> key, now |-> clock, record |-> entries[key].record]]
    /\ UNCHANGED <<account, entries, clock, lookup, changes, left, failed>>

\* resolve, on a miss: the query is sent.
Ask(r, key) ==
    /\ lookup[r] = NoLookup
    /\ ~Cached(key, clock)
    /\ lookup' = [lookup EXCEPT ![r] = [phase |-> "asking", key |-> key, now |-> clock]]
    /\ UNCHANGED <<account, entries, clock, answer, changes, left, failed>>

\* The database runs the query; its answer is on the way.
Read(r) ==
    /\ lookup[r].phase = "asking"
    /\ lookup' = [lookup EXCEPT ![r] =
          [phase |-> "read", key |-> lookup[r].key, now |-> lookup[r].now,
           record |-> account[lookup[r].key]]]
    /\ UNCHANGED <<account, entries, clock, answer, changes, left, failed>>

\* The answer arrives: stored under the instant at which the request came in.
Store(r) ==
    /\ lookup[r].phase = "read"
    /\ entries' = Inserted(lookup[r].key, Entry(lookup[r].record, lookup[r].now, Ttl))
    /\ Answered(r, "read", lookup[r].record)
    /\ lookup' = [lookup EXCEPT ![r] = NoLookup]
    /\ UNCHANGED <<account, clock, changes, left, failed>>

\* The query fails or the timeout ends the wait: a short-lived miss is stored, over
\* whatever entry the key has by then, and the layer goes on without a caller.
Fail(r) ==
    /\ lookup[r].phase \in {"asking", "read"}
    /\ LET key == lookup[r].key
           now == lookup[r].now IN
       /\ entries' = Inserted(key, Entry(NoCaller, now, FailureTtl))
       /\ failed' = [k \in DOMAIN failed \cup {key} |->
                        IF k = key /\ (key \notin DOMAIN failed \/ failed[key] < now)
                        THEN now ELSE failed[k]]
    /\ Answered(r, "failed", NoCaller)
    /\ lookup' = [lookup EXCEPT ![r] = NoLookup]
    /\ UNCHANGED <<account, clock, changes, left>>

\* The client goes away: the handler is dropped at its await, and nothing is stored.
Abandon(r) ==
    /\ lookup[r].phase \in {"asking", "read"}
    /\ lookup' = [lookup EXCEPT ![r] = NoLookup]
    /\ UNCHANGED <<account, entries, clock, answer, changes, left, failed>>

\* The key is revoked, for good, or its owner moves to another plan.
Change(key) ==
    /\ changes < MaxChanges
    /\ account[key] # NoCaller
    /\ \E record \in Record \ {account[key]} : account' = [account EXCEPT ![key] = record]
    /\ left' = [left EXCEPT ![key] =
          [record \in DOMAIN left[key] \cup {account[key]} |->
              IF record = account[key] THEN clock ELSE left[key][record]]]
    /\ changes' = changes + 1
    /\ UNCHANGED <<entries, clock, lookup, answer, failed>>

\* A second passes; the timeout bounds how long a lookup can be under way.
Tick ==
    /\ clock < MaxClock
    /\ \A r \in Requests : lookup[r] # NoLookup => clock + 1 - lookup[r].now <= LookupSeconds
    /\ clock' = clock + 1
    /\ UNCHANGED <<account, entries, lookup, answer, changes, left, failed>>

Next ==
    \/ \E r \in Requests :
          \/ \E key \in Keys : Hit(r, key) \/ Ask(r, key)
          \/ Read(r) \/ Store(r) \/ Fail(r) \/ Abandon(r)
    \/ \E key \in Keys : Change(key)
    \/ Tick

Spec == Init /\ [][Next]_vars

-----------------------------------------------------------------------------
(* Properties.                                                             *)

Lookup ==
    {NoLookup}
        \cup [phase : {"asking"}, key : Keys, now : Int]
        \cup [phase : {"read"}, key : Keys, now : Int, record : Record]

Answer ==
    {NoAnswer}
        \cup [kind : {"cached", "read", "failed"}, key : Keys, now : Int, record : Record]

\* Every variable has its type; a cached entry lives for one of the two lifetimes.
TypeOK ==
    /\ account \in [Keys -> Record]
    /\ DOMAIN entries \subseteq Keys
    /\ entries \in [DOMAIN entries -> [record : Record, storedAt : Int, ttl : {Ttl, FailureTtl}]]
    /\ clock \in Int
    /\ lookup \in [Requests -> Lookup]
    /\ answer \in [Requests -> Answer]
    /\ changes \in Nat
    /\ left \in [Keys -> {left[k] : k \in Keys}]
    /\ \A k \in Keys : DOMAIN left[k] \subseteq Record /\ left[k] \in [DOMAIN left[k] -> Int]
    /\ DOMAIN failed \subseteq Keys
    /\ failed \in [DOMAIN failed -> Int]

\* The database answered `record` for the key at some instant no earlier than `now`.
HeldSince(key, record, now) ==
    \/ account[key] = record /\ now <= clock
    \/ record \in DOMAIN left[key] /\ now <= left[key][record]

FailedSince(key, now) == key \in DOMAIN failed /\ now <= failed[key]

\* What a request is told about its key was true less than Ttl seconds before the
\* request came in, or is the miss of a lookup that failed less than FailureTtl seconds
\* before it: a revocation or a plan change applies within Ttl seconds, and an outage
\* makes a live key anonymous for no more than FailureTtl seconds past its last failure
\* (docs/exceptions.md, "Key revocation, plan changes, and usage are eventually
\* consistent" and "API key lookups are cached, misses included").
AnswersAreRecent ==
    \A r \in Requests :
        answer[r] # NoAnswer =>
            LET a == answer[r] IN
            \/ HeldSince(a.key, a.record, a.now - Ttl + 1)
            \/ a.record = NoCaller /\ FailedSince(a.key, a.now - FailureTtl + 1)

\* A revoked key stops working everywhere in this process after Ttl seconds, although
\* lookups sent before the revocation may still be on the way: no cached record outlives
\* the moment the database stopped answering it by more than its lifetime.
NoEntryOutlivesItsTruth ==
    \A k \in DOMAIN entries :
        \/ /\ entries[k].ttl = Ttl
           /\ HeldSince(k, entries[k].record, entries[k].storedAt)
        \/ /\ entries[k].record = NoCaller
           /\ entries[k].ttl = FailureTtl
           /\ FailedSince(k, entries[k].storedAt)

\* Keys made up by a caller cannot grow the cache past its ceiling, whichever lookups
\* overlap.
CacheBounded == Cardinality(DOMAIN entries) <= MaxEntries

\* An outage of the accounts database stalls one request per key and failure lifetime
\* (docs/exceptions.md, "API key lookups are cached, misses included").
OneStallPerOutage ==
    \A r, q \in Requests :
        (/\ r # q
         /\ answer[r].kind = "failed" /\ answer[q].kind = "failed"
         /\ answer[r].key = answer[q].key)
            => \/ answer[r].now - answer[q].now >= FailureTtl
               \/ answer[q].now - answer[r].now >= FailureTtl

=============================================================================
