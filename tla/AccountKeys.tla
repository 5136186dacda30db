---------------------------- MODULE AccountKeys ------------------------------
(***************************************************************************)
(* The API keys of one user: apps/api/src/accounts/keys.rs (create_for and  *)
(* revoke, called by the account portal through apps/api/src/routes) and    *)
(* the operator's bin/issue-key.rs.  Transactions are READ COMMITTED: each  *)
(* statement sees what is committed when it starts.  create_for locks the   *)
(* user's row first; PostgreSQL checks the foreign key of an inserted key   *)
(* with a share lock on the same row, which waits for that lock.            *)
(***************************************************************************)
EXTENDS Integers, FiniteSets

CONSTANTS
    Creates,    \* POST /account/keys requests, from any tab or API process
    Issues,     \* runs of issue-key for this user
    NoHolder,     \* the holder of a row that is not locked
    MaxActive   \* MAX_ACTIVE_KEYS_PER_USER

Writers == Creates \cup Issues

ASSUME KeysConstants ==
    /\ Creates \cap Issues = {}
    /\ NoHolder \notin Writers
    /\ MaxActive \in Nat \ {0}

VARIABLES
    at,        \* where each writer is
    counted,   \* what create_for's count has returned
    active,    \* committed keys that are not revoked, named after their writer
    revoked,   \* committed keys that are revoked
    lock,      \* the create that holds the user's row FOR UPDATE
    sharing    \* the issue-key runs whose insert holds a share lock on it

keysVars == <<at, counted, active, revoked, lock, sharing>>

MoveTo(w, where) == at' = [at EXCEPT ![w] = where]

Unlock(w) == lock' = IF lock = w THEN NoHolder ELSE lock

KeysInit ==
    /\ at = [w \in Writers |-> "ready"]
    /\ counted = [c \in Creates |-> 0]
    /\ active = {}
    /\ revoked = {}
    /\ lock = NoHolder
    /\ sharing = {}

\* Mutant: the row is read, not locked.
ReadUser(c) ==
    /\ at[c] = "ready"
    /\ MoveTo(c, "locked")
    /\ UNCHANGED <<counted, active, revoked, lock, sharing>>

\* begin, and SELECT .. FOR UPDATE once nobody holds the row.
LockUser(c) ==
    /\ at[c] = "ready"
    /\ lock = NoHolder /\ sharing = {}
    /\ lock' = c
    /\ MoveTo(c, "locked")
    /\ UNCHANGED <<counted, active, revoked, sharing>>

\* The count runs in a statement, hence in a snapshot, of its own.
CountActive(c) ==
    /\ at[c] = "locked"
    /\ counted' = [counted EXCEPT ![c] = Cardinality(active)]
    /\ MoveTo(c, "counted")
    /\ UNCHANGED <<active, revoked, lock, sharing>>

\* TooMany: the transaction is dropped, and its lock with it.
Refuse(c) ==
    /\ at[c] = "counted"
    /\ counted[c] >= MaxActive
    /\ Unlock(c)
    /\ MoveTo(c, "refused")
    /\ UNCHANGED <<counted, active, revoked, sharing>>

\* Mutant: the raw key is handed out and the transaction never committed.
InsertOnly(c) ==
    /\ at[c] = "counted"
    /\ counted[c] < MaxActive
    /\ Unlock(c)
    /\ MoveTo(c, "created")
    /\ UNCHANGED <<counted, active, revoked, sharing>>

\* The key is inserted; nobody else sees it yet.
Insert(c) ==
    /\ at[c] = "counted"
    /\ counted[c] < MaxActive
    /\ MoveTo(c, "inserted")
    /\ UNCHANGED <<counted, active, revoked, lock, sharing>>

\* commit: the caller is given the raw key, unless the answer is lost.
CommitCreate(c) ==
    /\ at[c] = "inserted"
    /\ active' = active \cup {c}
    /\ Unlock(c)
    /\ MoveTo(c, "created") \/ MoveTo(c, "failed")
    /\ UNCHANGED <<counted, revoked, sharing>>

\* A statement fails, waits too long for the lock, or the request is dropped: the
\* transaction is rolled back.
RollBack(c) ==
    /\ at[c] \in {"ready", "locked", "counted", "inserted"}
    /\ Unlock(c)
    /\ MoveTo(c, "failed")
    /\ UNCHANGED <<counted, active, revoked, sharing>>

\* Mutant: a key that references no row.
IssueUnchecked(i) ==
    /\ at[i] = "ready"
    /\ MoveTo(i, "inserted")
    /\ UNCHANGED <<counted, active, revoked, lock, sharing>>

\* issue-key inserts a key without a count: its foreign key check waits for create_for.
IssueInsert(i) ==
    /\ at[i] = "ready"
    /\ lock = NoHolder
    /\ sharing' = sharing \cup {i}
    /\ MoveTo(i, "inserted")
    /\ UNCHANGED <<counted, active, revoked, lock>>

\* The insert is a transaction of its own: it commits, or fails and prints the error.
IssueCommit(i) ==
    /\ at[i] = "inserted"
    /\ sharing' = sharing \ {i}
    /\ \/ active' = active \cup {i} /\ MoveTo(i, "created")
       \/ UNCHANGED active /\ MoveTo(i, "failed")
    /\ UNCHANGED <<counted, revoked, lock>>

\* revoke: one UPDATE of one key, which takes no lock on the user's row.
Revoke(key) ==
    /\ key \in active
    /\ active' = active \ {key}
    /\ revoked' = revoked \cup {key}
    /\ UNCHANGED <<at, counted, lock, sharing>>

KeysNext ==
    \/ \E c \in Creates :
          \/ LockUser(c) \/ CountActive(c) \/ Refuse(c)
          \/ Insert(c) \/ CommitCreate(c) \/ RollBack(c)
    \/ \E i \in Issues : IssueInsert(i) \/ IssueCommit(i)
    \/ \E key \in Writers : Revoke(key)

KeysSpec == KeysInit /\ [][KeysNext]_keysVars

-----------------------------------------------------------------------------
(* Properties.                                                             *)

KeysTypeOK ==
    /\ at \in [Writers -> {"ready", "locked", "counted", "inserted", "created", "refused", "failed"}]
    /\ counted \in [Creates -> Nat]
    /\ active \in SUBSET Writers
    /\ revoked \in SUBSET Writers
    /\ lock \in Creates \cup {NoHolder}
    /\ sharing \in SUBSET Issues

\* The portal never takes a user past the ceiling, even when creates overlap each other,
\* a revocation or issue-key, which itself ignores the ceiling: no key the portal commits
\* leaves more than MaxActive active (keys.rs, create_for).
PortalKeepsTheCeiling ==
    [][\A c \in Creates : c \in active' \ active => Cardinality(active') <= MaxActive]_keysVars

\* Of the keys the portal created, never more than MaxActive are active, whatever
\* issue-key adds to them and whenever they are revoked.
CeilingHolds == Cardinality(active \cap Creates) <= MaxActive

\* A raw key is handed out only for a key that is stored, and a refusal stores none: what
\* a caller is told and what is committed never disagree, except for a lost answer.
HandedOutKeysAreStored ==
    \A w \in Writers :
        /\ at[w] = "created" => w \in active \cup revoked
        /\ at[w] = "refused" => w \notin active \cup revoked

=============================================================================
