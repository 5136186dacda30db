------------------------------- MODULE SignIn --------------------------------
(***************************************************************************)
(* Signing in: the callback of the web server (pages/auth/callback) takes   *)
(* an identity and its verified email from the provider, has the API upsert *)
(* the account (accounts/users.rs) and then create a session                *)
(* (accounts/sessions.rs).  The upsert is one READ COMMITTED transaction of *)
(* up to four statements: a statement sees what is committed when it runs,  *)
(* and waits for a transaction that has written the row, the email or the   *)
(* identity it is about to write.                                           *)
(***************************************************************************)
EXTENDS Integers

CONSTANTS
    SignIns,         \* callbacks, from any tab; an account is named after the one that inserts it
    Identities,      \* (provider, provider_uid) pairs
    Emails,          \* normalized emails
    Nobody,          \* no account
    Overlapping,     \* two sign-ins of one identity can be under way at once
    MaxChanges       \* bound: changes of an email at a provider

ASSUME SignInConstants ==
    /\ Nobody \notin SignIns
    /\ Overlapping \in BOOLEAN
    /\ MaxChanges \in Nat

VARIABLES
    email,      \* what the provider of each identity reports
    users,      \* committed accounts -> email
    links,      \* identities.user_id, or Nobody
    flow,       \* where each sign-in is, and what it has read
    sessions,   \* stored sessions -> account, named after the sign-in that made them
    expired,    \* the sessions that are past expires_at
    changes

vars == <<email, users, links, flow, sessions, expired, changes>>

-----------------------------------------------------------------------------
Goto(s, where) == flow' = [flow EXCEPT ![s].at = where]

NotYet == [at |-> "idle"]

Ended == {"idle", "in", "taken", "failed"}

\* The identities whose sign-in is under way.
SigningIn == {flow[s].identity : s \in {t \in SignIns : flow[t].at \notin Ended}}

\* The transactions that have locked or written an account, and an identity.
HoldsAccount(t) == flow[t].at \in {"locked", "written", "linked"}

HoldsIdentity(t) == flow[t].at = "linked"

\* The emails whose index entries an uncommitted write makes others wait for: the one
\* its account has, and the one it is about to have.
Claims(t) ==
    {users[u] : u \in {flow[t].user} \cap DOMAIN users}
        \cup (IF flow[t].at = "locked" THEN {} ELSE {flow[t].email})

EmailIsFree(s, e) == \A t \in SignIns \ {s} : HoldsAccount(t) => e \notin Claims(t)

Owners(e) == {u \in DOMAIN users : users[u] = e}

Init ==
    /\ email \in [Identities -> Emails]
    /\ users = [u \in {} |-> Nobody]
    /\ links = [i \in Identities |-> Nobody]
    /\ flow = [s \in SignIns |-> NotYet]
    /\ sessions = [s \in {} |-> Nobody]
    /\ expired = {}
    /\ changes = 0

\* exchangeCode: the provider answers with the identity and its verified email.
Exchange(s, i) ==
    /\ flow[s].at = "idle"
    /\ Overlapping \/ i \notin SigningIn
    /\ flow' = [flow EXCEPT ![s] = [at |-> "exchanged", identity |-> i, email |-> email[i],
                                    linked |-> Nobody, user |-> Nobody]]
    /\ UNCHANGED <<email, users, links, sessions, expired, changes>>

\* Mutant: an account is looked up by its email alone.
FindByEmail(s) ==
    /\ flow[s].at = "exchanged"
    /\ Goto(s, "found")
    /\ UNCHANGED <<email, users, links, sessions, expired, changes>>

\* begin, and SELECT user_id FROM identities.
FindLinked(s) ==
    /\ flow[s].at = "exchanged"
    /\ flow' = [flow EXCEPT ![s].at = "found", ![s].linked = links[flow[s].identity]]
    /\ UNCHANGED <<email, users, links, sessions, expired, changes>>

\* A known identity: is its email another account's?
CheckEmail(s) ==
    /\ flow[s].at = "found" /\ flow[s].linked # Nobody
    /\ Goto(s, IF Owners(flow[s].email) \ {flow[s].linked} = {} THEN "free" ELSE "taken")
    /\ UNCHANGED <<email, users, links, sessions, expired, changes>>

\* UPDATE users locks the row ..
LockAccount(s) ==
    /\ flow[s].at = "free"
    /\ \A t \in SignIns \ {s} : HoldsAccount(t) => flow[t].user # flow[s].linked
    /\ flow' = [flow EXCEPT ![s].at = "locked", ![s].user = flow[s].linked]
    /\ UNCHANGED <<email, users, links, sessions, expired, changes>>

\* Mutant: no unique index, so that the check is all there is.
UpdateUnchecked(s) ==
    /\ flow[s].at = "locked"
    /\ Goto(s, "written")
    /\ UNCHANGED <<email, users, links, sessions, expired, changes>>

\* .. and writes the email, unless the unique index finds it with another account.
UpdateAccount(s) ==
    /\ flow[s].at = "locked"
    /\ EmailIsFree(s, flow[s].email)
    /\ Goto(s, IF Owners(flow[s].email) \ {flow[s].user} = {} THEN "written" ELSE "failed")
    /\ UNCHANGED <<email, users, links, sessions, expired, changes>>

\* An unknown identity: INSERT .. ON CONFLICT (lower(email)) joins the account that has
\* the email, or makes one.
InsertAccount(s) ==
    /\ flow[s].at = "found" /\ flow[s].linked = Nobody
    /\ EmailIsFree(s, flow[s].email)
    /\ \E u \in IF Owners(flow[s].email) = {} THEN {s} ELSE Owners(flow[s].email) :
          flow' = [flow EXCEPT ![s].at = "written", ![s].user = u]
    /\ UNCHANGED <<email, users, links, sessions, expired, changes>>

\* INSERT INTO identities .. ON CONFLICT DO UPDATE.
LinkIdentity(s) ==
    /\ flow[s].at = "written"
    /\ \A t \in SignIns \ {s} : HoldsIdentity(t) => flow[t].identity # flow[s].identity
    /\ Goto(s, "linked")
    /\ UNCHANGED <<email, users, links, sessions, expired, changes>>

\* Mutant: the identity is linked by a statement after the commit, which may not come.
CommitUnlinked(s) ==
    /\ flow[s].at = "linked"
    /\ users' = [u \in DOMAIN users \cup {flow[s].user} |->
                    IF u = flow[s].user THEN flow[s].email ELSE users[u]]
    /\ Goto(s, "signed") \/ Goto(s, "failed")
    /\ links' = IF flow'[s].at = "signed"
                THEN [links EXCEPT ![flow[s].identity] = flow[s].user] ELSE links
    /\ UNCHANGED <<email, sessions, expired, changes>>

\* commit, whose answer can be lost.
Commit(s) ==
    /\ flow[s].at = "linked"
    /\ users' = [u \in DOMAIN users \cup {flow[s].user} |->
                    IF u = flow[s].user THEN flow[s].email ELSE users[u]]
    /\ links' = [links EXCEPT ![flow[s].identity] = flow[s].user]
    /\ Goto(s, "signed") \/ Goto(s, "failed")
    /\ UNCHANGED <<email, sessions, expired, changes>>

\* A request or a statement fails, times out or loses a deadlock; an open transaction is
\* rolled back, and the callback goes to /login?error=1.
Fail(s) ==
    /\ flow[s].at \notin Ended
    /\ Goto(s, "failed")
    /\ UNCHANGED <<email, users, links, sessions, expired, changes>>

\* sessions::create first deletes every session that has expired ..
PurgeExpired(s) ==
    /\ flow[s].at = "signed"
    /\ sessions' = [t \in DOMAIN sessions \ expired |-> sessions[t]]
    /\ expired' = {}
    /\ Goto(s, "purged")
    /\ UNCHANGED <<email, users, links, changes>>

\* .. and then stores the new one; the answer can be lost.
InsertSession(s) ==
    /\ flow[s].at = "purged"
    /\ sessions' = [t \in DOMAIN sessions \cup {s} |->
                       IF t = s THEN flow[s].user ELSE sessions[t]]
    /\ Goto(s, "in") \/ Goto(s, "failed")
    /\ UNCHANGED <<email, users, links, expired, changes>>

EndSessions(ended) ==
    /\ ended # {}
    /\ sessions' = [t \in DOMAIN sessions \ ended |-> sessions[t]]
    /\ expired' = expired \ ended
    /\ UNCHANGED <<email, users, links, flow, changes>>

\* POST /auth/logout deletes the session of the cookie; delete_all_for every one of an account.
SignOut(s) == EndSessions({s} \cap DOMAIN sessions)

SignOutEverywhere(u) == EndSessions({s \in DOMAIN sessions : sessions[s] = u})

\* SESSION_TTL_DAYS go by.
Expire(s) ==
    /\ s \in DOMAIN sessions \ expired
    /\ expired' = expired \cup {s}
    /\ UNCHANGED <<email, users, links, flow, sessions, changes>>

\* Somebody changes their email at the provider.
ChangeEmail(i) ==
    /\ changes < MaxChanges
    /\ \E e \in Emails \ {email[i]} : email' = [email EXCEPT ![i] = e]
    /\ changes' = changes + 1
    /\ UNCHANGED <<users, links, flow, sessions, expired>>

Next ==
    \/ \E s \in SignIns :
          \/ \E i \in Identities : Exchange(s, i)
          \/ FindLinked(s) \/ CheckEmail(s) \/ LockAccount(s) \/ UpdateAccount(s)
          \/ InsertAccount(s) \/ LinkIdentity(s) \/ Commit(s) \/ Fail(s)
          \/ PurgeExpired(s) \/ InsertSession(s)
          \/ SignOut(s) \/ Expire(s) \/ SignOutEverywhere(s)
    \/ \E i \in Identities : ChangeEmail(i)

Spec == Init /\ [][Next]_vars

-----------------------------------------------------------------------------
(* Properties.                                                             *)

UnderWay ==
    [at : {"exchanged", "found", "free", "taken", "locked", "written", "linked",
           "signed", "purged", "in", "failed"},
     identity : Identities, email : Emails,
     linked : SignIns \cup {Nobody}, user : SignIns \cup {Nobody}]

TypeOK ==
    /\ email \in [Identities -> Emails]
    /\ DOMAIN users \subseteq SignIns /\ users \in [DOMAIN users -> Emails]
    /\ links \in [Identities -> DOMAIN users \cup {Nobody}]
    /\ flow \in [SignIns -> UnderWay \cup {NotYet}]
    /\ DOMAIN sessions \subseteq SignIns /\ sessions \in [DOMAIN sessions -> DOMAIN users]
    /\ expired \subseteq DOMAIN sessions
    /\ changes \in 0..MaxChanges

\* Two accounts never share an email, although the check for a taken email runs before
\* another sign-in commits it: the unique index and the wait for it decide, not the check.
OneAccountPerEmail == \A u, v \in DOMAIN users : users[u] = users[v] => u = v

\* An identity, once linked, stays with its account, so that a change of its email keeps
\* the account and its keys (docs/exceptions.md, "users::upsert trusts its caller about
\* email verification"): while its sign-ins follow each other, or its email stays the same.
IdentityKeepsItsAccount ==
    [][\A i \in Identities : links[i] # Nobody => links'[i] = links[i]]_vars

\* Nobody is locked out: every account, and with it its keys, can be reached by signing in
\* with some identity, though sign-ins of different identities overlap, fail half way and are
\* repeated.  Like the two around it, it is promised while the sign-ins of one identity follow
\* each other (~Overlapping), or emails do not change (MaxChanges = 0): two first sign-ins of an
\* identity that overlap, with a change of its email between them, leave an account with no
\* identity.
EveryAccountCanBeReached == \A u \in DOMAIN users : \E i \in Identities : links[i] = u

\* A session shows the account that its identity belongs to, also when the account has
\* changed since the upsert returned it to the callback (under the same condition).
SessionsShowTheirAccount ==
    \A s \in DOMAIN sessions : sessions[s] = links[flow[s].identity]

=============================================================================
