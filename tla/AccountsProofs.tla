--------------------------- MODULE AccountsProofs ---------------------------
(***************************************************************************)
(* Accounts and their keys, in the database: two specifications, each with *)
(* an inductive invariant of its own, proved one after the other.          *)
(***************************************************************************)
EXTENDS SignIn, AccountKeys, FiniteSetTheorems, TLAPS

-----------------------------------------------------------------------------
(***************************************************************************)
(* Accounts for any number of sign-ins.  An email has one account whatever *)
(* overlaps, because a write waits for every uncommitted claim to its      *)
(* email. An identity keeps its account when its sign-ins do not overlap,  *)
(* and also when they do but emails do not change: in both cases what the  *)
(* first SELECT of a transaction found still determines the account at its *)
(* commit.                                                                 *)
(***************************************************************************)

Active(s) == flow[s].at \notin Ended

Looked(s) == flow[s].at \in {"found", "free", "locked", "written", "linked"}

Writing(s) == flow[s].at \in {"written", "linked"}

\* What a sign-in holds belongs to where it is, and an account is named after a sign-in
\* that has committed.
FlowInv ==
    \A s \in SignIns :
        /\ Looked(s) => flow[s].linked \in DOMAIN users \cup {Nobody}
        /\ flow[s].at \in {"free", "locked"} => flow[s].linked # Nobody
        /\ HoldsAccount(s) => flow[s].user \in DOMAIN users \cup {s}
        /\ HoldsAccount(s) /\ flow[s].linked # Nobody => flow[s].user = flow[s].linked
        /\ flow[s].at \in {"signed", "purged"} => flow[s].user \in DOMAIN users
        /\ s \in DOMAIN users => flow[s].at \in {"signed", "purged", "in", "failed"}

\* Two transactions never write the same account or the same email.
WritersInv ==
    \A s, t \in SignIns :
        s # t =>
            /\ HoldsAccount(s) /\ HoldsAccount(t) => flow[s].user # flow[t].user
            /\ Writing(s) /\ Writing(t) => flow[s].email # flow[t].email

\* The email a transaction has written is no other account's, until it commits.
Reserved ==
    \A t \in SignIns :
        Writing(t) => \A u \in DOMAIN users : users[u] = flow[t].email => u = flow[t].user

EmailInv == TypeOK /\ FlowInv /\ WritersInv /\ Reserved /\ OneAccountPerEmail

\* The sign-ins under way are of different identities.
Alone ==
    \A s, t \in SignIns :
        s # t /\ Active(s) /\ Active(t) => flow[s].identity # flow[t].identity

\* What a transaction found of its identity is still so.
KnownStays ==
    \A s \in SignIns :
        Looked(s) /\ flow[s].linked # Nobody => links[flow[s].identity] = flow[s].linked

UnknownStays ==
    \A s \in SignIns :
        Looked(s) /\ flow[s].linked = Nobody => links[flow[s].identity] = Nobody

\* No email has changed: an identity, its account and its sign-ins agree on it.
EmailsAgree ==
    /\ \A s \in SignIns : flow[s].at # "idle" => flow[s].email = email[flow[s].identity]
    /\ \A i \in Identities : links[i] # Nobody => users[links[i]] = email[i]
    /\ \A s \in SignIns :
          HoldsAccount(s) /\ flow[s].user \in DOMAIN users => users[flow[s].user] = flow[s].email

\* From the commit on, a sign-in and its session are of the identity's account.
SessionInv ==
    /\ \A s \in SignIns : flow[s].at \in {"signed", "purged"} => links[flow[s].identity] = flow[s].user
    /\ \A s \in DOMAIN sessions : flow[s].at \in {"in", "failed"}

StayInv ==
    /\ ~Overlapping => Alone /\ UnknownStays
    /\ MaxChanges = 0 => EmailsAgree
    /\ KnownStays
    /\ EveryAccountCanBeReached
    /\ SessionInv
    /\ SessionsShowTheirAccount

(* How a step moves a sign-in.                                             *)

\* One sign-in takes a step, and the others stay as they are.
OnlyMoves(s) ==
    /\ flow' \in [SignIns -> UnderWay \cup {NotYet}]
    /\ \A t \in SignIns \ {s} : flow'[t] = flow[t]

SameIdentity(s) == flow'[s].identity = flow[s].identity /\ flow'[s].email = flow[s].email

SameAccount(s) == flow'[s].linked = flow[s].linked /\ flow'[s].user = flow[s].user

LEMMA LookedIsActive == ASSUME NEW s \in SignIns, Looked(s) PROVE Active(s)
  BY DEF Looked, Active, Ended

LEMMA UnderWayFields ==
    ASSUME TypeOK, NEW s \in SignIns, flow[s].at # "idle"
    PROVE  /\ flow[s] \in UnderWay
           /\ flow[s].email \in Emails /\ flow[s].identity \in Identities
           /\ flow[s].linked \in SignIns \cup {Nobody} /\ flow[s].user \in SignIns \cup {Nobody}
<1>1. flow[s] \in UnderWay
  BY DEF TypeOK, NotYet
<1> QED
  BY <1>1 DEF UnderWay

\* Goto changes where one sign-in is, and nothing else of any.
LEMMA GotoMoves ==
    ASSUME TypeOK, NEW s \in SignIns, flow[s].at # "idle",
           NEW where \in {"found", "free", "taken", "written", "linked", "signed", "purged",
                          "in", "failed"},
           Goto(s, where)
    PROVE  /\ OnlyMoves(s)
           /\ flow'[s].at = where
           /\ SameIdentity(s) /\ SameAccount(s)
<1>1. flow[s] \in UnderWay
  BY UnderWayFields
<1>2. [flow[s] EXCEPT !.at = where] \in UnderWay
  BY <1>1 DEF UnderWay
<1>3. flow' = [flow EXCEPT ![s] = [flow[s] EXCEPT !.at = where]]
  BY DEF Goto
<1>4. flow \in [SignIns -> UnderWay \cup {NotYet}]
  BY DEF TypeOK
<1>5. flow'[s] = [flow[s] EXCEPT !.at = where]
  BY <1>3, <1>4
<1>6. flow' \in [SignIns -> UnderWay \cup {NotYet}] /\ \A t \in SignIns \ {s} : flow'[t] = flow[t]
  BY <1>2, <1>3, <1>4
<1> QED
  BY <1>1, <1>5, <1>6 DEF UnderWay, OnlyMoves, SameIdentity, SameAccount

LEMMA FindLinkedMoves ==
    ASSUME TypeOK, NEW s \in SignIns, FindLinked(s)
    PROVE  /\ OnlyMoves(s)
           /\ flow'[s].at = "found" /\ flow'[s].linked = links[flow[s].identity]
           /\ SameIdentity(s)
<1> DEFINE f == [flow[s] EXCEPT !.at = "found", !.linked = links[flow[s].identity]]
<1>1. flow[s] \in UnderWay /\ links[flow[s].identity] \in SignIns \cup {Nobody}
  BY UnderWayFields DEF FindLinked, TypeOK
<1>2. /\ f \in UnderWay /\ f.at = "found" /\ f.linked = links[flow[s].identity]
      /\ f.identity = flow[s].identity /\ f.email = flow[s].email
  BY <1>1 DEF UnderWay
<1>3. flow' = [flow EXCEPT ![s] = f]
  BY DEF FindLinked
<1> HIDE DEF f
<1> QED
  BY <1>2, <1>3 DEF TypeOK, OnlyMoves, SameIdentity, SameAccount

LEMMA LockMoves ==
    ASSUME TypeOK, NEW s \in SignIns, NEW u \in SignIns \cup {Nobody}, NEW where \in {"locked", "written"},
           flow[s].at # "idle",
           flow' = [flow EXCEPT ![s].at = where, ![s].user = u]
    PROVE  /\ OnlyMoves(s)
           /\ flow'[s].at = where /\ flow'[s].user = u
           /\ SameIdentity(s)
           /\ flow'[s].linked = flow[s].linked
<1> DEFINE f == [flow[s] EXCEPT !.at = where, !.user = u]
<1>1. flow[s] \in UnderWay
  BY UnderWayFields
<1>2. /\ f \in UnderWay /\ f.at = where /\ f.user = u
      /\ f.identity = flow[s].identity /\ f.email = flow[s].email /\ f.linked = flow[s].linked
  BY <1>1 DEF UnderWay
<1>3. flow' = [flow EXCEPT ![s] = f]
  OBVIOUS
<1> HIDE DEF f
<1> QED
  BY <1>2, <1>3, ZenonT(40) DEF TypeOK, OnlyMoves, SameIdentity, SameAccount

LEMMA ExchangeMoves ==
    ASSUME TypeOK, SignInConstants, NEW s \in SignIns, NEW i \in Identities, Exchange(s, i)
    PROVE  /\ OnlyMoves(s)
           /\ flow'[s].at = "exchanged" /\ flow'[s].linked = Nobody /\ flow'[s].user = Nobody
           /\ flow'[s].identity = i /\ flow'[s].email = email[i]
<1> DEFINE f == [at |-> "exchanged", identity |-> i, email |-> email[i],
                 linked |-> Nobody, user |-> Nobody]
<1>2. /\ f \in UnderWay /\ f.at = "exchanged" /\ f.linked = Nobody /\ f.user = Nobody
      /\ f.identity = i /\ f.email = email[i]
  BY DEF UnderWay, TypeOK
<1>3. flow' = [flow EXCEPT ![s] = f]
  BY DEF Exchange
<1> HIDE DEF f
<1> QED
  BY <1>2, <1>3 DEF TypeOK, OnlyMoves, SameIdentity, SameAccount

(* Emails: one lemma per action.                                           *)

LEMMA ExchangeStep ==
    ASSUME SignInConstants, EmailInv, NEW s \in SignIns, NEW i \in Identities, Exchange(s, i)
    PROVE  EmailInv'
<1> USE DEF EmailInv, OnlyMoves, SameIdentity, SameAccount
<1>1. /\ OnlyMoves(s)
      /\ flow'[s].at = "exchanged"
  BY ExchangeMoves
<1>2. TypeOK'
  BY <1>1 DEF Exchange, TypeOK
<1>3. FlowInv'
  BY <1>1, SignInConstants DEF Exchange, TypeOK, FlowInv, Looked, HoldsAccount, SignInConstants
<1>4. WritersInv' /\ Reserved' /\ OneAccountPerEmail'
  BY <1>1 DEF Exchange, FlowInv, WritersInv, Reserved, OneAccountPerEmail, HoldsAccount, Writing
<1> QED
  BY <1>2, <1>3, <1>4

LEMMA FindLinkedStep ==
    ASSUME SignInConstants, EmailInv, NEW s \in SignIns, FindLinked(s)
    PROVE  EmailInv'
<1> USE DEF EmailInv, OnlyMoves, SameIdentity, SameAccount
<1>1. /\ OnlyMoves(s)
      /\ flow'[s].at = "found"
      /\ flow'[s].linked = links[flow[s].identity] /\ flow[s].identity \in Identities
      /\ SameIdentity(s)
  BY FindLinkedMoves, UnderWayFields DEF FindLinked
<1>2. TypeOK'
  BY <1>1 DEF FindLinked, TypeOK
<1>3. FlowInv'
  BY <1>1, SignInConstants DEF FindLinked, TypeOK, FlowInv, Looked, HoldsAccount, SignInConstants
<1>4. WritersInv' /\ Reserved' /\ OneAccountPerEmail'
  BY <1>1 DEF FindLinked, FlowInv, WritersInv, Reserved, OneAccountPerEmail, HoldsAccount, Writing
<1> QED
  BY <1>2, <1>3, <1>4

LEMMA CheckEmailStep ==
    ASSUME SignInConstants, EmailInv, NEW s \in SignIns, CheckEmail(s)
    PROVE  EmailInv'
<1> USE DEF EmailInv, OnlyMoves, SameIdentity, SameAccount
<1>1. /\ OnlyMoves(s)
      /\ flow'[s].at \in {"free", "taken"}
      /\ SameIdentity(s) /\ SameAccount(s)
  BY GotoMoves DEF CheckEmail
<1>2. TypeOK'
  BY <1>1 DEF CheckEmail, TypeOK
<1>3. FlowInv'
  BY <1>1, SignInConstants DEF CheckEmail, TypeOK, FlowInv, Looked, HoldsAccount, SignInConstants
<1>4. WritersInv' /\ Reserved' /\ OneAccountPerEmail'
  BY <1>1 DEF CheckEmail, FlowInv, WritersInv, Reserved, OneAccountPerEmail, HoldsAccount, Writing
<1> QED
  BY <1>2, <1>3, <1>4

LEMMA LockAccountStep ==
    ASSUME SignInConstants, EmailInv, NEW s \in SignIns, LockAccount(s)
    PROVE  EmailInv'
<1> USE DEF EmailInv, OnlyMoves, SameIdentity, SameAccount
<1>1. /\ OnlyMoves(s)
      /\ flow'[s].at = "locked"
      /\ SameIdentity(s)
      /\ flow'[s].linked = flow[s].linked /\ flow'[s].user = flow[s].linked
  BY LockMoves, UnderWayFields DEF LockAccount
<1>2. TypeOK'
  BY <1>1 DEF LockAccount, TypeOK
<1>3. FlowInv'
  BY <1>1, SignInConstants DEF LockAccount, TypeOK, FlowInv, Looked, HoldsAccount, SignInConstants
<1>4. WritersInv' /\ Reserved' /\ OneAccountPerEmail'
  BY <1>1 DEF LockAccount, FlowInv, WritersInv, Reserved, OneAccountPerEmail, HoldsAccount, Writing
<1> QED
  BY <1>2, <1>3, <1>4

LEMMA UpdateAccountStep ==
    ASSUME SignInConstants, EmailInv, NEW s \in SignIns, UpdateAccount(s)
    PROVE  EmailInv'
<1> USE DEF EmailInv, OnlyMoves, SameIdentity, SameAccount
<1>1. /\ OnlyMoves(s)
      /\ flow'[s].at \in {"written", "failed"}
      /\ SameIdentity(s) /\ SameAccount(s)
  BY GotoMoves DEF UpdateAccount
<1>2. TypeOK'
  BY <1>1 DEF UpdateAccount, TypeOK
<1>3. FlowInv'
  BY <1>1 DEF UpdateAccount, TypeOK, FlowInv, Looked, HoldsAccount
<1>4. OneAccountPerEmail'
  BY DEF UpdateAccount, OneAccountPerEmail
<1>5. \A t \in SignIns \ {s} : Writing(t) => flow[t].email # flow[s].email
  BY DEF UpdateAccount, EmailIsFree, Claims, Writing, HoldsAccount
<1>6. WritersInv'
  BY <1>1, <1>5 DEF UpdateAccount, WritersInv, HoldsAccount, Writing
<1>7. flow'[s].at = "written" => \A u \in DOMAIN users : users[u] = flow[s].email => u = flow[s].user
  BY <1>1 DEF UpdateAccount, Owners, Goto, TypeOK
<1>8. Reserved'
  BY <1>1, <1>7 DEF UpdateAccount, Reserved, Writing
<1> QED
  BY <1>2, <1>3, <1>4, <1>6, <1>8

LEMMA InsertAccountStep ==
    ASSUME SignInConstants, EmailInv, NEW s \in SignIns, InsertAccount(s)
    PROVE  EmailInv'
<1> USE DEF EmailInv, OnlyMoves, SameIdentity, SameAccount
<1>0. flow[s].at = "found" /\ flow[s].linked = Nobody /\ EmailIsFree(s, flow[s].email)
  BY DEF InsertAccount
<1>1. PICK u \in IF Owners(flow[s].email) = {} THEN {s} ELSE Owners(flow[s].email) :
         flow' = [flow EXCEPT ![s].at = "written", ![s].user = u]
  BY DEF InsertAccount
<1>2. u \in SignIns
  BY <1>1 DEF Owners, TypeOK
<1>3. /\ OnlyMoves(s)
      /\ flow'[s].at = "written" /\ flow'[s].user = u
      /\ SameIdentity(s)
      /\ flow'[s].linked = flow[s].linked
  BY <1>0, <1>1, <1>2, LockMoves
<1>4. TypeOK' /\ OneAccountPerEmail'
  BY <1>3 DEF InsertAccount, TypeOK, OneAccountPerEmail
<1>5. u \in DOMAIN users \cup {s} /\ s \notin DOMAIN users
  BY <1>0, <1>1 DEF Owners, FlowInv
<1>6. FlowInv'
  BY <1>0, <1>3, <1>5 DEF InsertAccount, FlowInv, Looked, HoldsAccount
<1>7. \A t \in SignIns \ {s} : HoldsAccount(t) => flow[t].user # u
  <2> SUFFICES ASSUME NEW t \in SignIns \ {s}, HoldsAccount(t), flow[t].user = u
               PROVE  FALSE
    OBVIOUS
  <2>1. u \in DOMAIN users
    BY <1>5 DEF FlowInv
  <2>2. users[u] = flow[s].email
    BY <1>1, <1>5, <2>1 DEF Owners
  <2> QED
    BY <1>0, <2>1, <2>2 DEF EmailIsFree, Claims
<1>8. \A t \in SignIns \ {s} : Writing(t) => flow[t].email # flow[s].email
  BY <1>0 DEF EmailIsFree, Claims, Writing, HoldsAccount
<1>9. WritersInv'
  BY <1>3, <1>7, <1>8 DEF WritersInv, HoldsAccount, Writing
<1>10. \A v \in DOMAIN users : users[v] = flow[s].email => v = u
  BY <1>1 DEF Owners, OneAccountPerEmail
<1>11. Reserved'
  BY <1>3, <1>10 DEF InsertAccount, Reserved, Writing
<1> QED
  BY <1>4, <1>6, <1>9, <1>11

LEMMA SignInCommits ==
    ASSUME SignInConstants, EmailInv, NEW s \in SignIns, Commit(s)
    PROVE  EmailInv'
<1> USE DEF EmailInv, OnlyMoves, SameIdentity, SameAccount
<1>1. /\ OnlyMoves(s)
      /\ flow'[s].at \in {"signed", "failed"}
      /\ SameIdentity(s) /\ SameAccount(s)
  BY GotoMoves DEF Commit
<1>2. flow[s].email \in Emails /\ flow[s].identity \in Identities /\ flow[s].at = "linked"
  BY UnderWayFields DEF Commit
<1>3. flow[s].user \in DOMAIN users \cup {s} /\ HoldsAccount(s) /\ Writing(s)
  BY <1>2 DEF FlowInv, HoldsAccount, Writing
<1>4. /\ DOMAIN users' = DOMAIN users \cup {flow[s].user}
      /\ users'[flow[s].user] = flow[s].email
      /\ \A u \in DOMAIN users \ {flow[s].user} : users'[u] = users[u]
  BY DEF Commit
<1>5. users' \in [DOMAIN users' -> Emails] /\ DOMAIN users' \subseteq SignIns
  BY <1>2, <1>3 DEF Commit, TypeOK
<1>6. links' \in [Identities -> DOMAIN users' \cup {Nobody}]
  BY <1>2, <1>4 DEF Commit, TypeOK
<1>7. sessions' \in [DOMAIN sessions' -> DOMAIN users'] /\ DOMAIN sessions' \subseteq SignIns
  BY <1>4 DEF Commit, TypeOK
<1>8. TypeOK'
  BY <1>1, <1>5, <1>6, <1>7 DEF Commit, TypeOK
<1>9. FlowInv'
  BY <1>1, <1>2, <1>3, <1>4 DEF FlowInv, Looked, HoldsAccount
<1>10. OneAccountPerEmail'
  BY <1>3, <1>4 DEF OneAccountPerEmail, Reserved
<1>11. WritersInv'
  BY <1>1 DEF WritersInv, HoldsAccount, Writing
<1>12. Reserved'
  BY <1>1, <1>3, <1>4 DEF Reserved, WritersInv, Writing
<1> QED
  BY <1>8, <1>9, <1>10, <1>11, <1>12

LEMMA LinkIdentityStep ==
    ASSUME SignInConstants, EmailInv, NEW s \in SignIns, LinkIdentity(s)
    PROVE  EmailInv'
<1> USE DEF EmailInv, OnlyMoves, SameIdentity, SameAccount
<1>1. /\ OnlyMoves(s)
      /\ flow'[s].at = "linked"
      /\ SameIdentity(s) /\ SameAccount(s)
  BY GotoMoves DEF LinkIdentity
<1>2. TypeOK'
  BY <1>1 DEF LinkIdentity, TypeOK
<1>3. FlowInv'
  BY <1>1, SignInConstants DEF LinkIdentity, TypeOK, FlowInv, Looked, HoldsAccount, SignInConstants
<1>4. WritersInv' /\ Reserved' /\ OneAccountPerEmail'
  BY <1>1 DEF LinkIdentity, FlowInv, WritersInv, Reserved, OneAccountPerEmail, HoldsAccount, Writing
<1> QED
  BY <1>2, <1>3, <1>4

LEMMA FailStep ==
    ASSUME SignInConstants, EmailInv, NEW s \in SignIns, Fail(s)
    PROVE  EmailInv'
<1> USE DEF EmailInv, OnlyMoves, SameIdentity, SameAccount
<1>1. /\ OnlyMoves(s)
      /\ flow'[s].at = "failed"
      /\ SameIdentity(s) /\ SameAccount(s)
  BY GotoMoves DEF Fail, Ended
<1>2. TypeOK'
  BY <1>1 DEF Fail, TypeOK
<1>3. FlowInv'
  BY <1>1, SignInConstants DEF Fail, TypeOK, FlowInv, Looked, HoldsAccount, SignInConstants
<1>4. WritersInv' /\ Reserved' /\ OneAccountPerEmail'
  BY <1>1 DEF Fail, FlowInv, WritersInv, Reserved, OneAccountPerEmail, HoldsAccount, Writing
<1> QED
  BY <1>2, <1>3, <1>4

LEMMA PurgeExpiredStep ==
    ASSUME SignInConstants, EmailInv, NEW s \in SignIns, PurgeExpired(s)
    PROVE  EmailInv'
<1> USE DEF EmailInv, OnlyMoves, SameIdentity, SameAccount
<1>1. /\ OnlyMoves(s)
      /\ flow'[s].at = "purged"
      /\ SameIdentity(s) /\ SameAccount(s)
  BY GotoMoves DEF PurgeExpired
<1>2. TypeOK'
  BY <1>1 DEF PurgeExpired, TypeOK
<1>3. FlowInv'
  BY <1>1, SignInConstants DEF PurgeExpired, TypeOK, FlowInv, Looked, HoldsAccount, SignInConstants
<1>4. WritersInv' /\ Reserved' /\ OneAccountPerEmail'
  BY <1>1 DEF PurgeExpired, FlowInv, WritersInv, Reserved, OneAccountPerEmail, HoldsAccount, Writing
<1> QED
  BY <1>2, <1>3, <1>4

LEMMA InsertSessionStep ==
    ASSUME SignInConstants, EmailInv, NEW s \in SignIns, InsertSession(s)
    PROVE  EmailInv'
<1> USE DEF EmailInv, OnlyMoves, SameIdentity, SameAccount
<1>1. /\ OnlyMoves(s)
      /\ flow'[s].at \in {"in", "failed"}
      /\ SameIdentity(s) /\ SameAccount(s)
  BY GotoMoves DEF InsertSession
<1>2. flow[s].user \in DOMAIN users
  BY DEF InsertSession, FlowInv
<1>3. TypeOK'
  BY <1>1, <1>2 DEF InsertSession, TypeOK
<1>4. FlowInv'
  BY <1>1 DEF InsertSession, FlowInv, Looked, HoldsAccount
<1>5. WritersInv' /\ Reserved' /\ OneAccountPerEmail'
  BY <1>1 DEF InsertSession, WritersInv, Reserved, OneAccountPerEmail, HoldsAccount, Writing
<1> QED
  BY <1>3, <1>4, <1>5

\* Sessions end and expire, and emails change at a provider, without a statement of a
\* sign-in.
LEMMA OthersStep ==
    ASSUME SignInConstants, EmailInv,
           \/ \E s \in SignIns : SignOut(s) \/ SignOutEverywhere(s) \/ Expire(s)
           \/ \E i \in Identities : ChangeEmail(i)
    PROVE  EmailInv'
<1> USE DEF EmailInv, OnlyMoves, SameIdentity, SameAccount
<1>1. UNCHANGED <<users, links, flow>>
  BY DEF SignOut, SignOutEverywhere, EndSessions, Expire, ChangeEmail
<1>2. TypeOK'
  <2>1. ASSUME NEW ended, EndSessions(ended) PROVE TypeOK'
    BY <2>1 DEF EndSessions, TypeOK
  <2>2. ASSUME NEW s \in SignIns, Expire(s) PROVE TypeOK'
    BY <2>2 DEF Expire, TypeOK
  <2>3. ASSUME NEW i \in Identities, ChangeEmail(i) PROVE TypeOK'
    BY <2>3, SignInConstants DEF ChangeEmail, TypeOK, SignInConstants
  <2> QED
    BY <2>1, <2>2, <2>3 DEF SignOut, SignOutEverywhere
<1>3. FlowInv' /\ WritersInv'
  BY <1>1 DEF FlowInv, WritersInv, Looked, HoldsAccount, Writing
<1>4. Reserved' /\ OneAccountPerEmail'
  BY <1>1 DEF Reserved, OneAccountPerEmail, Writing
<1> QED
  BY <1>2, <1>3, <1>4

LEMMA EmailInvInit == ASSUME SignInConstants, Init PROVE EmailInv
<1>1. TypeOK
  BY SignInConstants DEF Init, TypeOK, SignInConstants
<1>2. \A s \in SignIns : flow[s].at = "idle"
  BY DEF Init, NotYet
<1>3. DOMAIN users = {}
  BY DEF Init
<1> QED
  BY <1>1, <1>2, <1>3 DEF EmailInv, FlowInv, WritersInv, Reserved, OneAccountPerEmail, Looked,
                          HoldsAccount, Writing

LEMMA EmailInvStep == SignInConstants /\ EmailInv /\ [Next]_vars => EmailInv'
<1> SUFFICES ASSUME SignInConstants, EmailInv, [Next]_vars PROVE EmailInv'
  OBVIOUS
<1>1. CASE UNCHANGED vars
  BY <1>1 DEF vars, EmailInv, TypeOK, FlowInv, WritersInv, Reserved, OneAccountPerEmail, Looked,
              HoldsAccount, Writing
<1> QED
  BY <1>1, ExchangeStep, FindLinkedStep, CheckEmailStep, LockAccountStep, UpdateAccountStep,
     InsertAccountStep, LinkIdentityStep, SignInCommits, FailStep, PurgeExpiredStep,
     InsertSessionStep, OthersStep DEF Next

LEMMA EmailInvHolds == Spec => []EmailInv
<1>1. Init => EmailInv
  BY EmailInvInit, SignInConstants
<1>2. EmailInv /\ [Next]_vars => EmailInv'
  BY EmailInvStep, SignInConstants
<1> QED
  BY <1>1, <1>2, PTL DEF Spec

(* Accounts of identities: one lemma per action or group of alike actions. *)

\* Sign-ins of one identity do not overlap, or emails do not change.
Steady == ~Overlapping \/ MaxChanges = 0

\* The account a transaction commits is the one its identity has, if it has one.
LEMMA CommitsTheSameAccount ==
    ASSUME SignInConstants, Steady, EmailInv, StayInv, NEW s \in SignIns, flow[s].at = "linked",
           links[flow[s].identity] # Nobody
    PROVE  flow[s].user = links[flow[s].identity]
<1>1. Looked(s) /\ HoldsAccount(s) /\ Writing(s) /\ flow[s].identity \in Identities
  BY UnderWayFields DEF EmailInv, Looked, HoldsAccount, Writing
<1>2. CASE flow[s].linked # Nobody
  BY <1>1, <1>2 DEF EmailInv, FlowInv, StayInv, KnownStays
<1>3. CASE flow[s].linked = Nobody /\ ~Overlapping
  BY <1>1, <1>3 DEF StayInv, UnknownStays
<1>4. CASE MaxChanges = 0
  <2>1. links[flow[s].identity] \in DOMAIN users
    BY <1>1 DEF EmailInv, TypeOK
  <2>2. users[links[flow[s].identity]] = flow[s].email
    BY <1>1, <1>4 DEF StayInv, EmailsAgree
  <2> QED
    BY <1>1, <2>1, <2>2 DEF EmailInv, Reserved
<1> QED
  BY <1>2, <1>3, <1>4 DEF Steady

LEMMA ExchangeStays ==
    ASSUME SignInConstants, EmailInv, StayInv, NEW s \in SignIns, NEW i \in Identities, Exchange(s, i)
    PROVE  StayInv'
<1> USE DEF EmailInv, StayInv, OnlyMoves
<1>1. /\ OnlyMoves(s) /\ flow'[s].at = "exchanged"
      /\ flow'[s].identity = i /\ flow'[s].email = email[i]
      /\ UNCHANGED <<email, users, links, sessions>> /\ flow[s].at = "idle"
  BY ExchangeMoves DEF Exchange
<1>2. s \notin DOMAIN sessions
  BY <1>1 DEF SessionInv
<1>3. ~Overlapping => Alone'
  BY <1>1 DEF Exchange, Alone, Active, SigningIn
<1>4. (~Overlapping => UnknownStays') /\ KnownStays'
  BY <1>1 DEF UnknownStays, KnownStays, Looked
<1>5. MaxChanges = 0 => EmailsAgree'
  BY <1>1 DEF EmailsAgree, HoldsAccount
<1>6. EveryAccountCanBeReached'
  BY <1>1 DEF EveryAccountCanBeReached
<1>7. SessionInv' /\ SessionsShowTheirAccount'
  BY <1>1, <1>2 DEF SessionInv, SessionsShowTheirAccount, TypeOK
<1> QED
  BY <1>3, <1>4, <1>5, <1>6, <1>7

LEMMA FindLinkedStays ==
    ASSUME SignInConstants, EmailInv, StayInv, NEW s \in SignIns, FindLinked(s)
    PROVE  StayInv'
<1> USE DEF EmailInv, StayInv, OnlyMoves, SameIdentity
<1>1. /\ OnlyMoves(s) /\ SameIdentity(s) /\ flow'[s].at = "found"
      /\ flow'[s].linked = links[flow[s].identity]
      /\ UNCHANGED <<email, users, links, sessions>> /\ flow[s].at = "exchanged"
  BY FindLinkedMoves DEF FindLinked
<1>2. s \notin DOMAIN sessions
  BY <1>1 DEF SessionInv
<1>3. ~Overlapping => Alone'
  BY <1>1 DEF Alone, Active, Ended
<1>4. (~Overlapping => UnknownStays') /\ KnownStays'
  BY <1>1 DEF UnknownStays, KnownStays, Looked
<1>5. MaxChanges = 0 => EmailsAgree'
  BY <1>1 DEF EmailsAgree, HoldsAccount
<1>6. EveryAccountCanBeReached'
  BY <1>1 DEF EveryAccountCanBeReached
<1>7. SessionInv' /\ SessionsShowTheirAccount'
  BY <1>1, <1>2 DEF SessionInv, SessionsShowTheirAccount, TypeOK
<1> QED
  BY <1>3, <1>4, <1>5, <1>6, <1>7

\* These find or choose no account, and commit nothing.
LEMMA QuietStays ==
    ASSUME SignInConstants, EmailInv, StayInv, NEW s \in SignIns,
           CheckEmail(s) \/ UpdateAccount(s) \/ LinkIdentity(s) \/ Fail(s)
    PROVE  StayInv'
<1> USE DEF EmailInv, StayInv, OnlyMoves, SameIdentity, SameAccount
<1>1. /\ OnlyMoves(s) /\ SameIdentity(s) /\ SameAccount(s)
      /\ flow'[s].at \in {"free", "taken", "written", "linked", "failed"}
      /\ Looked(s)' => Looked(s)
      /\ HoldsAccount(s)' => HoldsAccount(s)
      /\ UNCHANGED <<email, users, links, sessions>> /\ flow[s].at \notin Ended
  <2>1. CASE CheckEmail(s)
    BY <2>1, GotoMoves DEF CheckEmail, Looked, HoldsAccount, Ended
  <2>2. CASE UpdateAccount(s)
    BY <2>2, GotoMoves DEF UpdateAccount, Looked, HoldsAccount, Ended
  <2>3. CASE LinkIdentity(s)
    BY <2>3, GotoMoves DEF LinkIdentity, Looked, HoldsAccount, Ended
  <2>4. CASE Fail(s)
    BY <2>4, GotoMoves DEF Fail, Looked, HoldsAccount, Ended
  <2> QED
    BY <2>1, <2>2, <2>3, <2>4
<1>2. s \notin DOMAIN sessions
  BY <1>1 DEF SessionInv, Ended
<1>3. ~Overlapping => Alone'
  BY <1>1 DEF Alone, Active, Ended
<1>4. (~Overlapping => UnknownStays') /\ KnownStays'
  BY <1>1 DEF UnknownStays, KnownStays, Looked
<1>5. MaxChanges = 0 => EmailsAgree'
  BY <1>1 DEF EmailsAgree, HoldsAccount, Ended
<1>6. EveryAccountCanBeReached'
  BY <1>1 DEF EveryAccountCanBeReached
<1>7. SessionInv' /\ SessionsShowTheirAccount'
  BY <1>1, <1>2 DEF SessionInv, SessionsShowTheirAccount, TypeOK
<1> QED
  BY <1>3, <1>4, <1>5, <1>6, <1>7

LEMMA LockAccountStays ==
    ASSUME SignInConstants, EmailInv, StayInv, NEW s \in SignIns, LockAccount(s)
    PROVE  StayInv'
<1> USE DEF EmailInv, StayInv, OnlyMoves, SameIdentity
<1>1. /\ OnlyMoves(s) /\ SameIdentity(s) /\ flow'[s].at = "locked"
      /\ flow'[s].linked = flow[s].linked /\ flow'[s].user = flow[s].linked
      /\ UNCHANGED <<email, users, links, sessions>> /\ flow[s].at = "free"
  BY LockMoves, UnderWayFields DEF LockAccount
<1>2. s \notin DOMAIN sessions
  BY <1>1 DEF SessionInv
<1>3. ~Overlapping => Alone'
  BY <1>1 DEF Alone, Active, Ended
<1>4. (~Overlapping => UnknownStays') /\ KnownStays'
  BY <1>1 DEF UnknownStays, KnownStays, Looked
<1>5. MaxChanges = 0 => EmailsAgree'
  <2>1. flow[s].linked # Nobody /\ Looked(s) /\ flow[s].identity \in Identities
    BY <1>1, UnderWayFields DEF FlowInv, Looked
  <2>2. flow[s].linked = links[flow[s].identity]
    BY <2>1 DEF KnownStays
  <2>3. MaxChanges = 0 => users[flow'[s].user] = flow'[s].email
    BY <1>1, <2>1, <2>2 DEF EmailsAgree
  <2> QED
    BY <1>1, <2>3 DEF EmailsAgree, HoldsAccount
<1>6. EveryAccountCanBeReached'
  BY <1>1 DEF EveryAccountCanBeReached
<1>7. SessionInv' /\ SessionsShowTheirAccount'
  BY <1>1, <1>2 DEF SessionInv, SessionsShowTheirAccount, TypeOK
<1> QED
  BY <1>3, <1>4, <1>5, <1>6, <1>7

LEMMA InsertAccountStays ==
    ASSUME SignInConstants, EmailInv, StayInv, NEW s \in SignIns, InsertAccount(s)
    PROVE  StayInv'
<1> USE DEF EmailInv, StayInv, OnlyMoves, SameIdentity
<1>0. PICK u \in IF Owners(flow[s].email) = {} THEN {s} ELSE Owners(flow[s].email) :
         flow' = [flow EXCEPT ![s].at = "written", ![s].user = u]
  BY DEF InsertAccount
<1>1. /\ OnlyMoves(s) /\ SameIdentity(s) /\ flow'[s].at = "written"
      /\ flow'[s].linked = flow[s].linked /\ flow'[s].user = u
      /\ UNCHANGED <<email, users, links, sessions>> /\ flow[s].at = "found"
  <2>1. u \in SignIns
    BY <1>0 DEF Owners, TypeOK
  <2> QED
    BY <1>0, <2>1, LockMoves DEF InsertAccount
<1>2. s \notin DOMAIN sessions
  BY <1>1 DEF SessionInv
<1>3. ~Overlapping => Alone'
  BY <1>1 DEF Alone, Active, Ended
<1>4. (~Overlapping => UnknownStays') /\ KnownStays'
  BY <1>1 DEF UnknownStays, KnownStays, Looked
<1>5. MaxChanges = 0 => EmailsAgree'
  <2>1. u \in DOMAIN users => users[u] = flow'[s].email
    BY <1>0, <1>1 DEF Owners, FlowInv
  <2> QED
    BY <1>1, <2>1 DEF EmailsAgree, HoldsAccount
<1>6. EveryAccountCanBeReached'
  BY <1>1 DEF EveryAccountCanBeReached
<1>7. SessionInv' /\ SessionsShowTheirAccount'
  BY <1>1, <1>2 DEF SessionInv, SessionsShowTheirAccount, TypeOK
<1> QED
  BY <1>3, <1>4, <1>5, <1>6, <1>7

LEMMA CommitStays ==
    ASSUME SignInConstants, Steady, EmailInv, StayInv, NEW s \in SignIns, Commit(s)
    PROVE  /\ StayInv'
           /\ \A i \in Identities : links[i] # Nobody => links'[i] = links[i]
<1> USE DEF EmailInv, StayInv, OnlyMoves, SameIdentity, SameAccount
<1>1. /\ OnlyMoves(s) /\ SameIdentity(s) /\ SameAccount(s)
      /\ flow'[s].at \in {"signed", "failed"}
      /\ UNCHANGED <<email, sessions>> /\ flow[s].at = "linked"
  BY GotoMoves DEF Commit
<1>2. /\ flow[s].identity \in Identities /\ Looked(s) /\ HoldsAccount(s) /\ Writing(s)
      /\ flow[s].user \in DOMAIN users \cup {s}
  BY <1>1, UnderWayFields DEF Looked, HoldsAccount, Writing, FlowInv
<1>3. /\ DOMAIN users' = DOMAIN users \cup {flow[s].user}
      /\ users'[flow[s].user] = flow[s].email
      /\ \A u \in DOMAIN users \ {flow[s].user} : users'[u] = users[u]
  BY DEF Commit
<1>4. /\ links'[flow[s].identity] = flow[s].user
      /\ \A i \in Identities \ {flow[s].identity} : links'[i] = links[i]
  BY <1>2 DEF Commit, TypeOK
<1>5. \A i \in Identities : links[i] # Nobody => links'[i] = links[i]
  BY <1>1, <1>4, CommitsTheSameAccount
<1>6. s \notin DOMAIN sessions /\ flow[s].user # Nobody
  BY <1>1, <1>2, SignInConstants DEF SessionInv, SignInConstants, TypeOK
<1>7. ~Overlapping => Alone'
  BY <1>1 DEF Alone, Active, Ended
<1>8. KnownStays'
  <2> SUFFICES ASSUME NEW t \in SignIns, Looked(t)', flow'[t].linked # Nobody
               PROVE  links'[flow'[t].identity] = flow'[t].linked
    BY DEF KnownStays
  <2>1. t # s /\ flow'[t] = flow[t] /\ Looked(t) /\ flow[t].identity \in Identities
    BY <1>1, UnderWayFields DEF Looked
  <2> QED
    BY <1>5, <2>1 DEF KnownStays
<1>9. ~Overlapping => UnknownStays'
  <2> SUFFICES ASSUME ~Overlapping, NEW t \in SignIns, Looked(t)', flow'[t].linked = Nobody
               PROVE  links'[flow'[t].identity] = Nobody
    BY DEF UnknownStays
  <2>1. t # s /\ flow'[t] = flow[t] /\ Looked(t) /\ flow[t].identity \in Identities
    BY <1>1, UnderWayFields DEF Looked
  <2>2. flow[t].identity # flow[s].identity
    <3>1. Active(s)
      BY <1>1 DEF Active, Ended
    <3>3. Active(t)
      BY <2>1, LookedIsActive
    <3>2. Alone
      BY DEF StayInv
    <3> QED
      BY <2>1, <3>1, <3>2, <3>3 DEF Alone
  <2> QED
    BY <1>4, <2>1, <2>2 DEF UnknownStays
<1>10. MaxChanges = 0 => EmailsAgree'
  <2> SUFFICES ASSUME MaxChanges = 0 PROVE EmailsAgree'
    OBVIOUS
  <2>1. flow[s].email = email[flow[s].identity]
    BY <1>1 DEF EmailsAgree
  <2>2. flow[s].user \in DOMAIN users => users[flow[s].user] = flow[s].email
    BY <1>2 DEF EmailsAgree
  <2>3. \A t \in SignIns : flow'[t].at # "idle" => flow'[t].email = email'[flow'[t].identity]
    BY <1>1 DEF EmailsAgree
  <2>4. ASSUME NEW i \in Identities, links'[i] # Nobody PROVE users'[links'[i]] = email'[i]
    <3>1. CASE i = flow[s].identity
      BY <1>1, <1>3, <1>4, <2>1, <3>1
    <3>2. CASE i # flow[s].identity
      <4>1. links'[i] = links[i] /\ links[i] \in DOMAIN users /\ users[links[i]] = email[i]
        BY <1>4, <2>4, <3>2 DEF EmailsAgree, TypeOK
      <4> QED
        BY <1>1, <1>3, <2>2, <4>1
    <3> QED
      BY <3>1, <3>2
  <2>5. ASSUME NEW t \in SignIns, HoldsAccount(t)', flow'[t].user \in DOMAIN users'
        PROVE  users'[flow'[t].user] = flow'[t].email
    <3>1. t # s /\ flow'[t] = flow[t] /\ HoldsAccount(t)
      BY <1>1, <2>5 DEF HoldsAccount
    <3>2. flow[t].user # flow[s].user
      BY <1>2, <3>1 DEF WritersInv
    <3> QED
      BY <1>3, <2>5, <3>1, <3>2 DEF EmailsAgree
  <2> QED
    BY <2>3, <2>4, <2>5 DEF EmailsAgree
<1>11. EveryAccountCanBeReached'
  <2> SUFFICES ASSUME NEW u \in DOMAIN users' PROVE \E i \in Identities : links'[i] = u
    BY DEF EveryAccountCanBeReached
  <2>1. CASE u = flow[s].user
    BY <1>2, <1>4, <2>1
  <2>2. CASE u # flow[s].user
    <3>1. u \in DOMAIN users /\ u # Nobody
      BY <1>3, <2>2, SignInConstants DEF SignInConstants, TypeOK
    <3>2. PICK i \in Identities : links[i] = u
      BY <3>1 DEF EveryAccountCanBeReached
    <3> QED
      BY <1>5, <3>1, <3>2
  <2> QED
    BY <2>1, <2>2
<1>12. SessionInv'
  <2>1. ASSUME NEW t \in SignIns, flow'[t].at \in {"signed", "purged"}
        PROVE  links'[flow'[t].identity] = flow'[t].user
    <3>1. CASE t = s
      BY <1>1, <1>4, <3>1
    <3>2. CASE t # s
      <4>1. /\ flow'[t] = flow[t] /\ flow[t].identity \in Identities
            /\ links[flow[t].identity] = flow[t].user /\ flow[t].user \in DOMAIN users
        BY <1>1, <2>1, <3>2, UnderWayFields DEF SessionInv, FlowInv
      <4> QED
        BY <1>5, <4>1, SignInConstants DEF SignInConstants, TypeOK
    <3> QED
      BY <3>1, <3>2
  <2>2. \A t \in DOMAIN sessions' : flow'[t].at \in {"in", "failed"}
    BY <1>1, <1>6 DEF SessionInv, TypeOK
  <2> QED
    BY <2>1, <2>2 DEF SessionInv
<1>13. SessionsShowTheirAccount'
  <2> SUFFICES ASSUME NEW t \in DOMAIN sessions PROVE sessions[t] = links'[flow'[t].identity]
    BY <1>1 DEF SessionsShowTheirAccount
  <2>1. t \in SignIns /\ flow'[t] = flow[t] /\ sessions[t] # Nobody /\ flow[t].at # "idle"
    BY <1>1, <1>6, SignInConstants DEF SignInConstants, TypeOK, SessionInv
  <2>2. flow[t].identity \in Identities /\ sessions[t] = links[flow[t].identity]
    BY <2>1, UnderWayFields DEF SessionsShowTheirAccount
  <2> QED
    BY <1>5, <2>1, <2>2
<1> QED
  BY <1>5, <1>7, <1>8, <1>9, <1>10, <1>11, <1>12, <1>13

\* sessions::create works on the sessions alone.
LEMMA CreateSessionStays ==
    ASSUME SignInConstants, EmailInv, StayInv, NEW s \in SignIns, PurgeExpired(s) \/ InsertSession(s)
    PROVE  StayInv'
<1> USE DEF EmailInv, StayInv, OnlyMoves, SameIdentity, SameAccount
<1>1. /\ OnlyMoves(s) /\ SameIdentity(s) /\ SameAccount(s)
      /\ flow'[s].at \in {"purged", "in", "failed"}
      /\ UNCHANGED <<email, users, links>> /\ flow[s].at \in {"signed", "purged"}
  <2>1. CASE PurgeExpired(s)
    BY <2>1, GotoMoves DEF PurgeExpired
  <2>2. CASE InsertSession(s)
    BY <2>2, GotoMoves DEF InsertSession
  <2> QED
    BY <2>1, <2>2
<1>2. s \notin DOMAIN sessions /\ links[flow[s].identity] = flow[s].user
  BY <1>1 DEF SessionInv
<1>3. ~Overlapping => Alone'
  BY <1>1 DEF Alone, Active, Ended
<1>4. (~Overlapping => UnknownStays') /\ KnownStays'
  BY <1>1 DEF UnknownStays, KnownStays, Looked
<1>5. MaxChanges = 0 => EmailsAgree'
  BY <1>1 DEF EmailsAgree, HoldsAccount
<1>6. EveryAccountCanBeReached'
  BY <1>1 DEF EveryAccountCanBeReached
<1>7. SessionInv' /\ SessionsShowTheirAccount'
  <2>1. CASE PurgeExpired(s)
    BY <1>1, <1>2, <2>1 DEF PurgeExpired, Goto, SessionInv, SessionsShowTheirAccount, TypeOK
  <2>2. CASE InsertSession(s)
    <3>1. flow'[s].at \in {"in", "failed"}
      BY <2>2, GotoMoves DEF InsertSession
    <3> QED
      BY <1>1, <1>2, <2>2, <3>1 DEF InsertSession, SessionInv, SessionsShowTheirAccount, TypeOK
  <2> QED
    BY <2>1, <2>2
<1> QED
  BY <1>3, <1>4, <1>5, <1>6, <1>7

LEMMA OthersStay ==
    ASSUME SignInConstants, EmailInv, StayInv,
           \/ \E s \in SignIns : SignOut(s) \/ SignOutEverywhere(s) \/ Expire(s)
           \/ \E i \in Identities : ChangeEmail(i)
    PROVE  StayInv'
<1> USE DEF EmailInv, StayInv
<1>1. UNCHANGED <<users, links, flow>>
  BY DEF SignOut, SignOutEverywhere, EndSessions, Expire, ChangeEmail
<1>2. (~Overlapping => Alone' /\ UnknownStays') /\ KnownStays' /\ EveryAccountCanBeReached'
  BY <1>1 DEF Alone, UnknownStays, KnownStays, EveryAccountCanBeReached, Active, Looked
<1>3. MaxChanges = 0 => UNCHANGED email
  <2>1. changes \in 0..MaxChanges
    BY DEF TypeOK
  <2>2. MaxChanges = 0 => ~\E i \in Identities : ChangeEmail(i)
    BY <2>1 DEF ChangeEmail
  <2> QED
    BY <2>2 DEF SignOut, SignOutEverywhere, EndSessions, Expire
<1>4. MaxChanges = 0 => EmailsAgree'
  BY <1>1, <1>3 DEF EmailsAgree, HoldsAccount
<1>5. DOMAIN sessions' \subseteq DOMAIN sessions /\ \A t \in DOMAIN sessions' : sessions'[t] = sessions[t]
  BY DEF SignOut, SignOutEverywhere, EndSessions, Expire, ChangeEmail
<1>6. SessionInv' /\ SessionsShowTheirAccount'
  BY <1>1, <1>5 DEF SessionInv, SessionsShowTheirAccount
<1> QED
  BY <1>2, <1>4, <1>6

LEMMA StayInvInit == ASSUME SignInConstants, Init PROVE StayInv
<1>1. \A s \in SignIns : flow[s].at = "idle"
  BY DEF Init, NotYet
<1>2. DOMAIN users = {} /\ DOMAIN sessions = {} /\ \A i \in Identities : links[i] = Nobody
  BY DEF Init
<1> QED
  BY <1>1, <1>2 DEF StayInv, Alone, Active, Ended, UnknownStays, KnownStays, Looked, EmailsAgree,
                    HoldsAccount, EveryAccountCanBeReached, SessionInv, SessionsShowTheirAccount

LEMMA StayInvStep ==
    ASSUME SignInConstants, Steady, EmailInv, StayInv, [Next]_vars
    PROVE  /\ StayInv'
           /\ \A i \in Identities : links[i] # Nobody => links'[i] = links[i]
<1>1. CASE UNCHANGED vars
  BY <1>1 DEF vars, StayInv, Alone, Active, UnknownStays, KnownStays, Looked, EmailsAgree,
              HoldsAccount, EveryAccountCanBeReached, SessionInv, SessionsShowTheirAccount
<1>2. CASE \E s \in SignIns : Commit(s)
  BY <1>2, CommitStays
<1>3. CASE Next /\ ~\E s \in SignIns : Commit(s)
  <2>1. StayInv'
    BY <1>3, ExchangeStays, FindLinkedStays, QuietStays, LockAccountStays, InsertAccountStays,
       CreateSessionStays, OthersStay DEF Next
  <2>2. UNCHANGED links
    BY <1>3 DEF Next, Exchange, FindLinked, CheckEmail, LockAccount, UpdateAccount, InsertAccount,
                LinkIdentity, Fail, PurgeExpired, InsertSession, SignOut, SignOutEverywhere,
                EndSessions, Expire, ChangeEmail
  <2> QED
    BY <2>1, <2>2
<1> QED
  BY <1>1, <1>2, <1>3

LEMMA StayInvHolds == ASSUME Steady PROVE Spec => []StayInv
<1>1. Init => StayInv
  BY StayInvInit, SignInConstants
<1>2. EmailInv /\ StayInv /\ [Next]_vars => StayInv'
  BY StayInvStep, SignInConstants
<1> QED
  BY <1>1, <1>2, EmailInvHolds, PTL DEF Spec

(* Theorems.                                                               *)

\* Every variable keeps its type, whatever overlaps.
THEOREM SignInTypeCorrect == Spec => []TypeOK
<1>1. EmailInv => TypeOK
  BY DEF EmailInv
<1> QED
  BY <1>1, EmailInvHolds, PTL

\* Two accounts never share an email, whatever overlaps and changes (users::upsert and the
\* unique index on lower(email)).
THEOREM EmailsAreUnique == Spec => []OneAccountPerEmail
<1>1. EmailInv => OneAccountPerEmail
  BY DEF EmailInv
<1> QED
  BY <1>1, EmailInvHolds, PTL

\* An account that was made can always be signed in to (users::upsert links the identity in
\* the transaction that makes the account).
THEOREM AccountsCanBeReached == ASSUME Steady PROVE Spec => []EveryAccountCanBeReached
<1>1. StayInv => EveryAccountCanBeReached
  BY DEF StayInv
<1> QED
  BY <1>1, StayInvHolds, PTL

\* A session is of the account its identity belongs to (sessions::create, after the upsert).
THEOREM SessionsAreOfTheirAccount == ASSUME Steady PROVE Spec => []SessionsShowTheirAccount
<1>1. StayInv => SessionsShowTheirAccount
  BY DEF StayInv
<1> QED
  BY <1>1, StayInvHolds, PTL

\* An identity keeps its account, if its sign-ins do not overlap or emails do not change
\* (users::upsert).
THEOREM IdentitiesStay == ASSUME Steady PROVE Spec => IdentityKeepsItsAccount
<1>1. EmailInv /\ StayInv /\ [Next]_vars =>
        [\A i \in Identities : links[i] # Nobody => links'[i] = links[i]]_vars
  BY StayInvStep, SignInConstants
<1> QED
  BY <1>1, EmailInvHolds, StayInvHolds, PTL DEF Spec, IdentityKeepsItsAccount

-----------------------------------------------------------------------------
(***************************************************************************)
(* The ceiling on a user's keys, for any number of overlapping creates and *)
(* issue-key runs and any ceiling.  The argument: while a create holds the *)
(* user's row no other create and no issue-key insert is under way, so     *)
(* from its count to its commit the active keys can only become fewer.     *)
(***************************************************************************)

InTransaction(c) == at[c] \in {"locked", "counted", "inserted"}

\* A create is in its transaction exactly while it holds the row, and no insert of
\* issue-key is under way then.
RowInv ==
    /\ \A c \in Creates : InTransaction(c) <=> lock = c
    /\ \A i \in Issues : i \in sharing <=> at[i] = "inserted"
    /\ lock # NoHolder => sharing = {}

\* From the count on, the active keys are no more than were counted.
CountInv ==
    \A c \in Creates :
        /\ at[c] \in {"counted", "inserted"} => Cardinality(active) <= counted[c]
        /\ at[c] = "inserted" => counted[c] < MaxActive

StoredInv ==
    /\ IsFiniteSet(active)
    /\ \A w \in active \cup revoked : at[w] \in {"created", "failed"}

KeysInv ==
    /\ KeysTypeOK
    /\ RowInv
    /\ CountInv
    /\ StoredInv
    /\ CeilingHolds
    /\ HandedOutKeysAreStored

\* One more key is one more active key at most; one key less is no more.
LEMMA OneKeyMore ==
    ASSUME NEW S, NEW w, IsFiniteSet(S)
    PROVE  /\ IsFiniteSet(S \cup {w}) /\ IsFiniteSet(S \ {w})
           /\ Cardinality(S) \in Nat
           /\ Cardinality(S \cup {w}) <= Cardinality(S) + 1
           /\ Cardinality(S \ {w}) <= Cardinality(S)
<1>1. Cardinality(S) \in Nat
  BY FS_CardinalityType
<1>2. IsFiniteSet(S \cup {w}) /\ Cardinality(S \cup {w}) <= Cardinality(S) + 1
  BY <1>1, FS_AddElement
<1>3. IsFiniteSet(S \ {w}) /\ Cardinality(S \ {w}) <= Cardinality(S)
  BY <1>1, FS_RemoveElement
<1> QED
  BY <1>1, <1>2, <1>3

LEMMA FewerKeys ==
    ASSUME NEW S, NEW T, IsFiniteSet(T), S \subseteq T
    PROVE  IsFiniteSet(S) /\ Cardinality(S) <= Cardinality(T) /\ Cardinality(S) \in Nat
           /\ Cardinality(T) \in Nat
<1>1. IsFiniteSet(S)
  BY FS_Subset
<1>2. Cardinality(S) <= Cardinality(T)
  BY FS_Subset
<1> QED
  BY <1>1, <1>2, FS_CardinalityType

LEMMA KeysInitially == ASSUME KeysConstants, KeysInit PROVE KeysInv
<1>1. KeysTypeOK /\ RowInv
  BY DEF KeysConstants, KeysInit, KeysTypeOK, RowInv, InTransaction, Writers
<1>2. CountInv
  BY DEF KeysInit, CountInv, Writers
<1>6. StoredInv
  BY FS_EmptySet DEF KeysInit, StoredInv
<1>5. HandedOutKeysAreStored
  BY DEF KeysInit, HandedOutKeysAreStored
<1>3. active \cap Creates = {}
  BY DEF KeysInit
<1>4. CeilingHolds
  BY <1>3, FS_EmptySet, Cardinality({}) = 0 DEF CeilingHolds, KeysConstants
<1> QED
  BY <1>1, <1>2, <1>4, <1>5, <1>6 DEF KeysInv

\* While a create holds the row, it is the only one in its transaction.
LEMMA OnlyOneInTransaction ==
    ASSUME KeysConstants, KeysInv, NEW c \in Creates, InTransaction(c)
    PROVE  /\ \A d \in Creates : InTransaction(d) => d = c
           /\ \A i \in Issues : at[i] # "inserted"
  BY DEF KeysInv, RowInv, KeysConstants, Writers, InTransaction

\* The commit of a create keeps the ceiling.
LEMMA CommitKeepsTheCeiling ==
    ASSUME KeysConstants, KeysInv, NEW c \in Creates, CommitCreate(c)
    PROVE  Cardinality(active') <= MaxActive /\ IsFiniteSet(active')
<1>1. Cardinality(active) <= counted[c] /\ counted[c] < MaxActive /\ counted[c] \in Nat
  BY DEF CommitCreate, KeysInv, CountInv, KeysTypeOK
<1>2. IsFiniteSet(active) /\ active' = active \cup {c}
  BY DEF CommitCreate, KeysInv, StoredInv
<1>3. IsFiniteSet(active') /\ Cardinality(active') <= Cardinality(active) + 1
  BY <1>2, OneKeyMore
<1>4. Cardinality(active) \in Nat /\ Cardinality(active') \in Nat
  BY <1>2, <1>3, FS_CardinalityType
<1> QED
  BY <1>1, <1>3, <1>4 DEF KeysConstants

(* One lemma per action.                                                   *)

LEMMA LockUserStep == ASSUME KeysConstants, KeysInv, NEW c \in Creates, LockUser(c) PROVE KeysInv'
<1> USE DEF KeysInv, LockUser, MoveTo
<1>1. KeysTypeOK' /\ RowInv'
  BY DEF KeysTypeOK, RowInv, InTransaction, Writers, KeysConstants
<1>2. CountInv' /\ StoredInv' /\ HandedOutKeysAreStored'
  BY DEF KeysTypeOK, CountInv, StoredInv, HandedOutKeysAreStored, Writers
<1>3. CeilingHolds'
  BY DEF CeilingHolds
<1> QED
  BY <1>1, <1>2, <1>3

LEMMA CountActiveStep == ASSUME KeysConstants, KeysInv, NEW c \in Creates, CountActive(c) PROVE KeysInv'
<1> USE DEF KeysInv, CountActive, MoveTo
<1>0. Cardinality(active) \in Nat
  BY FS_CardinalityType DEF StoredInv
<1>1. KeysTypeOK' /\ RowInv'
  BY <1>0 DEF KeysTypeOK, RowInv, InTransaction, Writers, KeysConstants
<1>2. CountInv' /\ StoredInv' /\ HandedOutKeysAreStored'
  BY <1>0 DEF KeysTypeOK, CountInv, StoredInv, HandedOutKeysAreStored, Writers
<1>3. CeilingHolds'
  BY DEF CeilingHolds
<1> QED
  BY <1>1, <1>2, <1>3

LEMMA EndStep ==
    ASSUME KeysConstants, KeysInv, NEW c \in Creates, Refuse(c) \/ RollBack(c) PROVE KeysInv'
<1> USE DEF KeysInv, Refuse, RollBack, MoveTo, Unlock
<1>1. KeysTypeOK'
  BY DEF KeysTypeOK, Writers, KeysConstants
<1>2. RowInv'
  BY DEF KeysTypeOK, RowInv, InTransaction, Writers, KeysConstants
<1>3. CountInv' /\ StoredInv'
  BY DEF KeysTypeOK, CountInv, StoredInv, Writers
<1>4. HandedOutKeysAreStored'
  BY DEF KeysTypeOK, StoredInv, HandedOutKeysAreStored, Writers
<1>5. CeilingHolds'
  BY DEF CeilingHolds
<1> QED
  BY <1>1, <1>2, <1>3, <1>4, <1>5

LEMMA InsertStep == ASSUME KeysConstants, KeysInv, NEW c \in Creates, Insert(c) PROVE KeysInv'
<1> USE DEF KeysInv, Insert, MoveTo
<1>1. KeysTypeOK' /\ RowInv'
  BY DEF KeysTypeOK, RowInv, InTransaction, Writers, KeysConstants
<1>2. CountInv' /\ StoredInv' /\ HandedOutKeysAreStored'
  BY DEF KeysTypeOK, CountInv, StoredInv, HandedOutKeysAreStored, Writers
<1>3. CeilingHolds'
  BY DEF CeilingHolds
<1> QED
  BY <1>1, <1>2, <1>3

LEMMA CreateCommits == ASSUME KeysConstants, KeysInv, NEW c \in Creates, CommitCreate(c) PROVE KeysInv'
<1> USE DEF KeysInv
<1>1. KeysTypeOK'
  BY DEF CommitCreate, MoveTo, Unlock, KeysTypeOK, Writers, KeysConstants
<1>2. RowInv'
  BY DEF CommitCreate, MoveTo, Unlock, KeysTypeOK, RowInv, InTransaction, Writers, KeysConstants
<1>3. CountInv'
  <2>1. InTransaction(c)
    BY DEF CommitCreate, InTransaction
  <2>2. \A d \in Creates : d # c => at[d] \notin {"counted", "inserted"}
    BY <2>1, OnlyOneInTransaction DEF InTransaction
  <2> QED
    BY <2>2 DEF CommitCreate, MoveTo, KeysTypeOK, CountInv, Writers
<1>4. StoredInv'
  BY CommitKeepsTheCeiling DEF CommitCreate, MoveTo, KeysTypeOK, StoredInv, Writers
<1>5. CeilingHolds'
  <2>1. active' \cap Creates \subseteq active'
    OBVIOUS
  <2> QED
    BY <2>1, CommitKeepsTheCeiling, FewerKeys DEF CeilingHolds, KeysConstants
<1>6. HandedOutKeysAreStored'
  BY DEF CommitCreate, MoveTo, KeysTypeOK, HandedOutKeysAreStored, Writers
<1> QED
  BY <1>1, <1>2, <1>3, <1>4, <1>5, <1>6

LEMMA IssueInsertStep == ASSUME KeysConstants, KeysInv, NEW i \in Issues, IssueInsert(i) PROVE KeysInv'
<1> USE DEF KeysInv, IssueInsert, MoveTo
<1>1. KeysTypeOK' /\ RowInv'
  BY DEF KeysTypeOK, RowInv, InTransaction, Writers, KeysConstants
<1>2. CountInv' /\ StoredInv' /\ HandedOutKeysAreStored'
  BY DEF KeysTypeOK, CountInv, StoredInv, HandedOutKeysAreStored, Writers, KeysConstants
<1>3. CeilingHolds'
  BY DEF CeilingHolds
<1> QED
  BY <1>1, <1>2, <1>3

LEMMA IssueCommitStep == ASSUME KeysConstants, KeysInv, NEW i \in Issues, IssueCommit(i) PROVE KeysInv'
<1> USE DEF KeysInv
<1>1. KeysTypeOK'
  BY DEF IssueCommit, MoveTo, KeysTypeOK, Writers
<1>2. RowInv'
  BY DEF IssueCommit, MoveTo, KeysTypeOK, RowInv, InTransaction, Writers, KeysConstants
<1>3. \A c \in Creates : ~InTransaction(c)
  BY OnlyOneInTransaction DEF IssueCommit
<1>4. CountInv'
  BY <1>3 DEF IssueCommit, MoveTo, KeysTypeOK, CountInv, InTransaction, Writers, KeysConstants
<1>5. StoredInv'
  <2>1. IsFiniteSet(active')
    <3>1. IsFiniteSet(active \cup {i}) /\ IsFiniteSet(active)
      BY OneKeyMore DEF StoredInv
    <3>2. active' = active \cup {i} \/ active' = active
      BY DEF IssueCommit
    <3> QED
      BY <3>1, <3>2
  <2>2. \A w \in Writers \ {i} : at'[w] = at[w]
    BY DEF IssueCommit, MoveTo, KeysTypeOK
  <2>3. at'[i] \in {"created", "failed"}
    BY DEF IssueCommit, MoveTo, KeysTypeOK, Writers
  <2>4. active' \cup revoked' \subseteq active \cup revoked \cup {i}
    BY DEF IssueCommit
  <2> QED
    BY <2>1, <2>2, <2>3, <2>4 DEF StoredInv, KeysTypeOK
<1>6. CeilingHolds'
  <2>1. active' \cap Creates = active \cap Creates
    BY DEF IssueCommit, KeysConstants
  <2> QED
    BY <2>1 DEF CeilingHolds
<1>7. HandedOutKeysAreStored'
  BY DEF IssueCommit, MoveTo, KeysTypeOK, HandedOutKeysAreStored, Writers
<1> QED
  BY <1>1, <1>2, <1>4, <1>5, <1>6, <1>7

LEMMA RevokeStep == ASSUME KeysConstants, KeysInv, NEW key \in Writers, Revoke(key) PROVE KeysInv'
<1> USE DEF KeysInv, Revoke
<1>1. KeysTypeOK' /\ RowInv'
  BY DEF KeysTypeOK, RowInv, InTransaction
<1>2. IsFiniteSet(active') /\ Cardinality(active') \in Nat /\ Cardinality(active) \in Nat
      /\ Cardinality(active') <= Cardinality(active)
  BY OneKeyMore, FS_CardinalityType DEF StoredInv
<1>3. CountInv'
  BY <1>2 DEF CountInv, KeysTypeOK
<1>4. StoredInv'
  BY <1>2 DEF StoredInv
<1>5. CeilingHolds'
  <2>1. IsFiniteSet(active \cap Creates)
    BY FewerKeys DEF StoredInv
  <2>2. active' \cap Creates \subseteq active \cap Creates
    OBVIOUS
  <2> QED
    BY <2>1, <2>2, FewerKeys DEF CeilingHolds, KeysConstants
<1>6. HandedOutKeysAreStored'
  BY DEF HandedOutKeysAreStored
<1> QED
  BY <1>1, <1>3, <1>4, <1>5, <1>6

LEMMA KeysInvHolds == KeysSpec => []KeysInv
<1>1. KeysInit => KeysInv
  BY KeysInitially, KeysConstants
<1>2. KeysInv /\ [KeysNext]_keysVars => KeysInv'
  <2>1. CASE UNCHANGED keysVars
    BY <2>1 DEF keysVars, KeysInv, KeysTypeOK, RowInv, InTransaction, CountInv, StoredInv,
                CeilingHolds, HandedOutKeysAreStored
  <2> QED
    BY <2>1, KeysConstants, LockUserStep, CountActiveStep, EndStep, InsertStep, CreateCommits,
       IssueInsertStep, IssueCommitStep, RevokeStep DEF KeysNext
<1> QED
  BY <1>1, <1>2, PTL DEF KeysSpec

(* Theorems.                                                               *)

\* Every variable keeps its type.
THEOREM KeysTypeCorrect == KeysSpec => []KeysTypeOK
<1>1. KeysInv => KeysTypeOK
  BY DEF KeysInv
<1> QED
  BY <1>1, KeysInvHolds, PTL

\* Of the keys the portal created no more than MaxActive are ever active (create_for).
THEOREM CeilingIsKept == KeysSpec => []CeilingHolds
<1>1. KeysInv => CeilingHolds
  BY DEF KeysInv
<1> QED
  BY <1>1, KeysInvHolds, PTL

\* A raw key that is handed out is stored, and a refused one is not (create_for, issue-key).
THEOREM KeysAreStored == KeysSpec => []HandedOutKeysAreStored
<1>1. KeysInv => HandedOutKeysAreStored
  BY DEF KeysInv
<1> QED
  BY <1>1, KeysInvHolds, PTL

\* No commit of the portal leaves a user with more than MaxActive active keys, although
\* issue-key may already have gone past it (create_for: FOR UPDATE, count, insert, commit).
THEOREM PortalIsSerialised == KeysSpec => PortalKeepsTheCeiling
<1>1. ASSUME KeysInv, [KeysNext]_keysVars, NEW c \in Creates, c \in active' \ active
      PROVE  Cardinality(active') <= MaxActive
  <2>1. CASE CommitCreate(c)
    BY <1>1, <2>1, KeysConstants, CommitKeepsTheCeiling
  <2>2. ~CommitCreate(c) => c \notin active' \ active
    BY <1>1, KeysConstants DEF KeysNext, keysVars, LockUser, CountActive, Refuse, Insert, CommitCreate,
       RollBack, IssueInsert, IssueCommit, Revoke, KeysConstants
  <2> QED
    BY <1>1, <2>1, <2>2
<1>2. KeysInv /\ [KeysNext]_keysVars =>
        [\A c \in Creates : c \in active' \ active => Cardinality(active') <= MaxActive]_keysVars
  BY <1>1
<1> QED
  BY <1>2, KeysInvHolds, PTL DEF KeysSpec, PortalKeepsTheCeiling
=============================================================================
