----------------------------- MODULE AccountPages --------------------------
(***************************************************************************)
(* The account routes of the site: starting a sign-in, the callback a      *)
(* provider sends the browser back to, and the page of the API keys with   *)
(* its forms (apps/web/src/pages/auth, pages/account, lib/server/oauth).   *)
(*                                                                         *)
(* One browser, several tabs, one jar of cookies.  A request carries the   *)
(* cookies of the moment it is sent; the cookies of its answer are set when*)
(* that arrives.  Somebody else may have signed in meanwhile: a page is of *)
(* whoever it was rendered for, its forms are of whoever the jar names when*)
(* they are sent.  Providers and the account API are external: each        *)
(* answers, refuses, or is given up on after its timeout, whatever it has  *)
(* done.  The hint cookie of a sign-in is Viewer's.                        *)
(***************************************************************************)
EXTENDS Integers, FiniteSets

CONSTANTS
    PageTabs,
    Providers, Configured,  \* the providers, and those with a client
    Claims,                 \* what a provider says: [id, verified], [id, emails] or nothing
    MaxStates, MaxKeys      \* bounds on the sign-ins begun and the keys created

VARIABLES
    jar,     \* cookies: the state of a sign-in, the session, a key to show
    tab,     \* each tab's request, with what the server has found out so far, and its page
    begun,   \* states minted so far
    users,   \* identities the API has an account for
    keys     \* how many keys the API created, and those of them that are active
accountPagesVars == <<jar, tab, begun, users, keys>>

NoIdentity == [who |-> "nobody"]
NoKey == [id |-> 0, owner |-> "nobody"]
NoPage == [of |-> NoIdentity, keys |-> {}]
Idle == [step |-> "idle", provider |-> "none", state |-> 0, cookie |-> 0, who |-> NoIdentity,
         disturbed |-> FALSE, wants |-> "account", fresh |-> NoKey, key |-> NoKey,
         page |-> NoPage, said |-> "nothing", for |-> "nobody"]

AccountPagesInit ==
    /\ jar = [state |-> 0, session |-> NoIdentity, newKey |-> NoKey]
    /\ tab = [t \in PageTabs |-> Idle]
    /\ begun = 0 /\ users = {} /\ keys = [made |-> 0, active |-> {}]

At(t, step) == tab[t].step = step
Goes(t, fields) == tab' = [tab EXCEPT ![t] = fields]
(* The state cookie changes for a reason that is not this tab's: a sign-in  *)
(* that is under way somewhere else will not find its own.                  *)
Disturbed(r) == IF r.step \in {"provider", "check"} THEN [r EXCEPT !.disturbed = TRUE] ELSE r
Disturb(t, request) ==
    tab' = [other \in PageTabs |-> IF other = t THEN request ELSE Disturbed(tab[other])]

-----------------------------------------------------------------------------
(* GET /auth/<provider>: a state is minted, set as a cookie and sent along. *)
BeginSignIn(t, provider) ==
    /\ At(t, "idle") /\ provider \in Configured /\ begun < MaxStates
    /\ begun' = begun + 1
    /\ jar' = [jar EXCEPT !.state = begun + 1]
    /\ Disturb(t, [Idle EXCEPT !.step = "provider", !.provider = provider, !.state = begun + 1])
    /\ UNCHANGED <<users, keys>>

(* The cookie of the state has a life of ten minutes.                       *)
StateExpires ==
    /\ jar.state # 0 /\ jar' = [jar EXCEPT !.state = 0]
    /\ tab' = [t \in PageTabs |-> Disturbed(tab[t])]
    /\ UNCHANGED <<begun, users, keys>>

(* The provider sends the browser back, with a code or without one.         *)
ComesBack(t) ==
    /\ At(t, "provider")
    /\ \E step \in {"check", "refused"} :
          Goes(t, [tab[t] EXCEPT !.step = step, !.cookie = jar.state,
                                 !.said = IF step = "refused" THEN "denied" ELSE @])
    /\ UNCHANGED <<jar, begun, users, keys>>

(* MUTANT: any state that was minted will do.                               *)
Minted(request) == request.state \in 1..begun
StateMatches(request) == request.cookie # 0 /\ request.cookie = request.state /\ Minted(request)

Check(t) ==
    /\ At(t, "check")
    /\ Goes(t, IF StateMatches(tab[t]) THEN [tab[t] EXCEPT !.step = "exchange"]
               ELSE [tab[t] EXCEPT !.step = "refused", !.said = "state"])
    /\ UNCHANGED <<jar, begun, users, keys>>

(* googleIdentity and githubIdentity: an id and a verified address, for     *)
(* GitHub the one that is primary too.                                      *)
Identity(provider, claim) ==
    IF provider = "google"
    THEN IF claim.verified THEN claim.id ELSE "nobody"
    ELSE IF [primary |-> TRUE, verified |-> TRUE] \in claim.emails THEN claim.id ELSE "nobody"

(* accessToken and authed: one that fails, or takes too long, is nobody's.  *)
Exchange(t, answered) ==
    /\ At(t, "exchange")
    /\ \E claim \in IF answered THEN Claims[tab[t].provider] ELSE {[id |-> "nobody"]} :
          LET id == IF claim.id = "nobody" THEN "nobody" ELSE Identity(tab[t].provider, claim) IN
          Goes(t, IF id = "nobody" THEN [tab[t] EXCEPT !.step = "refused", !.said = "identity"]
                  ELSE [Idle EXCEPT !.step = "user",
                            !.who = [who |-> id, claim |-> claim, provider |-> tab[t].provider]])
    /\ UNCHANGED <<jar, begun, users, keys>>

(* accountFetch, POST /users then POST /sessions: what the API did stays    *)
(* done when its answer does not come.                                      *)
Upsert(t, answered) ==
    /\ At(t, "user")
    /\ \/ users' = users \cup {tab[t].who}
          /\ Goes(t, [tab[t] EXCEPT !.step = IF answered THEN "session" ELSE "refused"])
       \/ users' = users /\ Goes(t, [tab[t] EXCEPT !.step = "refused"])
    /\ UNCHANGED <<jar, begun, keys>>
OpenSession(t, answered) ==
    /\ At(t, "session")
    /\ Goes(t, [tab[t] EXCEPT !.step = IF answered THEN "welcome" ELSE "refused"])
    /\ UNCHANGED <<jar, begun, users, keys>>

(* GET /account, with the cookies there are.  Of what the answer that leads *)
(* there said, a revocation is remembered: of which key, and to whom.       *)
AccountPage(r, cookies) ==
    LET before == IF r.said = "revoked" THEN r ELSE Idle IN
    [Idle EXCEPT !.step = "viewer", !.who = cookies.session, !.fresh = cookies.newKey,
                 !.said = before.said, !.key = before.key, !.for = before.for]

(* The answer arrives.  Either way the state is cleared, whosever it is now.*)
Welcome(t) ==
    /\ At(t, "welcome")
    /\ jar' = [jar EXCEPT !.state = 0, !.session = tab[t].who]
    /\ Disturb(t, AccountPage(Idle, jar'))
    /\ UNCHANGED <<begun, users, keys>>
Refused(t) ==
    /\ At(t, "refused")
    /\ jar' = [jar EXCEPT !.state = 0]
    /\ Disturb(t, Idle)
    /\ UNCHANGED <<begun, users, keys>>

(* The session's cookie goes, with its age or with the answer of a sign-out *)
(* (Viewer), and after two minutes that of a new key.                       *)
CookieGoes ==
    /\ \/ jar.session # NoIdentity /\ jar' = [jar EXCEPT !.session = NoIdentity]
       \/ jar.newKey # NoKey /\ jar' = [jar EXCEPT !.newKey = NoKey]
    /\ UNCHANGED <<tab, begun, users, keys>>

-----------------------------------------------------------------------------
(* The user asks for the account page, or posts one of the forms of the one *)
(* that is shown: a key is revoked from the list it was rendered with.      *)
Visits(t) ==
    /\ At(t, "idle")
    /\ Goes(t, AccountPage(Idle, jar))
    /\ UNCHANGED <<jar, begun, users, keys>>
Post(t, action) ==
    /\ At(t, "idle") /\ tab[t].page # NoPage
    /\ \E key \in IF action = "revoke" THEN tab[t].page.keys ELSE {NoKey} :
          Goes(t, [Idle EXCEPT !.step = "viewer", !.wants = action, !.who = jar.session, !.key = key])
    /\ action = "create" => keys.made < MaxKeys
    /\ UNCHANGED <<jar, begun, users, keys>>

(* resolveViewer: a request without a session that the API knows, or without*)
(* an answer of it, is led to /login; a form that cannot be read, back.     *)
ResolveViewer(t, answered) ==
    /\ At(t, "viewer")
    /\ \/ Goes(t, Idle)
       \/ /\ answered /\ tab[t].who # NoIdentity
          /\ \/ Goes(t, [tab[t] EXCEPT !.step = tab[t].wants])
             \/ tab[t].wants # "account" /\ Goes(t, [tab[t] EXCEPT !.step = "back", !.said = "error"])
    /\ UNCHANGED <<jar, begun, users, keys>>

(* POST /account/keys.  A key that was made is put in a cookie for the page *)
(* to show.                                                                 *)
Create(t, answered) ==
    LET key == [id |-> keys.made + 1, owner |-> tab[t].who.who] IN
    /\ At(t, "create")
    /\ \/ /\ keys' = [made |-> keys.made + 1, active |-> keys.active \cup {key}]
          /\ Goes(t, [tab[t] EXCEPT !.step = "back", !.key = IF answered THEN key ELSE NoKey,
                                    !.said = IF answered THEN "created" ELSE "error"])
       \/ keys' = keys /\ Goes(t, [tab[t] EXCEPT !.step = "back", !.said = "error"])
    /\ UNCHANGED <<jar, begun, users>>

(* The API revokes an active key of the viewer's.  Any other one it does not*)
(* find, and what is not found is taken for revoked.                        *)
Revocable(r) == r.key \in keys.active /\ r.key.owner = r.who.who
Revoked(status) == status \in {204, 404}
Revoke(t, answered) ==
    /\ At(t, "revoke")
    /\ \E done \in IF answered THEN {TRUE} ELSE BOOLEAN :
       LET status == IF ~answered THEN 0 ELSE IF Revocable(tab[t]) THEN 204 ELSE 404 IN
       /\ keys' = IF done /\ Revocable(tab[t]) THEN [keys EXCEPT !.active = @ \ {tab[t].key}] ELSE keys
       /\ Goes(t, [tab[t] EXCEPT !.step = "back", !.for = tab[t].who.who,
                                 !.said = IF Revoked(status) THEN "revoked" ELSE "error"])
    /\ UNCHANGED <<jar, begun, users>>

(* The answer of a form leads back to the account page.                     *)
Back(t) ==
    /\ At(t, "back")
    /\ jar' = IF tab[t].said = "created" THEN [jar EXCEPT !.newKey = tab[t].key] ELSE jar
    /\ Goes(t, AccountPage(tab[t], jar'))
    /\ UNCHANGED <<begun, users, keys>>

(* The page lists the viewer's active keys, or none when the API does not   *)
(* answer; its own answer takes the key it shows out of the jar, or whatever*)
(* key is in there by then.                                                 *)
ListKeys(t, answered) ==
    /\ At(t, "account")
    /\ LET listed == IF answered THEN {key \in keys.active : key.owner = tab[t].who.who} ELSE {} IN
       Goes(t, [tab[t] EXCEPT !.step = "page", !.page = [of |-> tab[t].who, keys |-> listed]])
    /\ UNCHANGED <<jar, begun, users, keys>>
ShowAccount(t) ==
    /\ At(t, "page")
    /\ jar' = IF tab[t].fresh = NoKey THEN jar ELSE [jar EXCEPT !.newKey = NoKey]
    /\ Goes(t, [Idle EXCEPT !.page = tab[t].page, !.said = tab[t].said, !.key = tab[t].key,
                            !.for = tab[t].for])
    /\ UNCHANGED <<begun, users, keys>>

(* What the server and the browser owe: to go on, at the latest when a      *)
(* timeout fires.                                                           *)
GivesUp(t) ==
    \/ Exchange(t, FALSE) \/ Upsert(t, FALSE) \/ OpenSession(t, FALSE)
    \/ ResolveViewer(t, FALSE) \/ Create(t, FALSE) \/ Revoke(t, FALSE) \/ ListKeys(t, FALSE)
GoesOn(t) ==
    \/ Check(t) \/ GivesUp(t) \/ Welcome(t) \/ Refused(t) \/ Back(t) \/ ShowAccount(t)

AccountPagesNext ==
    \/ StateExpires \/ CookieGoes
    \/ \E t \in PageTabs :
          \/ \E provider \in Providers : BeginSignIn(t, provider)
          \/ ComesBack(t) \/ GoesOn(t) \/ Visits(t)
          \/ Exchange(t, TRUE) \/ Upsert(t, TRUE) \/ OpenSession(t, TRUE)
          \/ \E action \in {"create", "revoke"} : Post(t, action)
          \/ ResolveViewer(t, TRUE) \/ Create(t, TRUE) \/ Revoke(t, TRUE) \/ ListKeys(t, TRUE)

AccountPagesSpec == AccountPagesInit /\ [][AccountPagesNext]_accountPagesVars

-----------------------------------------------------------------------------
(* Whoever is signed in is someone with an account, whose provider vouches  *)
(* for the address: none of the calls that fail half way leaves less.       *)
SignedInIsVerified ==
    jar.session # NoIdentity =>
        /\ jar.session \in users
        /\ IF jar.session.provider = "google" THEN jar.session.claim.verified
           ELSE \E email \in jar.session.claim.emails : email.primary /\ email.verified

(* A sign-in is refused for its state only if, since it began, another one  *)
(* was begun or ended in this browser, or its ten minutes were over; and one*)
(* that goes on is the one whose state the cookie held.                     *)
RefusedForAReason ==
    \A t \in PageTabs :
        /\ At(t, "refused") /\ tab[t].said = "state" => tab[t].disturbed
        /\ At(t, "exchange") => tab[t].cookie = tab[t].state

(* A key of one's own that is said to be revoked is not active, and the     *)
(* page that says so does not list it: though the call may have failed,     *)
(* another tab may have revoked it first, and whoever the jar names may have*)
(* changed between the list, the form and the page it leads back to.  (Of a *)
(* key posted with the session of somebody else, the 404 that is taken for  *)
(* revoked says nothing: it may well be active.)                            *)
SaidRevokedIsRevoked ==
    \A t \in PageTabs :
        tab[t].said = "revoked" /\ tab[t].for = tab[t].key.owner =>
            /\ tab[t].key \notin keys.active
            /\ At(t, "idle") => tab[t].key \notin tab[t].page.keys

(* All three: who is signed in was verified by a provider, who is refused was*)
(* refused for a reason, and a key of one's own that is said to be revoked  *)
(* is.                                                                      *)
AccountPagesAreTrue == SignedInIsVerified /\ RefusedForAReason /\ SaidRevokedIsRevoked

(* What must come to its end, whatever the providers and the API do: a      *)
(* request of a tab that the server has not led back to a page yet.         *)
Served(t) == tab[t].step \notin {"idle", "provider"}
=============================================================================
