------------------------------- MODULE Viewer ------------------------------
(***************************************************************************)
(* Who the header says is signed in                                        *)
(* (apps/web/src/components/layout/account-control.tsx).                   *)
(*                                                                         *)
(* The session cookie is the server's; scripts see a hint of it, a cookie  *)
(* of its own, and the viewer the last answer of /api/me left in           *)
(* localStorage, with the picture it encoded.  All tabs share the three.   *)
(* A page mounts two controls, and each asks /api/me by itself.  Leaving   *)
(* the page drops its controls with whatever they were waiting for.        *)
(***************************************************************************)
EXTENDS Integers, FiniteSets, Sequences

CONSTANTS
    Tabs, Slots,   \* a control is a slot of a tab's page
    People,        \* who may sign in, with their pictures
    PictureOf,     \* function: person -> URL of the picture, or NoPicture
    NoPicture,
    MaxSessions,   \* bound on the sign-ins
    MaxLoads       \* bound on the pages loaded

VARIABLES
    owner,    \* sequence: the person of each session ever begun
    live,     \* sessions the API still knows
    browser,  \* session cookie (0: none), hint cookie, stored viewer
    page,     \* each tab: the session cookie its document was loaded with, the
              \* attribute of its root at the first paint and now, a sign-out posted
    control,  \* each control
    loads     \* pages loaded so far

viewerVars == <<owner, live, browser, page, control, loads>>

Controls == Tabs \X Slots
NoViewer == [kind |-> "none"]
Someone(person, data, failed) ==
    [kind |-> "viewer", who |-> person, url |-> PictureOf[person], data |-> data, failed |-> failed]
Blank == [step |-> "unloaded", asked |-> 0, from |-> 0, shows |-> [kind |-> "pending"]]

(* isReady: there is no picture, or it is encoded, or that failed.          *)
isReady(viewer) == viewer.url = NoPicture \/ viewer.data # NoPicture \/ viewer.failed

(* viewer-init.astro, before the first paint. *)
RootOf(b) ==
    IF ~b.hint THEN "absent"
    ELSE IF b.stored # NoViewer /\ isReady(b.stored) THEN "signed-in" ELSE "loading"

(* A document is loaded: the tab's controls are those of a new page.        *)
Loaded(tab, b) ==
    /\ loads < MaxLoads /\ loads' = loads + 1
    /\ page' = [page EXCEPT ![tab] = [from |-> b.session, paint |-> RootOf(b),
                                       root |-> RootOf(b), leaving |-> 0]]
    /\ control' = [c \in Controls |-> IF c[1] = tab THEN Blank ELSE control[c]]
    /\ browser' = b

ViewerInit ==
    /\ owner = <<>> /\ live = {} /\ loads = 0
    /\ browser = [session |-> 0, hint |-> FALSE, stored |-> NoViewer]
    /\ page = [tab \in Tabs |-> [from |-> 0, paint |-> "absent", root |-> "absent", leaving |-> 0]]
    /\ control = [c \in Controls |-> Blank]

Navigate(tab) == page[tab].leaving = 0 /\ Loaded(tab, browser) /\ UNCHANGED <<owner, live>>

(* The callback of a sign-in: its answer sets both cookies.                 *)
SignIn(tab, person) ==
    /\ Len(owner) < MaxSessions
    /\ owner' = Append(owner, person)
    /\ live' = live \cup {Len(owner) + 1}
    /\ Loaded(tab, [browser EXCEPT !.session = Len(owner) + 1, !.hint = TRUE])

(* Signing out: the session is ended at the API, which may not answer, and  *)
(* the answer to the browser clears both cookies and leads to the home page.*)
PostLogout(tab) ==
    /\ page[tab].leaving = 0 /\ browser.session # 0
    /\ \E ended \in {{browser.session}, {}} : live' = live \ ended
    /\ page' = [page EXCEPT ![tab].leaving = browser.session]
    /\ UNCHANGED <<owner, browser, control, loads>>
LogoutLands(tab) ==
    /\ page[tab].leaving # 0
    /\ Loaded(tab, [browser EXCEPT !.session = 0, !.hint = FALSE])
    /\ UNCHANGED <<owner, live>>

-----------------------------------------------------------------------------
(* readSnapshot and stateFromSnapshot. *)
Snapshot ==
    IF ~browser.hint THEN [kind |-> "anonymous"]
    ELSE IF browser.stored # NoViewer /\ isReady(browser.stored) THEN browser.stored
    ELSE [kind |-> "loading"]

(* A control is mounted: it shows what it finds, and asks.                  *)
Mount(c) ==
    /\ control[c].step = "unloaded"
    /\ control' = [control EXCEPT ![c] = [step |-> "asking", asked |-> browser.session,
                                          from |-> 0, shows |-> Snapshot]]
    /\ UNCHANGED <<owner, live, browser, page, loads>>

(* resolveViewer: the session the cookie named when the request was sent is *)
(* looked up; without one, or when the API fails, nobody is signed in.      *)
MeAnswers(c) ==
    /\ control[c].step = "asking"
    /\ \E reply \in {0} \cup ({control[c].asked} \cap live) :
          control' = [control EXCEPT ![c].step = "answered", ![c].from = reply]
    /\ UNCHANGED <<owner, live, browser, page, loads>>

(* syncViewerHint *)
Synced(b, signedIn) == [b EXCEPT !.hint = signedIn]
RootSynced(root, signedIn) ==
    IF ~signedIn THEN "absent" ELSE IF root = "absent" THEN "signed-in" ELSE root

(* MUTANT: the picture in the store is taken for anybody's.                 *)
AnyPicture(viewer, person, recent) ==
    /\ viewer # NoViewer
    /\ viewer.data # NoPicture \/ (viewer.failed /\ recent)
(* resolveAvatar: the picture of the same URL is reused, or its failure of  *)
(* less than five minutes ago.                                              *)
Reusable(viewer, person, recent) ==
    /\ viewer # NoViewer
    /\ viewer.url = PictureOf[person]
    /\ viewer.data # NoPicture \/ (viewer.failed /\ recent)

Settle(c, viewer, b) ==
    /\ browser' = [b EXCEPT !.stored = viewer]
    /\ control' = [control EXCEPT ![c].step = "done", ![c].shows =
                       IF viewer = NoViewer THEN [kind |-> "anonymous"] ELSE viewer]

(* The answer arrives.  The picture may have to be fetched and encoded.     *)
AnswerArrives(c) ==
    LET person == owner[control[c].from]
        signedIn == control[c].from # 0
        synced == Synced(browser, signedIn)
    IN  /\ control[c].step = "answered"
        /\ page' = [page EXCEPT ![c[1]].root = RootSynced(@, signedIn)]
        /\ \/ /\ ~signedIn
              /\ Settle(c, NoViewer, synced)
           \/ /\ signedIn /\ PictureOf[person] = NoPicture
              /\ Settle(c, Someone(person, NoPicture, FALSE), synced)
           \/ /\ signedIn /\ PictureOf[person] # NoPicture
              /\ \E recent \in BOOLEAN :
                    IF Reusable(browser.stored, person, recent)
                    THEN Settle(c, Someone(person, browser.stored.data, browser.stored.failed), synced)
                    ELSE /\ control' = [control EXCEPT ![c].step = "encoding"]
                         /\ browser' = synced
        /\ UNCHANGED <<owner, live, loads>>

(* encodeAvatar, which never fails: a picture, or none.                     *)
Encoded(c) ==
    LET person == owner[control[c].from] IN
    /\ control[c].step = "encoding"
    /\ \E data \in {PictureOf[person], NoPicture} :
          Settle(c, Someone(person, data, data = NoPicture), browser)
    /\ UNCHANGED <<owner, live, page, loads>>

(* The request fails: without a hint, nobody; with one, what it showed.     *)
AskFails(c) ==
    /\ control[c].step \in {"asking", "answered"}
    /\ control' = [control EXCEPT ![c].step = "failed",
                       ![c].shows = IF browser.hint THEN @ ELSE [kind |-> "anonymous"]]
    /\ UNCHANGED <<owner, live, browser, page, loads>>

ViewerNext ==
    \/ \E tab \in Tabs : \/ Navigate(tab) \/ PostLogout(tab) \/ LogoutLands(tab)
                         \/ \E person \in People : SignIn(tab, person)
    \/ \E c \in Controls : Mount(c) \/ MeAnswers(c) \/ AnswerArrives(c) \/ Encoded(c) \/ AskFails(c)

ViewerSpec == ViewerInit /\ [][ViewerNext]_viewerVars

-----------------------------------------------------------------------------
(* A viewer that is shown or stored is one person: the picture is of who is *)
(* named, though the store is shared by every account that signs in here    *)
(* and written by every control of every tab; and a control that was        *)
(* answered names the person of the session it asked with.                  *)
OnePerson ==
    /\ \A viewer \in {browser.stored} \cup {control[c].shows : c \in Controls} :
          viewer.kind = "viewer" => viewer.data \in {NoPicture, PictureOf[viewer.who]}
    /\ \A c \in Controls :
          control[c].step = "done" /\ control[c].shows.kind = "viewer" =>
             control[c].asked = control[c].from /\ control[c].shows.who = owner[control[c].asked]

(* docs/exceptions.md:729, "Anonymous visitors see no account control at    *)
(* all": a document loaded without a session cookie is first painted        *)
(* without one.                                                             *)
AnonymousSeeNoControl ==
    \A tab \in Tabs : page[tab].from = 0 => page[tab].paint = "absent"
=============================================================================
