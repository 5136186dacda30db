----------------------------- MODULE WebProofs ------------------------------
(***************************************************************************)
(* What the site does with the API, for any tabs, people and corpora: the  *)
(* header, the search page and the menus of its filters, the reading       *)
(* settings, the random poem, the account pages and the pages that are     *)
(* rendered.  The sections are independent of one another.                 *)
(***************************************************************************)
EXTENDS Viewer, SearchPage, FilterSelect, Settings, RandomPoem, AccountPages, SitePages, DataLemmas,
        SequenceTheorems

-----------------------------------------------------------------------------
(***************************************************************************)
(* The header names one person, for any tabs, controls, people and         *)
(* pictures.  The invariant adds what the picture in the store needs to be *)
(* reused safely: its URL is that of who is named (Genuine), and an answer *)
(* is of the session the control asked with, or of nobody (ControlOk).     *)
(***************************************************************************)

Pictures == {NoPicture} \cup {PictureOf[p] : p \in People}

Viewers ==
    [kind : {"viewer"}, who : People, url : Pictures, data : Pictures, failed : BOOLEAN]

ControlType ==
    [step : {"unloaded", "asking", "answered", "encoding", "done", "failed"},
     asked : Nat, from : Nat,
     shows : {[kind |-> "pending"], [kind |-> "anonymous"], [kind |-> "loading"]} \cup Viewers]

BrowserType == [session : Nat, hint : BOOLEAN, stored : {NoViewer} \cup Viewers]

Genuine(v) ==
    v.kind = "viewer" => v.url = PictureOf[v.who] /\ v.data \in {NoPicture, PictureOf[v.who]}

BrowserOk(b) == b \in BrowserType /\ b.session \in 0..Len(owner) /\ Genuine(b.stored)

ControlOk(r) ==
    /\ r \in ControlType /\ Genuine(r.shows)
    /\ r.asked \in 0..Len(owner) /\ r.from \in {0, r.asked}
    /\ r.step = "encoding" => r.from # 0
    /\ r.step = "done" /\ r.shows.kind = "viewer" => r.from # 0 /\ r.shows.who = owner[r.from]

ViewerInv ==
    /\ owner \in Seq(People) /\ BrowserOk(browser)
    /\ control \in [Controls -> ControlType]
    /\ \A c \in Controls : ControlOk(control[c])

(* What a person's viewer is, wherever it comes from.                      *)
LEMMA SomeoneIsGenuine ==
    ASSUME NEW person \in People, NEW data \in {NoPicture, PictureOf[person]},
           NEW failed \in BOOLEAN
    PROVE  LET v == Someone(person, data, failed)
           IN  v \in Viewers /\ Genuine(v) /\ v.kind = "viewer" /\ v.who = person
  BY DEF Someone, Viewers, Pictures, Genuine

(* A new control is sound, also when a session was begun meanwhile.         *)
LEMMA BlankIsOk == ASSUME ViewerInv PROVE ControlOk(Blank)
  BY DEF ControlOk, ControlType, Blank, Genuine, ViewerInv

LEMMA ViewerInitHolds == ViewerInit => ViewerInv
  BY DEF ViewerInit, ViewerInv, BrowserOk, BrowserType, ControlOk, ControlType, Genuine, NoViewer,
     Blank

(* One control changes, and perhaps the store.                              *)
LEMMA ControlChanges ==
    ASSUME ViewerInv, NEW c \in Controls, NEW r, ControlOk(r), NEW b, BrowserOk(b),
           control' = [control EXCEPT ![c] = r], browser' = b, owner' = owner
    PROVE  ViewerInv'
  <1>1. r \in ControlType
    BY DEF ControlOk
  <1>2. control' \in [Controls -> ControlType]
    BY <1>1 DEF ViewerInv
  <1>3. ASSUME NEW d \in Controls PROVE ControlOk(control[d])'
    <2>1. ControlOk(control'[d])
      BY DEF ViewerInv
    <2> QED
      BY <2>1 DEF ControlOk
  <1>4. BrowserOk(browser)'
    BY DEF BrowserOk
  <1> QED
    BY <1>2, <1>3, <1>4 DEF ViewerInv

(* A page is loaded; sessions only join the ones there are.                 *)
LEMMA LoadKeepsViewer ==
    ASSUME ViewerInv, NEW t \in Tabs, NEW b \in BrowserType, Loaded(t, b),
           owner' \in Seq(People), Len(owner) <= Len(owner'),
           \A i \in 1..Len(owner) : owner'[i] = owner[i],
           b.session \in 0..Len(owner'), Genuine(b.stored)
    PROVE  ViewerInv'
  <1>1. browser' = b /\ control' = [c \in Controls |-> IF c[1] = t THEN Blank ELSE control[c]]
    BY DEF Loaded
  <1>2. BrowserOk(browser)'
    BY <1>1 DEF BrowserOk
  <1>3. Len(owner) \in Nat /\ Len(owner') \in Nat
    BY DEF ViewerInv
  <1>4. ASSUME NEW c \in Controls PROVE ControlOk(control[c])'
    <2>1. ControlOk(control'[c])
      BY <1>1, BlankIsOk DEF ViewerInv
    <2>2. /\ control'[c] \in ControlType /\ Genuine(control'[c].shows)
          /\ control'[c].asked \in 0..Len(owner) /\ control'[c].from \in {0, control'[c].asked}
          /\ control'[c].step = "encoding" => control'[c].from # 0
          /\ control'[c].step = "done" /\ control'[c].shows.kind = "viewer" =>
                control'[c].from # 0 /\ control'[c].shows.who = owner[control'[c].from]
      BY <2>1 DEF ControlOk
    <2>3. control'[c].asked \in 0..Len(owner')
      BY <1>3, <2>2
    <2>4. control'[c].from # 0 => owner'[control'[c].from] = owner[control'[c].from]
      BY <1>3, <2>2
    <2> QED
      BY <2>2, <2>3, <2>4 DEF ControlOk
  <1>5. control' \in [Controls -> ControlType]
    BY <1>1, BlankIsOk DEF ViewerInv, ControlOk
  <1> QED
    BY <1>2, <1>4, <1>5 DEF ViewerInv

(* Pages and sessions.                                                     *)

LEMMA NavigateKeepsViewer == ASSUME ViewerInv, NEW t \in Tabs, Navigate(t) PROVE ViewerInv'
  <1>1. Loaded(t, browser) /\ owner' = owner
    BY DEF Navigate
  <1>2. PICK b \in BrowserType : b = browser
    BY DEF ViewerInv, BrowserOk
  <1>3. b.session \in 0..Len(owner') /\ Genuine(b.stored) /\ Loaded(t, b)
    BY <1>1, <1>2 DEF ViewerInv, BrowserOk
  <1>4. owner' \in Seq(People) /\ Len(owner) <= Len(owner')
    BY <1>1 DEF ViewerInv
  <1> QED
    BY <1>1, <1>3, <1>4, LoadKeepsViewer

LEMMA SignInKeeps ==
    ASSUME ViewerInv, NEW t \in Tabs, NEW person \in People, SignIn(t, person)
    PROVE  ViewerInv'
  <1>1. PICK b : b = [browser EXCEPT !.session = Len(owner) + 1, !.hint = TRUE]
    OBVIOUS
  <1>2. Loaded(t, b) /\ owner' = Append(owner, person)
    BY <1>1 DEF SignIn
  <1>3. /\ owner' \in Seq(People) /\ Len(owner') = Len(owner) + 1 /\ Len(owner) \in Nat
        /\ \A i \in 1..Len(owner) : owner'[i] = owner[i]
    BY <1>2 DEF ViewerInv
  <1>4. b \in BrowserType /\ b.session = Len(owner) + 1 /\ b.stored = browser.stored
    <2>1. Len(owner) + 1 \in Nat /\ browser \in BrowserType
      BY <1>3 DEF ViewerInv, BrowserOk
    <2>2. b = [session |-> Len(owner) + 1, hint |-> TRUE, stored |-> browser.stored]
      BY <1>1, <2>1 DEF BrowserType
    <2> QED
      BY <2>1, <2>2 DEF BrowserType
  <1>5. b.session \in 0..Len(owner') /\ Genuine(b.stored) /\ Len(owner) <= Len(owner')
    BY <1>3, <1>4 DEF ViewerInv, BrowserOk
  <1> QED
    BY <1>2, <1>3, <1>4, <1>5, LoadKeepsViewer

LEMMA LogoutLandsKeeps == ASSUME ViewerInv, NEW t \in Tabs, LogoutLands(t) PROVE ViewerInv'
  <1>1. PICK b : b = [browser EXCEPT !.session = 0, !.hint = FALSE]
    OBVIOUS
  <1>2. Loaded(t, b) /\ owner' = owner
    BY <1>1 DEF LogoutLands
  <1>3. b \in BrowserType /\ b.session = 0 /\ b.stored = browser.stored
    BY <1>1 DEF ViewerInv, BrowserOk, BrowserType
  <1>4. owner' \in Seq(People) /\ Len(owner) <= Len(owner') /\ 0 \in 0..Len(owner')
    BY <1>2 DEF ViewerInv
  <1>5. b.session \in 0..Len(owner') /\ Genuine(b.stored)
    BY <1>3, <1>4 DEF ViewerInv, BrowserOk
  <1> QED
    BY <1>2, <1>3, <1>4, <1>5, LoadKeepsViewer

LEMMA NothingChanges ==
    ASSUME ViewerInv, UNCHANGED <<owner, browser, control>> PROVE ViewerInv'
  BY DEF ViewerInv, BrowserOk, ControlOk

(* Steps of a control.                                                     *)

LEMMA MountKeeps == ASSUME ViewerInv, NEW c \in Controls, Mount(c) PROVE ViewerInv'
  <1>1. PICK r : r = [step |-> "asking", asked |-> browser.session, from |-> 0,
                      shows |-> Snapshot]
    OBVIOUS
  <1>2. control' = [control EXCEPT ![c] = r] /\ browser' = browser /\ owner' = owner
    BY <1>1 DEF Mount
  <1>3. /\ Snapshot \in {[kind |-> "anonymous"], [kind |-> "loading"]} \cup Viewers
        /\ Genuine(Snapshot)
    BY DEF Snapshot, ViewerInv, BrowserOk, BrowserType, Genuine, NoViewer
  <1>4. browser.session \in Nat /\ browser.session \in 0..Len(owner)
    BY DEF ViewerInv, BrowserOk, BrowserType
  <1>5. ControlOk(r)
    BY <1>1, <1>3, <1>4 DEF ControlOk, ControlType
  <1>6. PICK b : b = browser
    OBVIOUS
  <1> QED
    BY <1>2, <1>5, <1>6, ControlChanges DEF ViewerInv

LEMMA MeAnswersKeeps == ASSUME ViewerInv, NEW c \in Controls, MeAnswers(c) PROVE ViewerInv'
  <1>1. PICK reply \in {0, control[c].asked} :
           control' = [control EXCEPT ![c].step = "answered", ![c].from = reply]
    BY DEF MeAnswers
  <1>2. PICK r : r = [control[c] EXCEPT !.step = "answered", !.from = reply]
    OBVIOUS
  <1>3. control[c] \in ControlType /\ ControlOk(control[c])
    BY DEF ViewerInv
  <1>4. control' = [control EXCEPT ![c] = r] /\ browser' = browser /\ owner' = owner
    BY <1>1, <1>2 DEF MeAnswers, ViewerInv
  <1>5. ControlOk(r)
    <2>1. r = [step |-> "answered", asked |-> control[c].asked, from |-> reply,
               shows |-> control[c].shows]
      BY <1>2, <1>3 DEF ControlType
    <2>2. control[c].step = "asking" /\ control[c].asked \in Nat
      BY <1>3 DEF MeAnswers, ControlType
    <2>3. r.step = "answered" /\ r.asked = control[c].asked /\ r.from = reply
          /\ r.shows = control[c].shows
      BY <2>1
    <2>4. r \in ControlType
      BY <1>3, <2>1, <2>2 DEF ControlType
    <2> QED
      BY <1>3, <2>3, <2>4 DEF ControlOk
  <1>6. PICK b : b = browser
    OBVIOUS
  <1> QED
    BY <1>4, <1>5, <1>6, ControlChanges DEF ViewerInv

LEMMA AskFailsKeeps == ASSUME ViewerInv, NEW c \in Controls, AskFails(c) PROVE ViewerInv'
  <1>1. PICK r : r = [control[c] EXCEPT !.step = "failed",
                         !.shows = IF browser.hint THEN @ ELSE [kind |-> "anonymous"]]
    OBVIOUS
  <1>2. control[c] \in ControlType /\ ControlOk(control[c])
    BY DEF ViewerInv
  <1>3. control' = [control EXCEPT ![c] = r] /\ browser' = browser /\ owner' = owner
    BY <1>1 DEF AskFails, ViewerInv
  <1>4. ControlOk(r)
    BY <1>1, <1>2 DEF ControlOk, ControlType, Genuine
  <1>5. PICK b : b = browser
    OBVIOUS
  <1> QED
    BY <1>3, <1>4, <1>5, ControlChanges DEF ViewerInv

(* A control is told who it is, or that it is nobody.                      *)
LEMMA SettleKeeps ==
    ASSUME ViewerInv, NEW c \in Controls, NEW b, BrowserOk(b), owner' = owner,
           NEW viewer, viewer = NoViewer \/
               /\ viewer \in Viewers /\ Genuine(viewer) /\ control[c].from # 0
               /\ viewer.who = owner[control[c].from],
           Settle(c, viewer, b)
    PROVE  ViewerInv'
  <1>1. PICK shows : shows = IF viewer = NoViewer THEN [kind |-> "anonymous"] ELSE viewer
    OBVIOUS
  <1>2. PICK r : r = [control[c] EXCEPT !.step = "done", !.shows = shows]
    OBVIOUS
  <1>3. PICK d : d = [b EXCEPT !.stored = viewer]
    OBVIOUS
  <1>4. control[c] \in ControlType /\ ControlOk(control[c])
    BY DEF ViewerInv
  <1>5. control' = [control EXCEPT ![c] = r] /\ browser' = d
    BY <1>1, <1>2, <1>3 DEF Settle, ViewerInv
  <1>6. /\ shows \in {[kind |-> "anonymous"]} \cup Viewers /\ Genuine(shows)
        /\ shows.kind = "viewer" => control[c].from # 0 /\ shows.who = owner[control[c].from]
    BY <1>1 DEF Genuine
  <1>7. ControlOk(r)
    BY <1>2, <1>4, <1>6 DEF ControlOk, ControlType
  <1>8. BrowserOk(d)
    BY <1>3 DEF BrowserOk, BrowserType, Genuine, NoViewer
  <1> QED
    BY <1>5, <1>7, <1>8, ControlChanges

(* The person of an answer that is not nobody.                             *)
LEMMA AnswerIsOfAPerson ==
    ASSUME ViewerInv, NEW c \in Controls, control[c].from # 0
    PROVE  owner[control[c].from] \in People
  <1>1. control[c].from \in 1..Len(owner)
    BY DEF ViewerInv, ControlOk, ControlType
  <1> QED
    BY <1>1 DEF ViewerInv

LEMMA EncodedKeeps == ASSUME ViewerInv, NEW c \in Controls, Encoded(c) PROVE ViewerInv'
  <1>1. control[c].step = "encoding" /\ control[c].from # 0 /\ owner' = owner
    BY DEF Encoded, ViewerInv, ControlOk
  <1>2. PICK person \in People : person = owner[control[c].from]
    BY <1>1, AnswerIsOfAPerson
  <1>3. PICK data \in {PictureOf[person], NoPicture} :
           Settle(c, Someone(person, data, data = NoPicture), browser)
    BY <1>2 DEF Encoded
  <1>4. PICK failed \in BOOLEAN : failed = (data = NoPicture)
    OBVIOUS
  <1>5. PICK viewer : viewer = Someone(person, data, failed)
    OBVIOUS
  <1>6. viewer \in Viewers /\ Genuine(viewer) /\ viewer.who = person
    BY <1>5, SomeoneIsGenuine
  <1>7. PICK b : b = browser
    OBVIOUS
  <1>8. Settle(c, viewer, b) /\ BrowserOk(b)
    BY <1>3, <1>4, <1>5, <1>7 DEF ViewerInv
  <1> QED
    BY <1>1, <1>2, <1>6, <1>8, SettleKeeps

LEMMA AnswerArrivesKeeps == ASSUME ViewerInv, NEW c \in Controls, AnswerArrives(c) PROVE ViewerInv'
  <1>1. PICK signedIn \in BOOLEAN : signedIn = (control[c].from # 0)
    OBVIOUS
  <1>2. PICK b : b = Synced(browser, signedIn)
    OBVIOUS
  <1>3. BrowserOk(b) /\ b.stored = browser.stored
    BY <1>2 DEF Synced, ViewerInv, BrowserOk, BrowserType
  <1>4. PICK person : person = owner[control[c].from]
    OBVIOUS
  <1>5. control[c].step = "answered" /\ owner' = owner
    BY DEF AnswerArrives
  <1>6. signedIn => person \in People
    BY <1>1, <1>4, AnswerIsOfAPerson
  <1>7. \/ ~signedIn /\ Settle(c, NoViewer, b)
        \/ signedIn /\ PictureOf[person] = NoPicture
           /\ Settle(c, Someone(person, NoPicture, FALSE), b)
        \/ signedIn /\ \E recent \in BOOLEAN :
              /\ Reusable(browser.stored, person, recent)
              /\ Settle(c, Someone(person, browser.stored.data, browser.stored.failed), b)
        \/ signedIn /\ control' = [control EXCEPT ![c].step = "encoding"] /\ browser' = b
    BY <1>1, <1>2, <1>4 DEF AnswerArrives
  <1>8. ASSUME NEW data \in {NoPicture, PictureOf[person]}, NEW failed \in BOOLEAN, signedIn,
               Settle(c, Someone(person, data, failed), b)
        PROVE  ViewerInv'
    <2>1. PICK viewer : viewer = Someone(person, data, failed)
      OBVIOUS
    <2>2. viewer \in Viewers /\ Genuine(viewer) /\ viewer.who = person
      BY <1>6, <1>8, <2>1, SomeoneIsGenuine
    <2>3. control[c].from # 0 /\ viewer.who = owner[control[c].from] /\ Settle(c, viewer, b)
      BY <1>1, <1>4, <1>8, <2>1, <2>2
    <2> QED
      BY <1>3, <1>5, <2>2, <2>3, SettleKeeps
  <1>9. CASE ~signedIn /\ Settle(c, NoViewer, b)
    <2>1. PICK viewer : viewer = NoViewer
      OBVIOUS
    <2>2. Settle(c, viewer, b)
      BY <1>9, <2>1
    <2> QED
      BY <1>3, <1>5, <2>1, <2>2, SettleKeeps
  <1>10. CASE signedIn /\ PictureOf[person] = NoPicture
              /\ Settle(c, Someone(person, NoPicture, FALSE), b)
    BY <1>8, <1>10
  <1>11. CASE signedIn /\ \E recent \in BOOLEAN :
               /\ Reusable(browser.stored, person, recent)
               /\ Settle(c, Someone(person, browser.stored.data, browser.stored.failed), b)
    <2>1. browser.stored \in Viewers /\ browser.stored.url = PictureOf[person]
      BY <1>11 DEF Reusable, ViewerInv, BrowserOk, BrowserType
    <2>2. PICK data \in {NoPicture, PictureOf[person]} : data = browser.stored.data
      BY <2>1 DEF ViewerInv, BrowserOk, Genuine, Viewers
    <2>3. PICK failed \in BOOLEAN : failed = browser.stored.failed
      BY <2>1 DEF Viewers
    <2>4. Settle(c, Someone(person, data, failed), b)
      BY <1>11, <2>2, <2>3
    <2> QED
      BY <1>8, <1>11, <2>4
  <1>12. CASE signedIn /\ control' = [control EXCEPT ![c].step = "encoding"] /\ browser' = b
    <2>1. PICK r : r = [control[c] EXCEPT !.step = "encoding"]
      OBVIOUS
    <2>2. control[c] \in ControlType /\ ControlOk(control[c])
      BY DEF ViewerInv
    <2>3. ControlOk(r)
      BY <1>1, <1>12, <2>1, <2>2 DEF ControlOk, ControlType
    <2>4. control' = [control EXCEPT ![c] = r]
      BY <1>12, <2>1 DEF ViewerInv
    <2> QED
      BY <1>3, <1>5, <1>12, <2>3, <2>4, ControlChanges
  <1> QED
    BY <1>7, <1>9, <1>10, <1>11, <1>12

LEMMA ViewerStepKeeps == ASSUME ViewerInv, [ViewerNext]_viewerVars PROVE ViewerInv'
  <1>1. ASSUME NEW t \in Tabs, PostLogout(t) PROVE ViewerInv'
    BY <1>1, NothingChanges DEF PostLogout
  <1>2. CASE UNCHANGED viewerVars
    BY <1>2, NothingChanges DEF viewerVars
  <1>3. CASE ViewerNext
    BY <1>1, <1>3, NavigateKeepsViewer, SignInKeeps, LogoutLandsKeeps, MountKeeps, MeAnswersKeeps,
       AnswerArrivesKeeps, EncodedKeeps, AskFailsKeeps DEF ViewerNext
  <1> QED
    BY <1>2, <1>3

LEMMA OneByInv == ASSUME ViewerInv PROVE OnePerson
  <1>1. Genuine(browser.stored) /\ \A c \in Controls : Genuine(control[c].shows)
    BY DEF ViewerInv, BrowserOk, ControlOk
  <1>2. \A c \in Controls : control[c].step = "done" /\ control[c].shows.kind = "viewer" =>
           control[c].asked = control[c].from /\ control[c].shows.who = owner[control[c].asked]
    BY DEF ViewerInv, ControlOk
  <1> QED
    BY <1>1, <1>2 DEF OnePerson, Genuine

(* The header and the store name one person with that person's picture, and *)
(* a control that was answered names the person of the session it asked     *)
(* with, however many tabs and accounts share the browser                   *)
(* (account-control.tsx).                                                   *)
THEOREM HeaderNamesOnePerson == ViewerSpec => []OnePerson
  <1>1. ViewerInit => ViewerInv
    BY ViewerInitHolds
  <1>2. ViewerInv /\ [ViewerNext]_viewerVars => ViewerInv'
    BY ViewerStepKeeps
  <1>3. ViewerInv => OnePerson
    BY OneByInv
  <1> QED
    BY <1>1, <1>2, <1>3, PTL DEF ViewerSpec

-----------------------------------------------------------------------------
(***************************************************************************)
(* The search page shows what was asked for: an entry of the query cache   *)
(* holds pages one, two, three of its own key, and so does the fetch on its*)
(* way, whatever is typed, chosen, turned or tried again meanwhile.        *)
(***************************************************************************)

AskedPages(key) == {pages \in Seq([asked : {key}, page : Nat, total : Totals]) :
                       \A i \in 1..Len(pages) : pages[i].page = i}
EntryRecords(key) == [status : {"pending", "success", "error"}, pages : AskedPages(key),
                      busy : {"no", "first", "next", "again"}, got : AskedPages(key),
                      fails : Int, muted : BOOLEAN, input : {<<>>, key}]
EntriesFor(key) == {entry \in EntryRecords(key) :
                       /\ entry.busy # "no" => entry.input = key
                       /\ entry.status = "success" => entry.pages # <<>>
                       /\ entry.busy = "next" => hasMore(entry.pages)
                       /\ entry.busy = "first" => entry.got = <<>>
                       /\ entry.busy = "again" /\ entry.got # <<>> => hasMore(entry.got)}
CacheInv ==
    /\ \A s \in Sections : Key(url, s) \in DOMAIN cache
    /\ \A key \in DOMAIN cache : cache[key] \in EntriesFor(key)

LEMMA NoPages == ASSUME NEW key PROVE <<>> \in AskedPages(key)
BY EmptySeq DEF AskedPages

LEMMA NewEntryIs == ASSUME NEW key PROVE NewEntry \in EntriesFor(key)
<1>1. <<>> \in AskedPages(key)
  BY NoPages
<1>2. QED
  BY <1>1 DEF NewEntry, EntriesFor, EntryRecords

LEMMA SectionOfKey == ASSUME NEW u, NEW s \in Sections PROVE Key(u, s).type = s
BY DEF Key, searchQueryKey, Input, Sections, Filters

LEMMA FetchingIs ==
    ASSUME NEW key, NEW entry \in EntriesFor(key), NEW mode \in {"first", "next", "again"},
           mode = "next" => hasMore(entry.pages)
    PROVE  Fetching(entry, mode, key) \in EntriesFor(key)
<1>1. <<>> \in AskedPages(key)
  BY NoPages
<1>2. QED
  BY <1>1 DEF Fetching, EntriesFor, EntryRecords

\* Muted or not, an entry is what it was.
LEMMA MutedIs ==
    ASSUME NEW key, NEW entry \in EntriesFor(key), NEW muted \in BOOLEAN
    PROVE  [entry EXCEPT !.muted = muted] \in EntriesFor(key)
BY DEF EntriesFor, EntryRecords

LEMMA ObserveIs ==
    ASSUME NEW u, NEW changed, NEW entries,
           \A key \in DOMAIN entries : entries[key] \in EntriesFor(key)
    PROVE  LET seen == {Key(u, s) : s \in Sections} IN
           /\ DOMAIN Observe(u, changed, entries) = DOMAIN entries \cup seen
           /\ \A key \in DOMAIN entries \cup seen : Observe(u, changed, entries)[key] \in EntriesFor(key)
<1> DEFINE seen == {Key(u, s) : s \in Sections}
           Known(key) == IF key \in DOMAIN entries THEN entries[key] ELSE NewEntry
           Fetched(key) == IF Known(key).busy # "no" THEN [Known(key) EXCEPT !.muted = FALSE]
                           ELSE Fetching(Known(key), "first", Input(u, key.type))
           Seen(key) == IF key \notin seen THEN [Known(key) EXCEPT !.muted = TRUE]
                        ELSE IF key.type \in changed /\ CanSearch(u, key.type) /\ Known(key).pages = <<>>
                        THEN Fetched(key) ELSE Known(key)
<1>1. Observe(u, changed, entries) = [key \in DOMAIN entries \cup seen |-> Seen(key)]
  BY DEF Observe
<1>2. ASSUME NEW key \in DOMAIN entries \cup seen PROVE Seen(key) \in EntriesFor(key)
  <2> DEFINE known == Known(key)
  <2>1. known \in EntriesFor(key)
    BY NewEntryIs
  <2>2. key \in seen => Input(u, key.type) = key
    <3>1. SUFFICES ASSUME NEW s \in Sections, key = Key(u, s) PROVE Input(u, key.type) = key
      OBVIOUS
    <3>2. key.type = s
      BY <3>1, SectionOfKey
    <3>3. QED
      BY <3>1, <3>2 DEF Key, searchQueryKey
  <2> HIDE DEF known, seen
  <2>3. [known EXCEPT !.muted = TRUE] \in EntriesFor(key) /\ [known EXCEPT !.muted = FALSE] \in EntriesFor(key)
    BY <2>1, MutedIs
  <2>4. key \in seen => Fetching(known, "first", Input(u, key.type)) \in EntriesFor(key)
    BY <2>1, <2>2, FetchingIs
  <2>5. QED
    BY <2>1, <2>3, <2>4 DEF known
<1> HIDE DEF Seen, seen
<1>3. QED
  BY <1>1, <1>2 DEF seen

LEMMA CacheStart == SearchPageInit => CacheInv
<1>1. SUFFICES ASSUME cache = Observe(url, Sections, <<>>) PROVE CacheInv
  BY DEF SearchPageInit
<1>2. DOMAIN <<>> = {}
  OBVIOUS
<1>3. \A key \in DOMAIN <<>> : <<>>[key] \in EntriesFor(key)
  BY <1>2
<1> DEFINE seen == {Key(url, s) : s \in Sections}
<1> DEFINE none == <<>>
           observed == Observe(url, Sections, none)
<1>4. DOMAIN none = {} /\ \A key \in DOMAIN none : none[key] \in EntriesFor(key)
  BY <1>2, <1>3
<1> HIDE DEF none
<1>5. /\ DOMAIN observed = DOMAIN none \cup seen
      /\ \A key \in DOMAIN none \cup seen : observed[key] \in EntriesFor(key)
  BY <1>4, ObserveIs
<1>6. cache = observed
  BY <1>1 DEF none
<1> HIDE DEF observed
<1>7. DOMAIN cache = seen /\ \A key \in seen : cache[key] \in EntriesFor(key)
  BY <1>4, <1>5, <1>6
<1>8. QED
  BY <1>7 DEF CacheInv

\* What the URL and the cache become says if the invariant holds of them.
LEMMA CacheBecomes ==
    ASSUME NEW url2, NEW after, url' = url2, cache' = after,
           \A s \in Sections : Key(url2, s) \in DOMAIN after,
           \A key \in DOMAIN after : after[key] \in EntriesFor(key)
    PROVE  CacheInv'
<1>1. \A s \in Sections : Key(url', s) \in DOMAIN cache'
  OBVIOUS
<1>2. \A key \in DOMAIN cache' : cache'[key] \in EntriesFor(key)
  OBVIOUS
<1>3. (\A s \in Sections : Key(url, s) \in DOMAIN cache)'
  BY <1>1 DEF Key, searchQueryKey, Input, Selected, erasCustomized
<1>4. (\A key \in DOMAIN cache : cache[key] \in EntriesFor(key))'
  BY <1>2 DEF EntriesFor, EntryRecords, AskedPages
<1>5. QED
  BY <1>3, <1>4 DEF CacheInv

\* Looking at another URL leaves every entry what its key says.
LEMMA SetUrlKeeps == ASSUME CacheInv, NEW url2, SetUrl(url2) PROVE CacheInv'
<1>1. PICK changed : url' = url2 /\ cache' = Observe(url2, changed, cache)
  BY DEF SetUrl
<1>2. \A key \in DOMAIN cache : cache[key] \in EntriesFor(key)
  BY DEF CacheInv
<1> DEFINE seen == {Key(url2, s) : s \in Sections}
           observed == Observe(url2, changed, cache)
<1>3. DOMAIN observed = DOMAIN cache \cup seen
      /\ \A key \in DOMAIN cache \cup seen : observed[key] \in EntriesFor(key)
  BY <1>2, ObserveIs
<1> HIDE DEF observed
<1>4. \A s \in Sections : Key(url2, s) \in seen
  OBVIOUS
<1> HIDE DEF seen
<1>5. cache' = observed
  BY <1>1 DEF observed
<1>6. /\ \A s \in Sections : Key(url2, s) \in DOMAIN cache'
      /\ \A key \in DOMAIN cache' : cache'[key] \in EntriesFor(key)
  BY <1>3, <1>4, <1>5
<1>7. QED
  BY <1>1, <1>6, CacheBecomes

\* An entry that is replaced by one its key allows.
LEMMA EntryReplaced ==
    ASSUME CacheInv, NEW key \in DOMAIN cache, NEW entry \in EntriesFor(key),
           cache' = [cache EXCEPT ![key] = entry], url' = url
    PROVE  CacheInv'
<1> DEFINE after == [cache EXCEPT ![key] = entry]
<1>1. DOMAIN after = DOMAIN cache
  OBVIOUS
<1>2. \A other \in DOMAIN after : after[other] \in EntriesFor(other)
  BY DEF CacheInv
<1>3. \A s \in Sections : Key(url, s) \in DOMAIN after
  BY <1>1 DEF CacheInv
<1> HIDE DEF after
<1>4. cache' = after
  BY DEF after
<1>5. QED
  BY <1>2, <1>3, <1>4, CacheBecomes

LEMMA LoadMoreKeeps == ASSUME CacheInv, NEW s \in Sections, LoadMore(s) PROVE CacheInv'
<1> DEFINE key == Key(url, s)
<1>1. /\ key \in DOMAIN cache /\ cache[key] \in EntriesFor(key) /\ Input(url, s) = key
  BY DEF CacheInv, Key, searchQueryKey
<1>2. /\ hasMore(cache[key].pages) /\ url' = url
      /\ cache' = [cache EXCEPT ![key] = Fetching(cache[key], "next", Input(url, s))]
  BY DEF LoadMore, EntryOf
<1> HIDE DEF key
<1>3. Fetching(cache[key], "next", key) \in EntriesFor(key)
  BY <1>1, <1>2, FetchingIs
<1>4. QED
  BY <1>1, <1>2, <1>3, EntryReplaced

LEMMA RetryKeeps == ASSUME CacheInv, handleRetry PROVE CacheInv'
<1> DEFINE Refetched(entry, s) ==
               IF entry.pages # <<>> THEN Fetching(entry, "again", Input(url, s))
               ELSE IF entry.busy # "no" THEN [entry EXCEPT !.muted = FALSE]
               ELSE Fetching(entry, "first", Input(url, s))
           After(key) == IF Key(url, key.type) # key THEN cache[key] ELSE Refetched(cache[key], key.type)
           after == [key \in DOMAIN cache |-> After(key)]
<1>1. cache' = after /\ url' = url
  BY DEF handleRetry, Entries
<1>2. ASSUME NEW key \in DOMAIN cache PROVE After(key) \in EntriesFor(key)
  <2>1. cache[key] \in EntriesFor(key)
    BY DEF CacheInv
  <2>2. CASE Key(url, key.type) # key
    BY <2>1, <2>2
  <2>3. CASE Key(url, key.type) = key
    <3>1. Input(url, key.type) = key
      BY <2>3 DEF Key, searchQueryKey
    <3>2. /\ Fetching(cache[key], "again", key) \in EntriesFor(key)
          /\ Fetching(cache[key], "first", key) \in EntriesFor(key)
          /\ [cache[key] EXCEPT !.muted = FALSE] \in EntriesFor(key)
      BY <2>1, FetchingIs, MutedIs
    <3>3. QED
      BY <2>3, <3>1, <3>2
  <2>4. QED
    BY <2>2, <2>3
<1> HIDE DEF After
<1>3. DOMAIN after = DOMAIN cache /\ \A key \in DOMAIN after : after[key] \in EntriesFor(key)
  BY <1>2
<1>4. \A s \in Sections : Key(url, s) \in DOMAIN after
  BY <1>3 DEF CacheInv
<1> HIDE DEF after
<1>5. QED
  BY <1>1, <1>3, <1>4, CacheBecomes

\* The page that comes is the one after those there are.
LEMMA PageComes ==
    ASSUME NEW key, NEW pages \in AskedPages(key), NEW total \in Totals,
           NEW came, came = [asked |-> key, page |-> Len(pages) + 1, total |-> total]
    PROVE  Append(pages, came) \in AskedPages(key) /\ Append(pages, came) # <<>>
<1> DEFINE Page == [asked : {key}, page : Nat, total : Totals]
           after == Append(pages, came)
<1>1. pages \in Seq(Page) /\ \A i \in 1..Len(pages) : pages[i].page = i
  BY DEF AskedPages
<1>2. Len(pages) \in Nat
  BY <1>1, LenProperties
<1>3. came \in Page
  BY <1>2
<1> HIDE DEF Page
<1>4. /\ after \in Seq(Page) /\ Len(after) = Len(pages) + 1
      /\ \A i \in 1..Len(pages) : after[i] = pages[i]
      /\ after[Len(pages) + 1] = came /\ after # <<>>
  BY <1>1, <1>3, AppendProperties
<1> HIDE DEF after
<1>5. ASSUME NEW i \in 1..Len(after) PROVE after[i].page = i
  <2>1. i \in 1..Len(pages) \/ i = Len(pages) + 1
    BY <1>2, <1>4
  <2>2. QED
    BY <1>1, <1>4, <2>1
<1>6. QED
  BY <1>4, <1>5 DEF AskedPages, Page, after

LEMMA NextPage ==
    ASSUME NEW key, NEW pages \in AskedPages(key), pages # <<>>
    PROVE  getNextPageParam(pages) = Len(pages) + 1
<1>1. pages \in Seq([asked : {key}, page : Nat, total : Totals]) /\ \A i \in 1..Len(pages) : pages[i].page = i
  BY DEF AskedPages
<1>2. Len(pages) \in 1..Len(pages)
  BY <1>1, EmptySeq, LenProperties
<1>3. QED
  BY <1>1, <1>2 DEF getNextPageParam, Last

LEMMA RequestKeeps == ASSUME CacheInv, NEW key \in DOMAIN cache, RequestEnds(key) PROVE CacheInv'
<1> DEFINE entry == cache[key]
<1>1. entry \in EntriesFor(key) /\ url' = url /\ entry.busy # "no" /\ entry.input = key
  BY DEF CacheInv, RequestEnds, Requesting, EntriesFor
<1> HIDE DEF entry
<1>a. <<>> \in AskedPages(key)
  BY NoPages
<1>2. CASE Succeeds(key)
  <2>1. PICK total \in Totals :
          LET came == [asked |-> entry.input, page |-> PageAsked(entry), total |-> total]
              got == IF entry.busy = "next" THEN Append(entry.pages, came) ELSE Append(entry.got, came)
              done == entry.busy = "again" => Len(got) = Len(entry.pages) \/ ~hasMore(got)
          IN  cache' = [cache EXCEPT ![key] =
                IF done THEN [entry EXCEPT !.pages = got, !.got = <<>>, !.busy = "no", !.status = "success"]
                ELSE [entry EXCEPT !.got = got]]
    BY <1>2, Zenon DEF Succeeds, entry
  <2> DEFINE came == [asked |-> entry.input, page |-> PageAsked(entry), total |-> total]
             before == IF entry.busy = "next" THEN entry.pages ELSE entry.got
             got == IF entry.busy = "next" THEN Append(entry.pages, came) ELSE Append(entry.got, came)
             done == entry.busy = "again" => Len(got) = Len(entry.pages) \/ ~hasMore(got)
             after == IF done
                      THEN [entry EXCEPT !.pages = got, !.got = <<>>, !.busy = "no", !.status = "success"]
                      ELSE [entry EXCEPT !.got = got]
  <2>2. cache' = [cache EXCEPT ![key] = after]
    BY <2>1
  <2>3. before \in AskedPages(key) /\ PageAsked(entry) = Len(before) + 1
    <3>1. entry.pages \in AskedPages(key) /\ entry.got \in AskedPages(key)
      BY <1>1 DEF EntriesFor, EntryRecords
    <3>2. before \in AskedPages(key)
      BY <3>1
    <3>3. CASE entry.busy = "next"
      BY <1>1, <3>1, <3>3, NextPage DEF PageAsked, EntriesFor, hasMore
    <3>4. CASE entry.busy = "again" /\ entry.got # <<>>
      BY <1>1, <3>1, <3>4, NextPage DEF PageAsked
    <3>5. CASE entry.busy # "next" /\ entry.got = <<>>
      <4>1. PageAsked(entry) = 1 /\ before = <<>>
        BY <3>5 DEF PageAsked
      <4>2. Len(<<>>) = 0
        OBVIOUS
      <4> HIDE DEF before
      <4>3. QED
        BY <3>2, <4>1, <4>2
    <3>6. \/ entry.busy = "next"
          \/ entry.busy = "again" /\ entry.got # <<>>
          \/ entry.busy # "next" /\ entry.got = <<>>
      BY <1>1 DEF EntriesFor, EntryRecords
    <3> HIDE DEF came, got, done, after
    <3>7. PageAsked(entry) = Len(before) + 1
      BY <3>3, <3>4, <3>5, <3>6
    <3>8. QED
      BY <3>2, <3>7
  <2>4. got = Append(before, came)
    OBVIOUS
  <2>5. came = [asked |-> key, page |-> Len(before) + 1, total |-> total]
    BY <1>1, <2>3
  <2> HIDE DEF came, before, got
  <2>6. got \in AskedPages(key) /\ got # <<>>
    BY <2>3, <2>4, <2>5, PageComes
  <2> HIDE DEF done
  <2>7. ~done => entry.busy = "again" /\ hasMore(got)
    BY DEF done
  <2>8. [entry EXCEPT !.pages = got, !.got = <<>>, !.busy = "no", !.status = "success"] \in EntriesFor(key)
    BY <1>1, <1>a, <2>6 DEF EntriesFor, EntryRecords
  <2>9. ~done => [entry EXCEPT !.got = got] \in EntriesFor(key)
    BY <1>1, <2>6, <2>7 DEF EntriesFor, EntryRecords
  <2>10. after \in EntriesFor(key)
    BY <2>8, <2>9
  <2> HIDE DEF after
  <2>11. QED
    BY <1>1, <2>2, <2>10, EntryReplaced
<1>3. CASE \E network \in BOOLEAN : Fails(key, network)
  <2>1. PICK network \in BOOLEAN : Fails(key, network)
    BY <1>3
  <2> DEFINE fails == IF entry.fails <= NetworkRetries + OtherRetries THEN entry.fails + 1 ELSE entry.fails
             after == IF MayRetryAgain(entry, network) THEN [entry EXCEPT !.fails = fails, !.got = <<>>]
                      ELSE [entry EXCEPT !.busy = "no", !.got = <<>>, !.status = "error"]
  <2>2. cache' = [cache EXCEPT ![key] = after]
    BY <2>1 DEF Fails, entry
  <2>3. fails \in Int
    BY <1>1 DEF EntriesFor, EntryRecords
  <2> HIDE DEF fails
  <2>4. [entry EXCEPT !.fails = fails, !.got = <<>>] \in EntriesFor(key)
    BY <1>1, <1>a, <2>3 DEF EntriesFor, EntryRecords
  <2>5. [entry EXCEPT !.busy = "no", !.got = <<>>, !.status = "error"] \in EntriesFor(key)
    BY <1>1, <1>a DEF EntriesFor, EntryRecords
  <2>6. after \in EntriesFor(key)
    BY <2>4, <2>5
  <2> HIDE DEF after
  <2>7. QED
    BY <1>1, <2>2, <2>6, EntryReplaced
<1>4. QED
  BY <1>2, <1>3 DEF RequestEnds

LEMMA CacheStep == CacheInv /\ [SearchPageNext]_searchVars => CacheInv'
<1>1. SUFFICES ASSUME CacheInv, [SearchPageNext]_searchVars PROVE CacheInv'
  OBVIOUS
<1>2. CASE UNCHANGED <<url, cache>>
  BY <1>1, <1>2, CacheBecomes DEF CacheInv
<1>3. CASE \E url2 : SetUrl(url2)
  BY <1>1, <1>3, SetUrlKeeps
<1>4. CASE \E s \in Sections : LoadMore(s)
  BY <1>1, <1>4, LoadMoreKeeps
<1>5. CASE handleRetry
  BY <1>1, <1>5, RetryKeeps
<1>6. CASE \E key \in Entries : RequestEnds(key)
  BY <1>1, <1>6, RequestKeeps DEF Entries
<1>7. CASE UserActs
  <2>1. CASE \E typed \in Typed : handleInputChange(typed.text, typed.foreign)
    BY <1>2, <2>1 DEF handleInputChange
  <2>2. CASE handleSearch
    BY <1>2, <1>3, <2>2 DEF handleSearch
  <2>3. CASE handleInputBlur
    BY <2>2, <2>3 DEF handleInputBlur
  <2>4. CASE handleClearInput \/ handleToggleFilters
    BY <1>2, <2>4 DEF handleClearInput, handleToggleFilters
  <2>5. CASE handleToggleExact \/ \E f : ClearFilter(f)
    BY <1>3, <2>5 DEF handleToggleExact, ClearFilter
  <2>6. CASE \E f, choice : ChooseFilter(f, choice)
    BY <1>3, <2>6 DEF ChooseFilter
  <2>7. QED
    BY <1>4, <1>5, <1>7, <2>1, <2>2, <2>3, <2>4, <2>5, <2>6 DEF UserActs, Act
<1>8. QED
  BY <1>1, <1>2, <1>6, <1>7 DEF SearchPageNext, searchVars

LEMMA CacheIsShown == CacheInv => ShownIsThisSearch
<1>1. SUFFICES ASSUME CacheInv, NEW s \in Sections, NEW i \in DOMAIN EntryOf(s).pages
               PROVE  EntryOf(s).pages[i].asked = Input(url, s) /\ EntryOf(s).pages[i].page = i
  BY DEF ShownIsThisSearch
<1> DEFINE key == Key(url, s)
           pages == EntryOf(s).pages
<1>2. pages \in AskedPages(key) /\ key = Input(url, s)
  BY <1>1 DEF CacheInv, EntryOf, EntriesFor, EntryRecords, Key, searchQueryKey
<1> HIDE DEF key, pages
<1>3. DOMAIN pages = 1..Len(pages) /\ pages \in Seq([asked : {key}, page : Nat, total : Totals])
      /\ \A j \in 1..Len(pages) : pages[j].page = j
  BY <1>2, LenProperties DEF AskedPages
<1>4. i \in 1..Len(pages)
  BY <1>1, <1>3 DEF pages
<1>5. pages[i] \in [asked : {key}, page : Nat, total : Totals]
  BY <1>3, <1>4, ElementOfSeq
<1>6. QED
  BY <1>2, <1>3, <1>4, <1>5 DEF pages

(* Whatever is typed, chosen, turned over and tried again, and whichever of *)
(* the requests are answered, late or never: a section shows the pages of   *)
(* the search the URL says, the first, the second and so on, once each.     *)
THEOREM ShownWasAskedFor == SearchPageSpec => []ShownIsThisSearch
<1>1. SearchPageSpec => []CacheInv
  BY CacheStart, CacheStep, PTL DEF SearchPageSpec
<1>2. QED
  BY <1>1, CacheIsShown, PTL

-----------------------------------------------------------------------------
(***************************************************************************)
(* The menu of a filter is right, for any options and any keys and clicks: *)
(* the choice is a list of options without repetitions, whether they are   *)
(* added one by one, dropped, or all at once, and a box that was pressed   *)
(* while its list was closed chooses nothing else.                         *)
(***************************************************************************)

Chosen == ListsOf(SelectOptions)
Selections == [value : Chosen, open : BOOLEAN, at : 1..Len(Listed), every : BOOLEAN, keys : Int]
SelectInv == select \in Selections

\* Filtering a list without repetitions leaves one, of what is not dropped.
LEMMA WithoutIs ==
    ASSUME NEW options, NEW list \in ListsOf(options), NEW dropped
    PROVE  /\ Without(list, dropped) \in ListsOf(options)
           /\ ToSet(Without(list, dropped)) = ToSet(list) \ dropped
           /\ ToSet(list) \cap dropped = {} => ToSet(Without(list, dropped)) = ToSet(list)
<1> DEFINE places == {i \in DOMAIN list : list[i] \notin dropped}
           some == ElementsAt(list, places)
<1> DEFINE S == ToSet(options)
<1>1. list \in Seq(S) /\ DOMAIN list = 1..Len(list)
      /\ \A i, j \in 1..Len(list) : list[i] = list[j] => i = j
  BY LenProperties DEF ListsOf
<1>2. places \in SUBSET (1..Len(list)) /\ \A i \in 1..Len(list) : i \in places <=> list[i] \notin dropped
  BY <1>1
<1> HIDE DEF places, S
<1>3. /\ some \in Seq(S) /\ DOMAIN some = 1..Len(some)
      /\ \A n \in 1..Len(some) : Nth(places, n) \in places /\ some[n] = list[Nth(places, n)]
      /\ \A m, n \in 1..Len(some) : Nth(places, m) = Nth(places, n) => m = n
      /\ \A i \in places : \E n \in 1..Len(some) : Nth(places, n) = i
  BY <1>1, <1>2, ElementsAre
<1>4. Without(list, dropped) = some
  BY DEF Without, places
<1> HIDE DEF some
<1>5. \A m, n \in 1..Len(some) : some[m] = some[n] => m = n
  BY <1>1, <1>2, <1>3
<1>6. ToSet(some) = ToSet(list) \ dropped
  <2>1. ASSUME NEW x \in ToSet(some) PROVE x \in ToSet(list) \ dropped
    <3>1. PICK n \in 1..Len(some) : x = some[n]
      BY <1>3 DEF ToSet
    <3> DEFINE i == Nth(places, n)
    <3>2. i \in places /\ x = list[i]
      BY <1>3, <3>1
    <3> HIDE DEF i
    <3>3. i \in 1..Len(list) /\ list[i] \notin dropped
      BY <1>2, <3>2
    <3>4. list[i] \in ToSet(list)
      BY <1>1, <3>3 DEF ToSet
    <3>5. QED
      BY <3>2, <3>3, <3>4
  <2>2. ASSUME NEW x \in ToSet(list) \ dropped PROVE x \in ToSet(some)
    <3>1. PICK i \in 1..Len(list) : x = list[i]
      BY <1>1 DEF ToSet
    <3>2. i \in places
      BY <1>2, <3>1
    <3>3. PICK n \in 1..Len(some) : Nth(places, n) = i
      BY <1>3, <3>2
    <3>4. some[n] = x
      BY <1>3, <3>1, <3>3
    <3>5. QED
      BY <1>3, <3>4 DEF ToSet
  <2>3. QED
    BY <2>1, <2>2
<1>7. some \in ListsOf(options)
  BY <1>3, <1>5 DEF ListsOf, S
<1>8. QED
  BY <1>4, <1>6, <1>7

\* An option that is turned leaves a list of options, each once.
LEMMA ToggledIs ==
    ASSUME NEW options, options \in ListsOf(options), NEW value \in ListsOf(options),
           NEW every, NEW option \in ToSet(options) \cup {AllOption}
    PROVE  toggleOption(value, options, every, option) \in ListsOf(options)
<1> DEFINE toggled == toggleOption(value, options, every, option)
<1>1. CASE option = AllOption
  <2>1. <<>> \in ListsOf(options)
    BY EmptySeq DEF ListsOf
  <2>2. QED
    BY <1>1, <2>1 DEF toggleOption
<1>2. CASE option # AllOption /\ option \in ToSet(value)
  BY <1>2, WithoutIs DEF toggleOption
<1>3. CASE option # AllOption /\ option \notin ToSet(value)
  <2>1. toggled = Append(value, option)
    BY <1>3 DEF toggleOption
  <2>2. /\ value \in Seq(ToSet(options)) /\ option \in ToSet(options)
        /\ DOMAIN value = 1..Len(value) /\ Len(value) \in Nat
        /\ \A i, j \in 1..Len(value) : value[i] = value[j] => i = j
    BY <1>3, LenProperties DEF ListsOf
  <2>3. \A i \in 1..Len(value) : value[i] # option
    BY <1>3, <2>2 DEF ToSet
  <2> HIDE DEF toggled
  <2>4. /\ toggled \in Seq(ToSet(options)) /\ Len(toggled) = Len(value) + 1
        /\ \A i \in 1..Len(value) : toggled[i] = value[i]
        /\ toggled[Len(value) + 1] = option
    BY <2>1, <2>2, AppendProperties
  <2>5. ASSUME NEW i \in 1..Len(toggled), NEW j \in 1..Len(toggled), toggled[i] = toggled[j]
        PROVE  i = j
    <3>1. (i \in 1..Len(value) \/ i = Len(value) + 1) /\ (j \in 1..Len(value) \/ j = Len(value) + 1)
      BY <2>2, <2>4
    <3>2. QED
      BY <2>2, <2>3, <2>4, <2>5, <3>1
  <2>6. toggled \in ListsOf(options)
    BY <2>4, <2>5 DEF ListsOf
  <2>7. QED
    BY <2>6 DEF toggled
<1>4. QED
  BY <1>1, <1>2, <1>3

LEMMA OptionsAreChosen == SelectOptions \in Chosen /\ <<>> \in Chosen
BY SelectConstants, EmptySeq DEF Chosen, ListsOf

LEMMA ListedIs ==
    /\ Len(Listed) \in Nat \ {0}
    /\ \A n \in 1..Len(Listed) : Listed[n] \in ToSet(SelectOptions) \cup {AllOption}
<1>1. /\ SelectOptions \in Seq(ToSet(SelectOptions) \cup {AllOption})
      /\ <<AllOption>> \in Seq(ToSet(SelectOptions) \cup {AllOption}) /\ Len(<<AllOption>>) = 1
  BY SelectConstants DEF ListsOf
<1>2. Listed \in Seq(ToSet(SelectOptions) \cup {AllOption}) /\ Len(Listed) = 1 + Len(SelectOptions)
  BY <1>1, ConcatProperties DEF Listed, Displayed
<1>3. Len(SelectOptions) \in Nat
  BY SelectConstants, LenProperties DEF ListsOf
<1>4. QED
  BY <1>2, <1>3, ElementOfSeq

\* Whatever option is chosen, the choice is a list of options without repetitions.
LEMMA ChooseIs ==
    ASSUME select \in Selections, NEW n \in 1..Len(Listed)
    PROVE  Choose(Listed[n]) \in Chosen
<1> DEFINE option == Listed[n]
           value == select.value
           toggled == toggleOption(value, SelectOptions, select.every, option)
<1>1. /\ value \in ListsOf(SelectOptions) /\ option \in ToSet(SelectOptions) \cup {AllOption}
      /\ SelectOptions \in ListsOf(SelectOptions)
  BY SelectConstants, ListedIs DEF Selections, Chosen
<1> HIDE DEF option, value
<1>2. toggled \in ListsOf(SelectOptions)
  BY <1>1, ToggledIs
<1> HIDE DEF toggled
<1>3. Choose(Listed[n]) = Without(toggled, Blanks)
  BY DEF Choose, joinCsvIds, splitCsvIds, toggled, option, value
<1>4. QED
  BY <1>2, <1>3, WithoutIs DEF Chosen

LEMMA SelectStart == SelectInit => SelectInv
<1>1. SUFFICES ASSUME NEW every \in EveryMode,
                      select = [value |-> <<>>, open |-> FALSE, at |-> 1, every |-> every, keys |-> 0]
               PROVE  select \in Selections
  BY DEF SelectInit, SelectInv
<1>2. 1 \in 1..Len(Listed) /\ every \in BOOLEAN
  BY ListedIs, SelectConstants
<1>3. QED
  BY <1>1, <1>2, OptionsAreChosen DEF Selections

LEMMA SelectStep == SelectInv /\ [SelectNext]_selectVars => SelectInv'
<1>1. SUFFICES ASSUME select \in Selections, [SelectNext]_selectVars PROVE select' \in Selections
  BY DEF SelectInv
<1> DEFINE L == Len(Listed)
<1>2. /\ select.value \in Chosen /\ select.at \in 1..L /\ select.keys + 1 \in Int
      /\ L \in Nat \ {0} /\ <<>> \in Chosen /\ DOMAIN Listed = 1..L
  <2>1. DOMAIN Listed = 1..L
    <3>1. SelectOptions \in Seq(ToSet(SelectOptions) \cup {AllOption})
      BY SelectConstants DEF ListsOf
    <3>2. Listed \in Seq(ToSet(SelectOptions) \cup {AllOption})
      BY <3>1 DEF Listed, Displayed
    <3>3. QED
      BY <3>2, LenProperties
  <2>2. QED
    BY <1>1, <2>1, ListedIs, OptionsAreChosen DEF Selections
<1>3. \A n \in 1..L : Choose(Listed[n]) \in Chosen
  BY <1>1, ChooseIs
<1>4. Below(select.at) \in 1..L /\ Above(select.at) \in 1..L
  <2>1. \A a \in Int : a % L \in 0..(L - 1)
    BY <1>2
  <2>2. select.at \in Int /\ select.at + (L - 2) \in Int
    BY <1>2
  <2>3. (select.at % L) \in 0..(L - 1) /\ ((select.at + (L - 2)) % L) \in 0..(L - 1)
    BY <2>1, <2>2
  <2> HIDE DEF L
  <2>4. \A a \in 0..(L - 1) : a + 1 \in 1..L
    BY <1>2
  <2>5. (select.at % L) + 1 \in 1..L /\ ((select.at + (L - 2)) % L) + 1 \in 1..L
    BY <2>3, <2>4
  <2>6. Below(select.at) = (select.at % L) + 1
    BY DEF Below, L
  <2>7. Above(select.at) = ((select.at + (L - 2)) % L) + 1
    BY DEF Above, L
  <2>8. QED
    BY <2>5, <2>6, <2>7
<1> HIDE DEF L
<1>5. CASE UNCHANGED selectVars
  BY <1>1, <1>5 DEF selectVars
<1>6. CASE ClickBox \/ ClickOutside \/ Escape
  BY <1>1, <1>2, <1>6 DEF ClickBox, ClickOutside, Escape, Selections
<1>7. CASE Clear
  BY <1>1, <1>2, <1>7 DEF Clear, Selections
<1>8. CASE Arrow(Below(select.at)) \/ Arrow(Above(select.at))
  BY <1>1, <1>2, <1>4, <1>8 DEF Arrow, Selections, L
<1>9. CASE PressElsewhere
  BY <1>1, <1>2, <1>3, <1>9 DEF PressElsewhere, Selections
<1>10. CASE \E n \in DOMAIN Listed : ClickOption(n) \/ Hover(n)
  <2>1. PICK n \in 1..L : ClickOption(n) \/ Hover(n)
    BY <1>2, <1>10
  <2>2. CASE ClickOption(n)
    BY <1>1, <1>2, <1>3, <2>2 DEF ClickOption, Selections, L
  <2>3. CASE Hover(n)
    BY <1>1, <1>2, <2>3 DEF Hover, Selections, L
  <2>4. QED
    BY <2>1, <2>2, <2>3
<1>11. CASE \E flushed \in BOOLEAN : Press(flushed)
  <2>1. PICK flushed \in BOOLEAN : Press(flushed)
    BY <1>11
  <2> DEFINE value == IF (IF flushed THEN ~select.open ELSE select.open)
                      THEN Choose(Listed[select.at]) ELSE select.value
  <2>2. value \in Chosen
    BY <1>2, <1>3
  <2>3. select' = [select EXCEPT !.open = ~@, !.keys = @ + 1, !.value = value]
    BY <2>1 DEF Press
  <2> HIDE DEF value
  <2>4. QED
    BY <1>1, <1>2, <2>2, <2>3 DEF Selections
<1>12. QED
  BY <1>1, <1>5, <1>6, <1>7, <1>8, <1>9, <1>10, <1>11 DEF SelectNext, Pressed

LEMMA SelectInvIsRight == SelectInv => MenuIsRight
<1>1. SUFFICES ASSUME select \in Selections PROVE MenuIsRight
  BY DEF SelectInv
<1> DEFINE value == select.value
<1>2. /\ value \in Seq(ToSet(SelectOptions)) /\ select.at \in 1..Len(Listed)
      /\ \A i, j \in 1..Len(value) : value[i] = value[j] => i = j
  BY <1>1 DEF Selections, Chosen, ListsOf
<1> HIDE DEF value
<1>3. HighlightOnTheList
  <2>1. SelectOptions \in Seq(ToSet(SelectOptions) \cup {AllOption})
    BY SelectConstants DEF ListsOf
  <2>2. Listed \in Seq(ToSet(SelectOptions) \cup {AllOption})
    BY <2>1 DEF Listed, Displayed
  <2>3. QED
    BY <1>2, <2>2, LenProperties DEF HighlightOnTheList
<1>4. /\ IsFiniteSet(ToSet(value)) /\ Len(value) = Cardinality(ToSet(value))
      /\ IsFiniteSet(ToSet(SelectOptions)) /\ Len(SelectOptions) = Cardinality(ToSet(SelectOptions))
  BY <1>2, SelectConstants, DistinctCount DEF ListsOf
<1>5. ToSet(value) \subseteq ToSet(SelectOptions)
  <2>1. DOMAIN value = 1..Len(value) /\ \A i \in 1..Len(value) : value[i] \in ToSet(SelectOptions)
    BY <1>2, LenProperties, ElementOfSeq
  <2>2. QED
    BY <2>1 DEF ToSet
<1>6. Len(value) = Len(SelectOptions) <=> ToSet(value) = ToSet(SelectOptions)
  BY <1>4, <1>5, FS_Subset
<1>7. QED
  BY <1>3, <1>4, <1>5, <1>6
     DEF MenuIsRight, ChosenAreOptions, AllMarkedRightly, isAllSelected, value

(* Whatever the options of a filter are and whatever the keyboard and the   *)
(* mouse do: the highlight is on the list, what is chosen are options, none *)
(* twice, and the entry for all of them is marked exactly when all are.     *)
THEOREM MenusAreRight == SelectSpec => []MenuIsRight
<1>1. SelectSpec => []SelectInv
  BY SelectStart, SelectStep, PTL DEF SelectSpec
<1>2. QED
  BY <1>1, SelectInvIsRight, PTL

-----------------------------------------------------------------------------
(***************************************************************************)
(* No request of the search page is one the API rejects, for any options,  *)
(* texts and totals.  What is written with the serializer is read back by  *)
(* the parser as it was (SentIsRead, EntryIs); an input of what the form   *)
(* lets through is accepted (GoodIsAccepted); and the invariant says that  *)
(* the URL, and every search the cache remembers, is one (OwnInv).         *)
(***************************************************************************)

\* What is sent of one parameter.
Sent(params, name) == IF name \in DOMAIN params THEN params[name] ELSE <<>>

LEMMA NamesAre ==
    /\ Len(NameOrder) = 12 /\ DOMAIN NameOrder = 1..12
    /\ \A m, n \in 1..12 : NameOrder[m] = NameOrder[n] => m = n
<1>1. Len(NameOrder) = 12 /\ DOMAIN NameOrder = 1..12
  BY DEF NameOrder
<1>2. /\ NameOrder[1] = "q" /\ NameOrder[2] = "types" /\ NameOrder[3] = "exact"
      /\ NameOrder[4] = "poemsPage" /\ NameOrder[5] = "poetsPage" /\ NameOrder[6] = "eraSlugs"
      /\ NameOrder[7] = "meterSlugs" /\ NameOrder[8] = "rhymeSlugs" /\ NameOrder[9] = "themeSlugs"
      /\ NameOrder[10] = "collectionSlugs" /\ NameOrder[11] = "poetSlugs" /\ NameOrder[12] = "extra"
  BY DEF NameOrder
<1>4. \A m, n \in 1..12 : NameOrder[m] = NameOrder[n] => m = n
  BY <1>2
<1> QED
  BY <1>1, <1>4

\* What the page sends of a list arrives as it is, and under its bare name only.
LEMMA SentIsRead ==
    ASSUME NEW V, NEW params, \A name \in DOMAIN params : params[name] \in Seq(V),
           NEW n \in 1..12
    PROVE  LET query == serializeQuery(params)
               name == NameOrder[n]
           IN  /\ Values(query, name, "bare") = Sent(params, name)
               /\ \A form : form # "bare" => Values(query, name, form) = <<>>
               /\ \A i \in DOMAIN query : query[i].form = "bare"
<1> DEFINE Names == {NameOrder[m] : m \in 1..12}
           T == [name : Names, form : {"bare"}, index : {0}, value : V]
           Part(x) == IF x \notin DOMAIN params THEN <<>>
                      ELSE [i \in DOMAIN params[x] |-> Bare(x, params[x][i])]
           parts == [m \in DOMAIN NameOrder |-> Part(NameOrder[m])]
           query == serializeQuery(params)
           name == NameOrder[n]
<1>1. query = FlattenSeq(parts)
  BY DEF serializeQuery
<1>2. ASSUME NEW m \in 1..12
      PROVE  /\ Part(NameOrder[m]) \in Seq(T)
             /\ Len(Part(NameOrder[m])) = Len(Sent(params, NameOrder[m]))
             /\ Len(Sent(params, NameOrder[m])) \in Nat
             /\ \A i \in 1..Len(Sent(params, NameOrder[m])) :
                   Part(NameOrder[m])[i] = Bare(NameOrder[m], Sent(params, NameOrder[m])[i])
  <2> DEFINE x == NameOrder[m]
  <2>1. x \in Names
    OBVIOUS
  <2> HIDE DEF x, Names
  <2>2. CASE x \notin DOMAIN params
    <3>1. Part(x) = <<>> /\ Sent(params, x) = <<>>
      BY <2>2 DEF Sent
    <3>2. <<>> \in Seq(T) /\ Len(<<>>) = 0
      BY EmptySeq
    <3> HIDE DEF Part, T
    <3>3. QED
      BY <3>1, <3>2 DEF x
  <2>3. CASE x \in DOMAIN params
    <3> DEFINE list == params[x]
               k == Len(list)
    <3>1. list \in Seq(V) /\ k \in Nat /\ DOMAIN list = 1..k /\ \A i \in 1..k : list[i] \in V
      BY <2>3, LenProperties, ElementOfSeq
    <3>2. Sent(params, x) = list /\ Part(x) = [i \in DOMAIN list |-> Bare(x, list[i])]
      BY <2>3 DEF Sent
    <3> HIDE DEF list, k
    <3>3. Part(x) = [i \in 1..k |-> Bare(x, list[i])]
      BY <3>1, <3>2
    <3>4. \A i \in 1..k : Bare(x, list[i]) \in T
      BY <2>1, <3>1 DEF Bare
    <3> HIDE DEF Part, T
    <3>5. Part(x) \in [1..k -> T]
      BY <3>3, <3>4
    <3>6. Part(x) \in Seq(T) /\ Len(Part(x)) = k
      BY <3>1, <3>5
    <3>7. QED
      BY <3>1, <3>2, <3>3, <3>6 DEF x, k
  <2>4. QED
    BY <2>2, <2>3
<1>3. parts \in Seq(Seq(T)) /\ Len(parts) = 12 /\ parts # <<>> /\ \A m \in 1..12 : parts[m] = Part(NameOrder[m])
  <2>1. parts = [m \in 1..12 |-> Part(NameOrder[m])]
    BY NamesAre
  <2> HIDE DEF Part, T, parts
  <2>2. parts \in [1..12 -> Seq(T)]
    BY <1>2, <2>1
  <2> DEFINE S == Seq(T)
             l == 12
  <2>a. parts \in [1..l -> S] /\ l \in Nat
    BY <2>2
  <2> HIDE DEF S, l
  <2>b. parts \in Seq(S) /\ Len(parts) = l
    BY <2>a
  <2>3. parts \in Seq(Seq(T)) /\ Len(parts) = 12
    BY <2>b DEF S, l
  <2>4. Len(<<>>) = 0
    OBVIOUS
  <2>5. QED
    BY <2>1, <2>3, <2>4
<1> HIDE DEF Names, T, Part, parts, query
<1>4. PICK start \in [1..12 -> Nat] : query \in Seq(T) /\ PlacesIn(query, parts, start, 12)
  BY <1>1, <1>3, FlattenPlaces
<1> DEFINE list == Sent(params, name)
           k == Len(list)
<1>5. DOMAIN query = 1..Len(query) /\ \A i \in 1..Len(query) : query[i] \in T
  BY <1>4, LenProperties, ElementOfSeq
<1>6. /\ k \in Nat
      /\ \A i \in 1..k : start[n] + i \in 1..Len(query) /\ query[start[n] + i] = Bare(name, list[i])
  <2> HIDE DEF list
  <2>1. n \in 1..12 /\ parts[n] = Part(name)
    BY <1>3, NamesAre
  <2>2. k \in Nat /\ Len(parts[n]) = k /\ \A i \in 1..k : parts[n][i] = Bare(name, list[i])
    BY <1>2, <2>1 DEF list
  <2>3. \A i \in 1..Len(parts[n]) : start[n] + i \in 1..Len(query) /\ query[start[n] + i] = parts[n][i]
    BY <1>4, <2>1 DEF PlacesIn
  <2> HIDE DEF k, name
  <2>4. QED
    BY <2>1, <2>2, <2>3
<1>7. ASSUME NEW j \in 1..Len(query), query[j].name = name PROVE j \in (start[n] + 1)..(start[n] + k)
  <2>a. PICK m \in 1..12 : \E i \in 1..Len(parts[m]) : j = start[m] + i
    BY <1>4 DEF PlacesIn
  <2>1. PICK i \in 1..Len(parts[m]) : j = start[m] + i /\ query[start[m] + i] = parts[m][i]
    BY <1>4, <2>a DEF PlacesIn
  <2>2. query[j] = Bare(NameOrder[m], Sent(params, NameOrder[m])[i])
    BY <1>2, <1>3, <2>1
  <2>3. NameOrder[m] = name
    BY <1>7, <2>2 DEF Bare
  <2>4. m = n
    BY <2>3, NamesAre
  <2>5. i \in 1..k
    BY <1>2, <1>3, <2>1, <2>4
  <2> DEFINE a == start[n]
  <2>6. a \in Nat /\ k \in Nat /\ j = a + i
    BY <1>6, <2>1, <2>4
  <2> HIDE DEF k, a
  <2>7. j \in (a + 1)..(a + k)
    BY <2>5, <2>6
  <2>8. QED
    BY <2>7 DEF a
<1> HIDE DEF list, k, name
<1>8. {i \in DOMAIN query : query[i].name = name /\ query[i].form = "bare"} = (start[n] + 1)..(start[n] + k)
  <2>1. ASSUME NEW j \in (start[n] + 1)..(start[n] + k)
        PROVE  j \in DOMAIN query /\ query[j].name = name /\ query[j].form = "bare"
    <3> DEFINE a == start[n]
               i == j - a
    <3>a. a \in Nat /\ k \in Nat /\ j \in (a + 1)..(a + k)
      BY <1>6
    <3>b. \A x \in 1..k : a + x \in 1..Len(query) /\ query[a + x] = Bare(name, list[x])
      BY <1>6
    <3> HIDE DEF a
    <3>1. i \in 1..k /\ a + i = j
      BY <3>a
    <3> HIDE DEF i
    <3>2. j \in 1..Len(query) /\ query[j] = Bare(name, list[i])
      BY <3>b, <3>1
    <3>3. QED
      BY <1>5, <3>2 DEF Bare
  <2>2. QED
    BY <1>5, <1>7, <2>1
<1>9. Values(query, name, "bare") = list
  <2> DEFINE of == ElementsAt(query, {i \in DOMAIN query : query[i].name = name /\ query[i].form = "bare"})
  <2>1. of = [i \in 1..k |-> query[start[n] + i]]
    <3>1. of = ElementsAt(query, (start[n] + 1)..(start[n] + k))
      BY <1>8
    <3>2. start[n] \in Nat
      OBVIOUS
    <3> HIDE DEF of
    <3>3. QED
      BY <1>6, <3>1, <3>2, IntervalElements, ZenonT(30)
  <2>2. Values(query, name, "bare") = [i \in DOMAIN of |-> of[i].value]
    BY DEF Values
  <2> HIDE DEF of
  <2>3. \A i \in 1..k : query[start[n] + i].value = list[i]
    <3>1. SUFFICES ASSUME NEW i \in 1..k PROVE query[start[n] + i].value = list[i]
      OBVIOUS
    <3>2. query[start[n] + i] = Bare(name, list[i])
      BY <1>6
    <3>3. Bare(name, list[i]).value = list[i]
      BY DEF Bare
    <3>4. QED
      BY <3>2, <3>3
  <2>4. Values(query, name, "bare") = [i \in 1..k |-> list[i]]
    BY <2>1, <2>2, <2>3
  <2>5. list = [i \in 1..k |-> list[i]]
    <3>1. list \in Seq(V)
      BY EmptySeq DEF list, Sent
    <3>2. list \in [1..k -> V]
      BY <3>1, LenProperties DEF k
    <3>3. QED
      BY <3>2
  <2>6. QED
    BY <2>4, <2>5
<1>10. \A i \in DOMAIN query : query[i].form = "bare"
  BY <1>5 DEF T
<1>11. ASSUME NEW form, form # "bare" PROVE Values(query, name, form) = <<>>
  <2>1. {i \in DOMAIN query : query[i].name = name /\ query[i].form = form} = {}
    BY <1>10, <1>11
  <2> DEFINE of == ElementsAt(query, {i \in DOMAIN query : query[i].name = name /\ query[i].form = form})
             read == [i \in DOMAIN of |-> of[i].value]
  <2>2. DOMAIN of = 1..0
    <3>1. Cardinality({}) = 0
      BY FS_EmptySet
    <3>2. QED
      BY <2>1, <3>1 DEF ElementsAt
  <2>3. Values(query, name, form) = read
    BY DEF Values
  <2> HIDE DEF of
  <2>4. read \in [1..0 -> V]
    BY <2>2
  <2> HIDE DEF read
  <2>5. read \in Seq(V) /\ Len(read) = 0
    BY <2>4
  <2>6. QED
    BY <2>3, <2>5, EmptySeq
<1>12. QED
  BY <1>9, <1>10, <1>11 DEF query, name, list

\* A parser that finds bare values only takes them for a list, and one of them
\* for a scalar.
LEMMA EntryIs ==
    ASSUME NEW V, NEW params, \A name \in DOMAIN params : params[name] \in Seq(V),
           NEW n \in 1..12
    PROVE  LET entry == Entry(serializeQuery(params), NameOrder[n])
               sent == Sent(params, NameOrder[n])
           IN  /\ entry.bare = sent /\ Array(entry) = sent /\ ~ArrayMalformed(entry)
               /\ Len(sent) \in Nat /\ (Len(sent) <= 1 => ~ScalarMalformed(entry))
<1> DEFINE query == serializeQuery(params)
           name == NameOrder[n]
           sent == Sent(params, name)
           entry == Entry(query, name)
<1>1. /\ Values(query, name, "bare") = sent
      /\ Values(query, name, "appended") = <<>> /\ Values(query, name, "object") = <<>>
      /\ \A i \in DOMAIN query : query[i].form = "bare"
  BY SentIsRead
<1>2. Len(sent) \in Nat
  <2>1. sent \in Seq(V)
    BY EmptySeq DEF Sent
  <2>2. QED
    BY <2>1, LenProperties
<1> HIDE DEF query, name, sent
<1>3. /\ entry.bare = sent /\ entry.appended = <<>> /\ entry.object = FALSE
      /\ Indexes(entry) = {query[m].index : m \in {i \in DOMAIN query :
                                query[i].name = name /\ query[i].form = "indexed"}}
  BY <1>1 DEF Entry, Indexes
<1>4. Indexes(entry) = {}
  BY <1>1, <1>3
<1> HIDE DEF entry
<1>5. Array(entry) = sent /\ ~ArrayMalformed(entry)
  BY <1>3, <1>4 DEF Array, ArrayMalformed
<1>6. Len(sent) <= 1 => ~ScalarMalformed(entry)
  <2>1. ~entry.object /\ entry.appended = <<>> /\ entry.bare = sent
    BY <1>3
  <2>2. Len(sent) <= 1 => ~(Len(sent) > 1)
    BY <1>2
  <2> QED
    BY <1>4, <2>1, <2>2 DEF ScalarMalformed
<1>7. QED
  BY <1>2, <1>3, <1>5, <1>6 DEF query, name, sent, entry

-----------------------------------------------------------------------------
\* What the page may ask with: what its form lets through.
GoodInput(input) ==
    /\ input.q \notin OverFiftyUnits /\ input.type \in Sections
    /\ \A f \in Filters : input[f] \in ChoicesOf(f)

\* What may be chosen is a list that the API accepts.
LEMMA ChoicesAreAccepted ==
    ASSUME NEW f \in Filters, NEW list \in ChoicesOf(f)
    PROVE  list \in Seq(Transliterated) /\ Len(list) <= MaxFilterSlugs /\ ToSet(list) \subseteq Transliterated
<1>1. CASE f \notin DOMAIN Options
  <2>1. list = <<>>
    BY <1>1 DEF ChoicesOf
  <2>2. <<>> \in Seq(Transliterated) /\ Len(<<>>) = 0 /\ DOMAIN <<>> = {}
    BY EmptySeq
  <2>3. ToSet(<<>>) = {}
    BY <2>2 DEF ToSet
  <2>4. QED
    BY <2>1, <2>2, <2>3 DEF MaxFilterSlugs
<1>2. CASE f \in DOMAIN Options
  <2> DEFINE options == Options[f]
             S == ToSet(options)
  <2>1. /\ list \in Seq(S) /\ options \in Seq(S) /\ S \subseteq Transliterated
        /\ Len(options) <= MaxFilterSlugs
        /\ \A i, j \in 1..Len(list) : list[i] = list[j] => i = j
        /\ \A i, j \in 1..Len(options) : options[i] = options[j] => i = j
    BY <1>2, SearchPageConstants DEF ChoicesOf, ListsOf
  <2>2. ToSet(list) \subseteq S
    BY <2>1, LenProperties, ElementOfSeq DEF ToSet
  <2>3. IsFiniteSet(S) /\ Len(options) = Cardinality(S)
    BY <2>1, DistinctCount
  <2> HIDE DEF S
  <2>4. Len(list) = Cardinality(ToSet(list))
    BY <2>1, DistinctCount
  <2>5. Cardinality(ToSet(list)) <= Cardinality(S)
    BY <2>2, <2>3, FS_Subset
  <2>6. list \in Seq(Transliterated)
    BY <2>1
  <2>7. QED
    <3>1. Len(list) \in Nat /\ Len(options) \in Nat /\ MaxFilterSlugs \in Nat
      BY <2>1, LenProperties DEF MaxFilterSlugs
    <3>2. QED
      BY <2>1, <2>2, <2>3, <2>4, <2>5, <2>6, <3>1
<1>3. QED
  BY <1>1, <1>2

\* What the page sends of such an input.
LEMMA ParamsAre ==
    ASSUME NEW input, GoodInput(input), NEW nth,
           \E t \in DOMAIN Decimals : Decimals[t] = nth
    PROVE  LET params == searchQueryParams(input, nth) IN
           /\ \E V : \A name \in DOMAIN params : params[name] \in Seq(V)
           /\ Sent(params, "q") = <<input.q>> /\ Sent(params, "types") = <<input.type>>
           /\ \E text \in {"true", "false"} : Sent(params, "exact") = <<text>>
           /\ \A name \in {"poemsPage", "poetsPage"} :
                 \E t \in DOMAIN Decimals : /\ Sent(params, name) = <<t>>
                                            /\ Decimals[t] \in {1, nth}
           /\ Sent(params, "poetSlugs") = <<>>
           /\ \A f \in Filters :
                 Sent(params, f) = IF f = "eraSlugs" \/ input.type = "poems" THEN input[f] ELSE <<>>
<1> DEFINE asked == CHOOSE t \in DOMAIN Decimals : Decimals[t] = nth
           poems == input.type = "poems"
           exact == IF input.exact THEN "true" ELSE "false"
           params == searchQueryParams(input, nth)
           scalars == [q |-> <<input.q>>, types |-> <<input.type>>, exact |-> <<exact>>,
                       poemsPage |-> <<IF poems THEN asked ELSE "1">>,
                       poetsPage |-> <<IF poems THEN "1" ELSE asked>>, poetSlugs |-> <<>>]
           lists == [f \in Filters |-> IF f = "eraSlugs" \/ poems THEN input[f] ELSE <<>>]
           V == {input.q, input.type, "true", "false", asked, "1"} \cup Transliterated
<1>1. asked \in DOMAIN Decimals /\ Decimals[asked] = nth
  OBVIOUS
<1>2. "1" \in DOMAIN Decimals /\ Decimals["1"] = 1
  BY SearchPageConstants
<1>3. params = [name \in DOMAIN scalars \cup Filters |->
                   IF name \in Filters THEN lists[name] ELSE scalars[name]]
  BY DEF searchQueryParams, ParamsWith
<1> DEFINE Six == {"q", "types", "exact", "poemsPage", "poetsPage", "poetSlugs"}
<1>4. DOMAIN scalars = Six
  OBVIOUS
<1>5. Six \cap Filters = {}
  BY DEF Filters
<1>6. exact \in {"true", "false"}
  OBVIOUS
<1>7. /\ scalars["q"] = <<input.q>> /\ scalars["types"] = <<input.type>>
      /\ scalars["exact"] = <<exact>> /\ scalars["poetSlugs"] = <<>>
      /\ scalars["poemsPage"] = <<IF poems THEN asked ELSE "1">>
      /\ scalars["poetsPage"] = <<IF poems THEN "1" ELSE asked>>
  OBVIOUS
<1> HIDE DEF asked, exact, params, scalars, Six
<1>8. \A name \in Six : scalars[name] \in Seq(V)
  <2>1. \A v \in V : <<v>> \in Seq(V)
    OBVIOUS
  <2>2. <<>> \in Seq(V)
    BY EmptySeq
  <2>3. {input.q, input.type, exact, asked, "1"} \subseteq V
    BY <1>6
  <2> HIDE DEF V
  <2>4. QED
    BY <1>7, <2>1, <2>2, <2>3 DEF Six
<1>9. \A f \in Filters : lists[f] \in Seq(V)
  <2>1. SUFFICES ASSUME NEW f \in Filters PROVE lists[f] \in Seq(V)
    OBVIOUS
  <2>2. input[f] \in Seq(Transliterated)
    BY ChoicesAreAccepted DEF GoodInput
  <2>3. input[f] \in Seq(V)
    BY <2>2
  <2>4. <<>> \in Seq(V)
    BY EmptySeq
  <2> HIDE DEF V
  <2>5. QED
    BY <2>3, <2>4
<1>a. \A f \in Filters : lists[f] = IF f = "eraSlugs" \/ poems THEN input[f] ELSE <<>>
  OBVIOUS
<1> HIDE DEF V, lists, poems
<1>10. DOMAIN params = Six \cup Filters /\ \A name \in DOMAIN params : params[name] \in Seq(V)
  BY <1>3, <1>4, <1>8, <1>9
<1>11. /\ \A name \in Six : Sent(params, name) = scalars[name]
       /\ \A f \in Filters : Sent(params, f) = lists[f]
  BY <1>3, <1>4, <1>5, <1>10 DEF Sent
<1>12. /\ Sent(params, "q") = <<input.q>> /\ Sent(params, "types") = <<input.type>>
       /\ Sent(params, "exact") = <<exact>> /\ Sent(params, "poetSlugs") = <<>>
  BY <1>7, <1>11 DEF Six
<1>13. \A name \in {"poemsPage", "poetsPage"} :
         \E t \in DOMAIN Decimals : Sent(params, name) = <<t>> /\ Decimals[t] \in {1, nth}
  <2>1. /\ Sent(params, "poemsPage") = <<IF poems THEN asked ELSE "1">>
        /\ Sent(params, "poetsPage") = <<IF poems THEN "1" ELSE asked>>
    BY <1>7, <1>11 DEF Six
  <2>2. QED
    BY <1>1, <1>2, <2>1
<1>14. \A f \in Filters :
         Sent(params, f) = IF f = "eraSlugs" \/ input.type = "poems" THEN input[f] ELSE <<>>
  BY <1>11, <1>a DEF poems
<1>15. QED
  BY <1>6, <1>10, <1>12, <1>13, <1>14 DEF params

\* A request for a page there may be, with such an input, is one the API takes.
LEMMA GoodIsAccepted ==
    ASSUME NEW input, GoodInput(input), NEW nth \in 1..MaxPage,
           \E t \in DOMAIN Decimals : Decimals[t] = nth
    PROVE  Response(serializeQuery(searchQueryParams(input, nth))) = 200
<1> DEFINE params == searchQueryParams(input, nth)
           query == serializeQuery(params)
           entries == Parse(query)
           poems == input.type = "poems"
<1>1. PICK V : \A name \in DOMAIN params : params[name] \in Seq(V)
  BY ParamsAre
<1>2. /\ Sent(params, "q") = <<input.q>> /\ Sent(params, "types") = <<input.type>>
      /\ \E text \in {"true", "false"} : Sent(params, "exact") = <<text>>
      /\ \A name \in {"poemsPage", "poetsPage"} :
            \E t \in DOMAIN Decimals : Sent(params, name) = <<t>> /\ Decimals[t] \in {1, nth}
      /\ Sent(params, "poetSlugs") = <<>>
      /\ \A f \in Filters : Sent(params, f) = IF f = "eraSlugs" \/ poems THEN input[f] ELSE <<>>
  BY ParamsAre
<1> DEFINE Reads(entry, sent) ==
               /\ entry.bare = sent /\ Array(entry) = sent /\ ~ArrayMalformed(entry)
               /\ Len(sent) \in Nat /\ (Len(sent) <= 1 => ~ScalarMalformed(entry))
<1> HIDE DEF params, poems
<1>3. \A n \in 1..12 : Reads(Entry(query, NameOrder[n]), Sent(params, NameOrder[n]))
  BY <1>1, EntryIs
<1>4. /\ NameOrder[1] = "q" /\ NameOrder[2] = "types" /\ NameOrder[3] = "exact"
      /\ NameOrder[4] = "poemsPage" /\ NameOrder[5] = "poetsPage" /\ NameOrder[6] = "eraSlugs"
      /\ NameOrder[7] = "meterSlugs" /\ NameOrder[8] = "rhymeSlugs" /\ NameOrder[9] = "themeSlugs"
      /\ NameOrder[10] = "collectionSlugs" /\ NameOrder[11] = "poetSlugs"
  BY DEF NameOrder
<1> HIDE DEF Reads, query
<1>5. /\ Reads(entries.q, Sent(params, "q")) /\ Reads(entries.types, Sent(params, "types"))
      /\ Reads(entries.exact, Sent(params, "exact"))
      /\ Reads(entries.poemsPage, Sent(params, "poemsPage"))
      /\ Reads(entries.poetsPage, Sent(params, "poetsPage"))
      /\ Reads(entries.poetSlugs, Sent(params, "poetSlugs"))
      /\ \A f \in Filters : Reads(entries[f], Sent(params, f))
  <2>1. /\ entries.q = Entry(query, "q") /\ entries.types = Entry(query, "types")
        /\ entries.exact = Entry(query, "exact") /\ entries.poemsPage = Entry(query, "poemsPage")
        /\ entries.poetsPage = Entry(query, "poetsPage")
        /\ entries.poetSlugs = Entry(query, "poetSlugs")
        /\ entries["eraSlugs"] = Entry(query, "eraSlugs")
        /\ entries["meterSlugs"] = Entry(query, "meterSlugs")
        /\ entries["rhymeSlugs"] = Entry(query, "rhymeSlugs")
        /\ entries["themeSlugs"] = Entry(query, "themeSlugs")
        /\ entries["collectionSlugs"] = Entry(query, "collectionSlugs")
    BY DEF Parse
  <2> HIDE DEF entries
  <2>2. /\ 1 \in 1..12 /\ 2 \in 1..12 /\ 3 \in 1..12 /\ 4 \in 1..12 /\ 5 \in 1..12 /\ 6 \in 1..12
        /\ 7 \in 1..12 /\ 8 \in 1..12 /\ 9 \in 1..12 /\ 10 \in 1..12 /\ 11 \in 1..12
    OBVIOUS
  <2>3. /\ Reads(entries.q, Sent(params, "q")) /\ Reads(entries.types, Sent(params, "types"))
        /\ Reads(entries.exact, Sent(params, "exact"))
        /\ Reads(entries.poemsPage, Sent(params, "poemsPage"))
        /\ Reads(entries.poetsPage, Sent(params, "poetsPage"))
        /\ Reads(entries.poetSlugs, Sent(params, "poetSlugs"))
    BY <1>3, <1>4, <2>1, <2>2
  <2>4. \A f \in Filters : Reads(entries[f], Sent(params, f))
    BY <1>3, <1>4, <2>1, <2>2 DEF Filters
  <2>5. QED
    BY <2>3, <2>4
<1> HIDE DEF entries
<1>6. /\ \A x : Len(<<x>>) = 1 /\ <<x>>[1] = x /\ <<x>> # <<>> /\ ToSet(<<x>>) = {x}
      /\ Len(<<>>) = 0 /\ ToSet(<<>>) = {}
  BY DEF ToSet
\* The scalars.
<1>7. ASSUME NEW entry, NEW x, Reads(entry, <<x>>)
      PROVE  ~ScalarMalformed(entry) /\ Scalar(entry) = x /\ Given(entry)
  BY <1>6, <1>7 DEF Reads, Scalar, Given
<1>8. ~TextRejected(entries.q)
  BY <1>2, <1>5, <1>7 DEF TextRejected, GoodInput
<1>9. ~BooleanRejected(entries.exact)
  BY <1>2, <1>5, <1>7 DEF BooleanRejected
<1>10. ASSUME NEW entry, NEW t \in DOMAIN Decimals, Decimals[t] \in {1, nth}, Reads(entry, <<t>>)
       PROVE  ~PageRejected(entry) /\ PageOf(entry) \in 1..MaxPage
  <2>1. ~ScalarMalformed(entry) /\ Scalar(entry) = t /\ Given(entry)
    BY <1>7, <1>10
  <2>2. Decimals[t] \in 1..MaxPage /\ MaxPage \in Nat
    BY <1>10 DEF MaxPage, ResultWindow, SearchPerPage
  <2>3. QED
    BY <2>1, <2>2 DEF PageRejected, PageOf
<1>11. /\ ~PageRejected(entries.poemsPage) /\ PageOf(entries.poemsPage) \in 1..MaxPage
       /\ ~PageRejected(entries.poetsPage) /\ PageOf(entries.poetsPage) \in 1..MaxPage
  BY <1>2, <1>5, <1>10
\* The lists.
<1>12. ~TypesRejected(entries.types) /\ TypesOf(entries.types) = {input.type}
  <2>1. Array(entries.types) = <<input.type>> /\ ~ArrayMalformed(entries.types)
    BY <1>2, <1>5 DEF Reads
  <2>2. input.type \in SearchTypes
    BY DEF GoodInput, Sections, SearchTypes
  <2>3. Cardinality(SearchTypes) \in Nat /\ Cardinality(SearchTypes) >= 1
    <3>1. IsFiniteSet({"poems"}) /\ Cardinality({"poems"}) = 1
      BY FS_Singleton
    <3>2. "poets" \notin {"poems"} /\ SearchTypes = {"poems"} \cup {"poets"}
      BY DEF SearchTypes
    <3>3. Cardinality(SearchTypes) = 1 + 1
      BY <3>1, <3>2, FS_AddElement
    <3>4. QED
      BY <3>3
  <2>4. QED
    BY <1>6, <2>1, <2>2, <2>3 DEF TypesRejected, TypesOf
<1>13. ASSUME NEW entry, NEW list, Reads(entry, list), NEW valid,
              Len(list) <= MaxFilterSlugs, ToSet(list) \subseteq valid
       PROVE  ~FacetRejected(entry, valid)
  <2>1. Array(entry) = list /\ ~ArrayMalformed(entry) /\ ~(Len(list) > MaxFilterSlugs)
    BY <1>13 DEF Reads, MaxFilterSlugs
  <2>2. QED
    BY <1>13, <2>1 DEF FacetRejected
<1>14. ~FacetRejected(entries.poetSlugs, FourLetters)
  <2>1. Len(<<>>) <= MaxFilterSlugs /\ ToSet(<<>>) \subseteq FourLetters
    BY <1>6 DEF MaxFilterSlugs
  <2>2. Reads(entries.poetSlugs, <<>>)
    BY <1>2, <1>5
  <2>3. QED
    BY <1>13, <2>1, <2>2
<1>15. \A f \in Filters : ~FacetRejected(entries[f], Transliterated)
  <2>1. SUFFICES ASSUME NEW f \in Filters PROVE ~FacetRejected(entries[f], Transliterated)
    OBVIOUS
  <2> DEFINE list == Sent(params, f)
  <2>2. list = <<>> \/ list \in ChoicesOf(f)
    BY <1>2 DEF GoodInput
  <2>3. Len(list) <= MaxFilterSlugs /\ ToSet(list) \subseteq Transliterated
    BY <1>6, <2>2, ChoicesAreAccepted DEF MaxFilterSlugs
  <2>4. Reads(entries[f], list)
    BY <1>5
  <2> HIDE DEF list
  <2>5. QED
    BY <1>13, <2>3, <2>4
<1>16. ~FiltersPoetsByPoems(entries)
  <2>1. SUFFICES ASSUME "poets" \in TypesOf(entries.types), NEW name \in PoemOnly
                 PROVE  Array(entries[name]) = <<>>
    BY DEF FiltersPoetsByPoems
  <2>2. ~poems
    BY <1>12, <2>1 DEF poems
  <2>3. name \in Filters /\ name # "eraSlugs"
    BY DEF PoemOnly, Filters
  <2>4. QED
    BY <1>2, <1>5, <2>2, <2>3 DEF Reads
<1>17. ~Rejected(entries)
  <2>1. PoemOnly \cup {"eraSlugs"} \subseteq Filters
    BY DEF PoemOnly, Filters
  <2>2. QED
    BY <1>8, <1>9, <1>11, <1>12, <1>14, <1>15, <1>16, <2>1 DEF Rejected
<1>18. /\ ~PastWindow(entries, "poems", entries.poemsPage)
       /\ ~PastWindow(entries, "poets", entries.poetsPage)
  <2>1. \A n \in 1..MaxPage : ~(n * SearchPerPage > ResultWindow)
    BY DEF MaxPage, SearchPerPage, ResultWindow
  <2>2. QED
    BY <1>11, <2>1 DEF PastWindow
<1>19. Handle(entries) = 200
  BY <1>17, <1>18 DEF Handle
<1>20. QED
  BY <1>19 DEF Response, entries, query, params

-----------------------------------------------------------------------------
\* A URL the site itself made holds what its form lets through, and so does
\* every search in the cache of a page that was opened with such a URL.
OwnUrl(u) ==
    /\ DOMAIN u = {"q", "exact", "linked"} \cup Filters
    /\ ~u.linked => u.q \notin OverFiftyUnits /\ \A f \in Filters : u[f] \in ChoicesOf(f)
OwnInv == OwnUrl(url) /\ (~url.linked => \A key \in DOMAIN cache : GoodInput(key))

LEMMA NoneChosen ==
    ASSUME NEW f, NEW dropped
    PROVE  <<>> \in ChoicesOf(f) /\ Without(<<>>, dropped) = <<>>
<1>1. <<>> \in ChoicesOf(f)
  BY EmptySeq DEF ChoicesOf, ListsOf
<1> DEFINE none == <<>>
           left == Without(none, dropped)
<1>2. none \in ListsOf(none) /\ ToSet(none) = {}
  BY EmptySeq DEF ListsOf, ToSet
<1> HIDE DEF none
<1>3. left \in ListsOf(none)
  BY <1>2, WithoutIs
<1> HIDE DEF left
<1>4. left \in Seq({})
  BY <1>2, <1>3 DEF ListsOf
<1>5. left = <<>>
  <2>1. Len(left) \in Nat /\ \A i \in 1..Len(left) : left[i] \in {}
    BY <1>4, ElementOfSeq, LenProperties
  <2>2. Len(left) = 0
    BY <2>1
  <2>3. QED
    BY <1>4, <2>2, EmptySeq
<1>6. QED
  BY <1>1, <1>5 DEF left, none

\* Blank entries of a URL parameter are dropped, and what remains is a choice.
LEMMA SplitIsChoice ==
    ASSUME NEW f, NEW list \in ChoicesOf(f)
    PROVE  splitCsvIds(list) \in ChoicesOf(f)
<1>1. CASE f \in DOMAIN Options
  BY <1>1, WithoutIs DEF ChoicesOf, splitCsvIds
<1>2. CASE f \notin DOMAIN Options
  BY <1>2, NoneChosen DEF ChoicesOf, splitCsvIds
<1>3. QED
  BY <1>1, <1>2

LEMMA SelectedIsChoice ==
    ASSUME NEW u, OwnUrl(u), ~u.linked, NEW f \in Filters
    PROVE  Selected(u, f) \in ChoicesOf(f)
<1>1. splitCsvIds(u[f]) \in ChoicesOf(f)
  BY SplitIsChoice DEF OwnUrl
<1>2. DefaultEras \in ChoicesOf("eraSlugs")
  BY SearchPageConstants
<1>3. QED
  BY <1>1, <1>2 DEF Selected

LEMMA InputIsGood ==
    ASSUME NEW u, OwnUrl(u), ~u.linked, NEW s \in Sections
    PROVE  GoodInput(Key(u, s))
<1> DEFINE Part(part) ==
        CASE part = "type" -> s
          [] part \in {"q", "exact"} -> u[part]
          [] part = "eraSlugs" /\ s = "poets" /\ ~erasCustomized(u) -> <<>>
          [] OTHER -> Selected(u, part)
           input == [part \in Filters \cup {"q", "type", "exact"} |-> Part(part)]
<1>1. Key(u, s) = input
  BY DEF Key, searchQueryKey, Input
<1>2. "q" \notin Filters /\ "type" \notin Filters /\ "exact" \notin Filters
  BY DEF Filters
<1>3. input.q = u.q /\ input.type = s
  OBVIOUS
<1>4. ASSUME NEW f \in Filters PROVE input[f] \in ChoicesOf(f)
  <2>1. f \notin {"q", "type", "exact"}
    BY <1>2
  <2>2. Part(f) = IF f = "eraSlugs" /\ s = "poets" /\ ~erasCustomized(u) THEN <<>> ELSE Selected(u, f)
    BY <2>1
  <2>3. input[f] = Part(f)
    OBVIOUS
  <2> HIDE DEF input, Part
  <2>4. QED
    BY <2>2, <2>3, NoneChosen, SelectedIsChoice
<1> HIDE DEF input
<1>5. QED
  BY <1>1, <1>3, <1>4 DEF GoodInput, OwnUrl

LEMMA OwnStart == SearchPageInit => OwnInv
<1>1. SUFFICES ASSUME url \in Links, cache = Observe(url, Sections, <<>>) PROVE OwnInv
  BY DEF SearchPageInit
<1>2. OwnUrl(url)
  BY <1>1, SearchPageConstants DEF OwnUrl
<1>3. ASSUME ~url.linked, NEW key \in DOMAIN cache PROVE GoodInput(key)
  <2>1. DOMAIN <<>> = {}
    OBVIOUS
  <2>2. DOMAIN cache = DOMAIN <<>> \cup {Key(url, s) : s \in Sections}
    BY <1>1 DEF Observe
  <2>3. PICK s \in Sections : key = Key(url, s)
    BY <1>3, <2>1, <2>2
  <2>4. QED
    BY <1>2, <1>3, <2>3, InputIsGood
<1>4. QED
  BY <1>2, <1>3 DEF OwnInv

LEMMA SetUrlKeepsOwn ==
    ASSUME OwnInv, NEW url2, SetUrl(url2), OwnUrl(url2), url2.linked = url.linked
    PROVE  OwnInv'
<1>1. PICK changed : url' = url2 /\ cache' = Observe(url2, changed, cache)
  BY DEF SetUrl
<1>2. DOMAIN cache' = DOMAIN cache \cup {Key(url2, s) : s \in Sections}
  BY <1>1 DEF Observe
<1>3. ASSUME ~url2.linked, NEW key \in DOMAIN cache' PROVE GoodInput(key)
  <2>1. CASE key \in DOMAIN cache
    BY <1>3, <2>1 DEF OwnInv
  <2>2. CASE \E s \in Sections : key = Key(url2, s)
    BY <1>3, <2>2, InputIsGood
  <2>3. QED
    BY <1>2, <2>1, <2>2
<1>4. OwnUrl(url') /\ (~url'.linked => \A key \in DOMAIN cache' : GoodInput(key))
  BY <1>1, <1>3
<1>5. QED
  BY <1>4 DEF OwnInv, OwnUrl, GoodInput

LEMMA OwnStands ==
    ASSUME OwnInv, url' = url, DOMAIN cache' = DOMAIN cache
    PROVE  OwnInv'
<1>1. OwnUrl(url') /\ (~url'.linked => \A key \in DOMAIN cache' : GoodInput(key))
  BY DEF OwnInv
<1>2. QED
  BY <1>1 DEF OwnInv, OwnUrl, GoodInput

\* One parameter of the URL is set to what the form lets through.
LEMMA UrlWithFilter ==
    ASSUME OwnUrl(url), NEW f \in Filters, NEW list, ~url.linked => list \in ChoicesOf(f)
    PROVE  LET url2 == [url EXCEPT ![f] = list] IN OwnUrl(url2) /\ url2.linked = url.linked
<1>1. f \notin {"q", "exact", "linked"} /\ "q" \notin Filters /\ "linked" \notin Filters
  BY DEF Filters
<1>2. QED
  BY <1>1 DEF OwnUrl

LEMMA SearchKeepsOwn == ASSUME OwnInv, handleSearch PROVE OwnInv'
<1> DEFINE trimmed == Trim(box.text)
           url2 == [url EXCEPT !.q = trimmed]
<1>1. CASE TooLong(trimmed)
  BY <1>1, OwnStands DEF handleSearch
<1>2. CASE ~TooLong(trimmed)
  <2>1. SetUrl(url2)
    BY <1>2 DEF handleSearch
  <2>2. trimmed \notin OverFiftyUnits
    BY <1>2 DEF TooLong
  <2> HIDE DEF trimmed
  <2>3. "q" \notin Filters
    BY DEF Filters
  <2>4. OwnUrl(url2) /\ url2.linked = url.linked
    BY <2>2, <2>3 DEF OwnInv, OwnUrl
  <2>5. QED
    BY <2>1, <2>4, SetUrlKeepsOwn
<1>3. QED
  BY <1>1, <1>2

LEMMA ChooseKeepsOwn ==
    ASSUME OwnInv, NEW f \in DOMAIN Options, NEW choice \in ToSet(Displayed(Options[f])),
           ChooseFilter(f, choice)
    PROVE  OwnInv'
<1> DEFINE options == Options[f]
           value == Selected(url, f)
           toggled == toggleOption(value, options, f = "eraSlugs", choice)
           chosen == joinCsvIds(toggled)
           url2 == [url EXCEPT ![f] = chosen]
<1>1. f \in Filters /\ options \in ListsOf(options)
  BY SearchPageConstants
<1>2. choice \in ToSet(options) \cup {AllOption}
  <2> DEFINE S == ToSet(options) \cup {AllOption}
  <2>1. options \in Seq(S) /\ <<AllOption>> \in Seq(S)
    BY <1>1 DEF ListsOf
  <2>2. Displayed(options) \in Seq(S)
    BY <2>1, ConcatProperties DEF Displayed
  <2>3. PICK i \in 1..Len(Displayed(options)) : choice = Displayed(options)[i]
    BY <2>2, LenProperties DEF ToSet
  <2> HIDE DEF S
  <2>4. choice \in S
    BY <2>2, <2>3, ElementOfSeq
  <2>5. QED
    BY <2>4 DEF S
<1>3. ~url.linked => chosen \in ChoicesOf(f)
  <2>1. SUFFICES ASSUME ~url.linked PROVE chosen \in ChoicesOf(f)
    OBVIOUS
  <2>2. value \in ListsOf(options)
    BY <1>1, <2>1, SelectedIsChoice DEF OwnInv, ChoicesOf
  <2> HIDE DEF value, options
  <2>3. toggled \in ListsOf(options)
    BY <1>1, <1>2, <2>2, ToggledIs
  <2> HIDE DEF toggled
  <2>4. chosen \in ListsOf(options)
    BY <2>3, WithoutIs DEF joinCsvIds, splitCsvIds
  <2>5. QED
    BY <2>4 DEF ChoicesOf, options
<1>4. SetUrl(url2)
  BY DEF ChooseFilter
<1> HIDE DEF chosen
<1>5. OwnUrl(url2) /\ url2.linked = url.linked
  BY <1>1, <1>3, UrlWithFilter DEF OwnInv
<1>6. QED
  BY <1>4, <1>5, SetUrlKeepsOwn

LEMMA OwnStep == OwnInv /\ [SearchPageNext]_searchVars => OwnInv'
<1>1. SUFFICES ASSUME OwnInv, [SearchPageNext]_searchVars PROVE OwnInv'
  OBVIOUS
<1>2. CASE url' = url /\ DOMAIN cache' = DOMAIN cache
  BY <1>1, <1>2, OwnStands
<1>3. CASE \E key \in Entries : RequestEnds(key)
  <2>1. PICK key \in Entries : RequestEnds(key)
    BY <1>3
  <2>2. url' = url
    BY <2>1 DEF RequestEnds
  <2>3. DOMAIN cache' = DOMAIN cache
    BY <2>1 DEF RequestEnds, Succeeds, Fails
  <2>4. QED
    BY <1>2, <2>2, <2>3
<1>4. CASE UserActs
  <2>1. CASE \E typed \in Typed : handleInputChange(typed.text, typed.foreign)
    BY <1>2, <2>1 DEF handleInputChange
  <2>2. CASE handleSearch
    BY <1>1, <2>2, SearchKeepsOwn
  <2>3. CASE handleInputBlur
    BY <2>2, <2>3 DEF handleInputBlur
  <2>4. CASE handleClearInput \/ handleToggleFilters
    BY <1>2, <2>4 DEF handleClearInput, handleToggleFilters
  <2>5. CASE handleToggleExact
    <3> DEFINE url2 == [url EXCEPT !.exact = ~@]
    <3>1. SetUrl(url2)
      BY <2>5 DEF handleToggleExact
    <3>2. OwnUrl(url2) /\ url2.linked = url.linked
      <4>1. "exact" \notin Filters
        BY DEF Filters
      <4>2. QED
        BY <1>1, <4>1 DEF OwnInv, OwnUrl
    <3>3. QED
      BY <1>1, <3>1, <3>2, SetUrlKeepsOwn
  <2>6. CASE \E f \in DOMAIN Options : ClearFilter(f)
    <3>1. PICK f \in DOMAIN Options : ClearFilter(f)
      BY <2>6
    <3> DEFINE none == <<>>
               url2 == [url EXCEPT ![f] = none]
    <3>2. f \in Filters /\ none \in ChoicesOf(f) /\ SetUrl(url2)
      BY <3>1, SearchPageConstants, NoneChosen DEF ClearFilter
    <3> HIDE DEF none
    <3>3. OwnUrl(url2) /\ url2.linked = url.linked
      BY <1>1, <3>2, UrlWithFilter DEF OwnInv
    <3>4. QED
      BY <1>1, <3>2, <3>3, SetUrlKeepsOwn
  <2>7. CASE \E f \in DOMAIN Options : \E choice \in ToSet(Displayed(Options[f])) : ChooseFilter(f, choice)
    BY <1>1, <2>7, ChooseKeepsOwn
  <2>8. CASE handleRetry
    BY <1>2, <2>8 DEF handleRetry, Entries
  <2>9. CASE \E s \in Sections : LoadMore(s)
    BY <1>2, <2>9 DEF LoadMore
  <2>10. QED
    BY <1>4, <2>1, <2>2, <2>3, <2>4, <2>5, <2>6, <2>7, <2>8, <2>9 DEF UserActs, Act
<1>5. QED
  BY <1>1, <1>2, <1>3, <1>4 DEF SearchPageNext, searchVars

\* The page asked for is the first, or one that the page before promised.
LEMMA AskedIsPromised ==
    ASSUME NEW key, NEW entry \in EntriesFor(key)
    PROVE  /\ PageAsked(entry) \in 1..MaxPage
           /\ \E t \in DOMAIN Decimals : Decimals[t] = PageAsked(entry)
<1>1. ASSUME NEW pages \in AskedPages(key), hasMore(pages)
      PROVE  /\ getNextPageParam(pages) \in 1..MaxPage
             /\ \E t \in DOMAIN Decimals : Decimals[t] = getNextPageParam(pages)
  <2> DEFINE last == pages[Len(pages)]
  <2>1. pages \in Seq([asked : {key}, page : Nat, total : Totals]) /\ pages # <<>>
    BY <1>1 DEF AskedPages, hasMore
  <2>2. Len(pages) \in 1..Len(pages)
    BY <2>1, EmptySeq, LenProperties
  <2>3. last \in [asked : {key}, page : Nat, total : Totals]
    BY <2>1, <2>2, ElementOfSeq
  <2>4. last.page < last.total /\ getNextPageParam(pages) = last.page + 1
    BY <1>1 DEF hasMore, getNextPageParam, Last
  <2>5. last.page \in Nat /\ last.total \in Totals
    BY <2>3
  <2>a. \A total \in Totals : total \in 0..MaxPage
    BY SearchPageConstants
  <2>b. MaxPage \in Nat
    BY DEF MaxPage, ResultWindow, SearchPerPage
  <2> HIDE DEF last
  <2>6. last.page + 1 \in 1..last.total /\ last.page + 1 \in 1..MaxPage
    BY <2>4, <2>5, <2>a, <2>b
  <2>7. \A total \in Totals : \A nth \in 1..total : \E t \in DOMAIN Decimals : Decimals[t] = nth
    BY SearchPageConstants
  <2>8. QED
    BY <2>4, <2>5, <2>6, <2>7
<1>2. /\ 1 \in 1..MaxPage /\ "1" \in DOMAIN Decimals /\ Decimals["1"] = 1
  BY SearchPageConstants DEF MaxPage, ResultWindow, SearchPerPage
<1>3. /\ entry.pages \in AskedPages(key) /\ entry.got \in AskedPages(key)
      /\ entry.busy = "next" => hasMore(entry.pages)
      /\ entry.busy = "again" /\ entry.got # <<>> => hasMore(entry.got)
  BY DEF EntriesFor, EntryRecords
<1>4. \/ entry.busy = "next" /\ PageAsked(entry) = getNextPageParam(entry.pages)
      \/ entry.busy = "again" /\ entry.got # <<>> /\ PageAsked(entry) = getNextPageParam(entry.got)
      \/ PageAsked(entry) = 1
  BY DEF PageAsked
<1>5. QED
  BY <1>1, <1>2, <1>3, <1>4

LEMMA OwnIsAccepted == CacheInv /\ OwnInv => PageIsNeverRejected
<1>1. SUFFICES ASSUME CacheInv, OwnInv, ~url.linked, NEW key \in Requesting PROVE Accepted(key)
  BY DEF PageIsNeverRejected
<1> DEFINE entry == cache[key]
<1>2. key \in DOMAIN cache /\ entry \in EntriesFor(key) /\ entry.busy # "no"
  BY <1>1 DEF Requesting, Entries, CacheInv
<1>3. entry.input = key /\ GoodInput(key)
  BY <1>1, <1>2 DEF EntriesFor, OwnInv
<1>4. /\ PageAsked(entry) \in 1..MaxPage
      /\ \E t \in DOMAIN Decimals : Decimals[t] = PageAsked(entry)
  BY <1>2, AskedIsPromised
<1>5. Response(serializeQuery(searchQueryParams(key, PageAsked(entry)))) = 200
  BY <1>3, <1>4, GoodIsAccepted
<1>6. QED
  BY <1>3, <1>5 DEF Accepted, Request

(* Whatever is typed, chosen, cleared, turned over and tried again: no      *)
(* request of a page that was opened with a URL of the site's own form is   *)
(* one the API rejects.  What the form lets through, the serializer writes  *)
(* so that the parser reads it back (http.ts, query.rs), the filters of     *)
(* poems are not sent with a search for poets, and the pages asked for end  *)
(* where the window does (search.rs).                                       *)
THEOREM PageNeverRejected == SearchPageSpec => []PageIsNeverRejected
<1>1. SearchPageSpec => [](CacheInv /\ OwnInv)
  BY CacheStart, CacheStep, OwnStart, OwnStep, PTL DEF SearchPageSpec
<1>2. QED
  BY <1>1, OwnIsAccepted, PTL

\* What the box says is one of three things, whatever is typed.
BoxInv ==
    /\ DOMAIN box = {"text", "error", "filters"}
    /\ box.error \in {"none", "arabicOnly", "maxLength"} /\ box.filters \in BOOLEAN

LEMMA BoxStart == SearchPageInit => BoxInv
BY DEF SearchPageInit, BoxInv

LEMMA BoxStep == BoxInv /\ [SearchPageNext]_searchVars => BoxInv'
<1>1. SUFFICES ASSUME BoxInv, [SearchPageNext]_searchVars PROVE BoxInv'
  OBVIOUS
<1>2. CASE box' = box
  BY <1>1, <1>2 DEF BoxInv
<1>3. CASE handleSearch
  <2> DEFINE trimmed == Trim(box.text)
             text == IF trimmed # url.q THEN trimmed ELSE box.text
  <2>1. \/ box' = [box EXCEPT !.error = "maxLength"]
        \/ box' = [text |-> text, error |-> "none", filters |-> FALSE]
    BY <1>3 DEF handleSearch
  <2> HIDE DEF text
  <2>2. CASE box' = [box EXCEPT !.error = "maxLength"]
    BY <1>1, <2>2 DEF BoxInv
  <2>3. CASE box' = [text |-> text, error |-> "none", filters |-> FALSE]
    BY <2>3 DEF BoxInv
  <2>4. QED
    BY <2>1, <2>2, <2>3
<1>4. CASE UserActs
  <2>1. CASE \E typed \in Typed : handleInputChange(typed.text, typed.foreign)
    <3>1. PICK typed \in Typed : handleInputChange(typed.text, typed.foreign)
      BY <2>1
    <3> DEFINE said == IF typed.foreign THEN "arabicOnly"
                       ELSE IF typed.text \in OverFiftyUnits THEN "maxLength" ELSE "none"
    <3>2. said \in {"none", "arabicOnly", "maxLength"}
      OBVIOUS
    <3>3. box' = [box EXCEPT !.text = typed.text, !.error = said]
      BY <3>1 DEF handleInputChange
    <3> HIDE DEF said
    <3>4. QED
      BY <1>1, <3>2, <3>3 DEF BoxInv
  <2>2. CASE handleSearch \/ handleInputBlur
    BY <1>3, <2>2 DEF handleInputBlur
  <2>3. CASE handleClearInput
    BY <1>1, <2>3 DEF handleClearInput, BoxInv
  <2>4. CASE handleToggleFilters
    BY <1>1, <2>4 DEF handleToggleFilters, BoxInv
  <2>5. CASE handleToggleExact \/ handleRetry
    BY <1>2, <2>5 DEF handleToggleExact, handleRetry
  <2>6. CASE \E f \in DOMAIN Options : \/ ClearFilter(f)
                                       \/ \E choice \in ToSet(Displayed(Options[f])) : ChooseFilter(f, choice)
    BY <1>2, <2>6 DEF ClearFilter, ChooseFilter
  <2>7. CASE \E s \in Sections : LoadMore(s)
    BY <1>2, <2>7 DEF LoadMore
  <2>8. QED
    BY <1>4, <2>1, <2>2, <2>3, <2>4, <2>5, <2>6, <2>7 DEF UserActs, Act
<1>5. CASE \E key \in Entries : RequestEnds(key)
  BY <1>2, <1>5 DEF RequestEnds
<1>6. QED
  BY <1>1, <1>2, <1>4, <1>5 DEF SearchPageNext, searchVars

(* The search page's state keeps its type, and a query that has succeeded  *)
(* holds a page (use-search.tsx), whatever is asked for again.             *)
THEOREM SearchPageTypes == SearchPageSpec => []SearchPageTypeOK
<1>1. CacheInv /\ OwnInv /\ BoxInv => SearchPageTypeOK
  <2>1. SUFFICES ASSUME CacheInv, OwnInv, BoxInv PROVE SearchPageTypeOK
    OBVIOUS
  <2>2. ASSUME NEW key \in Entries
        PROVE  /\ cache[key].status \in {"pending", "success", "error"}
               /\ cache[key].busy \in {"no", "first", "next", "again"}
               /\ (cache[key].status = "success") => cache[key].pages # <<>>
    BY <2>1 DEF CacheInv, Entries, EntriesFor, EntryRecords
  <2>3. QED
    BY <2>1, <2>2 DEF SearchPageTypeOK, OwnInv, OwnUrl, BoxInv
<1>2. SearchPageSpec => [](CacheInv /\ OwnInv /\ BoxInv)
  BY CacheStart, CacheStep, OwnStart, OwnStep, BoxStart, BoxStep, PTL DEF SearchPageSpec
<1>3. QED
  BY <1>1, <1>2, PTL

-----------------------------------------------------------------------------
(***************************************************************************)
(* The reading settings, for any number of tabs, any scale and whatever    *)
(* the store holds at first.  The invariant says of every tab that has no  *)
(* storage event to come that it has what is stored, but for the fields it *)
(* failed to store; and what a patch                                       *)
(* makes of a store is what the patch makes of the settings parsed from it *)
(* (PatchedIsParsed), so that an old copy undoes nothing.                  *)
(***************************************************************************)

SettingsValues == [theme : Themes, poemFontScale : Scales]
Patches == {[theme |-> th] : th \in Themes} \cup {[poemFontScale |-> s] : s \in Scales}
StoredSettings == parseSettings(stored, legacy)

Fields == {"theme", "poemFontScale"}
TabCopies == [read : SettingsValues \cup {NoCopy}, theme : Themes, unsaved : SUBSET Fields]

\* Two settings that agree on all fields but some.
AgreeBut(some, a, b) == \A field \in Fields \ some : a[field] = b[field]

SettingsInv ==
    /\ stored.raw \in {"none", "corrupt", "denied", "record"}
    /\ copy \in [SettingsTabs -> TabCopies]
    /\ events \in [SettingsTabs -> Nat]
    /\ legacy = "none" => StoredSettings = wanted
    /\ \A t \in SettingsTabs :
          /\ copy[t].read = NoCopy => copy[t].unsaved = {}
          /\ events[t] = 0 /\ legacy = "none" =>
                AgreeBut(copy[t].unsaved, Settings(t), StoredSettings)

LEMMA DefaultIsValue == DEFAULT_SETTINGS \in SettingsValues
BY SettingsConstants DEF DEFAULT_SETTINGS, SettingsValues, Themes, Scales

LEMMA NoCopyIsNone == NoCopy \notin SettingsValues
BY DEF NoCopy, SettingsValues, Themes

LEMMA ParsedIsValue == ASSUME NEW text, NEW old PROVE parseSettings(text, old) \in SettingsValues
<1>1. CASE Unreadable(text.raw)
  BY <1>1, DefaultIsValue DEF parseSettings, SettingsValues, Themes
<1>2. CASE ~Unreadable(text.raw)
  <2>1. pick(Themes, text.fields, "theme", DEFAULT_SETTINGS.theme) \in Themes
    BY DefaultIsValue DEF pick, SettingsValues
  <2>2. pick(Scales, text.fields, "poemFontScale", DEFAULT_SETTINGS.poemFontScale) \in Scales
    BY DefaultIsValue DEF pick, SettingsValues
  <2>3. QED
    BY <1>2, <2>1, <2>2 DEF parseSettings, SettingsValues
<1>3. QED
  BY <1>1, <1>2

LEMMA SpreadIsValue ==
    ASSUME NEW value \in SettingsValues, NEW patch \in Patches
    PROVE  /\ Spread(value, patch) \in SettingsValues
           /\ Spread(value, patch).theme =
                 IF "theme" \in DOMAIN patch THEN patch.theme ELSE value.theme
           /\ Spread(value, patch).poemFontScale =
                 IF "poemFontScale" \in DOMAIN patch THEN patch.poemFontScale
                 ELSE value.poemFontScale
<1>1. CASE patch \in {[theme |-> th] : th \in Themes}
  <2>1. PICK th \in Themes : patch = [theme |-> th]
    BY <1>1
  <2>2. DOMAIN patch = {"theme"} /\ patch["theme"] = th /\ DOMAIN value = {"theme", "poemFontScale"}
    BY <2>1 DEF SettingsValues
  <2>3. Spread(value, patch) = [theme |-> th, poemFontScale |-> value.poemFontScale]
    BY <2>1, <2>2 DEF Spread, SettingsValues
  <2>4. QED
    BY <2>1, <2>2, <2>3 DEF SettingsValues
<1>2. CASE patch \in {[poemFontScale |-> s] : s \in Scales}
  <2>1. PICK s \in Scales : patch = [poemFontScale |-> s]
    BY <1>2
  <2>2. DOMAIN patch = {"poemFontScale"} /\ patch["poemFontScale"] = s
        /\ DOMAIN value = {"theme", "poemFontScale"}
    BY <2>1 DEF SettingsValues
  <2>3. Spread(value, patch) = [theme |-> value.theme, poemFontScale |-> s]
    BY <2>1, <2>2 DEF Spread, SettingsValues
  <2>4. QED
    BY <2>1, <2>2, <2>3 DEF SettingsValues
<1>3. QED
  BY <1>1, <1>2 DEF Patches

\* What is parsed of a store that a patch has been written to is what was parsed before, patched.
LEMMA PatchedIsParsed ==
    ASSUME NEW text, text.raw \in {"none", "corrupt", "denied", "record"}, NEW patch \in Patches, NEW mine,
           NEW after, after = [raw |-> "record", fields |-> serializeSettings(text, patch, mine)]
    PROVE  parseSettings(after, "none") = Spread(parseSettings(text, "none"), patch)
<1> DEFINE fields == serializeSettings(text, patch, mine)
           old == toRecord(text)
<1>1. "v" \notin {"theme", "poemFontScale"} /\ DOMAIN patch \subseteq {"theme", "poemFontScale"}
  BY DEF Patches
<1>2. ASSUME NEW field \in {"theme", "poemFontScale"}
      PROVE  /\ field \in DOMAIN fields <=> field \in DOMAIN patch \/ field \in DOMAIN old
             /\ field \in DOMAIN patch => fields[field] = patch[field]
             /\ field \in DOMAIN old \ DOMAIN patch => fields[field] = old[field]
  BY <1>1, <1>2 DEF serializeSettings, Spread
<1>3. parseSettings(after, "none") \in SettingsValues /\ parseSettings(text, "none") \in SettingsValues
  BY ParsedIsValue
<1> DEFINE before == parseSettings(text, "none")
<1>4. /\ parseSettings(after, "none").theme = pick(Themes, fields, "theme", "system")
      /\ parseSettings(after, "none").poemFontScale = pick(Scales, fields, "poemFontScale", 10)
  BY DEF parseSettings, Unreadable, DEFAULT_SETTINGS
<1>5. /\ before.theme = pick(Themes, old, "theme", "system")
      /\ before.poemFontScale = pick(Scales, old, "poemFontScale", 10)
  BY DEF parseSettings, Unreadable, DEFAULT_SETTINGS, toRecord, pick
<1>6. /\ "theme" \in DOMAIN patch => patch["theme"] \in Themes
      /\ "poemFontScale" \in DOMAIN patch => patch["poemFontScale"] \in Scales
  BY DEF Patches
<1> HIDE DEF fields, old
<1>7. pick(Themes, fields, "theme", "system") =
         IF "theme" \in DOMAIN patch THEN patch.theme ELSE before.theme
  BY <1>2, <1>5, <1>6 DEF pick
<1>8. pick(Scales, fields, "poemFontScale", 10) =
         IF "poemFontScale" \in DOMAIN patch THEN patch.poemFontScale ELSE before.poemFontScale
  BY <1>2, <1>5, <1>6 DEF pick
<1> HIDE DEF before
<1>9. /\ Spread(before, patch) \in SettingsValues
      /\ Spread(before, patch).theme = parseSettings(after, "none").theme
      /\ Spread(before, patch).poemFontScale = parseSettings(after, "none").poemFontScale
  BY <1>3, <1>4, <1>7, <1>8, SpreadIsValue DEF before
<1>10. QED
  BY <1>3, <1>9 DEF SettingsValues, before

LEMMA SettingsOf == ASSUME SettingsInv, NEW t \in SettingsTabs PROVE Settings(t) \in SettingsValues
<1>1. copy[t].read \in SettingsValues \cup {NoCopy}
  BY DEF SettingsInv, TabCopies
<1>2. QED
  BY <1>1, ParsedIsValue DEF Settings

LEMMA FreshIs ==
    ASSUME NEW theme \in Themes
    PROVE  Fresh(theme) \in TabCopies /\ Fresh(theme).read = NoCopy /\ Fresh(theme).unsaved = {}
BY DEF Fresh, TabCopies

LEMMA SettingsInitHolds == SettingsInit => SettingsInv
<1> SUFFICES ASSUME SettingsInit PROVE SettingsInv
  OBVIOUS
<1>1. parseSettings(stored, legacy).theme \in Themes
  BY ParsedIsValue DEF SettingsValues
<1>2. /\ copy \in [SettingsTabs -> TabCopies]
      /\ \A t \in SettingsTabs : copy[t].read = NoCopy /\ copy[t].unsaved = {}
  BY <1>1, FreshIs DEF SettingsInit
<1>3. \A t \in SettingsTabs : Settings(t) = StoredSettings
  BY <1>2 DEF Settings, StoredSettings
<1>4. QED
  BY <1>2, <1>3, SettingsConstants DEF SettingsInit, SettingsInv, StoredSettings, AgreeBut

\* Settings that agree but for some fields agree, once patched, but for those not patched; and
\* patching one of them alone adds what is patched to what they differ in.
LEMMA PatchedAgree ==
    ASSUME NEW a \in SettingsValues, NEW b \in SettingsValues, NEW patch \in Patches,
           NEW some \in SUBSET Fields, AgreeBut(some, a, b)
    PROVE  /\ AgreeBut(some \ DOMAIN patch, Spread(a, patch), Spread(b, patch))
           /\ AgreeBut(some \cup DOMAIN patch, Spread(a, patch), b)
           /\ some \ DOMAIN patch \in SUBSET Fields /\ some \cup DOMAIN patch \in SUBSET Fields
<1>1. DOMAIN patch \subseteq Fields
  BY DEF Patches, Fields
<1>2. ASSUME NEW value \in SettingsValues, NEW field \in Fields
      PROVE  Spread(value, patch)[field] = IF field \in DOMAIN patch THEN patch[field] ELSE value[field]
  BY <1>1, <1>2 DEF Spread, SettingsValues, Fields
<1>3. QED
  BY <1>1, <1>2 DEF AgreeBut

LEMMA UpdateKeeps ==
    ASSUME SettingsInv, NEW t \in SettingsTabs, NEW patch \in Patches, updateSettings(t, patch)
    PROVE  SettingsInv'
<1> DEFINE before == Settings(t)
<1>1. before \in SettingsValues /\ Spread(before, patch) \in SettingsValues
  BY SettingsOf, SpreadIsValue
<1>2. PICK saved \in BOOLEAN : update(t, patch, saved)
  BY DEF updateSettings
<1>3. /\ legacy' = legacy /\ wanted' = IF saved THEN Spread(wanted, patch) ELSE wanted
      /\ stored' = IF saved
                   THEN [raw |-> "record", fields |-> serializeSettings(stored, patch, before)]
                   ELSE stored
      /\ stored'.raw \in {"none", "corrupt", "denied", "record"}
  BY <1>2 DEF update, SettingsInv
<1>4. legacy = "none" =>
        StoredSettings' = IF saved THEN Spread(StoredSettings, patch) ELSE StoredSettings
  BY <1>3, PatchedIsParsed DEF SettingsInv, StoredSettings
<1> DEFINE theme == IF "theme" \in DOMAIN patch THEN patch.theme ELSE copy[t].theme
           unsaved == IF saved THEN copy[t].unsaved \ DOMAIN patch ELSE copy[t].unsaved \cup DOMAIN patch
           mine == [read |-> Spread(before, patch), theme |-> theme, unsaved |-> unsaved]
<1>5. theme \in Themes /\ copy[t].unsaved \in SUBSET Fields
  BY DEF Patches, SettingsInv, TabCopies
<1>6. unsaved \in SUBSET Fields
  BY <1>5 DEF Patches, Fields
<1>7. copy' = [copy EXCEPT ![t] = mine]
  BY <1>2 DEF update
<1> HIDE DEF theme, unsaved
<1>8. mine \in TabCopies
  <2> HIDE DEF before
  <2> QED
    BY <1>1, <1>5, <1>6 DEF TabCopies
<1>9. /\ copy' \in [SettingsTabs -> TabCopies]
      /\ copy'[t].read = Spread(before, patch) /\ copy'[t].unsaved = unsaved
      /\ \A other \in SettingsTabs \ {t} : copy'[other] = copy[other]
  BY <1>7, <1>8 DEF SettingsInv
<1>10. events' = [other \in SettingsTabs |->
                     IF other = t \/ stored' = stored THEN events[other] ELSE events[other] + 1]
  BY <1>2 DEF update
<1>11. events' \in [SettingsTabs -> Nat]
  BY <1>10 DEF SettingsInv
<1>12. ASSUME NEW other \in SettingsTabs
       PROVE  /\ copy'[other].read = NoCopy => copy'[other].unsaved = {}
              /\ events'[other] = 0 /\ legacy = "none" =>
                    AgreeBut(copy'[other].unsaved, Settings(other)', StoredSettings')
  <2>1. CASE other = t
    <3>1. copy'[t].read # NoCopy /\ Settings(t)' = Spread(before, patch)
      BY <1>1, <1>9, NoCopyIsNone DEF Settings
    <3>2. ASSUME events'[t] = 0, legacy = "none"
          PROVE  AgreeBut(unsaved, Spread(before, patch), StoredSettings')
      <4>1. AgreeBut(copy[t].unsaved, before, StoredSettings) /\ StoredSettings \in SettingsValues
        BY <1>10, <3>2, ParsedIsValue DEF SettingsInv, StoredSettings
      <4> HIDE DEF before
      <4>2. /\ AgreeBut(copy[t].unsaved \ DOMAIN patch, Spread(before, patch), Spread(StoredSettings, patch))
            /\ AgreeBut(copy[t].unsaved \cup DOMAIN patch, Spread(before, patch), StoredSettings)
        BY <1>1, <1>5, <4>1, PatchedAgree
      <4>3. QED
        BY <1>4, <3>2, <4>2 DEF unsaved
    <3>3. QED
      BY <1>9, <2>1, <3>1, <3>2
  <2>2. CASE other # t
    <3>1. copy'[other] = copy[other]
      BY <1>9, <2>2
    <3>2. ASSUME events'[other] = 0, legacy = "none"
          PROVE  AgreeBut(copy'[other].unsaved, Settings(other)', StoredSettings')
      <4>1. stored' = stored /\ events[other] = 0
        BY <1>10, <2>2, <3>2 DEF SettingsInv
      <4>2. Settings(other)' = Settings(other) /\ StoredSettings' = StoredSettings
        BY <1>3, <3>1, <4>1 DEF Settings, StoredSettings
      <4>3. QED
        BY <3>1, <3>2, <4>1, <4>2 DEF SettingsInv
    <3>3. QED
      BY <3>1, <3>2 DEF SettingsInv
  <2>3. QED
    BY <2>1, <2>2
<1>13. legacy' = "none" => StoredSettings' = wanted'
  BY <1>3, <1>4 DEF SettingsInv
<1>14. QED
  BY <1>3, <1>9, <1>11, <1>12, <1>13 DEF SettingsInv

LEMMA ChangesKeep ==
    ASSUME SettingsInv, NEW t \in SettingsTabs, ChooseTheme(t) \/ StepScale(t) \/ ResetScale(t)
    PROVE  SettingsInv'
<1>1. CASE ChooseTheme(t)
  <2>1. PICK theme \in Themes : updateSettings(t, [theme |-> theme])
    BY <1>1 DEF ChooseTheme
  <2>2. [theme |-> theme] \in Patches
    BY DEF Patches
  <2>3. QED
    BY <2>1, <2>2, UpdateKeeps
<1>2. CASE StepScale(t)
  <2>1. PICK delta \in {-1, 1} : updateSettings(t,
            [poemFontScale |-> clampFontScale(Settings(t).poemFontScale + delta)])
    BY <1>2 DEF StepScale
  <2>2. Settings(t).poemFontScale + delta \in Int
    BY SettingsOf, SettingsConstants DEF SettingsValues, Scales
  <2>3. clampFontScale(Settings(t).poemFontScale + delta) \in Scales
    BY <2>2, SettingsConstants DEF clampFontScale, Scales
  <2>4. [poemFontScale |-> clampFontScale(Settings(t).poemFontScale + delta)] \in Patches
    BY <2>3 DEF Patches
  <2>5. QED
    BY <2>1, <2>4, UpdateKeeps
<1>3. CASE ResetScale(t)
  <2>1. [poemFontScale |-> DEFAULT_SETTINGS.poemFontScale] \in Patches
    BY DefaultIsValue DEF Patches, SettingsValues
  <2>2. QED
    BY <1>3, <2>1, UpdateKeeps DEF ResetScale
<1>4. QED
  BY <1>1, <1>2, <1>3

\* A tab that drops its copy, or is loaded, reads what is stored.
LEMMA ForgettingKeeps ==
    ASSUME SettingsInv, NEW t \in SettingsTabs, StorageEvent(t) \/ Load(t)
    PROVE  SettingsInv'
<1>1. stored' = stored /\ legacy' = legacy /\ wanted' = wanted /\ StoredSettings' = StoredSettings
  BY DEF StorageEvent, Load, StoredSettings
<1>2. PICK theme \in Themes : copy' = [copy EXCEPT ![t] = Fresh(theme)]
  <2>1. CASE StorageEvent(t)
    BY <2>1 DEF StorageEvent, Forget, SettingsInv, TabCopies
  <2>2. CASE Load(t)
    <3>1. parseSettings(stored, legacy).theme \in Themes
      BY ParsedIsValue DEF SettingsValues
    <3>2. QED
      BY <2>2, <3>1 DEF Load
  <2>3. QED
    BY <2>1, <2>2
<1>3. copy' \in [SettingsTabs -> TabCopies] /\ copy'[t] = Fresh(theme)
  BY <1>2, FreshIs DEF SettingsInv
<1>4. /\ events' \in [SettingsTabs -> Nat]
      /\ \A other \in SettingsTabs \ {t} : events'[other] = events[other]
  BY DEF StorageEvent, Load, SettingsInv
<1>5. ASSUME NEW other \in SettingsTabs
      PROVE  /\ copy'[other].read = NoCopy => copy'[other].unsaved = {}
             /\ events'[other] = 0 /\ legacy = "none" =>
                   AgreeBut(copy'[other].unsaved, Settings(other)', StoredSettings')
  <2>1. CASE other = t
    <3>1. copy'[t].read = NoCopy /\ copy'[t].unsaved = {}
      BY <1>3, FreshIs
    <3>2. QED
      BY <2>1, <3>1 DEF Settings, StoredSettings, AgreeBut
  <2>2. CASE other # t
    <3>1. copy'[other] = copy[other] /\ events'[other] = events[other]
      BY <1>2, <1>4, <2>2 DEF SettingsInv
    <3>2. Settings(other)' = Settings(other)
      BY <1>1, <3>1 DEF Settings
    <3>3. QED
      BY <1>1, <3>1, <3>2 DEF SettingsInv
  <2>3. QED
    BY <2>1, <2>2
<1>6. QED
  BY <1>1, <1>3, <1>4, <1>5 DEF SettingsInv

LEMMA SettingsStep == SettingsInv /\ [SettingsNext]_settingsVars => SettingsInv'
<1> SUFFICES ASSUME SettingsInv, [SettingsNext]_settingsVars PROVE SettingsInv'
  OBVIOUS
<1>1. CASE SettingsNext
  BY <1>1, ChangesKeep, ForgettingKeeps DEF SettingsNext
<1>2. CASE UNCHANGED settingsVars
  BY <1>2 DEF settingsVars, SettingsInv, Settings, StoredSettings
<1>3. QED
  BY <1>1, <1>2

\* The reading settings, for any number of tabs, whatever writes fail: the store holds the last
\* choice of each that was written, whichever tab made it and however old its copy was, and a
\* tab that has heard of every change has what is stored, but for the choices it failed to write.
THEOREM TabsSettle == SettingsSpec => []SettingsAgree
<1>1. SettingsInv => SettingsAgree
  <2> SUFFICES ASSUME SettingsInv PROVE SettingsAgree
    OBVIOUS
  <2>1. DOMAIN DEFAULT_SETTINGS = Fields
    BY DEF DEFAULT_SETTINGS, Fields
  <2>2. NoChoiceIsUndone
    BY DEF SettingsInv, NoChoiceIsUndone, StoredSettings
  <2>3. TabsAgree
    BY <2>1, SettingsOf DEF SettingsInv, TabsAgree, SettingsValues, StoredSettings, AgreeBut
  <2>4. QED
    BY <2>2, <2>3 DEF SettingsAgree
<1>2. QED
  BY <1>1, SettingsInitHolds, SettingsStep, PTL DEF SettingsSpec

-----------------------------------------------------------------------------
(***************************************************************************)
(* The random poem, for any attempts, timeouts and budget: a run that      *)
(* pauses has an attempt left, and only a deadline that has not passed     *)
(* lets it ask again.                                                      *)
(***************************************************************************)

RunSteps == {"none", "asking", "reading", "pausing", "poem", "error", "thrown"}
Runs == [step : RunSteps, by : Callers, attempt : Nat, clock : Nat, since : Nat, sent : Nat]

\* A run that pauses may ask once more, if there is time left when the pause ends.
RandomInv ==
    /\ run \in Runs
    /\ run.clock <= Budget
    /\ run.step # "none" => run.sent < Budget /\ run.attempt \in 1..Attempts
    /\ run.step = "pausing" => run.attempt < Attempts

LEMMA AttemptIs ==
    ASSUME NEW r \in Runs
    PROVE  /\ Attempt(r) \in Runs
           /\ Attempt(r).step = "asking" /\ Attempt(r).attempt = r.attempt + 1
           /\ Attempt(r).clock = r.clock /\ Attempt(r).sent = r.clock
<1>1. Attempt(r).step = "asking" /\ Attempt(r).clock = r.clock /\ Attempt(r).by = r.by
  BY DEF Attempt, Runs
<1>2. Attempt(r).attempt = r.attempt + 1
  BY DEF Attempt, Runs
<1>3. Attempt(r).since = r.clock
  BY DEF Attempt, Runs
<1>4. Attempt(r).sent = r.clock
  BY DEF Attempt, Runs
<1>5. Attempt(r) \in Runs
  <2>1. ASSUME NEW s \in RunSteps, NEW n \in Nat, NEW c \in Nat
        PROVE  [r EXCEPT !.step = s, !.attempt = n, !.since = c, !.sent = c] \in Runs
    BY DEF Runs
  <2>2. "asking" \in RunSteps /\ r.attempt + 1 \in Nat /\ r.clock \in Nat
    BY DEF Runs, RunSteps
  <2>3. [r EXCEPT !.step = "asking", !.attempt = r.attempt + 1, !.since = r.clock, !.sent = r.clock]
          \in Runs
    BY <2>1, <2>2
  <2>4. QED
    BY <2>3 DEF Attempt
<1>6. QED
  BY <1>1, <1>2, <1>4, <1>5

LEMMA RandomInitHolds == RandomPoemInit => RandomInv
BY RandomPoemConstants DEF RandomPoemInit, RandomInv, NoRun, Callers, Runs, RunSteps

LEMMA BeginKeepsRandom == ASSUME RandomInv, NEW by \in Callers, Begin(by) PROVE RandomInv'
<1>1. [NoRun EXCEPT !.by = by] =
         [step |-> "none", by |-> by, attempt |-> 0, clock |-> 0, since |-> 0, sent |-> 0]
  BY DEF NoRun
<1>2. [NoRun EXCEPT !.by = by] \in Runs /\ run' = Attempt([NoRun EXCEPT !.by = by])
  BY <1>1 DEF Begin, Runs, RunSteps
<1>3. run' \in Runs /\ run'.step = "asking" /\ run'.attempt = 1 /\ run'.clock = 0 /\ run'.sent = 0
  BY <1>1, <1>2, AttemptIs
<1>4. QED
  BY <1>3, RandomPoemConstants DEF RandomInv

LEMMA FailedKeeps == ASSUME RandomInv, Active, Failed(run) PROVE RandomInv'
BY RandomPoemConstants DEF Active, Failed, Return, DeadlineAborted, RandomInv, Runs, RunSteps

LEMMA RespondsKeeps == ASSUME RandomInv, NEW status, Responds(status) PROVE RandomInv'
<1>1. CASE status = "2xx"
  BY <1>1 DEF Responds, RandomInv, Runs, RunSteps
<1>2. CASE status # "2xx"
  BY <1>2, FailedKeeps DEF Responds, Active
<1>3. QED
  BY <1>1, <1>2

LEMMA BodyKeeps == ASSUME RandomInv, NEW text, Body(text) PROVE RandomInv'
<1>1. CASE text = "slug"
  BY <1>1 DEF Body, Return, RandomInv, Runs, RunSteps
<1>2. CASE text # "slug"
  BY <1>2, FailedKeeps DEF Body, Active
<1>3. QED
  BY <1>1, <1>2

LEMMA PauseEndsKeeps == ASSUME RandomInv, PauseEnds PROVE RandomInv'
<1>1. CASE MayAskAgain(run)
  <2>1. run.step = "pausing" /\ run.clock # Budget /\ run' = Attempt(run)
    BY <1>1 DEF PauseEnds, MayAskAgain, DeadlineAborted
  <2>2. /\ run' \in Runs /\ run'.step = "asking" /\ run'.attempt = run.attempt + 1
        /\ run'.clock = run.clock /\ run'.sent = run.clock
    BY <2>1, AttemptIs DEF RandomInv
  <2>3. QED
    BY <2>1, <2>2, RandomPoemConstants DEF RandomInv, Runs, RunSteps
<1>2. CASE ~MayAskAgain(run)
  BY <1>2 DEF PauseEnds, Return, RandomInv, Runs, RunSteps
<1>3. QED
  BY <1>1, <1>2

LEMMA TickKeeps == ASSUME RandomInv, Tick PROVE RandomInv'
BY RandomPoemConstants DEF Tick, DeadlineAborted, RandomInv, Runs, RunSteps

LEMMA RandomStep == RandomInv /\ [RandomPoemNext]_randomPoemVars => RandomInv'
<1> SUFFICES ASSUME RandomInv, [RandomPoemNext]_randomPoemVars PROVE RandomInv'
  OBVIOUS
<1>1. ASSUME NEW by \in Callers, Begin(by) PROVE RandomInv'
  BY <1>1, BeginKeepsRandom
<1>2. ASSUME NEW status \in {"2xx", "429", "5xx", "lost"}, Responds(status) PROVE RandomInv'
  BY <1>2, RespondsKeeps
<1>3. ASSUME NEW text \in {"slug", "blank", "other"}, Body(text) PROVE RandomInv'
  BY <1>3, BodyKeeps
<1>4. CASE BodyBreaks
  BY <1>4 DEF BodyBreaks, RandomInv, Runs, RunSteps
<1>5. CASE Timers
  BY <1>5, <1>4, FailedKeeps, PauseEndsKeeps DEF Timers, AskingAborted, Active
<1>6. CASE Tick
  BY <1>6, TickKeeps
<1>7. CASE PageShow \/ UNCHANGED randomPoemVars
  BY <1>7 DEF PageShow, randomPoemVars, RandomInv, Runs, RunSteps
<1>8. QED
  BY <1>1, <1>2, <1>3, <1>4, <1>5, <1>6, <1>7 DEF RandomPoemNext

\* However the timers, the answers and the clicks fall, no request of a random poem is sent
\* once its budget is used up, and none beyond its attempts.
THEOREM PoemWithinBudget == RandomPoemSpec => []AsksWithinBudget
<1>1. RandomInv => AsksWithinBudget
  BY DEF RandomInv, AsksWithinBudget
<1>2. QED
  BY <1>1, RandomInitHolds, RandomStep, PTL DEF RandomPoemSpec

-----------------------------------------------------------------------------
(***************************************************************************)
(* The account pages, for any number of tabs, sign-ins and keys, and       *)
(* whatever the providers claim.  The invariant follows a sign-in through  *)
(* its steps: while nothing disturbs it the cookie is its own, from the    *)
(* exchange on whoever it is for was verified, and from the upsert on has  *)
(* an account.  No key that a tab knows of was made after it knew of it, so *)
(* that one that has gone stays gone.                                      *)
(***************************************************************************)

\* Who a provider may say it is, and of those the ones whose address it vouches for.
Identities ==
    {NoIdentity} \cup UNION {{[who |-> claim.id, claim |-> claim, provider |-> provider] :
                                 claim \in Claims[provider]} : provider \in Providers}
Verified(who) ==
    IF who.provider = "google" THEN who.claim.verified
    ELSE \E email \in who.claim.emails : email.primary /\ email.verified

PageSteps == {"idle", "provider", "check", "exchange", "user", "session", "welcome", "refused",
              "viewer", "create", "revoke", "back", "account", "page"}
PageWants == {"account", "create", "revoke"}
PageWords == {"nothing", "denied", "state", "identity", "created", "error", "revoked"}
Owners == {who.who : who \in Identities}
KeyValues == [id : Nat, owner : Owners]
Jars == [state : Nat, session : Identities, newKey : KeyValues]
KeyPages == [of : Identities, keys : SUBSET KeyValues]
Requests ==
    [step : PageSteps, provider : Providers \cup {"none"}, state : Nat, cookie : Nat, who : Identities,
     disturbed : BOOLEAN, wants : PageWants, fresh : KeyValues, key : KeyValues, page : KeyPages,
     said : PageWords, for : Owners]

PagesTyped ==
    /\ jar \in Jars
    /\ tab \in [PageTabs -> Requests]
    /\ begun \in Nat
    /\ keys \in [made : Nat, active : SUBSET KeyValues]

\* A sign-in that nothing has disturbed finds its own state in the jar.
InTheJar(r) ==
    /\ r.step = "provider" /\ ~r.disturbed => r.state = jar.state /\ r.state \in 1..begun
    /\ r.step = "check" /\ ~r.disturbed => r.cookie = r.state /\ r.state \in 1..begun
    /\ r.step \in {"provider", "check"} => r.said = "nothing" /\ r.provider \in Providers
    /\ r.step = "refused" /\ r.said = "state" => r.disturbed
    /\ r.step = "exchange" => r.cookie = r.state /\ r.said = "nothing" /\ r.provider \in Providers

\* Whoever is on the way to a session has an account, and was verified before.
OnTheWay(r) ==
    /\ r.step \in {"user", "session", "welcome"} => Verified(r.who) /\ r.said = "nothing"
    /\ r.step \in {"session", "welcome"} => r.who \in users

\* What a tab knows of was made, and what is said to be revoked to its owner is not active.
Own(r) == r.for = r.key.owner
KeyIsGone(r) ==
    /\ r.key.id <= keys.made /\ \A key \in r.page.keys : key.id <= keys.made
    /\ r.said = "revoked" /\ Own(r) => r.key \notin keys.active
    /\ r.said = "revoked" /\ Own(r) /\ r.step \in {"page", "idle"} => r.key \notin r.page.keys

PagesInv ==
    /\ PagesTyped
    /\ \A t \in PageTabs : InTheJar(tab[t]) /\ OnTheWay(tab[t]) /\ KeyIsGone(tab[t])
    /\ \A key \in keys.active : key.id <= keys.made
    /\ jar.session # NoIdentity => jar.session \in users /\ Verified(jar.session)

LEMMA NothingIs ==
    /\ NoIdentity \in Identities /\ "nobody" \in Owners /\ NoKey \in KeyValues /\ NoPage \in KeyPages
    /\ NoKey.id = 0 /\ NoPage.keys = {}
<1>1. NoIdentity \in Identities /\ NoIdentity.who = "nobody"
  BY DEF Identities, NoIdentity
<1>2. "nobody" \in Owners
  BY <1>1 DEF Owners
<1>3. NoKey \in KeyValues /\ NoKey.id = 0
  BY <1>2 DEF NoKey, KeyValues
<1>4. NoPage \in KeyPages /\ NoPage.keys = {}
  BY <1>1 DEF NoPage, KeyPages
<1>5. QED
  BY <1>1, <1>2, <1>3, <1>4

LEMMA IdleIs ==
    /\ Idle \in Requests /\ Idle.step = "idle" /\ Idle.said = "nothing" /\ ~Idle.disturbed
    /\ Idle.key = NoKey /\ Idle.page = NoPage /\ Idle.for = "nobody"
<1>1. "idle" \in PageSteps /\ "account" \in PageWants /\ "nothing" \in PageWords
  BY DEF PageSteps, PageWants, PageWords
<1>2. QED
  BY <1>1, NothingIs DEF Idle, Requests

\* A request with some of its fields replaced is one.
LEMMA RequestWith ==
    /\ \A r \in Requests, step \in PageSteps : [r EXCEPT !.step = step] \in Requests
    /\ \A r \in Requests, step \in PageSteps, said \in PageWords :
          [r EXCEPT !.step = step, !.said = said] \in Requests
    /\ \A r \in Requests, step \in PageSteps, who \in Identities :
          [r EXCEPT !.step = step, !.who = who] \in Requests
    /\ \A r \in Requests, step \in PageSteps, said \in PageWords, n \in Nat :
          [r EXCEPT !.step = step, !.cookie = n, !.said = said] \in Requests
    /\ \A r \in Requests, step \in PageSteps, provider \in Providers, n \in Nat :
          [r EXCEPT !.step = step, !.provider = provider, !.state = n] \in Requests
    /\ \A r \in Requests, step \in PageSteps, key \in KeyValues, said \in PageWords :
          [r EXCEPT !.step = step, !.key = key, !.said = said] \in Requests
    /\ \A r \in Requests, step \in PageSteps, said \in PageWords, name \in Owners :
          [r EXCEPT !.step = step, !.for = name, !.said = said] \in Requests
    /\ \A r \in Requests, step \in PageSteps, p \in KeyPages :
          [r EXCEPT !.step = step, !.page = p] \in Requests
<1>1. \A r \in Requests, step \in PageSteps : [r EXCEPT !.step = step] \in Requests
  BY DEF Requests
<1>2. \A r \in Requests, step \in PageSteps, said \in PageWords :
          [r EXCEPT !.step = step, !.said = said] \in Requests
  BY DEF Requests
<1>3. \A r \in Requests, step \in PageSteps, who \in Identities :
          [r EXCEPT !.step = step, !.who = who] \in Requests
  BY DEF Requests
<1>4. \A r \in Requests, step \in PageSteps, said \in PageWords, n \in Nat :
          [r EXCEPT !.step = step, !.cookie = n, !.said = said] \in Requests
  BY DEF Requests
<1>5. \A r \in Requests, step \in PageSteps, provider \in Providers, n \in Nat :
          [r EXCEPT !.step = step, !.provider = provider, !.state = n] \in Requests
  BY DEF Requests
<1>6. \A r \in Requests, step \in PageSteps, key \in KeyValues, said \in PageWords :
          [r EXCEPT !.step = step, !.key = key, !.said = said] \in Requests
  BY DEF Requests
<1>7. \A r \in Requests, step \in PageSteps, said \in PageWords, name \in Owners :
          [r EXCEPT !.step = step, !.for = name, !.said = said] \in Requests
  BY DEF Requests
<1>8. \A r \in Requests, step \in PageSteps, p \in KeyPages : [r EXCEPT !.step = step, !.page = p] \in Requests
  BY DEF Requests
<1>9. QED
  BY <1>1, <1>2, <1>3, <1>4, <1>5, <1>6, <1>7, <1>8

\* A request for the account page: of what was said before it only a revocation is remembered.
LEMMA AccountPageIs ==
    ASSUME NEW r \in Requests, NEW cookies \in Jars
    PROVE  /\ AccountPage(r, cookies) \in Requests
           /\ AccountPage(r, cookies).step = "viewer"
           /\ AccountPage(r, cookies).page = NoPage
           /\ \/ /\ AccountPage(r, cookies).said = "nothing"
                 /\ AccountPage(r, cookies).key = NoKey
              \/ /\ r.said = "revoked" /\ AccountPage(r, cookies).said = "revoked"
                 /\ AccountPage(r, cookies).key = r.key /\ AccountPage(r, cookies).for = r.for
<1> DEFINE before == IF r.said = "revoked" THEN r ELSE Idle
<1>1. before \in Requests
  BY IdleIs
<1>2. cookies.session \in Identities /\ cookies.newKey \in KeyValues /\ "viewer" \in PageSteps
  BY DEF Jars, PageSteps
<1>3. \/ before.said = "nothing" /\ before.key = NoKey
      \/ r.said = "revoked" /\ before = r
  BY IdleIs
<1> DEFINE AskedFor(r0, who, fresh, said, key, name) ==
               [r0 EXCEPT !.step = "viewer", !.who = who, !.fresh = fresh,
                          !.said = said, !.key = key, !.for = name]
<1>4. AccountPage(r, cookies) =
        AskedFor(Idle, cookies.session, cookies.newKey, before.said, before.key, before.for)
  BY DEF AccountPage
<1> HIDE DEF before
<1>5. before.said \in PageWords /\ before.key \in KeyValues /\ before.for \in Owners
  BY <1>1 DEF Requests
<1>6. ASSUME NEW r0 \in Requests, NEW who \in Identities, NEW fresh \in KeyValues, NEW said \in PageWords,
             NEW key \in KeyValues, NEW name \in Owners
      PROVE  LET q == AskedFor(r0, who, fresh, said, key, name)
             IN  /\ q \in Requests /\ q.step = "viewer" /\ q.page = r0.page
                 /\ q.said = said /\ q.key = key /\ q.for = name
  BY <1>2 DEF Requests
<1> HIDE DEF AskedFor
<1>7. /\ AccountPage(r, cookies) \in Requests
      /\ AccountPage(r, cookies).step = "viewer"
      /\ AccountPage(r, cookies).page = NoPage
      /\ AccountPage(r, cookies).said = before.said
      /\ AccountPage(r, cookies).key = before.key /\ AccountPage(r, cookies).for = before.for
  BY <1>2, <1>4, <1>5, <1>6, IdleIs
<1>8. QED
  BY <1>3, <1>7

LEMMA PagesInitHolds == AccountPagesInit => PagesInv
<1> SUFFICES ASSUME AccountPagesInit PROVE PagesInv
  OBVIOUS
<1>1. PagesTyped
  BY IdleIs, NothingIs DEF AccountPagesInit, PagesTyped, Jars
<1>2. \A t \in PageTabs : tab[t] = Idle
  BY DEF AccountPagesInit
<1>3. keys.made = 0 /\ keys.active = {}
  BY DEF AccountPagesInit
<1>4. InTheJar(Idle) /\ OnTheWay(Idle) /\ KeyIsGone(Idle)
  BY <1>3, IdleIs, NothingIs DEF InTheJar, OnTheWay, KeyIsGone
<1>5. QED
  BY <1>1, <1>2, <1>3, <1>4 DEF PagesInv, AccountPagesInit

\* The requests of the other tabs stay as they are, and so does the session, unless it goes.
LEMMA OneTabMoves ==
    ASSUME PagesInv, NEW T \in SUBSET PageTabs, PagesTyped',
           jar'.state = jar.state, jar'.session \in {jar.session, NoIdentity},
           begun' = begun, users \subseteq users',
           keys'.made >= keys.made,
           \A key \in keys'.active : key.id <= keys'.made /\ (key.id <= keys.made => key \in keys.active),
           \A other \in PageTabs \ T : tab'[other] = tab[other],
           \A t \in T : InTheJar(tab[t])' /\ OnTheWay(tab[t])' /\ KeyIsGone(tab[t])'
    PROVE  PagesInv'
<1>1. keys.made \in Nat /\ keys'.made \in Nat
  BY DEF PagesInv, PagesTyped
<1>2. ASSUME NEW other \in PageTabs \ T
      PROVE  InTheJar(tab[other])' /\ OnTheWay(tab[other])' /\ KeyIsGone(tab[other])'
  <2>1. /\ tab'[other] = tab[other] /\ InTheJar(tab[other]) /\ OnTheWay(tab[other]) /\ KeyIsGone(tab[other])
        /\ tab[other].key.id \in Nat /\ \A key \in tab[other].page.keys : key.id \in Nat
    BY DEF PagesInv, PagesTyped, Requests, KeyValues, KeyPages
  <2>2. InTheJar(tab[other])'
    BY <2>1 DEF InTheJar
  <2>3. OnTheWay(tab[other])'
    BY <2>1 DEF OnTheWay
  <2>4. KeyIsGone(tab[other])'
    BY <1>1, <2>1 DEF KeyIsGone, Own
  <2>5. QED
    BY <2>2, <2>3, <2>4
<1>3. (jar.session # NoIdentity => jar.session \in users /\ Verified(jar.session))'
  BY DEF PagesInv, Verified
<1>4. QED
  BY <1>2, <1>3 DEF PagesInv

LEMMA DisturbedIs ==
    ASSUME NEW r \in Requests
    PROVE  /\ Disturbed(r) \in Requests
           /\ Disturbed(r).step = r.step /\ Disturbed(r).said = r.said
           /\ Disturbed(r).state = r.state /\ Disturbed(r).cookie = r.cookie
           /\ Disturbed(r).provider = r.provider /\ Disturbed(r).who = r.who
           /\ Disturbed(r).key = r.key /\ Disturbed(r).page = r.page /\ Disturbed(r).for = r.for
           /\ r.step \in {"provider", "check"} \/ r.disturbed => Disturbed(r).disturbed
<1>1. LET q == [r EXCEPT !.disturbed = TRUE] IN
      /\ q \in Requests /\ q.step = r.step /\ q.said = r.said /\ q.state = r.state /\ q.cookie = r.cookie
      /\ q.provider = r.provider /\ q.who = r.who /\ q.key = r.key /\ q.page = r.page /\ q.for = r.for
      /\ q.disturbed = TRUE
  BY ZenonT(40) DEF Requests
<1>2. QED
  BY <1>1 DEF Disturbed

\* The cookie of a sign-in is replaced or dropped: every other sign-in is disturbed.
LEMMA EveryTabDisturbed ==
    ASSUME PagesInv, NEW T \in SUBSET PageTabs, PagesTyped', keys' = keys, users' = users, begun' >= begun,
           \A other \in PageTabs \ T : tab'[other] = Disturbed(tab[other]),
           \A t \in T : InTheJar(tab[t])' /\ OnTheWay(tab[t])' /\ KeyIsGone(tab[t])',
           jar'.session # NoIdentity => jar'.session \in users /\ Verified(jar'.session)
    PROVE  PagesInv'
<1>1. ASSUME NEW other \in PageTabs \ T
      PROVE  InTheJar(tab[other])' /\ OnTheWay(tab[other])' /\ KeyIsGone(tab[other])'
  <2>1. tab[other] \in Requests /\ InTheJar(tab[other]) /\ OnTheWay(tab[other]) /\ KeyIsGone(tab[other])
    BY DEF PagesInv, PagesTyped
  <2>2. /\ tab'[other].step = tab[other].step /\ tab'[other].said = tab[other].said
        /\ tab'[other].state = tab[other].state /\ tab'[other].cookie = tab[other].cookie
        /\ tab'[other].provider = tab[other].provider /\ tab'[other].who = tab[other].who
        /\ tab'[other].key = tab[other].key /\ tab'[other].page = tab[other].page
        /\ tab'[other].for = tab[other].for
        /\ tab[other].step \in {"provider", "check"} \/ tab[other].disturbed => tab'[other].disturbed
    BY <2>1, DisturbedIs
  <2>3. InTheJar(tab[other])'
    BY <2>1, <2>2 DEF InTheJar
  <2>4. OnTheWay(tab[other])'
    BY <2>1, <2>2 DEF OnTheWay
  <2>5. KeyIsGone(tab[other])'
    BY <2>1, <2>2 DEF KeyIsGone, Own
  <2>6. QED
    BY <2>3, <2>4, <2>5
<1>2. (jar.session # NoIdentity => jar.session \in users /\ Verified(jar.session))'
  BY DEF Verified
<1>3. (\A key \in keys.active : key.id <= keys.made)'
  BY DEF PagesInv
<1>4. QED
  BY <1>1, <1>2, <1>3 DEF PagesInv

LEMMA DisturbIs ==
    ASSUME PagesTyped, NEW t \in PageTabs, NEW r \in Requests, Disturb(t, r)
    PROVE  /\ tab' \in [PageTabs -> Requests] /\ tab'[t] = r
           /\ \A other \in PageTabs \ {t} : tab'[other] = Disturbed(tab[other])
<1>1. ASSUME NEW other \in PageTabs PROVE Disturbed(tab[other]) \in Requests
  BY DisturbedIs DEF PagesTyped
<1>2. QED
  BY <1>1 DEF Disturb

\* A step of one tab, with nothing else that changes.
LEMMA GoesIs ==
    ASSUME PagesTyped, NEW t \in PageTabs, NEW r \in Requests, Goes(t, r)
    PROVE  /\ tab' \in [PageTabs -> Requests] /\ tab'[t] = r
           /\ \A other \in PageTabs \ {t} : tab'[other] = tab[other]
BY DEF Goes, PagesTyped

LEMMA BeginKeeps ==
    ASSUME PagesInv, NEW t \in PageTabs, NEW provider \in Providers, BeginSignIn(t, provider)
    PROVE  PagesInv'
<1> DEFINE r == [Idle EXCEPT !.step = "provider", !.provider = provider, !.state = begun + 1]
<1>1. begun \in Nat /\ begun' = begun + 1 /\ users' = users /\ keys' = keys
      /\ jar' = [jar EXCEPT !.state = begun + 1]
  BY DEF BeginSignIn, PagesInv, PagesTyped
<1>2. /\ r \in Requests /\ r.step = "provider" /\ r.said = "nothing" /\ r.provider = provider
      /\ r.state = begun + 1 /\ r.key = NoKey /\ r.page = NoPage
  <2>1. Idle \in Requests /\ Idle.said = "nothing" /\ "provider" \in PageSteps /\ begun + 1 \in Nat
    BY <1>1, IdleIs DEF PageSteps
  <2>2. \A r0 \in Requests : [r0 EXCEPT !.step = "provider", !.provider = provider, !.state = begun + 1]
                               \in Requests
    BY <2>1, RequestWith
  <2>3. ASSUME NEW r0 \in Requests, NEW n, n = begun + 1
        PROVE  LET q == [r0 EXCEPT !.step = "provider", !.provider = provider, !.state = n]
               IN  /\ q.step = "provider" /\ q.said = r0.said /\ q.provider = provider /\ q.state = n
                   /\ q.key = r0.key /\ q.page = r0.page
    BY DEF Requests
  <2>4. QED
    BY <2>1, <2>2, <2>3, IdleIs
<1>3. Disturb(t, r)
  BY DEF BeginSignIn
<1> HIDE DEF r
<1>4. /\ tab' \in [PageTabs -> Requests] /\ tab'[t] = r
      /\ \A other \in PageTabs \ {t} : tab'[other] = Disturbed(tab[other])
  BY <1>2, <1>3, DisturbIs DEF PagesInv
<1>5. jar' \in Jars /\ jar'.state = begun + 1 /\ jar'.session = jar.session
  BY <1>1 DEF PagesInv, PagesTyped, Jars
<1>6. PagesTyped'
  BY <1>1, <1>4, <1>5 DEF PagesInv, PagesTyped
<1>12. keys'.made \in Nat
  BY <1>1 DEF PagesInv, PagesTyped
<1>7. InTheJar(tab[t])' /\ OnTheWay(tab[t])' /\ KeyIsGone(tab[t])'
  BY <1>1, <1>2, <1>4, <1>5, <1>12, NothingIs DEF InTheJar, OnTheWay, KeyIsGone
<1>8. jar'.session # NoIdentity => jar'.session \in users /\ Verified(jar'.session)
  BY <1>5 DEF PagesInv
<1>9. \A s \in {t} : InTheJar(tab[s])' /\ OnTheWay(tab[s])' /\ KeyIsGone(tab[s])'
  BY <1>7
<1>10. {t} \in SUBSET PageTabs /\ begun' >= begun
  BY <1>1
<1>11. QED
  BY <1>1, <1>4, <1>6, <1>8, <1>9, <1>10, EveryTabDisturbed

LEMMA ExpiresKeeps == ASSUME PagesInv, StateExpires PROVE PagesInv'
<1>1. begun' = begun /\ users' = users /\ keys' = keys /\ jar' = [jar EXCEPT !.state = 0]
      /\ tab' = [t \in PageTabs |-> Disturbed(tab[t])] /\ begun \in Nat
  BY DEF StateExpires, PagesInv, PagesTyped
<1>2. ASSUME NEW t \in PageTabs PROVE Disturbed(tab[t]) \in Requests
  BY DisturbedIs DEF PagesInv, PagesTyped
<1>3. jar' \in Jars /\ jar'.session = jar.session
  BY <1>1 DEF PagesInv, PagesTyped, Jars
<1>4. PagesTyped'
  BY <1>1, <1>2, <1>3 DEF PagesInv, PagesTyped
<1>5. jar'.session # NoIdentity => jar'.session \in users /\ Verified(jar'.session)
  BY <1>3 DEF PagesInv
<1>6. /\ {} \in SUBSET PageTabs /\ begun' >= begun
      /\ \A other \in PageTabs \ {} : tab'[other] = Disturbed(tab[other])
      /\ \A s \in {} : InTheJar(tab[s])' /\ OnTheWay(tab[s])' /\ KeyIsGone(tab[s])'
  BY <1>1
<1>7. QED
  BY <1>1, <1>4, <1>5, <1>6, EveryTabDisturbed

\* No tab moves when the session's cookie goes, or the new key's.
LEMMA CookieGoesKeeps == ASSUME PagesInv, CookieGoes PROVE PagesInv'
<1>1. UNCHANGED <<tab, begun, users, keys>> /\ jar \in Jars
  BY DEF CookieGoes, PagesInv, PagesTyped
<1>2. jar' \in Jars /\ jar'.state = jar.state /\ jar'.session \in {jar.session, NoIdentity}
  BY <1>1, NothingIs DEF CookieGoes, Jars
<1>3. PagesTyped'
  BY <1>1, <1>2 DEF PagesInv, PagesTyped
<1>4. /\ {} \in SUBSET PageTabs /\ users \subseteq users' /\ keys'.made >= keys.made
      /\ \A key \in keys'.active : key.id <= keys'.made /\ (key.id <= keys.made => key \in keys.active)
      /\ \A other \in PageTabs \ {} : tab'[other] = tab[other]
      /\ \A s \in {} : InTheJar(tab[s])' /\ OnTheWay(tab[s])' /\ KeyIsGone(tab[s])'
  BY <1>1 DEF PagesInv, PagesTyped
<1>5. QED
  BY <1>1, <1>2, <1>3, <1>4, OneTabMoves

\* The answer of a sign-in arrives: the state is cleared and the other tabs are disturbed.
LEMMA EndsKeep == ASSUME PagesInv, NEW t \in PageTabs, Welcome(t) \/ Refused(t) PROVE PagesInv'
<1>1. /\ begun' = begun /\ begun \in Nat /\ users' = users /\ keys' = keys /\ jar \in Jars
      /\ tab[t] \in Requests /\ keys'.made \in Nat
  BY DEF Welcome, Refused, PagesInv, PagesTyped
<1>2. /\ jar' \in Jars
      /\ jar'.session # NoIdentity => jar'.session \in users /\ Verified(jar'.session)
  <2>1. CASE Welcome(t)
    <3>1. jar' = [jar EXCEPT !.state = 0, !.session = tab[t].who] /\ tab[t].step = "welcome"
      BY <2>1 DEF Welcome, At
    <3>2. tab[t].who \in Identities /\ tab[t].who \in users /\ Verified(tab[t].who)
      BY <1>1, <3>1 DEF PagesInv, OnTheWay, Requests
    <3>3. jar' \in Jars /\ jar'.session = tab[t].who
      BY <1>1, <3>1, <3>2 DEF Jars
    <3>4. QED
      BY <3>2, <3>3
  <2>2. CASE Refused(t)
    BY <1>1, <2>2 DEF Refused, PagesInv, Jars
  <2>3. QED
    BY <2>1, <2>2
<1>3. PICK r \in Requests :
         /\ Disturb(t, r) /\ r.step \in {"idle", "viewer"} /\ r.said = "nothing"
         /\ r.key = NoKey /\ r.page = NoPage
  <2>1. CASE Welcome(t)
    <3>1. Disturb(t, AccountPage(Idle, jar'))
      BY <2>1 DEF Welcome
    <3>2. QED
      BY <1>2, <3>1, IdleIs, AccountPageIs
  <2>2. CASE Refused(t)
    BY <2>2, IdleIs DEF Refused
  <2>3. QED
    BY <2>1, <2>2
<1>4. /\ tab' \in [PageTabs -> Requests] /\ tab'[t] = r
      /\ \A other \in PageTabs \ {t} : tab'[other] = Disturbed(tab[other])
  BY <1>3, DisturbIs DEF PagesInv
<1>5. PagesTyped'
  BY <1>1, <1>2, <1>4 DEF PagesInv, PagesTyped
<1>6. InTheJar(tab[t])' /\ OnTheWay(tab[t])' /\ KeyIsGone(tab[t])'
  BY <1>1, <1>3, <1>4, NothingIs DEF InTheJar, OnTheWay, KeyIsGone
<1>7. \A s \in {t} : InTheJar(tab[s])' /\ OnTheWay(tab[s])' /\ KeyIsGone(tab[s])'
  BY <1>6
<1>8. {t} \in SUBSET PageTabs /\ begun' >= begun
  BY <1>1
<1>9. QED
  BY <1>1, <1>2, <1>4, <1>5, <1>7, <1>8, EveryTabDisturbed

\* A step of one tab, with nothing else that changes, keeps what holds of its request.
LEMMA GoesKeeps ==
    ASSUME PagesInv, NEW t \in PageTabs, NEW r \in Requests, Goes(t, r), jar' \in Jars,
           jar'.state = jar.state, jar'.session = jar.session,
           UNCHANGED <<begun, users, keys>>, InTheJar(r), OnTheWay(r), KeyIsGone(r)
    PROVE  PagesInv'
<1>1. /\ tab' \in [PageTabs -> Requests] /\ tab'[t] = r
      /\ \A other \in PageTabs \ {t} : tab'[other] = tab[other]
  BY GoesIs DEF PagesInv
<1>2. PagesTyped'
  BY <1>1 DEF PagesInv, PagesTyped
<1>3. InTheJar(tab[t])' /\ OnTheWay(tab[t])' /\ KeyIsGone(tab[t])'
  BY <1>1 DEF InTheJar, OnTheWay, KeyIsGone, Own
<1>4. /\ keys'.made >= keys.made
      /\ \A key \in keys'.active : key.id <= keys'.made /\ (key.id <= keys.made => key \in keys.active)
  BY DEF PagesInv, PagesTyped
<1>5. {t} \in SUBSET PageTabs /\ \A s \in {t} : InTheJar(tab[s])' /\ OnTheWay(tab[s])' /\ KeyIsGone(tab[s])'
  BY <1>3
<1>6. QED
  BY <1>1, <1>2, <1>4, <1>5, OneTabMoves

\* The same of a step that leaves the jar alone.
LEMMA GoesOnly ==
    ASSUME PagesInv, NEW t \in PageTabs, NEW r \in Requests, Goes(t, r),
           UNCHANGED <<jar, begun, users, keys>>, InTheJar(r), OnTheWay(r), KeyIsGone(r)
    PROVE  PagesInv'
<1>1. jar' \in Jars /\ jar'.state = jar.state /\ jar'.session = jar.session
  BY DEF PagesInv, PagesTyped
<1>2. QED
  BY <1>1, GoesKeeps

\* What says nothing of a revocation knows of no more keys than before.
LEMMA SameKeys ==
    ASSUME NEW r0, NEW r, KeyIsGone(r0), r.key = r0.key, r.page = r0.page, r.said # "revoked"
    PROVE  KeyIsGone(r)
BY DEF KeyIsGone
LEMMA IdleKeys == ASSUME PagesInv PROVE KeyIsGone(Idle)
<1>1. keys.made \in Nat
  BY DEF PagesInv, PagesTyped
<1>2. QED
  BY <1>1, IdleIs, NothingIs DEF KeyIsGone

LEMMA ComesBackKeeps == ASSUME PagesInv, NEW t \in PageTabs, ComesBack(t) PROVE PagesInv'
<1> DEFINE r0 == tab[t]
<1>1. PICK step \in {"check", "refused"} :
         Goes(t, [r0 EXCEPT !.step = step, !.cookie = jar.state,
                            !.said = IF step = "refused" THEN "denied" ELSE @])
  BY DEF ComesBack
<1> DEFINE said == IF step = "refused" THEN "denied" ELSE r0.said
           r == [r0 EXCEPT !.step = step, !.cookie = jar.state, !.said = said]
<1>2. r0 \in Requests /\ InTheJar(r0) /\ OnTheWay(r0) /\ KeyIsGone(r0) /\ r0.step = "provider"
      /\ jar.state \in Nat /\ UNCHANGED <<jar, begun, users, keys>>
  <2>1. r0 \in Requests /\ InTheJar(r0) /\ OnTheWay(r0) /\ KeyIsGone(r0)
    BY DEF PagesInv, PagesTyped
  <2>2. jar.state \in Nat
    BY DEF PagesInv, PagesTyped, Jars
  <2>3. r0.step = "provider" /\ UNCHANGED <<jar, begun, users, keys>>
    BY DEF ComesBack, At
  <2>4. QED
    BY <2>1, <2>2, <2>3
<1>3. step \in PageSteps /\ said \in PageWords /\ Goes(t, r)
  BY <1>1, <1>2 DEF PageSteps, PageWords, Requests
<1>4. r0.said = "nothing"
  BY <1>2 DEF InTheJar
<1> HIDE DEF r0
<1>5. r \in Requests
  BY <1>2, <1>3, RequestWith
<1>6. /\ r.step = step /\ r.said = said /\ r.cookie = jar.state /\ r.state = r0.state
      /\ r.provider = r0.provider /\ r.disturbed = r0.disturbed /\ r.key = r0.key /\ r.page = r0.page
  BY <1>2 DEF Requests
<1> HIDE DEF r
<1>7. InTheJar(r) /\ OnTheWay(r) /\ KeyIsGone(r)
  BY <1>2, <1>4, <1>6, SameKeys DEF InTheJar, OnTheWay
<1>8. QED
  BY <1>2, <1>3, <1>5, <1>7, GoesOnly

LEMMA CheckKeeps == ASSUME PagesInv, NEW t \in PageTabs, Check(t) PROVE PagesInv'
<1> DEFINE r0 == tab[t]
<1>1. r0 \in Requests /\ InTheJar(r0) /\ OnTheWay(r0) /\ KeyIsGone(r0) /\ r0.step = "check"
      /\ UNCHANGED <<jar, begun, users, keys>>
  BY DEF PagesInv, PagesTyped, Check, At
<1>2. Goes(t, IF StateMatches(r0) THEN [r0 EXCEPT !.step = "exchange"]
              ELSE [r0 EXCEPT !.step = "refused", !.said = "state"])
  BY DEF Check
<1> HIDE DEF r0
<1>3. CASE StateMatches(r0)
  <2> DEFINE r == [r0 EXCEPT !.step = "exchange"]
  <2>1. "exchange" \in PageSteps /\ r \in Requests
    BY <1>1, RequestWith DEF PageSteps
  <2>2. /\ r.step = "exchange" /\ r.said = r0.said /\ r.cookie = r0.cookie /\ r.state = r0.state
        /\ r.provider = r0.provider /\ r.key = r0.key /\ r.page = r0.page
    BY <1>1 DEF Requests
  <2>3. Goes(t, r)
    BY <1>2, <1>3
  <2> HIDE DEF r
  <2>4. InTheJar(r) /\ OnTheWay(r) /\ KeyIsGone(r)
    BY <1>1, <1>3, <2>2, SameKeys DEF InTheJar, OnTheWay, StateMatches
  <2>5. QED
    BY <1>1, <2>1, <2>3, <2>4, GoesOnly
<1>4. CASE ~StateMatches(r0)
  <2> DEFINE r == [r0 EXCEPT !.step = "refused", !.said = "state"]
  <2>1. "refused" \in PageSteps /\ "state" \in PageWords /\ r \in Requests
    BY <1>1, RequestWith DEF PageSteps, PageWords
  <2>2. /\ r.step = "refused" /\ r.said = "state" /\ r.disturbed = r0.disturbed /\ r.key = r0.key
        /\ r.page = r0.page
    BY <1>1 DEF Requests
  <2>3. Goes(t, r)
    BY <1>2, <1>4
  <2>4. r0.disturbed
    BY <1>1, <1>4 DEF InTheJar, StateMatches, Minted, Requests
  <2> HIDE DEF r
  <2>5. InTheJar(r) /\ OnTheWay(r) /\ KeyIsGone(r)
    BY <1>1, <2>2, <2>4, SameKeys DEF InTheJar, OnTheWay
  <2>6. QED
    BY <1>1, <2>1, <2>3, <2>5, GoesOnly
<1>5. QED
  BY <1>3, <1>4

\* Only an identity whose address the provider vouches for gets past the exchange.
LEMMA IdentityIsVerified ==
    ASSUME NEW provider \in Providers, NEW claim \in Claims[provider],
           Identity(provider, claim) # "nobody"
    PROVE  LET who == [who |-> Identity(provider, claim), claim |-> claim, provider |-> provider]
           IN  who \in Identities /\ Verified(who)
<1>1. Identity(provider, claim) = claim.id
  BY DEF Identity
<1>2. CASE provider = "google"
  BY <1>1, <1>2 DEF Identity, Identities, Verified
<1>3. CASE provider # "google"
  <2>1. [primary |-> TRUE, verified |-> TRUE] \in claim.emails
    BY <1>3 DEF Identity
  <2>2. \E email \in claim.emails : email.primary /\ email.verified
    BY <2>1
  <2>3. QED
    BY <1>1, <1>3, <2>2 DEF Identities, Verified
<1>4. QED
  BY <1>2, <1>3

LEMMA ExchangeKeeps ==
    ASSUME PagesInv, NEW t \in PageTabs, NEW answered \in BOOLEAN, Exchange(t, answered)
    PROVE  PagesInv'
<1> DEFINE r0 == tab[t]
<1>1. r0 \in Requests /\ InTheJar(r0) /\ OnTheWay(r0) /\ KeyIsGone(r0) /\ r0.step = "exchange"
      /\ UNCHANGED <<jar, begun, users, keys>>
  BY DEF PagesInv, PagesTyped, Exchange, At
<1>2. r0.said = "nothing" /\ r0.provider \in Providers
  BY <1>1 DEF InTheJar
<1>3. PICK claim \in (IF answered THEN Claims[r0.provider] ELSE {[id |-> "nobody"]}) :
         LET id == IF claim.id = "nobody" THEN "nobody" ELSE Identity(r0.provider, claim) IN
         Goes(t, IF id = "nobody" THEN [r0 EXCEPT !.step = "refused", !.said = "identity"]
                 ELSE [Idle EXCEPT !.step = "user",
                                 !.who = [who |-> id, claim |-> claim, provider |-> r0.provider]])
  BY DEF Exchange
<1> DEFINE id == IF claim.id = "nobody" THEN "nobody" ELSE Identity(r0.provider, claim)
           who == [who |-> id, claim |-> claim, provider |-> r0.provider]
<1>4. CASE id = "nobody"
  <2> HIDE DEF r0
  <2> DEFINE r == [r0 EXCEPT !.step = "refused", !.said = "identity"]
  <2>1. "refused" \in PageSteps /\ "identity" \in PageWords /\ r \in Requests
    BY <1>1, RequestWith DEF PageSteps, PageWords
  <2>2. r.step = "refused" /\ r.said = "identity" /\ r.key = r0.key /\ r.page = r0.page
    BY <1>1 DEF Requests
  <2>3. Goes(t, r)
    BY <1>3, <1>4
  <2> HIDE DEF r
  <2>4. InTheJar(r) /\ OnTheWay(r) /\ KeyIsGone(r)
    BY <1>1, <2>2, SameKeys DEF InTheJar, OnTheWay
  <2>5. QED
    BY <1>1, <2>1, <2>3, <2>4, GoesOnly
<1>5. CASE id # "nobody"
  <2>1. claim \in Claims[r0.provider] /\ id = Identity(r0.provider, claim)
    <3>1. claim.id # "nobody"
      BY <1>5
    <3>2. CASE answered
      BY <3>1, <3>2
    <3>3. CASE ~answered
      BY <3>1, <3>3
    <3>4. QED
      BY <3>2, <3>3
  <2>2. who \in Identities /\ Verified(who)
    BY <1>2, <1>5, <2>1, IdentityIsVerified
  <2> HIDE DEF r0, who
  <2> DEFINE r == [Idle EXCEPT !.step = "user", !.who = who]
  <2>3. "user" \in PageSteps /\ r \in Requests
    BY <2>2, IdleIs, RequestWith DEF PageSteps
  <2>4. r.step = "user" /\ r.who = who /\ r.said = "nothing" /\ r.key = Idle.key /\ r.page = Idle.page
    <3>1. \A r1 \in Requests :
             LET q == [r1 EXCEPT !.step = "user", !.who = who]
             IN  q.step = "user" /\ q.who = who /\ q.said = r1.said /\ q.key = r1.key /\ q.page = r1.page
      BY DEF Requests
    <3>2. QED
      BY <3>1, IdleIs
  <2>5. Goes(t, r)
    BY <1>3, <1>5 DEF who
  <2> HIDE DEF r
  <2>6. InTheJar(r) /\ OnTheWay(r) /\ KeyIsGone(r)
    BY <2>2, <2>4, IdleKeys, SameKeys DEF InTheJar, OnTheWay
  <2>7. QED
    BY <1>1, <2>3, <2>5, <2>6, GoesOnly
<1>6. QED
  BY <1>4, <1>5

LEMMA SessionStepsKeep ==
    ASSUME PagesInv, NEW t \in PageTabs, NEW answered \in BOOLEAN,
           Upsert(t, answered) \/ OpenSession(t, answered)
    PROVE  PagesInv'
<1> DEFINE r0 == tab[t]
<1>1. r0 \in Requests /\ InTheJar(r0) /\ OnTheWay(r0) /\ KeyIsGone(r0) /\ r0.step \in {"user", "session"}
      /\ UNCHANGED <<jar, begun, keys>>
  BY DEF PagesInv, PagesTyped, Upsert, OpenSession, At
<1>2. PICK step \in {"session", "welcome", "refused"} :
         /\ Goes(t, [r0 EXCEPT !.step = step])
         /\ users \subseteq users'
         /\ step # "refused" => r0.who \in users'
  <2>1. CASE Upsert(t, answered)
    BY <2>1 DEF Upsert
  <2>2. CASE OpenSession(t, answered)
    BY <1>1, <2>2 DEF OpenSession, At, OnTheWay
  <2>3. QED
    BY <2>1, <2>2
<1> HIDE DEF r0
<1> DEFINE r == [r0 EXCEPT !.step = step]
<1>3. step \in PageSteps /\ r \in Requests
  BY <1>1, RequestWith DEF PageSteps
<1>4. /\ r.step = step /\ r.said = "nothing" /\ r.who = r0.who /\ Verified(r0.who)
      /\ r.key = r0.key /\ r.page = r0.page
  BY <1>1 DEF Requests, OnTheWay
<1> HIDE DEF r
<1>5. /\ tab' \in [PageTabs -> Requests] /\ tab'[t] = r
      /\ \A other \in PageTabs \ {t} : tab'[other] = tab[other]
  BY <1>2, <1>3, GoesIs DEF PagesInv, r
<1>6. PagesTyped'
  BY <1>1, <1>5 DEF PagesInv, PagesTyped
<1>7. KeyIsGone(r)
  BY <1>1, <1>4, SameKeys
<1>8. InTheJar(tab[t])' /\ OnTheWay(tab[t])' /\ KeyIsGone(tab[t])'
  BY <1>1, <1>2, <1>4, <1>5, <1>7 DEF InTheJar, OnTheWay, KeyIsGone
<1>9. /\ keys'.made >= keys.made
      /\ \A key \in keys'.active : key.id <= keys'.made /\ (key.id <= keys.made => key \in keys.active)
  BY <1>1 DEF PagesInv, PagesTyped
<1>10. {t} \in SUBSET PageTabs /\ \A s \in {t} : InTheJar(tab[s])' /\ OnTheWay(tab[s])' /\ KeyIsGone(tab[s])'
  BY <1>8
<1>11. QED
  BY <1>1, <1>2, <1>5, <1>6, <1>9, <1>10, OneTabMoves

LEMMA VisitsKeep == ASSUME PagesInv, NEW t \in PageTabs, Visits(t) PROVE PagesInv'
<1> DEFINE r == AccountPage(Idle, jar)
<1>1. Goes(t, r) /\ UNCHANGED <<jar, begun, users, keys>> /\ jar \in Jars
  BY DEF Visits, PagesInv, PagesTyped
<1>2. r \in Requests /\ r.step = "viewer" /\ r.said = "nothing" /\ r.key = Idle.key /\ r.page = Idle.page
  BY <1>1, IdleIs, AccountPageIs
<1> HIDE DEF r
<1>3. InTheJar(r) /\ OnTheWay(r) /\ KeyIsGone(r)
  BY <1>2, IdleKeys, SameKeys DEF InTheJar, OnTheWay
<1>4. QED
  BY <1>1, <1>2, <1>3, GoesOnly

\* A key of a form is one of the list it stands in, and was made.
LEMMA PostKeeps == ASSUME PagesInv, NEW t \in PageTabs, NEW action \in {"create", "revoke"}, Post(t, action)
    PROVE  PagesInv'
<1>1. /\ UNCHANGED <<jar, begun, users, keys>> /\ jar.session \in Identities /\ keys.made \in Nat
      /\ tab[t] \in Requests /\ KeyIsGone(tab[t])
  BY DEF Post, PagesInv, PagesTyped, Jars
<1>2. PICK key \in IF action = "revoke" THEN tab[t].page.keys ELSE {NoKey} :
         Goes(t, [Idle EXCEPT !.step = "viewer", !.wants = action, !.who = jar.session, !.key = key])
  BY DEF Post
<1>3. key \in KeyValues /\ key.id <= keys.made
  <2>1. CASE action = "revoke"
    <3>1. tab[t].page \in KeyPages
      BY <1>1 DEF Requests
    <3>2. QED
      BY <1>1, <1>2, <2>1, <3>1 DEF KeyIsGone, KeyPages
  <2>2. CASE action # "revoke"
    BY <1>1, <1>2, <2>2, NothingIs
  <2>3. QED
    BY <2>1, <2>2
<1> DEFINE r == [Idle EXCEPT !.step = "viewer", !.wants = action, !.who = jar.session, !.key = key]
<1>4. "viewer" \in PageSteps /\ action \in PageWants
  BY DEF PageSteps, PageWants
<1>5. ASSUME NEW r0 \in Requests, NEW who \in Identities
      PROVE  LET q == [r0 EXCEPT !.step = "viewer", !.wants = action, !.who = who, !.key = key]
             IN  q \in Requests /\ q.step = "viewer" /\ q.said = r0.said /\ q.page = r0.page /\ q.key = key
  BY <1>3, <1>4 DEF Requests
<1>6. r \in Requests /\ r.step = "viewer" /\ r.said = "nothing" /\ r.page = NoPage /\ r.key = key
  BY <1>1, <1>5, IdleIs
<1>7. Goes(t, r)
  BY <1>2
<1> HIDE DEF r
<1>8. InTheJar(r) /\ OnTheWay(r) /\ KeyIsGone(r)
  BY <1>3, <1>6, NothingIs DEF InTheJar, OnTheWay, KeyIsGone
<1>9. QED
  BY <1>1, <1>6, <1>7, <1>8, GoesOnly

LEMMA ResolveKeeps ==
    ASSUME PagesInv, NEW t \in PageTabs, NEW answered \in BOOLEAN, ResolveViewer(t, answered)
    PROVE  PagesInv'
<1> DEFINE r0 == tab[t]
<1>1. /\ r0 \in Requests /\ KeyIsGone(r0) /\ r0.step = "viewer" /\ r0.wants \in PageWants
      /\ UNCHANGED <<jar, begun, users, keys>>
  BY DEF PagesInv, PagesTyped, ResolveViewer, At, Requests
<1>2. \/ Goes(t, Idle)
      \/ Goes(t, [r0 EXCEPT !.step = r0.wants])
      \/ Goes(t, [r0 EXCEPT !.step = "back", !.said = "error"])
  BY DEF ResolveViewer
<1> HIDE DEF r0
<1>3. CASE Goes(t, Idle)
  <2>1. InTheJar(Idle) /\ OnTheWay(Idle)
    BY IdleIs DEF InTheJar, OnTheWay
  <2>2. QED
    BY <1>1, <1>3, <2>1, IdleIs, IdleKeys, GoesOnly
<1>4. CASE Goes(t, [r0 EXCEPT !.step = r0.wants])
  <2> DEFINE r == [r0 EXCEPT !.step = r0.wants]
  <2>1. r0.wants \in PageSteps /\ r \in Requests
    BY <1>1, RequestWith DEF PageSteps, PageWants
  <2>2. /\ r.step \in PageWants /\ r.said = r0.said /\ r.key = r0.key /\ r.page = r0.page /\ r.for = r0.for
    BY <1>1 DEF Requests
  <2> HIDE DEF r
  <2>3. InTheJar(r) /\ OnTheWay(r) /\ KeyIsGone(r)
    BY <1>1, <2>2 DEF InTheJar, OnTheWay, KeyIsGone, Own, PageWants
  <2>4. QED
    BY <1>1, <1>4, <2>1, <2>3, GoesOnly DEF r
<1>5. CASE Goes(t, [r0 EXCEPT !.step = "back", !.said = "error"])
  <2> DEFINE r == [r0 EXCEPT !.step = "back", !.said = "error"]
  <2>1. "back" \in PageSteps /\ "error" \in PageWords /\ r \in Requests
    BY <1>1, RequestWith DEF PageSteps, PageWords
  <2>2. r.step = "back" /\ r.said = "error" /\ r.key = r0.key /\ r.page = r0.page
    BY <1>1 DEF Requests
  <2> HIDE DEF r
  <2>3. InTheJar(r) /\ OnTheWay(r) /\ KeyIsGone(r)
    BY <1>1, <2>2, SameKeys DEF InTheJar, OnTheWay
  <2>4. QED
    BY <1>1, <1>5, <2>1, <2>3, GoesOnly DEF r
<1>6. QED
  BY <1>2, <1>3, <1>4, <1>5

\* The number of a new key is one that no tab knows of.
LEMMA CreateKeeps ==
    ASSUME PagesInv, NEW t \in PageTabs, NEW answered \in BOOLEAN, Create(t, answered) PROVE PagesInv'
<1> DEFINE r0 == tab[t]
           new == [id |-> keys.made + 1, owner |-> r0.who.who]
<1>1. /\ keys \in [made : Nat, active : SUBSET KeyValues] /\ UNCHANGED <<jar, begun, users>>
      /\ r0 \in Requests /\ r0.step = "create" /\ KeyIsGone(r0)
      /\ \A key \in keys.active : key.id <= keys.made
  BY DEF PagesInv, PagesTyped, Create, At
<1>2. keys.made \in Nat /\ keys.made + 1 \in Nat /\ new \in KeyValues /\ new.id = keys.made + 1
  <2>1. keys.made \in Nat /\ r0.who \in Identities
    BY <1>1 DEF Requests
  <2>2. keys.made + 1 \in Nat /\ r0.who.who \in Owners
    BY <2>1 DEF Owners
  <2>3. QED
    BY <2>1, <2>2 DEF KeyValues
<1>3. /\ \/ keys' = keys
         \/ keys' = [made |-> keys.made + 1, active |-> keys.active \cup {new}]
      /\ \E key \in {new, NoKey, r0.key}, said \in {"created", "error"} :
            /\ Goes(t, [r0 EXCEPT !.step = "back", !.key = key, !.said = said])
            /\ key = new => keys'.made = keys.made + 1
  <2>1. \A said : [r0 EXCEPT !.step = "back", !.said = said]
                     = [r0 EXCEPT !.step = "back", !.key = r0.key, !.said = said]
    <3>1. \A r1 \in Requests : \A said : [r1 EXCEPT !.step = "back", !.said = said]
                     = [r1 EXCEPT !.step = "back", !.key = r1.key, !.said = said]
      BY DEF Requests
    <3>2. QED
      BY <1>1, <3>1
  <2>2. CASE /\ keys' = [made |-> keys.made + 1, active |-> keys.active \cup {new}]
             /\ Goes(t, [r0 EXCEPT !.step = "back", !.key = IF answered THEN new ELSE NoKey,
                                    !.said = IF answered THEN "created" ELSE "error"])
    BY <2>2
  <2>3. CASE keys' = keys /\ Goes(t, [r0 EXCEPT !.step = "back", !.said = "error"])
    <3>1. r0.key # new
      BY <1>1, <1>2 DEF KeyIsGone, Requests, KeyValues
    <3>2. QED
      BY <2>1, <2>3, <3>1
  <2>4. QED
    BY <2>2, <2>3 DEF Create
<1>4. PICK key \in {new, NoKey, r0.key}, said \in {"created", "error"} :
         /\ Goes(t, [r0 EXCEPT !.step = "back", !.key = key, !.said = said])
         /\ key = new => keys'.made = keys.made + 1
  BY <1>3
<1> HIDE DEF r0, new
<1>5. /\ keys' \in [made : Nat, active : SUBSET KeyValues] /\ keys'.made >= keys.made
      /\ \A k \in keys'.active : k.id <= keys'.made /\ (k.id <= keys.made => k \in keys.active)
  <2>1. \A k \in keys.active : k.id \in Nat
    BY <1>1 DEF KeyValues
  <2>2. CASE keys' = keys
    BY <1>1, <1>2, <2>2
  <2>3. CASE keys' = [made |-> keys.made + 1, active |-> keys.active \cup {new}]
    BY <1>1, <1>2, <2>1, <2>3
  <2>4. QED
    BY <1>3, <2>2, <2>3
<1>6. key \in KeyValues /\ key.id <= keys'.made
  <2>1. r0.key \in KeyValues /\ r0.key.id <= keys.made /\ r0.key.id \in Nat
    BY <1>1 DEF KeyIsGone, Requests, KeyValues
  <2>2. CASE key = new
    BY <1>2, <1>4, <2>2
  <2>3. CASE key \in {NoKey, r0.key}
    BY <1>2, <1>5, <2>1, <2>3, NothingIs
  <2>4. QED
    BY <1>4, <2>2, <2>3
<1> DEFINE r == [r0 EXCEPT !.step = "back", !.key = key, !.said = said]
<1>7. "back" \in PageSteps /\ said \in PageWords /\ r \in Requests
  BY <1>1, <1>6, RequestWith DEF PageSteps, PageWords
<1>8. r.step = "back" /\ r.said \notin {"revoked", "state"} /\ r.key = key /\ r.page = r0.page
  BY <1>1 DEF Requests
<1>9. Goes(t, r)
  BY <1>4
<1> HIDE DEF r
<1>10. /\ tab' \in [PageTabs -> Requests] /\ tab'[t] = r
       /\ \A other \in PageTabs \ {t} : tab'[other] = tab[other]
  BY <1>7, <1>9, GoesIs DEF PagesInv
<1>11. PagesTyped'
  BY <1>1, <1>5, <1>10 DEF PagesInv, PagesTyped
<1>12. \A k \in r.page.keys : k.id <= keys'.made
  <2>1. r0.page.keys \subseteq KeyValues /\ \A k \in r0.page.keys : k.id <= keys.made
    BY <1>1 DEF KeyIsGone, Requests, KeyPages
  <2>2. \A k \in r0.page.keys : k.id \in Nat
    BY <2>1 DEF KeyValues
  <2>3. QED
    BY <1>2, <1>5, <1>8, <2>1, <2>2
<1>13. InTheJar(tab[t])' /\ OnTheWay(tab[t])' /\ KeyIsGone(tab[t])'
  BY <1>6, <1>8, <1>10, <1>12 DEF InTheJar, OnTheWay, KeyIsGone
<1>14. /\ users \subseteq users' /\ jar'.state = jar.state /\ jar'.session \in {jar.session, NoIdentity}
       /\ {t} \in SUBSET PageTabs /\ \A s \in {t} : InTheJar(tab[s])' /\ OnTheWay(tab[s])' /\ KeyIsGone(tab[s])'
  BY <1>1, <1>13
<1>15. QED
  BY <1>1, <1>5, <1>10, <1>11, <1>14, OneTabMoves

\* A key of the viewer's own is not active after an answer, 204 or 404; another one may be.
LEMMA RevokeKeeps ==
    ASSUME PagesInv, NEW t \in PageTabs, NEW answered \in BOOLEAN, Revoke(t, answered) PROVE PagesInv'
<1> DEFINE r0 == tab[t]
<1>1. /\ r0 \in Requests /\ KeyIsGone(r0) /\ r0.step = "revoke"
      /\ UNCHANGED <<jar, begun, users>> /\ keys \in [made : Nat, active : SUBSET KeyValues]
      /\ \A key \in keys.active : key.id <= keys.made
  BY DEF PagesInv, PagesTyped, Revoke, At
<1>2. PICK done \in (IF answered THEN {TRUE} ELSE BOOLEAN) :
         LET status == IF ~answered THEN 0 ELSE IF Revocable(r0) THEN 204 ELSE 404 IN
         /\ keys' = IF done /\ Revocable(r0) THEN [keys EXCEPT !.active = @ \ {r0.key}] ELSE keys
         /\ Goes(t, [r0 EXCEPT !.step = "back", !.for = r0.who.who,
                               !.said = IF Revoked(status) THEN "revoked" ELSE "error"])
  BY DEF Revoke
<1> DEFINE status == IF ~answered THEN 0 ELSE IF Revocable(r0) THEN 204 ELSE 404
           said == IF Revoked(status) THEN "revoked" ELSE "error"
           r == [r0 EXCEPT !.step = "back", !.for = r0.who.who, !.said = said]
<1>3. Goes(t, r)
  BY <1>2
<1>4. said = "revoked" => answered
  BY DEF Revoked
<1>5. said \in {"revoked", "error"}
  OBVIOUS
<1> HIDE DEF r0, said
<1>6. "back" \in PageSteps /\ said \in PageWords /\ r0.who.who \in Owners
  BY <1>1, <1>5 DEF PageSteps, PageWords, Requests, Owners
<1>7. r \in Requests
  BY <1>1, <1>6, RequestWith
<1>8. r.step = "back" /\ r.said = said /\ r.key = r0.key /\ r.page = r0.page /\ r.for = r0.who.who
  BY <1>1 DEF Requests
<1> HIDE DEF r
<1>9. /\ tab' \in [PageTabs -> Requests] /\ tab'[t] = r
      /\ \A other \in PageTabs \ {t} : tab'[other] = tab[other]
  BY <1>3, <1>7, GoesIs DEF PagesInv
<1>10. /\ keys' \in [made : Nat, active : SUBSET KeyValues] /\ keys'.made = keys.made
       /\ keys'.active \subseteq keys.active
       /\ said = "revoked" /\ r0.who.who = r0.key.owner => r0.key \notin keys'.active
  <2>1. CASE done /\ Revocable(r0)
    BY <1>1, <1>2, <2>1
  <2>2. CASE ~(done /\ Revocable(r0))
    BY <1>1, <1>2, <1>4, <2>2 DEF Revocable
  <2>3. QED
    BY <2>1, <2>2
<1>11. PagesTyped'
  BY <1>1, <1>9, <1>10 DEF PagesInv, PagesTyped
<1>12. InTheJar(tab[t])' /\ OnTheWay(tab[t])' /\ KeyIsGone(tab[t])'
  BY <1>1, <1>5, <1>8, <1>9, <1>10 DEF InTheJar, OnTheWay, KeyIsGone, Own
<1>13. /\ users \subseteq users' /\ jar'.state = jar.state /\ jar'.session \in {jar.session, NoIdentity}
       /\ keys'.made >= keys.made
       /\ \A key \in keys'.active : key.id <= keys'.made /\ (key.id <= keys.made => key \in keys.active)
       /\ {t} \in SUBSET PageTabs /\ \A s \in {t} : InTheJar(tab[s])' /\ OnTheWay(tab[s])' /\ KeyIsGone(tab[s])'
  BY <1>1, <1>10, <1>12
<1>14. QED
  BY <1>1, <1>9, <1>11, <1>13, OneTabMoves

\* The answer of a form leads back to the account page, which remembers a revocation.
LEMMA BackKeeps == ASSUME PagesInv, NEW t \in PageTabs, Back(t) PROVE PagesInv'
<1>1. /\ tab[t] \in Requests /\ KeyIsGone(tab[t]) /\ jar \in Jars /\ UNCHANGED <<begun, users, keys>>
      /\ keys.made \in Nat
  BY DEF Back, PagesInv, PagesTyped
<1>2. jar' \in Jars /\ jar'.state = jar.state /\ jar'.session = jar.session
  BY <1>1 DEF Back, Jars, Requests
<1> DEFINE r == AccountPage(tab[t], jar')
<1>3. Goes(t, r)
  BY DEF Back
<1>4. /\ r \in Requests /\ r.step = "viewer" /\ r.page = NoPage
      /\ \/ r.said = "nothing" /\ r.key = NoKey
         \/ tab[t].said = "revoked" /\ r.said = "revoked" /\ r.key = tab[t].key /\ r.for = tab[t].for
  BY <1>1, <1>2, AccountPageIs
<1> HIDE DEF r
<1>5. InTheJar(r) /\ OnTheWay(r)
  BY <1>4 DEF InTheJar, OnTheWay
<1>6. KeyIsGone(r)
  BY <1>1, <1>4, NothingIs DEF KeyIsGone, Own
<1>7. QED
  BY <1>1, <1>2, <1>3, <1>4, <1>5, <1>6, GoesKeeps

\* The list is of active keys, so that none that is gone is in it.
LEMMA ListKeeps ==
    ASSUME PagesInv, NEW t \in PageTabs, NEW answered \in BOOLEAN, ListKeys(t, answered) PROVE PagesInv'
<1> DEFINE r0 == tab[t]
           listed == IF answered THEN {key \in keys.active : key.owner = r0.who.who} ELSE {}
           p == [of |-> r0.who, keys |-> listed]
           r == [r0 EXCEPT !.step = "page", !.page = p]
<1>1. /\ r0 \in Requests /\ KeyIsGone(r0) /\ Goes(t, r) /\ UNCHANGED <<jar, begun, users, keys>>
      /\ keys \in [made : Nat, active : SUBSET KeyValues]
      /\ \A key \in keys.active : key.id <= keys.made
  BY DEF ListKeys, PagesInv, PagesTyped
<1>2. listed \subseteq keys.active
  OBVIOUS
<1> HIDE DEF r0, listed
<1>3. p \in KeyPages /\ p.keys = listed /\ "page" \in PageSteps
  BY <1>1, <1>2 DEF KeyPages, PageSteps, Requests
<1> HIDE DEF p
<1>4. /\ r \in Requests /\ r.step = "page" /\ r.page = p /\ r.said = r0.said /\ r.key = r0.key
      /\ r.for = r0.for
  BY <1>1, <1>3, RequestWith DEF Requests
<1> HIDE DEF r
<1>5. InTheJar(r) /\ OnTheWay(r)
  BY <1>4 DEF InTheJar, OnTheWay
<1>6. KeyIsGone(r)
  BY <1>1, <1>2, <1>3, <1>4 DEF KeyIsGone, Own
<1>7. QED
  BY <1>1, <1>4, <1>5, <1>6, GoesOnly

\* The page is shown, and takes the new key out of the jar.
LEMMA ShowKeeps == ASSUME PagesInv, NEW t \in PageTabs, ShowAccount(t) PROVE PagesInv'
<1> DEFINE ShownAs(r1, q0, said, key, name) ==
               [r1 EXCEPT !.page = q0, !.said = said, !.key = key, !.for = name]
           r0 == tab[t]
           r == ShownAs(Idle, r0.page, r0.said, r0.key, r0.for)
<1>1. /\ r0 \in Requests /\ KeyIsGone(r0) /\ r0.step = "page" /\ Goes(t, r) /\ jar \in Jars
      /\ UNCHANGED <<begun, users, keys>>
  BY DEF ShowAccount, At, PagesInv, PagesTyped
<1>2. jar' \in Jars /\ jar'.state = jar.state /\ jar'.session = jar.session
  BY <1>1, NothingIs DEF ShowAccount, Jars
<1> HIDE DEF r0
<1>3. r0.page \in KeyPages /\ r0.said \in PageWords /\ r0.key \in KeyValues /\ r0.for \in Owners
  BY <1>1 DEF Requests
<1>4. ASSUME NEW r1 \in Requests, NEW q0 \in KeyPages, NEW said \in PageWords, NEW key \in KeyValues,
             NEW name \in Owners
      PROVE  LET q == ShownAs(r1, q0, said, key, name)
             IN  /\ q \in Requests /\ q.step = r1.step /\ q.page = q0 /\ q.said = said
                 /\ q.key = key /\ q.for = name
  BY DEF Requests
<1> HIDE DEF ShownAs
<1>5. /\ r \in Requests /\ r.step = "idle" /\ r.page = r0.page /\ r.said = r0.said /\ r.key = r0.key
      /\ r.for = r0.for
  BY <1>3, <1>4, IdleIs
<1> HIDE DEF r
<1>6. InTheJar(r) /\ OnTheWay(r)
  BY <1>5 DEF InTheJar, OnTheWay
<1>7. KeyIsGone(r)
  BY <1>1, <1>5 DEF KeyIsGone, Own
<1>8. QED
  BY <1>1, <1>2, <1>5, <1>6, <1>7, GoesKeeps

LEMMA PagesStep == PagesInv /\ [AccountPagesNext]_accountPagesVars => PagesInv'
<1> SUFFICES ASSUME PagesInv, [AccountPagesNext]_accountPagesVars PROVE PagesInv'
  OBVIOUS
<1>1. CASE StateExpires \/ CookieGoes
  BY <1>1, ExpiresKeeps, CookieGoesKeeps
<1>2. ASSUME NEW t \in PageTabs, NEW provider \in Providers, BeginSignIn(t, provider) PROVE PagesInv'
  BY <1>2, BeginKeeps
<1>3. ASSUME NEW t \in PageTabs,
             \/ ComesBack(t) \/ Check(t) \/ Welcome(t) \/ Refused(t)
             \/ Visits(t) \/ Back(t) \/ ShowAccount(t)
      PROVE  PagesInv'
  BY <1>3, ComesBackKeeps, CheckKeeps, EndsKeep, VisitsKeep, BackKeeps, ShowKeeps
<1>4. ASSUME NEW t \in PageTabs, NEW answered \in BOOLEAN,
             \/ Exchange(t, answered) \/ Upsert(t, answered) \/ OpenSession(t, answered)
             \/ ResolveViewer(t, answered) \/ Create(t, answered) \/ Revoke(t, answered)
             \/ ListKeys(t, answered)
      PROVE  PagesInv'
  BY <1>4, ExchangeKeeps, SessionStepsKeep, ResolveKeeps, CreateKeeps, RevokeKeeps, ListKeeps
<1>5. ASSUME NEW t \in PageTabs, NEW action \in {"create", "revoke"}, Post(t, action) PROVE PagesInv'
  BY <1>5, PostKeeps
<1>6. CASE UNCHANGED accountPagesVars
  BY <1>6 DEF accountPagesVars, PagesInv, PagesTyped, InTheJar, OnTheWay, KeyIsGone, Own, Verified
<1>7. CASE AccountPagesNext
  BY <1>1, <1>2, <1>3, <1>4, <1>5, <1>7 DEF AccountPagesNext, GoesOn, GivesUp
<1>8. QED
  BY <1>6, <1>7

LEMMA PagesTrue == PagesInv => AccountPagesAreTrue
<1> SUFFICES ASSUME PagesInv PROVE AccountPagesAreTrue
  OBVIOUS
<1>1. SignedInIsVerified
  BY DEF PagesInv, SignedInIsVerified, Verified
<1>2. RefusedForAReason
  BY DEF PagesInv, InTheJar, RefusedForAReason, At
<1>3. SaidRevokedIsRevoked
  BY DEF PagesInv, KeyIsGone, Own, SaidRevokedIsRevoked, At
<1>4. QED
  BY <1>1, <1>2, <1>3 DEF AccountPagesAreTrue

\* The account pages, for any number of tabs, of people and of sign-ins, whatever the providers and
\* the API answer or leave unanswered: whoever is signed in has an account and an address a provider
\* vouches for, a sign-in is only refused for its state when another one or the clock has taken
\* its cookie, and a key of one's own that is said to be revoked is not active, nor listed by the
\* page that follows.
THEOREM PagesAreTrue == AccountPagesSpec => []AccountPagesAreTrue
BY PagesInitHolds, PagesStep, PagesTrue, PTL DEF AccountPagesSpec

-----------------------------------------------------------------------------
(***************************************************************************)
(* The rendered pages, for any corpora, sizes of a page, retries and       *)
(* faults.  A call of a visit that nothing disturbed says what the corpus  *)
(* says (CallsHold), and a visit that asks for the rest keeps the first    *)
(* page, which said what the rest is (VisitHolds); what remains is         *)
(* arithmetic of pages, and that the pages one after the other are the     *)
(* listing.                                                                *)
(***************************************************************************)

\* How a listing is cut: what is before the end of a page.
Cut(s, pg) == IF pg * PerPage < Len(s) THEN pg * PerPage ELSE Len(s)

LEMMA CeilingIs ==
    ASSUME NEW n \in Nat, NEW d \in Nat \ {0}
    PROVE  /\ Ceiling(n, d) \in Nat
           /\ n <= Ceiling(n, d) * d
           /\ n # 0 => Ceiling(n, d) # 0 /\ (Ceiling(n, d) - 1) * d < n
           /\ n = 0 => Ceiling(n, d) = 0
<1> DEFINE q == (n + d - 1) \div d
<1>1. n + d - 1 \in Nat
  OBVIOUS
<1>2. q \in Nat /\ q * d <= n + d - 1 /\ n + d - 1 < (q + 1) * d
  BY <1>1
<1>3. (q + 1) * d = q * d + d /\ (q - 1) * d = q * d - d /\ q * d \in Nat
  BY <1>2
<1>4. n # 0 => q # 0
  <2>1. SUFFICES ASSUME n # 0, q = 0 PROVE FALSE
    OBVIOUS
  <2>2. q * d = 0
    BY <2>1
  <2> HIDE DEF q
  <2>3. QED
    BY <1>2, <1>3, <2>1, <2>2
<1>5. n = 0 => q = 0
  <2>1. SUFFICES ASSUME n = 0, q # 0 PROVE FALSE
    OBVIOUS
  <2> HIDE DEF q
  <2>2. q * d >= d
    BY <1>2, <2>1
  <2>3. QED
    BY <1>2, <1>3, <2>1, <2>2
<1> HIDE DEF q
<1>6. /\ q \in Nat /\ n <= q * d
      /\ n # 0 => (q - 1) * d < n
  BY <1>2, <1>3
<1>7. Ceiling(n, d) = q
  BY DEF Ceiling, q
<1>8. QED
  BY <1>4, <1>5, <1>6, <1>7

\* A page past the last has nothing on it, and every other has something.
LEMMA PastTheEnd ==
    ASSUME NEW n \in Nat, NEW d \in Nat \ {0}, NEW pg \in Nat \ {0}
    PROVE  pg > Ceiling(n, d) <=> (pg - 1) * d >= n
<1> DEFINE q == Ceiling(n, d)
<1>1. /\ q \in Nat /\ n <= q * d
      /\ n # 0 => q # 0 /\ (q - 1) * d < n
      /\ n = 0 => q = 0
  BY CeilingIs
<1> HIDE DEF q
<1>2. \A a, b \in Nat : a <= b => a * d <= b * d
  OBVIOUS
<1>3. CASE pg > q
  <2>1. q <= pg - 1 /\ pg - 1 \in Nat
    BY <1>1, <1>3
  <2>2. q * d <= (pg - 1) * d
    BY <1>1, <1>2, <2>1
  <2>3. q * d \in Nat /\ (pg - 1) * d \in Nat
    BY <1>1, <2>1
  <2>4. QED
    BY <1>1, <1>3, <2>2, <2>3 DEF q
<1>4. CASE pg <= q
  <2>1. n # 0 /\ pg - 1 <= q - 1 /\ pg - 1 \in Nat /\ q - 1 \in Nat
    BY <1>1, <1>4
  <2>2. (pg - 1) * d <= (q - 1) * d
    BY <1>2, <2>1
  <2>3. (pg - 1) * d \in Nat /\ (q - 1) * d \in Nat
    BY <2>1
  <2>4. (pg - 1) * d < n
    BY <1>1, <2>1, <2>2, <2>3
  <2>5. QED
    BY <1>1, <1>4, <2>3, <2>4 DEF q
<1>5. QED
  BY <1>1, <1>3, <1>4

LEMMA SliceIs ==
    ASSUME NEW s \in Seq(STRING), NEW pg \in Nat \ {0}
    PROVE  /\ Slice(s, pg) \in Seq(STRING)
           /\ Slice(s, pg) = <<>> <=> pg > Ceiling(Len(s), PerPage)
<1>0. PerPage \in Nat \ {0}
  BY SitePagesConstants
<1> DEFINE m == (pg - 1) * PerPage + 1
           n == Cut(s, pg)
<1>1. /\ pg * PerPage \in Nat /\ (pg - 1) * PerPage \in Nat
      /\ pg * PerPage = (pg - 1) * PerPage + PerPage
  BY <1>0
<1>a. Len(s) \in Nat
  OBVIOUS
<1>2. m \in Nat \ {0} /\ n \in Nat /\ n <= Len(s)
  <2> DEFINE a == pg * PerPage
             l == Len(s)
  <2>1. n = IF a < l THEN a ELSE l
    BY DEF Cut
  <2>2. a \in Nat /\ l \in Nat
    BY <1>1, <1>a
  <2> HIDE DEF a, l
  <2>3. n \in Nat /\ n <= l
    BY <2>1, <2>2
  <2>4. QED
    BY <1>1, <2>3 DEF l
<1>3. Slice(s, pg) = SubSeq(s, m, n)
  BY DEF Slice, Cut
<1>4. m <= n <=> ~((pg - 1) * PerPage >= Len(s))
  BY <1>0, <1>1, <1>a DEF Cut
<1> HIDE DEF m, n
<1>5. \A i \in m..n : s[i] \in STRING
  BY <1>2
<1>6. SubSeq(s, m, n) \in Seq(STRING) /\ Len(SubSeq(s, m, n)) = IF m <= n THEN n - m + 1 ELSE 0
  BY <1>2, <1>5, SubSeqProperties
<1>7. SubSeq(s, m, n) = <<>> <=> ~(m <= n)
  <2>1. CASE m <= n
    <3>1. Len(SubSeq(s, m, n)) # 0
      BY <1>2, <1>6, <2>1
    <3>2. QED
      BY <2>1, <3>1, EmptySeq
  <2>2. CASE ~(m <= n)
    BY <1>6, <2>2, EmptySeq
  <2>3. QED
    BY <2>1, <2>2
<1>8. QED
  BY <1>0, <1>3, <1>4, <1>6, <1>7, <1>a, PastTheEnd

\* What is before the end of a page is what was before it, and the page.
LEMMA CutIs ==
    ASSUME NEW s \in Seq(STRING), NEW pg \in Nat \ {0}, pg <= TotalPages(s)
    PROVE  /\ Cut(s, pg) \in 0..Len(s)
           /\ pg = 1 => SubSeq(s, 1, Cut(s, 1)) = Slice(s, 1)
           /\ pg # 1 => SubSeq(s, 1, Cut(s, pg))
                            = SubSeq(s, 1, Cut(s, pg - 1)) \o Slice(s, pg)
           /\ pg = TotalPages(s) => Cut(s, pg) = Len(s)
<1> DEFINE l == Len(s)
           d == PerPage
<1>1. d \in Nat \ {0}
  BY SitePagesConstants
<1>2. l \in Nat /\ (l = 0 <=> s = <<>>)
  BY EmptySeq
<1>3. /\ pg * d \in Nat /\ (pg - 1) * d \in Nat
      /\ pg * d = (pg - 1) * d + d
  BY <1>1
<1>4. Cut(s, pg) = IF pg * d < l THEN pg * d ELSE l
  BY DEF Cut
<1> HIDE DEF l
<1>5. Cut(s, pg) \in 0..l
  <2> DEFINE a == pg * d
  <2> HIDE DEF a
  <2>1. a \in Nat /\ Cut(s, pg) = IF a < l THEN a ELSE l
    BY <1>3, <1>4 DEF a
  <2>2. QED
    BY <1>2, <2>1
<1>6. SubSeq(s, 1, Cut(s, 1)) = Slice(s, 1)
  <2>1. (1 - 1) * d + 1 = 1
    BY <1>1
  <2>2. QED
    BY <2>1 DEF Slice, Cut, l, d
<1>7. s # <<>> /\ pg # 1 => (pg - 1) * d < l
  <2>1. SUFFICES ASSUME s # <<>>, pg # 1, (pg - 1) * d >= l PROVE FALSE
    BY <1>2, <1>3
  <2>2. pg > Ceiling(l, d)
    BY <1>1, <1>2, <2>1, PastTheEnd
  <2>3. TotalPages(s) = Ceiling(l, d)
    BY <2>1 DEF TotalPages, l, d
  <2>4. Ceiling(l, d) \in Nat
    BY <1>1, <1>2, CeilingIs
  <2>5. QED
    BY <2>2, <2>3, <2>4
<1>8. ASSUME pg # 1
      PROVE  SubSeq(s, 1, Cut(s, pg)) = SubSeq(s, 1, Cut(s, pg - 1)) \o Slice(s, pg)
  <2>1. s # <<>>
    BY <1>8 DEF TotalPages
  <2> DEFINE m == (pg - 1) * d
             n == Cut(s, pg)
  <2>2. m < l /\ m \in Nat /\ n \in m..l
    <3>1. m < l
      BY <1>7, <1>8, <2>1
    <3>2. n = IF pg * d < l THEN pg * d ELSE l
      BY <1>4
    <3> HIDE DEF n
    <3>3. QED
      BY <1>1, <1>2, <1>3, <3>1, <3>2
  <2>3. Cut(s, pg - 1) = m
    BY <2>2 DEF Cut, l, d
  <2>4. Slice(s, pg) = SubSeq(s, m + 1, n)
    BY DEF Slice, Cut, d
  <2> HIDE DEF m, n
  <2>5. 1 \in 1..(l + 1) /\ m \in (1 - 1)..l
    BY <1>2, <2>2
  <2>6. SubSeq(s, 1, m) \o SubSeq(s, m + 1, n) = SubSeq(s, 1, n)
    BY <2>2, <2>5, ConcatAdjacentSubSeq DEF l
  <2>7. QED
    BY <2>3, <2>4, <2>6 DEF n
<1>9. pg = TotalPages(s) => Cut(s, pg) = l
  <2>1. CASE s = <<>>
    BY <1>2, <1>5, <2>1
  <2>2. CASE s # <<>> /\ pg = TotalPages(s)
    <3>1. pg = Ceiling(l, d)
      BY <2>2 DEF TotalPages, l, d
    <3>2. l <= pg * d
      BY <1>1, <1>2, <3>1, CeilingIs
    <3>3. QED
      BY <1>2, <1>3, <1>4, <3>2
  <2>3. QED
    BY <2>1, <2>2
<1>10. QED
  BY <1>5, <1>6, <1>8, <1>9 DEF l

LEMMA TotalPagesIs ==
    ASSUME NEW s \in Seq(STRING)
    PROVE  TotalPages(s) \in Nat \ {0}
<1>1. Len(s) \in Nat /\ (s # <<>> => Len(s) # 0) /\ PerPage \in Nat \ {0}
  BY EmptySeq, SitePagesConstants
<1>2. CASE s = <<>>
  BY <1>2 DEF TotalPages
<1>3. CASE s # <<>>
  <2>1. Ceiling(Len(s), PerPage) \in Nat \ {0}
    BY <1>1, <1>3, CeilingIs
  <2>2. QED
    BY <1>3, <2>1 DEF TotalPages
<1>4. QED
  BY <1>2, <1>3

\* The pages of a listing, one after the other, are the listing.
LEMMA ListingIs ==
    ASSUME NEW s \in Seq(STRING)
    PROVE  FlattenSeq([n \in 1..TotalPages(s) |-> Slice(s, n)]) = s
<1> DEFINE k == TotalPages(s)
           pages == [n \in 1..k |-> Slice(s, n)]
           f == [n \in 1..k |-> SubSeq(s, 1, Cut(s, n))]
<1>1. k \in Nat \ {0}
  BY TotalPagesIs
<1>2. Len(pages) = k
  <2> HIDE DEF k
  <2>1. pages \in [1..k -> Seq(STRING)]
    BY <1>1, SliceIs
  <2> HIDE DEF pages
  <2>2. QED
    BY <1>1, <2>1
<1>3. \A n \in 1..k : f[n] = FlatBody(pages, f, n)
  <2>1. SUFFICES ASSUME NEW n \in 1..k PROVE f[n] = FlatBody(pages, f, n)
    OBVIOUS
  <2>2. n \in Nat \ {0} /\ n <= k
    BY <1>1
  <2>3. CASE n = 1
    <3>1. SubSeq(s, 1, Cut(s, 1)) = Slice(s, 1)
      BY <2>2, <2>3, CutIs
    <3>2. QED
      BY <2>3, <3>1 DEF FlatBody
  <2>4. CASE n # 1
    <3>1. SubSeq(s, 1, Cut(s, n)) = SubSeq(s, 1, Cut(s, n - 1)) \o Slice(s, n)
      BY <2>2, <2>4, CutIs
    <3>2. n - 1 \in 1..k
      BY <1>1, <2>2, <2>4
    <3> HIDE DEF k
    <3>3. QED
      BY <2>4, <3>1, <3>2 DEF FlatBody
  <2>5. QED
    BY <2>3, <2>4
<1>4. Flats(f, pages)
  <2>1. f = [n \in 1..k |-> f[n]]
    OBVIOUS
  <2> HIDE DEF f, pages, k
  <2>2. QED
    BY <1>2, <1>3, <2>1 DEF Flats
<1>5. f[k] = s
  <2>1. f[k] = SubSeq(s, 1, Cut(s, k))
    <3> HIDE DEF k
    <3>1. k \in 1..k
      BY <1>1
    <3>2. QED
      BY <3>1
  <2>2. Cut(s, k) = Len(s)
    BY <1>1, CutIs
  <2>3. QED
    BY <2>1, <2>2, SubSeqFull
<1> HIDE DEF f, pages
<1>6. FlattenSeq(pages) = f[k]
  <2> HIDE DEF k
  <2>1. QED
    BY <1>1, <1>2, <1>4, FlattenIs
<1>7. QED
  BY <1>5, <1>6 DEF pages

-----------------------------------------------------------------------------
(* The inductive invariant                                                 *)

Statuses == {0, 200, 404, 500}
States == {"idle", "asking", "pausing", "done"}
Calls == [state : States, tries : Nat, status : Statuses, slugs : Seq(STRING), total : Nat]

VisitsWith(reply) ==
    [what : Whats \union {"none"}, page : Nat \ {0}, step : {"idle", "first", "rest"},
     rest : SUBSET CallIds, from : Nat \ {0}, reply : {reply}]

SiteTypes ==
    /\ corpus \in 1..Len(Corpora)
    /\ visit \in VisitsWith(visit.reply) /\ visit.from <= corpus
    /\ call \in [CallIds -> Calls]

\* What a call that was answered says; of an undisturbed visit, it is what the corpus says.
CallHolds(i) ==
    /\ call[i].status = 404 => visit.what = "term" /\ i = 1
    /\ call[i].status = 200 /\ visit.what = "poets.xml" => call[i].total \in 1..MaxPages
    /\ call[i].status \in {200, 404} /\ Undisturbed =>
          /\ call[i].status = Data(i).status
          /\ call[i].slugs = Data(i).slugs
          /\ call[i].total = Data(i).total

CallsHold == \A i \in CallIds : call[i].state = "done" => CallHolds(i)

\* A visit that goes on to the rest keeps its first page, which says what the rest is.
VisitHolds ==
    /\ visit.step # "idle" => visit.what \in Whats
    /\ visit.step = "first" => visit.rest = {}
    /\ visit.step = "rest" =>
          /\ visit.what = "poets.xml"
          /\ Done(1) /\ call[1].status = 200 /\ call[1].total > 1
          /\ visit.rest = 2..call[1].total

SiteInv == SiteTypes /\ CallsHold /\ VisitHolds /\ PagesTellTheTruth

LEMMA CorpusIs ==
    ASSUME corpus \in 1..Len(Corpora)
    PROVE  Slugs \in Seq(STRING) /\ Corpora[corpus].term \in BOOLEAN
           /\ TotalPages(Slugs) \in 1..MaxPages
<1>1. Corpora \in Seq([slugs : Seq(STRING), term : BOOLEAN])
  BY SitePagesConstants
<1>2. Corpora[corpus] \in [slugs : Seq(STRING), term : BOOLEAN]
  BY <1>1, ElementOfSeq
<1>3. Slugs \in Seq(STRING) /\ Corpora[corpus].term \in BOOLEAN
  BY <1>2 DEF Slugs
<1>4. TotalPages(Slugs) \in Nat \ {0}
  BY <1>3, TotalPagesIs
<1>5. MaxPages \in Nat /\ TotalPages(Slugs) <= MaxPages
  BY SitePagesConstants DEF Slugs
<1>6. QED
  BY <1>3, <1>4, <1>5

LEMMA DataIs ==
    ASSUME SiteTypes, NEW i \in CallIds
    PROVE  /\ Data(i).status \in {200, 404} /\ Data(i).slugs \in Seq(STRING) /\ Data(i).total \in Nat
           /\ Data(i) = [status |-> Data(i).status, slugs |-> Data(i).slugs, total |-> Data(i).total]
           /\ Data(i).status = 404 => visit.what = "term" /\ i = 1
           /\ visit.what = "poets.xml" => Data(i).total \in 1..MaxPages
<1>1. Slugs \in Seq(STRING) /\ TotalPages(Slugs) \in 1..MaxPages
  BY CorpusIs DEF SiteTypes
<1>2. Len(Slugs) \in Nat /\ <<>> \in Seq(STRING)
  BY <1>1, EmptySeq
<1>3. MaxPages \in Nat
  BY SitePagesConstants
<1>4. Asks(i) \in Nat \ {0}
  BY <1>3 DEF Asks, SiteTypes, VisitsWith, CallIds
<1>5. Slice(Slugs, Asks(i)) \in Seq(STRING)
  BY <1>1, <1>4, SliceIs
<1>6. CASE visit.what = "sitemap-index.xml"
  BY <1>2, <1>6 DEF Data
<1>7. CASE visit.what = "term" /\ i = 1
  BY <1>2, <1>7 DEF Data
<1>8. CASE visit.what # "sitemap-index.xml" /\ ~(visit.what = "term" /\ i = 1)
  <2>1. Data(i) = [status |-> 200, slugs |-> Slice(Slugs, Asks(i)), total |-> TotalPages(Slugs)]
    BY <1>8 DEF Data
  <2>2. TotalPages(Slugs) \in Nat
    BY <1>1, <1>3
  <2>3. QED
    BY <1>1, <1>5, <2>1, <2>2
<1>9. QED
  BY <1>6, <1>7, <1>8

LEMMA SiteStarts == SitePagesInit => SiteInv
<1> SUFFICES ASSUME SitePagesInit PROVE SiteInv
  OBVIOUS
<1>1. SiteTypes
  <2>1. 1 \in 1..Len(Corpora)
    <3>1. Corpora \in Seq([slugs : Seq(STRING), term : BOOLEAN]) /\ Corpora # <<>>
      BY SitePagesConstants
    <3>2. Len(Corpora) \in Nat \ {0}
      BY <3>1, EmptySeq
    <3>3. QED
      BY <3>2
  <2>2. <<>> \in Seq(STRING)
    BY EmptySeq
  <2>3. NoCall \in Calls
    BY <2>2 DEF NoCall, Calls, States, Statuses
  <2>4. QED
    BY <2>1, <2>3 DEF SitePagesInit, SiteTypes, NoVisit, VisitsWith
<1>2. CallsHold /\ VisitHolds /\ PagesTellTheTruth
  BY DEF SitePagesInit, CallsHold, VisitHolds, NoVisit, NoCall, PagesTellTheTruth,
         GoneIsTheApisWord, PoetsAreListedOnce, IndexNamesTheShards, NextPageIsThere,
         Answered, Whats
<1>3. QED
  BY <1>1, <1>2 DEF SiteInv

-----------------------------------------------------------------------------
(* A call settles                                                          *)

\* A call stays one, whatever becomes of its state and what else changes with it.
LEMMA CallsChange ==
    ASSUME NEW c \in Calls, NEW s \in States
    PROVE  /\ [c EXCEPT !.state = s] \in Calls /\ [c EXCEPT !.state = s].state = s
           /\ \A n \in Nat : /\ [c EXCEPT !.state = s, !.tries = n] \in Calls
                            /\ [c EXCEPT !.state = s, !.tries = n].state = s
           /\ \A n \in Statuses : /\ [c EXCEPT !.state = s, !.status = n] \in Calls
                                 /\ [c EXCEPT !.state = s, !.status = n].status = n
<1>1. [c EXCEPT !.state = s] \in Calls /\ [c EXCEPT !.state = s].state = s
  BY DEF Calls
<1>2. \A n \in Nat : /\ [c EXCEPT !.state = s, !.tries = n] \in Calls
                    /\ [c EXCEPT !.state = s, !.tries = n].state = s
  BY DEF Calls
<1>3. \A n \in Statuses : /\ [c EXCEPT !.state = s, !.status = n] \in Calls
                         /\ [c EXCEPT !.state = s, !.status = n].status = n
  BY DEF Calls
<1>4. QED
  BY <1>1, <1>2, <1>3

\* What a step of a call may do to the calls.
LEMMA SettlingIs ==
    ASSUME SiteInv, NEW i \in CallIds, Settles(i)
    PROVE  /\ UNCHANGED <<corpus, visit, visits>>
           /\ call[i].state \in {"asking", "pausing"}
           /\ \E c \in Calls :
                 /\ call' = [call EXCEPT ![i] = c]
                 /\ c.state = "done" =>
                       \/ c.status \in {0, 500}
                       \/ /\ c.status = Data(i).status /\ c.slugs = Data(i).slugs
                          /\ c.total = Data(i).total
<1>1. call[i] \in Calls /\ SiteTypes
  BY DEF SiteInv, SiteTypes
<1>2. "done" \in States /\ "asking" \in States /\ "pausing" \in States /\ 0 \in Statuses
  BY DEF States, Statuses
<1>b. \A c \in Calls : Counted(c.tries) \in Nat
  BY DEF Calls, Counted
<1>3. CASE Answer(i)
  <2>1. PICK data \in {Data(i), [Data(i) EXCEPT !.status = 500, !.slugs = <<>>]} :
          call' = [call EXCEPT ![i] = [state |-> "done", tries |-> @.tries, status |-> data.status,
                                       slugs |-> data.slugs, total |-> data.total]]
    BY <1>3 DEF Answer
  <2> DEFINE c == [state |-> "done", tries |-> call[i].tries, status |-> data.status,
                   slugs |-> data.slugs, total |-> data.total]
  <2>2. call' = [call EXCEPT ![i] = c]
    BY <2>1 DEF SiteTypes
  <2>3. \/ data.status = 500 /\ data.slugs = <<>> /\ data.total = Data(i).total
        \/ data = Data(i)
    <3>1. Data(i) = [status |-> Data(i).status, slugs |-> Data(i).slugs, total |-> Data(i).total]
      BY <1>1, DataIs
    <3>2. \A r : r = [status |-> r.status, slugs |-> r.slugs, total |-> r.total] =>
                 /\ [r EXCEPT !.status = 500, !.slugs = <<>>].status = 500
                 /\ [r EXCEPT !.status = 500, !.slugs = <<>>].slugs = <<>>
                 /\ [r EXCEPT !.status = 500, !.slugs = <<>>].total = r.total
      OBVIOUS
    <3> DEFINE d == Data(i)
    <3> HIDE DEF d
    <3>3. data \in {d, [d EXCEPT !.status = 500, !.slugs = <<>>]} /\
          d = [status |-> d.status, slugs |-> d.slugs, total |-> d.total]
      BY <2>1, <3>1 DEF d
    <3>4. \/ data.status = 500 /\ data.slugs = <<>> /\ data.total = d.total
          \/ data = d
      <4>1. CASE data = d
        BY <4>1
      <4>2. CASE data = [d EXCEPT !.status = 500, !.slugs = <<>>]
        BY <3>2, <3>3, <4>2
      <4>3. QED
        BY <3>3, <4>1, <4>2
    <3>5. QED
      BY <3>4 DEF d
  <2>4. c \in Calls
    <3>1. <<>> \in Seq(STRING)
      BY EmptySeq
    <3>a. /\ Data(i).status \in Statuses /\ Data(i).slugs \in Seq(STRING)
          /\ Data(i).total \in Nat
      BY <1>1, DataIs DEF Statuses
    <3>2. data.status \in Statuses /\ data.slugs \in Seq(STRING) /\ data.total \in Nat
      <4>1. CASE data = Data(i)
        BY <3>a, <4>1
      <4>2. CASE data.status = 500 /\ data.slugs = <<>> /\ data.total = Data(i).total
        BY <3>1, <3>a, <4>2 DEF Statuses
      <4>3. QED
        BY <2>3, <4>1, <4>2
    <3>3. call[i].tries \in Nat
      BY <1>1 DEF Calls
    <3>4. QED
      BY <1>2, <3>2, <3>3 DEF Calls
  <2>5. \/ c.status \in {0, 500}
        \/ c.status = Data(i).status /\ c.slugs = Data(i).slugs /\ c.total = Data(i).total
    BY <2>3
  <2> HIDE DEF c
  <2>6. UNCHANGED <<corpus, visit, visits>> /\ call[i].state \in {"asking", "pausing"}
    BY <1>3 DEF Answer
  <2>7. c.state = "done" =>
           \/ c.status \in {0, 500}
           \/ /\ c.status = Data(i).status /\ c.slugs = Data(i).slugs
              /\ c.total = Data(i).total
    BY <2>5
  <2>8. QED
    BY <2>2, <2>4, <2>6, <2>7, ZenonT(30)
<1>4. CASE \E transient \in BOOLEAN : Break(i, transient)
  <2>1. PICK transient \in BOOLEAN : Break(i, transient)
    BY <1>4
  <2>2. CASE transient /\ MayRetry(call[i].tries)
    <3> DEFINE tries == Counted(call[i].tries)
               c == [call[i] EXCEPT !.state = "pausing", !.tries = tries]
    <3>a. tries \in Nat
      BY <1>1, <1>b
    <3>b. \A n \in Nat : /\ [call[i] EXCEPT !.state = "pausing", !.tries = n] \in Calls
                        /\ [call[i] EXCEPT !.state = "pausing", !.tries = n].state = "pausing"
      BY <1>1, <1>2, CallsChange
    <3>1. c \in Calls /\ c.state = "pausing"
      <4> HIDE DEF tries
      <4>1. QED
        BY <3>a, <3>b
    <3>2. call' = [call EXCEPT ![i] = c]
      BY <2>1, <2>2 DEF Break
    <3>3. QED
      BY <2>1, <3>1, <3>2 DEF Break
  <2>3. CASE ~(transient /\ MayRetry(call[i].tries))
    <3> DEFINE c == [call[i] EXCEPT !.state = "done", !.status = 0]
    <3>a. \A n \in Statuses :
             /\ [call[i] EXCEPT !.state = "done", !.status = n] \in Calls
             /\ [call[i] EXCEPT !.state = "done", !.status = n].status = n
      BY <1>1, <1>2, CallsChange
    <3>1. c \in Calls /\ c.status = 0
      BY <1>2, <3>a
    <3>2. call' = [call EXCEPT ![i] = c]
      BY <2>1, <2>3 DEF Break
    <3> HIDE DEF c
    <3>3. QED
      BY <2>1, <3>1, <3>2 DEF Break
  <2>4. QED
    BY <2>2, <2>3
<1>5. CASE AskAgain(i)
  <2> DEFINE c == [call[i] EXCEPT !.state = "asking"]
  <2>1. c \in Calls /\ c.state = "asking"
    BY <1>1, <1>2, CallsChange
  <2>2. call' = [call EXCEPT ![i] = c]
    BY <1>5 DEF AskAgain
  <2> HIDE DEF c
  <2>3. QED
    BY <1>5, <2>1, <2>2 DEF AskAgain
<1>6. QED
  BY <1>3, <1>4, <1>5 DEF Settles

LEMMA SettlingKeeps ==
    ASSUME SiteInv, NEW i \in CallIds, Settles(i)
    PROVE  SiteInv'
<1>1. UNCHANGED <<corpus, visit>> /\ call[i].state # "done"
  BY SettlingIs
<1>2. PICK c \in Calls :
         /\ call' = [call EXCEPT ![i] = c]
         /\ c.state = "done" =>
               \/ c.status \in {0, 500}
               \/ /\ c.status = Data(i).status /\ c.slugs = Data(i).slugs
                  /\ c.total = Data(i).total
  BY SettlingIs
<1>3. call' \in [CallIds -> Calls] /\ call'[i] = c
      /\ \A j \in CallIds \ {i} : call'[j] = call[j]
  BY <1>2 DEF SiteInv, SiteTypes
<1>4. SiteTypes'
  BY <1>1, <1>3 DEF SiteInv, SiteTypes
<1>5. CallsHold'
  <2>1. \A j \in CallIds : Data(j)' = Data(j)
    BY <1>1 DEF Data, Asks, Slugs
  <2>2. SUFFICES ASSUME NEW j \in CallIds, call'[j].state = "done" PROVE CallHolds(j)'
    BY DEF CallsHold
  <2>3. CASE j # i
    <3>1. call'[j] = call[j] /\ CallHolds(j)
      BY <1>3, <2>2, <2>3 DEF SiteInv, CallsHold
    <3>2. QED
      BY <1>1, <2>1, <3>1 DEF CallHolds, Undisturbed
  <2>4. CASE j = i
    <3>1. SiteTypes
      BY DEF SiteInv
    <3>2. CASE c.status \in {0, 500}
      BY <1>3, <2>4, <3>2 DEF CallHolds
    <3>3. CASE c.status = Data(i).status /\ c.slugs = Data(i).slugs /\ c.total = Data(i).total
      BY <1>1, <1>3, <2>1, <2>4, <3>1, <3>3, DataIs DEF CallHolds
    <3>4. QED
      BY <1>2, <1>3, <2>2, <2>4, <3>2, <3>3
  <2>5. QED
    BY <2>3, <2>4
<1>6. VisitHolds'
  <2>1. 1 \in CallIds
    BY SitePagesConstants DEF CallIds
  <2>2. Done(1) => call'[1] = call[1]
    BY <1>1, <1>3, <2>1 DEF Done
  <2>3. QED
    BY <1>1, <2>2 DEF SiteInv, VisitHolds, Done
<1>7. PagesTellTheTruth'
  BY <1>1 DEF SiteInv, PagesTellTheTruth, GoneIsTheApisWord, PoetsAreListedOnce,
              IndexNamesTheShards, NextPageIsThere, Answered, Undisturbed, Slugs
<1>8. QED
  BY <1>4, <1>5, <1>6, <1>7 DEF SiteInv

-----------------------------------------------------------------------------
(* Visits, pages and the corpus                                            *)

LEMMA PagesAgree ==
    ASSUME PagesTellTheTruth, UNCHANGED <<corpus, visit>>
    PROVE  PagesTellTheTruth'
BY DEF PagesTellTheTruth, GoneIsTheApisWord, PoetsAreListedOnce, IndexNamesTheShards,
       NextPageIsThere, Answered, Undisturbed, Slugs

LEMMA VisitKeeps ==
    ASSUME SiteInv, NEW what \in Whats, NEW pg \in Pages, Visit(what, pg)
    PROVE  SiteInv'
<1>1. SiteTypes /\ corpus' = corpus /\ pg \in Nat \ {0}
  BY SitePagesConstants DEF SiteInv, Visit
<1>2. /\ visit' = [what |-> what, page |-> pg, step |-> "first", rest |-> {},
                   from |-> corpus, reply |-> NoReply]
      /\ call' = Asking(AtOnce(what), [i \in CallIds |-> NoCall])
  BY DEF Visit, NoVisit
<1>3. \A i \in CallIds : call'[i] \in Calls /\ call'[i].state # "done"
  <2>1. <<>> \in Seq(STRING)
    BY EmptySeq
  <2>2. NoCall \in Calls /\ NoCall.state = "idle"
    BY <2>1 DEF NoCall, Calls, States, Statuses
  <2>a. "asking" \in States
    BY DEF States
  <2>3. [NoCall EXCEPT !.state = "asking"] \in Calls
        /\ [NoCall EXCEPT !.state = "asking"].state = "asking"
    BY <2>2, <2>a, CallsChange
  <2>4. QED
    BY <1>2, <2>2, <2>3 DEF Asking
<1>4. call' \in [CallIds -> Calls]
  BY <1>2, <1>3 DEF Asking
<1>5. visit' \in VisitsWith(NoReply) /\ visit'.reply = NoReply /\ visit'.from = corpus
  <2>1. corpus \in Nat \ {0}
    BY <1>1, SitePagesConstants DEF SiteTypes
  <2>2. QED
    BY <1>1, <1>2, <2>1 DEF VisitsWith
<1>6. SiteTypes'
  <2>1. corpus \in Nat
    BY <1>1 DEF SiteTypes
  <2>2. QED
    BY <1>1, <1>4, <1>5, <2>1 DEF SiteTypes
<1>7. CallsHold'
  BY <1>3 DEF CallsHold
<1>8. VisitHolds' /\ PagesTellTheTruth'
  BY <1>2 DEF VisitHolds, PagesTellTheTruth, GoneIsTheApisWord, PoetsAreListedOnce,
              IndexNamesTheShards, NextPageIsThere, Answered
<1>9. QED
  BY <1>6, <1>7, <1>8 DEF SiteInv

LEMMA ReseedKeeps ==
    ASSUME SiteInv, Reseed
    PROVE  SiteInv'
<1>1. /\ corpus \in 1..Len(Corpora) /\ corpus' = corpus + 1 /\ corpus < Len(Corpora)
      /\ visit.from \in Nat /\ visit.from <= corpus /\ UNCHANGED <<visit, call, visits>>
  BY DEF SiteInv, SiteTypes, VisitsWith, Reseed
<1>2. Len(Corpora) \in Nat
  BY SitePagesConstants
<1>3. corpus' \in 1..Len(Corpora) /\ visit'.from <= corpus' /\ ~Undisturbed'
  BY <1>1, <1>2 DEF Undisturbed
<1>4. SiteTypes'
  BY <1>1, <1>3 DEF SiteInv, SiteTypes
<1>5. CallsHold' /\ VisitHolds'
  BY <1>1, <1>3 DEF SiteInv, CallsHold, CallHolds, VisitHolds, Done
<1>6. PagesTellTheTruth'
  BY <1>3 DEF PagesTellTheTruth, GoneIsTheApisWord, PoetsAreListedOnce,
              IndexNamesTheShards, NextPageIsThere
<1>7. QED
  BY <1>4, <1>5, <1>6 DEF SiteInv

\* The calls of a visit stand as long as the visit asks for the same.
LEMMA CallsStand ==
    ASSUME SiteInv, UNCHANGED <<corpus, call>>, visit'.what = visit.what,
           visit'.page = visit.page, visit'.from = visit.from
    PROVE  CallsHold'
<1>1. \A i \in CallIds : Data(i)' = Data(i)
  BY DEF Data, Asks, Slugs
<1>2. \A i \in CallIds : CallHolds(i)' <=> CallHolds(i)
  BY <1>1 DEF CallHolds, Undisturbed
<1>3. QED
  BY <1>2 DEF SiteInv, CallsHold

\* A reply ends the visit; what it says is to be checked.
LEMMA ReplyKeeps ==
    ASSUME SiteInv, NEW reply, Reply(reply)
    PROVE  /\ UNCHANGED <<corpus, call, visits>>
           /\ visit'.what = visit.what /\ visit'.page = visit.page /\ visit'.from = visit.from
           /\ visit'.step = "idle" /\ visit'.reply = reply
           /\ SiteTypes' /\ CallsHold' /\ VisitHolds'
<1>1. UNCHANGED <<corpus, call, visits>> /\ visit' = [visit EXCEPT !.step = "idle", !.reply = reply]
  BY DEF Reply
<1>2. ASSUME NEW r, NEW v \in VisitsWith(r)
      PROVE  LET w == [v EXCEPT !.step = "idle", !.reply = reply]
             IN  /\ w \in VisitsWith(reply)
                 /\ w.what = v.what /\ w.page = v.page /\ w.from = v.from
                 /\ w.step = "idle" /\ w.reply = reply
  BY DEF VisitsWith
<1>3. visit \in VisitsWith(visit.reply) /\ visit.from <= corpus
  BY DEF SiteInv, SiteTypes
<1>4. /\ visit' \in VisitsWith(reply)
      /\ visit'.what = visit.what /\ visit'.page = visit.page /\ visit'.from = visit.from
      /\ visit'.step = "idle" /\ visit'.reply = reply
  BY <1>1, <1>2, <1>3
<1>5. SiteTypes'
  BY <1>1, <1>3, <1>4 DEF SiteInv, SiteTypes
<1>6. CallsHold'
  BY <1>1, <1>4, CallsStand
<1>7. VisitHolds'
  BY <1>4 DEF VisitHolds
<1>8. QED
  BY <1>1, <1>4, <1>5, <1>6, <1>7

\* A reply that says what the corpus says keeps the pages true.
LEMMA TrueReplyKeeps ==
    ASSUME SiteInv, NEW reply, Reply(reply),
           Undisturbed /\ visit.what \in Whats /\ reply.status = 404 =>
              \/ visit.what = "term" /\ ~Corpora[corpus].term
              \/ visit.page > Ceiling(Len(Slugs), PerPage),
           Undisturbed /\ visit.what = "poets.xml" /\ reply.status = 200 => reply.listed = Slugs,
           Undisturbed /\ visit.what = "sitemap-index.xml" /\ reply.status = 200 /\ Slugs # <<>> =>
              /\ \A n \in 1..reply.shards : Slice(Slugs, n) # <<>>
              /\ Slice(Slugs, reply.shards + 1) = <<>>,
           Undisturbed /\ visit.what = "term" /\ reply.status = 200 =>
              (reply.next <=> Slice(Slugs, visit.page + 1) # <<>>)
    PROVE  SiteInv'
<1>1. /\ corpus' = corpus
      /\ visit'.what = visit.what /\ visit'.page = visit.page /\ visit'.from = visit.from
      /\ visit'.step = "idle" /\ visit'.reply = reply
      /\ SiteTypes' /\ CallsHold' /\ VisitHolds'
  BY ReplyKeeps
<1>2. Undisturbed' = Undisturbed /\ Slugs' = Slugs
  BY <1>1 DEF Undisturbed, Slugs
<1>3. GoneIsTheApisWord'
  BY <1>1, <1>2 DEF GoneIsTheApisWord, Answered
<1>4. PoetsAreListedOnce'
  BY <1>1, <1>2 DEF PoetsAreListedOnce, Answered
<1>5. IndexNamesTheShards'
  BY <1>1, <1>2 DEF IndexNamesTheShards, Answered
<1>6. NextPageIsThere'
  BY <1>1, <1>2 DEF NextPageIsThere, Answered
<1>7. QED
  BY <1>1, <1>3, <1>4, <1>5, <1>6 DEF SiteInv, PagesTellTheTruth

LEMMA ThrowKeeps ==
    ASSUME SiteInv, Throw
    PROVE  SiteInv'
<1>1. Reply([NoReply EXCEPT !.status = 500]) /\ [NoReply EXCEPT !.status = 500].status = 500
  BY DEF Throw, NoReply
<1> DEFINE reply == [NoReply EXCEPT !.status = 500]
<1> HIDE DEF reply
<1>2. Reply(reply) /\ reply.status = 500
  BY <1>1 DEF reply
<1>3. QED
  BY <1>2, TrueReplyKeeps

LEMMA AskForTheRestKeeps ==
    ASSUME SiteInv, AskForTheRest
    PROVE  SiteInv'
<1> DEFINE total == call[1].total
<1>1. /\ SiteTypes /\ 1 \in CallIds /\ Done(1) /\ call[1].status = 200 /\ total > 1
      /\ visit.what = "poets.xml" /\ UNCHANGED <<corpus, visits>>
      /\ visit' = [visit EXCEPT !.step = "rest", !.rest = Rest(total)]
      /\ call' = Asking(Rest(total) \ {1}, call)
  BY SitePagesConstants DEF SiteInv, AskForTheRest, CallIds
<1>2. total \in 1..MaxPages /\ MaxPages \in Nat
  BY <1>1, SitePagesConstants DEF SiteInv, CallsHold, CallHolds, Done
<1> HIDE DEF total
<1>3. Rest(total) = 2..total /\ Rest(total) \subseteq CallIds
  BY <1>2 DEF Rest, CallIds
<1> DEFINE rest == Rest(total)
<1>4. ASSUME NEW r, NEW v \in VisitsWith(r)
      PROVE  LET w == [v EXCEPT !.step = "rest", !.rest = rest]
             IN  /\ w \in VisitsWith(r)
                 /\ w.what = v.what /\ w.page = v.page /\ w.from = v.from
                 /\ w.step = "rest" /\ w.rest = rest
  <2>1. rest \in SUBSET CallIds
    BY <1>3
  <2> HIDE DEF rest
  <2>2. QED
    BY <2>1 DEF VisitsWith
<1>5. /\ visit' \in VisitsWith(visit.reply)
      /\ visit'.what = visit.what /\ visit'.page = visit.page /\ visit'.from = visit.from
      /\ visit'.step = "rest" /\ visit'.rest = rest
  <2>1. visit \in VisitsWith(visit.reply)
    BY <1>1 DEF SiteTypes
  <2>2. visit' = [visit EXCEPT !.step = "rest", !.rest = rest]
    BY <1>1
  <2> HIDE DEF rest
  <2>3. QED
    BY <1>4, <2>1, <2>2
<1>6. \A i \in CallIds :
         /\ i \in Rest(total) => call'[i] = [NoCall EXCEPT !.state = "asking"]
         /\ i \notin Rest(total) => call'[i] = call[i]
  BY <1>1, <1>2, <1>3 DEF Asking
<1>7. [NoCall EXCEPT !.state = "asking"] \in Calls
      /\ [NoCall EXCEPT !.state = "asking"].state = "asking"
  <2>1. <<>> \in Seq(STRING)
    BY EmptySeq
  <2>2. NoCall \in Calls
    BY <2>1 DEF NoCall, Calls, States, Statuses
  <2>a. "asking" \in States
    BY DEF States
  <2>3. QED
    BY <2>2, <2>a, CallsChange
<1>8. call' \in [CallIds -> Calls]
  BY <1>1, <1>6, <1>7 DEF Asking, SiteTypes
<1>9. SiteTypes'
  <2>1. visit'.reply = visit.reply
    BY <1>5 DEF VisitsWith
  <2>2. QED
    BY <1>1, <1>5, <1>8, <2>1 DEF SiteTypes
<1>10. CallsHold'
  <2>1. \A i \in CallIds : Data(i)' = Data(i)
    BY <1>1, <1>5 DEF Data, Asks, Slugs
  <2>2. SUFFICES ASSUME NEW i \in CallIds, call'[i].state = "done" PROVE CallHolds(i)'
    BY DEF CallsHold
  <2>3. call'[i] = call[i]
    BY <1>6, <1>7, <2>2
  <2>4. CallHolds(i)
    BY <2>2, <2>3 DEF SiteInv, CallsHold
  <2>5. QED
    BY <1>1, <1>5, <2>1, <2>3, <2>4 DEF CallHolds, Undisturbed
<1>11. VisitHolds'
  <2>a. 1 \notin Rest(total) /\ 1 \in CallIds
    BY <1>1, <1>2, <1>3
  <2>1. call'[1] = call[1]
    BY <1>6, <2>a
  <2>2. QED
    BY <1>1, <1>3, <1>5, <2>1 DEF VisitHolds, Done, Whats, total
<1>12. PagesTellTheTruth'
  BY <1>5 DEF PagesTellTheTruth, GoneIsTheApisWord, PoetsAreListedOnce,
              IndexNamesTheShards, NextPageIsThere, Answered
<1>13. QED
  BY <1>9, <1>10, <1>11, <1>12 DEF SiteInv

-----------------------------------------------------------------------------
(* What the pages say                                                      *)

\* What the answered call of a visit under way says.
LEMMA AnswerIs ==
    ASSUME SiteInv, visit.step # "idle", NEW i \in CallIds, Done(i), ~Failing(i)
    PROVE  /\ visit.what \in Whats
           /\ call[i].status \in {200, 404} /\ (Missing(i) <=> call[i].status = 404)
           /\ Missing(i) => visit.what = "term" /\ i = 1
           /\ Undisturbed => /\ call[i].status = Data(i).status
                             /\ call[i].slugs = Data(i).slugs
                             /\ call[i].total = Data(i).total
<1>1. call[i] \in Calls
  BY DEF SiteInv, SiteTypes
<1>2. call[i].status \in {200, 404} /\ (Missing(i) <=> call[i].status = 404)
  BY <1>1 DEF Calls, States, Statuses, Failing, Missing, Done, isNotFoundStatus
<1>3. CallHolds(i)
  BY DEF SiteInv, CallsHold, Done
<1>4. visit.what \in Whats
  BY DEF SiteInv, VisitHolds
<1>5. QED
  BY <1>2, <1>3, <1>4 DEF CallHolds

\* A page past the last of a listing is past its end.
LEMMA PastThePages ==
    ASSUME NEW s \in Seq(STRING), NEW pg \in Nat \ {0}
    PROVE  /\ pg > TotalPages(s) => pg > Ceiling(Len(s), PerPage)
           /\ pg <= TotalPages(s) =>
                (pg < TotalPages(s) <=> ~(pg + 1 > Ceiling(Len(s), PerPage)))
<1>1. /\ Len(s) \in Nat /\ PerPage \in Nat \ {0}
      /\ s = <<>> => Len(s) = 0
  BY SitePagesConstants, EmptySeq
<1>2. Ceiling(Len(s), PerPage) \in Nat /\ (Len(s) = 0 => Ceiling(Len(s), PerPage) = 0)
  BY <1>1, CeilingIs
<1>3. CASE s = <<>>
  <2>1. TotalPages(s) = 1 /\ Ceiling(Len(s), PerPage) = 0
    BY <1>1, <1>2, <1>3 DEF TotalPages
  <2>2. QED
    BY <2>1
<1>4. CASE s # <<>>
  <2>1. TotalPages(s) = Ceiling(Len(s), PerPage)
    BY <1>4 DEF TotalPages
  <2>2. QED
    BY <1>2, <2>1
<1>5. QED
  BY <1>3, <1>4

LEMMA poetsXmlKeeps ==
    ASSUME SiteInv, poetsXml
    PROVE  SiteInv'
<1> DEFINE k == 1 + Cardinality(visit.rest)
           listed == FlattenSeq([n \in 1..k |-> PageSlugs(n)])
           reply == [NoReply EXCEPT !.status = 200, !.listed = listed]
<1>1. SiteTypes /\ visit.what = "poets.xml" /\ Reply(reply) /\ visit.step # "idle"
  BY DEF SiteInv, poetsXml
<1>2. reply.status = 200 /\ reply.listed = listed
  BY DEF NoReply
<1>3. Undisturbed => listed = Slugs
  <2>1. SUFFICES ASSUME Undisturbed PROVE listed = Slugs
    OBVIOUS
  <2>2. Slugs \in Seq(STRING) /\ TotalPages(Slugs) \in 1..MaxPages /\ MaxPages \in Nat
    BY <1>1, CorpusIs, SitePagesConstants DEF SiteTypes
  <2>3. \A n \in CallIds : Done(n) /\ ~Failing(n) =>
           /\ call[n].status = 200 /\ PageSlugs(n) = Slice(Slugs, n)
           /\ call[n].total = TotalPages(Slugs)
    <3>1. SUFFICES ASSUME NEW n \in CallIds, Done(n), ~Failing(n)
                   PROVE  /\ call[n].status = 200 /\ PageSlugs(n) = Slice(Slugs, n)
                          /\ call[n].total = TotalPages(Slugs)
      OBVIOUS
    <3>2. Data(n) = [status |-> 200, slugs |-> Slice(Slugs, n), total |-> TotalPages(Slugs)]
      BY <1>1 DEF Data, Asks
    <3>3. /\ call[n].status = Data(n).status /\ call[n].slugs = Data(n).slugs
          /\ call[n].total = Data(n).total
      BY <1>1, <2>1, <3>1, AnswerIs
    <3>4. QED
      BY <3>2, <3>3 DEF PageSlugs
  <2>4. /\ Done(1) /\ ~Failing(1) /\ k = TotalPages(Slugs)
        /\ \A n \in 2..k : Done(n) /\ ~Failing(n)
    <3>1. 1 \in CallIds
      BY <2>2 DEF CallIds
    <3>2. CASE visit.step = "first"
      <4>1. Done(1) /\ ~Failing(1) /\ (Missing(1) \/ call[1].total = 1)
        BY <3>2 DEF poetsXml, Failing, Missing
      <4>2. ~Missing(1)
        BY <1>1, <3>1, <4>1, AnswerIs
      <4>3. visit.rest = {} /\ TotalPages(Slugs) = 1
        BY <2>3, <3>1, <3>2, <4>1, <4>2 DEF SiteInv, VisitHolds
      <4>4. k = 1
        BY <4>3, FS_EmptySet
      <4>5. QED
        BY <4>1, <4>3, <4>4
    <3>3. CASE visit.step = "rest"
      <4>1. /\ Done(1) /\ call[1].status = 200 /\ visit.rest = 2..call[1].total
            /\ \A n \in visit.rest : Done(n) /\ ~Failing(n)
        BY <1>1, <3>3 DEF SiteInv, VisitHolds, poetsXml
      <4>2. ~Failing(1)
        BY <4>1 DEF Failing
      <4>3. call[1].total = TotalPages(Slugs)
        BY <2>3, <3>1, <4>1, <4>2
      <4>4. Cardinality(2..TotalPages(Slugs)) = TotalPages(Slugs) - 1
        BY <2>2, FS_Interval
      <4>5. k = TotalPages(Slugs)
        BY <2>2, <4>1, <4>3, <4>4
      <4>6. QED
        BY <4>1, <4>2, <4>3, <4>5
    <3>4. QED
      BY <1>1, <3>2, <3>3 DEF SiteTypes, VisitsWith
  <2> HIDE DEF k
  <2>5. \A n \in 1..k : PageSlugs(n) = Slice(Slugs, n)
    <3>1. SUFFICES ASSUME NEW n \in 1..k PROVE PageSlugs(n) = Slice(Slugs, n)
      OBVIOUS
    <3>2. n \in CallIds /\ (n = 1 \/ n \in 2..k)
      BY <2>2, <2>4 DEF CallIds
    <3>3. QED
      BY <2>3, <2>4, <3>2
  <2>6. [n \in 1..k |-> PageSlugs(n)] = [n \in 1..k |-> Slice(Slugs, n)]
    BY <2>5
  <2>7. QED
    BY <2>2, <2>4, <2>6, ListingIs
<1> HIDE DEF reply, listed
<1>4. QED
  BY <1>1, <1>2, <1>3, TrueReplyKeeps

LEMMA poemsXmlKeeps ==
    ASSUME SiteInv, poemsXml
    PROVE  SiteInv'
<1> DEFINE gone == [NoReply EXCEPT !.status = 404]
           data == [NoReply EXCEPT !.status = 200, !.listed = call[1].slugs]
           reply == IF Missing(1) \/ call[1].slugs = <<>> THEN gone ELSE data
<1>1. /\ SiteTypes /\ visit.what = "poems.xml" /\ visit.step # "idle" /\ Reply(reply)
      /\ Done(1) /\ ~Failing(1) /\ 1 \in CallIds
  BY SitePagesConstants DEF SiteInv, poemsXml, CallIds
<1>2. gone.status = 404 /\ data.status = 200
  BY DEF NoReply
<1>3. Undisturbed /\ reply.status = 404 => visit.page > Ceiling(Len(Slugs), PerPage)
  <2>1. SUFFICES ASSUME Undisturbed, reply.status = 404
                 PROVE  visit.page > Ceiling(Len(Slugs), PerPage)
    OBVIOUS
  <2>2. ~Missing(1) /\ call[1].slugs = Data(1).slugs
    BY <1>1, <2>1, AnswerIs
  <2>3. call[1].slugs = <<>>
    <3> HIDE DEF gone, data
    <3>1. QED
      BY <1>2, <2>1, <2>2
  <2>4. Data(1) = [status |-> 200, slugs |-> Slice(Slugs, visit.page), total |-> TotalPages(Slugs)]
    BY <1>1 DEF Data, Asks
  <2>5. Slice(Slugs, visit.page) = <<>>
    BY <2>2, <2>3, <2>4
  <2>6. Slugs \in Seq(STRING) /\ visit.page \in Nat \ {0}
    BY <1>1, CorpusIs DEF SiteTypes, VisitsWith
  <2>7. QED
    BY <2>5, <2>6, SliceIs
<1> HIDE DEF reply
<1>4. QED
  BY <1>1, <1>3, TrueReplyKeeps

LEMMA sitemapIndexXmlKeeps ==
    ASSUME SiteInv, sitemapIndexXml
    PROVE  SiteInv'
<1> DEFINE shards == shardCount(call[1].total, PerPage)
           reply == [NoReply EXCEPT !.status = 200, !.shards = shards]
<1>1. /\ SiteTypes /\ visit.what = "sitemap-index.xml" /\ visit.step # "idle" /\ Reply(reply)
      /\ Done(1) /\ ~Failing(1) /\ 1 \in CallIds
  BY SitePagesConstants DEF SiteInv, sitemapIndexXml, CallIds, Failing
<1>2. reply.status = 200 /\ reply.shards = shards
  BY DEF NoReply
<1>3. Undisturbed /\ Slugs # <<>> => /\ \A n \in 1..shards : Slice(Slugs, n) # <<>>
                                     /\ Slice(Slugs, shards + 1) = <<>>
  <2>1. SUFFICES ASSUME Undisturbed, Slugs # <<>>
                 PROVE  /\ \A n \in 1..shards : Slice(Slugs, n) # <<>>
                        /\ Slice(Slugs, shards + 1) = <<>>
    OBVIOUS
  <2>2. call[1].total = Len(Slugs)
    <3>1. Data(1) = [status |-> 200, slugs |-> <<>>, total |-> Len(Slugs)]
      BY <1>1 DEF Data
    <3>2. call[1].total = Data(1).total
      BY <1>1, <2>1, AnswerIs
    <3>3. QED
      BY <3>1, <3>2
  <2>3. Slugs \in Seq(STRING) /\ Len(Slugs) \in Nat \ {0} /\ PerPage \in Nat \ {0}
    BY <1>1, <2>1, CorpusIs, EmptySeq, SitePagesConstants DEF SiteTypes
  <2>4. shards = Ceiling(Len(Slugs), PerPage)
    BY <2>2, <2>3 DEF shardCount
  <2>5. shards \in Nat
    BY <2>3, <2>4, CeilingIs
  <2> HIDE DEF shards
  <2>6. \A n \in Nat \ {0} : Slice(Slugs, n) = <<>> <=> n > shards
    BY <2>3, <2>4, SliceIs
  <2>7. shards + 1 \in Nat \ {0} /\ shards + 1 > shards
    BY <2>5
  <2>8. \A n \in 1..shards : n \in Nat \ {0} /\ ~(n > shards)
    BY <2>5
  <2>9. QED
    BY <2>6, <2>7, <2>8
<1> HIDE DEF reply, shards
<1>4. QED
  BY <1>1, <1>2, <1>3, TrueReplyKeeps

LEMMA termPageKeeps ==
    ASSUME SiteInv, termPage
    PROVE  SiteInv'
<1> DEFINE last == call[2].total
           gone == [NoReply EXCEPT !.status = 404]
           data == [NoReply EXCEPT !.status = 200, !.listed = call[2].slugs,
                                   !.next = hasNextPage(visit.page, last)]
           reply == IF Missing(1) \/ Missing(2) \/ visit.page > last THEN gone ELSE data
<1>1. /\ SiteTypes /\ visit.what = "term" /\ visit.step # "idle" /\ Reply(reply)
      /\ \A i \in {1, 2} : Done(i) /\ ~Failing(i)
  BY DEF SiteInv, termPage
<1>2. 1 \in CallIds /\ 2 \in CallIds
  BY SitePagesConstants DEF CallIds
<1>3. /\ gone.status = 404
      /\ data.status = 200 /\ data.next = hasNextPage(visit.page, last)
  BY DEF NoReply
<1>4. Slugs \in Seq(STRING) /\ visit.page \in Nat \ {0} /\ TotalPages(Slugs) \in Nat
  BY <1>1, CorpusIs, TotalPagesIs DEF SiteTypes, VisitsWith
<1>5. ~Missing(2)
  BY <1>1, <1>2, AnswerIs
<1>6. Undisturbed => /\ Missing(1) <=> ~Corpora[corpus].term
                     /\ last = TotalPages(Slugs)
  <2>1. SUFFICES ASSUME Undisturbed
                 PROVE  (Missing(1) <=> ~Corpora[corpus].term) /\ last = TotalPages(Slugs)
    OBVIOUS
  <2>2. /\ call[1].status = Data(1).status /\ (Missing(1) <=> call[1].status = 404)
        /\ call[2].total = Data(2).total
    BY <1>1, <1>2, <2>1, AnswerIs
  <2>3. Data(1) = [status |-> IF Corpora[corpus].term THEN 200 ELSE 404,
                   slugs |-> <<>>, total |-> 0]
    BY <1>1 DEF Data
  <2>4. Data(2) = [status |-> 200, slugs |-> Slice(Slugs, visit.page), total |-> TotalPages(Slugs)]
    BY <1>1 DEF Data, Asks
  <2>5. QED
    BY <2>2, <2>3, <2>4
<1> HIDE DEF gone, data, last
<1>7. Undisturbed /\ reply.status = 404 =>
         ~Corpora[corpus].term \/ visit.page > Ceiling(Len(Slugs), PerPage)
  <2>1. Undisturbed /\ reply.status = 404 => ~Corpora[corpus].term \/ visit.page > TotalPages(Slugs)
    BY <1>3, <1>5, <1>6
  <2>2. QED
    BY <1>4, <2>1, PastThePages
<1>8. Undisturbed /\ reply.status = 200 => (reply.next <=> Slice(Slugs, visit.page + 1) # <<>>)
  <2>1. SUFFICES ASSUME Undisturbed, reply.status = 200
                 PROVE  reply.next <=> Slice(Slugs, visit.page + 1) # <<>>
    OBVIOUS
  <2>2. ~(visit.page > TotalPages(Slugs)) /\ reply = data
    BY <1>3, <1>6, <2>1
  <2>3. reply.next <=> visit.page < TotalPages(Slugs)
    BY <1>3, <1>6, <2>1, <2>2 DEF hasNextPage
  <2>4. visit.page <= TotalPages(Slugs)
    BY <1>4, <2>2
  <2>5. visit.page < TotalPages(Slugs) <=> ~(visit.page + 1 > Ceiling(Len(Slugs), PerPage))
    BY <1>4, <2>4, PastThePages
  <2>6. Slice(Slugs, visit.page + 1) = <<>> <=> visit.page + 1 > Ceiling(Len(Slugs), PerPage)
    <3>1. visit.page + 1 \in Nat \ {0}
      BY <1>4
    <3>2. QED
      BY <1>4, <3>1, SliceIs
  <2>7. QED
    BY <2>3, <2>5, <2>6
<1> HIDE DEF reply
<1>9. QED
  BY <1>1, <1>7, <1>8, TrueReplyKeeps

-----------------------------------------------------------------------------
(* The theorem                                                             *)

LEMMA SiteInvKept == SiteInv /\ [SitePagesNext]_sitePagesVars => SiteInv'
<1> SUFFICES ASSUME SiteInv, [SitePagesNext]_sitePagesVars PROVE SiteInv'
  OBVIOUS
<1>1. CASE \E what \in Whats, pg \in Pages : Visit(what, pg)
  BY <1>1, VisitKeeps
<1>2. CASE \E i \in CallIds : Settles(i)
  BY <1>2, SettlingKeeps
<1>3. CASE Renders
  BY <1>3, ThrowKeeps, AskForTheRestKeeps, poetsXmlKeeps, poemsXmlKeeps,
     sitemapIndexXmlKeeps, termPageKeeps DEF Renders
<1>4. CASE Reseed
  BY <1>4, ReseedKeeps
<1>5. CASE UNCHANGED sitePagesVars
  <2>1. UNCHANGED <<corpus, visit, call>>
    BY <1>5 DEF sitePagesVars
  <2>2. PagesTellTheTruth'
    BY <2>1, PagesAgree DEF SiteInv
  <2>3. CallsHold'
    BY <2>1, CallsStand
  <2>4. SiteTypes' /\ VisitHolds'
    BY <2>1 DEF SiteInv, SiteTypes, VisitHolds, Done
  <2>5. QED
    BY <2>2, <2>3, <2>4 DEF SiteInv
<1>6. QED
  BY <1>1, <1>2, <1>3, <1>4, <1>5 DEF SitePagesNext

\* What the server renders is what the API holds: a page that exists is never called gone, the
\* poets' sitemap lists each poet once and in order whatever the number of its pages, the index
\* names the shards there are, and a next page is linked exactly when it has something on it.
THEOREM RenderedPagesAreTrue == SitePagesSpec => []PagesTellTheTruth
<1>1. SiteInv => PagesTellTheTruth
  BY DEF SiteInv
<1>2. QED
  BY SiteStarts, SiteInvKept, <1>1, PTL DEF SitePagesSpec

=============================================================================
