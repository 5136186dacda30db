-------------------------------- MODULE MCWeb --------------------------------
(***************************************************************************)
(* What the site does with the API, in the browser and on its server, for  *)
(* TLC.  The parts share no state: `exercised`, chosen by Init and never   *)
(* changed, says which one runs.                                           *)
(***************************************************************************)
EXTENDS SearchPage, FilterSelect, Settings, RandomPoem, AccountPages, SitePages

CONSTANTS
    Exercised,                                            \* what the run exercises
    t1, t2                                                \* the tabs of the account pages

VARIABLES exercised, request

-----------------------------------------------------------------------------
(* Values of the constants, and the instance.                              *)

\* A page that is opened without parameters, by a link that searches, and by one whose
\* query was not typed here; a text the form takes and one it does not.
NoUrl == [q |-> "", exact |-> FALSE, linked |-> FALSE, eraSlugs |-> <<>>, meterSlugs |-> <<>>,
          rhymeSlugs |-> <<>>, themeSlugs |-> <<>>, collectionSlugs |-> <<>>]
MCLinks == {NoUrl, [NoUrl EXCEPT !.q = "love", !.meterSlugs = <<"albasit">>],
            [NoUrl EXCEPT !.q = "51 letters", !.linked = TRUE]}
MCTyped == {[text |-> "love ", foreign |-> FALSE], [text |-> "51 letters", foreign |-> TRUE]}
MCOptions == [eraSlugs |-> <<"abbasi", "jahili">>, meterSlugs |-> <<"albasit">>]
MCDefaultEras == <<"jahili">>
MCSelectOptions == <<"a", "b">>
\* What the API can tell of the texts of the page and of the probes.
MCTransliterated == {"jahili", "abbasi", "umawi", "islami", "albasit", "altawil", "meem", "almadih",
                     "almuallaqat", "zzzzz", "a", "a--b", "jahili-"}
MCOverFiftyUnits == {"51 letters", "26 emoji", "a letter and 51 marks"}
MCDecimals == "1" :> 1 @@ "2" :> 2 @@ "3" :> 3 @@ "500" :> 500 @@ "501" :> 501 @@ "999999" :> 999999
Queries == INSTANCE SearchProbes

\* Nothing, something that is no record, a store that may not be used, and the record of a
\* later version.
MCStored == {[raw |-> "none", fields |-> <<>>], [raw |-> "corrupt", fields |-> <<>>],
           [raw |-> "denied", fields |-> <<>>],
           [raw |-> "record", fields |-> [v |-> 2, theme |-> "dark", poemFontScale |-> 90,
                                          margins |-> "wide"]]}

Address(primary, verified) == [primary |-> primary, verified |-> verified]
MCClaims == [google |-> {[id |-> "u1", verified |-> TRUE], [id |-> "u1", verified |-> FALSE]},
           github |-> {[id |-> "u2", emails |-> {Address(TRUE, TRUE)}],
                       [id |-> "u2", emails |-> {Address(TRUE, FALSE), Address(FALSE, TRUE)}]}]

\* Five slugs, then two and no term that lists them, then none.
MCCorpora == << [slugs |-> <<"a", "b", "c", "d", "e">>, term |-> TRUE],
                [slugs |-> <<"a", "b">>, term |-> FALSE], [slugs |-> <<>>, term |-> TRUE] >>

-----------------------------------------------------------------------------
(* One of them runs.                                                       *)

vars == <<exercised, searchVars, selectVars, request, randomPoemVars, settingsVars,
          accountPagesVars, sitePagesVars>>

Others ==
    /\ exercised' = exercised
    /\ IF exercised = "search" THEN TRUE ELSE UNCHANGED searchVars
    /\ IF exercised = "menu" THEN TRUE ELSE UNCHANGED selectVars
    /\ IF exercised = "queries" THEN TRUE ELSE UNCHANGED request
    /\ IF exercised = "random" THEN TRUE ELSE UNCHANGED randomPoemVars
    /\ IF exercised = "settings" THEN TRUE ELSE UNCHANGED settingsVars
    /\ IF exercised = "account" THEN TRUE ELSE UNCHANGED accountPagesVars
    /\ IF exercised = "site" THEN TRUE ELSE UNCHANGED sitePagesVars

\* What does not run has one initial state.
MCInit ==
    /\ exercised \in Exercised
    /\ SearchPageInit /\ (exercised # "search" => url = NoUrl)
    /\ SelectInit /\ (exercised # "menu" => select.every)
    /\ SettingsInit /\ (exercised # "settings" => stored.raw = "none" /\ legacy = "none")
    /\ Queries!Init /\ RandomPoemInit /\ AccountPagesInit /\ SitePagesInit

MCNext ==
    /\ \/ exercised = "search" /\ SearchPageNext
       \/ exercised = "menu" /\ SelectNext
       \/ exercised = "queries" /\ Queries!ProbesNext
       \/ exercised = "random" /\ RandomPoemNext
       \/ exercised = "settings" /\ SettingsNext
       \/ exercised = "account" /\ AccountPagesNext
       \/ exercised = "site" /\ SitePagesNext
    /\ Others

(* Requests are answered, at the latest by their timeouts, and the page goes *)
(* on with the answer; the user owes nothing.  One of the parts runs, so     *)
(* that fairness of the union is fairness of the one.  The tabs of the       *)
(* account pages are alike: t1 is watched, and t2 is promised nothing.       *)
OwnSteps ==
    /\ \/ exercised = "search" /\ \E key \in Entries : TimesOut(key)
       \/ exercised = "random" /\ (Timers \/ Tick)
       \/ exercised = "site" /\ ((\E i \in CallIds : Settles(i)) \/ Renders)
       \/ exercised = "account" /\ GoesOn(t1)
    /\ Others

MCSpec == MCInit /\ [][MCNext]_vars /\ WF_vars(OwnSteps)

-----------------------------------------------------------------------------
(* What the smoke run asks of the API's parser means what its probes expect.*)
QueriesAreUnderstood == Queries!QueriesAreUnderstood

(* Whoever waits for the site is answered: the spinner of the search goes   *)
(* away, a random poem comes or fails, a page is rendered, and a tab of the  *)
(* account pages is led back to a page, whatever the other tab does.  One    *)
(* wait has no end: the button's, when the body of a 2xx answer breaks off   *)
(* (BodyBreaks), until the user leaves the page.                             *)
Waiting ==
    \/ deriveSearchStatus = "loading"
    \/ button \in {"loading", "stalled"} \/ (Active /\ run.by = "route")
    \/ BeingRendered
    \/ Served(t1)
VisitsAreAnswered == Waiting ~> (~Waiting \/ button = "stalled")
=============================================================================
