----------------------------- MODULE SearchPage ----------------------------
(***************************************************************************)
(* The search page in the browser (apps/web/src/components/search) and the *)
(* requests it makes of GET /v1/search.                                    *)
(*                                                                         *)
(* The URL holds what is searched for; `box` is the input and what stands  *)
(* around it; `cache` is the query cache: one entry per key, with the pages*)
(* it holds and the fetch it makes.  The cache itself is a library: only   *)
(* what the page relies on is modelled, and answers stay fresh as long as  *)
(* a behaviour lasts.                                                      *)
(***************************************************************************)
EXTENDS SearchQuery, FilterValues

CONSTANTS
    Options,         \* options of every filter, by the name of its parameter
    DefaultEras,     \* the eras searched when none is chosen
    Typed,           \* texts a user types: what sanitizing leaves, and if that is all
    Links,           \* what a page may be opened with
    NetworkRetries,  \* failures that are retried, when the network failed
    OtherRetries,    \* and when the API did
    MaxActs,         \* acts of the user
    Totals           \* numbers of pages a search may have

VARIABLES url, box, cache, acts
searchVars == <<url, box, cache, acts>>

Filters == {"eraSlugs", "meterSlugs", "rhymeSlugs", "themeSlugs", "collectionSlugs"}
Sections == {"poems", "poets"}

(* What a filter of the page may hold: options of it, each once.            *)
ChoicesOf(f) == IF f \in DOMAIN Options THEN ListsOf(Options[f]) ELSE {<<>>}

(* The options are the slugs of the taxonomies (taxonomy-options.gen.ts),   *)
(* the default eras are some of them (taxonomy-data.test.ts), the site's    *)
(* own links hold what its form could, and the engine counts no hits beyond *)
(* its window (es/query.rs: track_total_hits), so that a search has no more *)
(* pages than may be asked for.  A number is written as a text.             *)
ASSUME SearchPageConstants ==
    /\ DOMAIN Options \subseteq Filters
    /\ \A f \in DOMAIN Options :
          /\ Options[f] \in ListsOf(Options[f]) /\ ToSet(Options[f]) \subseteq Transliterated
          /\ Len(Options[f]) <= MaxFilterSlugs
    /\ DefaultEras \in ChoicesOf("eraSlugs")
    /\ \A link \in Links :
          /\ DOMAIN link = {"q", "exact", "linked"} \cup Filters
          /\ ~link.linked => /\ link.q \notin OverFiftyUnits
                             /\ \A f \in Filters : link[f] \in ChoicesOf(f)
    /\ \A total \in Totals : total \in 0..MaxPage
    /\ "1" \in DOMAIN Decimals /\ Decimals["1"] = 1
    /\ \A total \in Totals : \A page \in 1..total : \E t \in DOMAIN Decimals : Decimals[t] = page

Trim(text) == CASE text = "blanks" -> "" [] text = "love " -> "love" [] OTHER -> text

-----------------------------------------------------------------------------
(* What a URL asks for.                                                     *)
erasCustomized(u) == splitCsvIds(u.eraSlugs) # <<>>
Selected(u, f) ==
    IF f = "eraSlugs" /\ ~erasCustomized(u) THEN DefaultEras ELSE splitCsvIds(u[f])
CanSearch(u, section) ==
    \/ Trim(u.q) # "" \/ erasCustomized(u)
    \/ section = "poems" /\ \E f \in Filters \ {"eraSlugs"} : Selected(u, f) # <<>>

Input(u, section) ==
    [part \in Filters \cup {"q", "type", "exact"} |->
        CASE part = "type" -> section
          [] part \in {"q", "exact"} -> u[part]
          [] part = "eraSlugs" /\ section = "poets" /\ ~erasCustomized(u) -> <<>>
          [] OTHER -> Selected(u, part)]

(* MUTANT: the key forgets a part of the input.                             *)
KeyWithoutExact(input) == [input EXCEPT !.exact = FALSE]
searchQueryKey(input) == input
Key(u, section) == searchQueryKey(Input(u, section))

(* The parameters of a request: the scalars, and the lists of the filters.  *)
ParamsWith(input, page, lists) ==
    LET poems == input.type = "poems"
        asked == CHOOSE t \in DOMAIN Decimals : Decimals[t] = page
        scalars == [q |-> <<input.q>>, types |-> <<input.type>>,
                    exact |-> <<IF input.exact THEN "true" ELSE "false">>,
                    poemsPage |-> <<IF poems THEN asked ELSE "1">>,
                    poetsPage |-> <<IF poems THEN "1" ELSE asked>>, poetSlugs |-> <<>>]
    IN  [name \in DOMAIN scalars \cup Filters |->
            IF name \in Filters THEN lists[name] ELSE scalars[name]]

(* MUTANT: the filters of poems are sent with a search for poets.           *)
FiltersForAll(input, page) == ParamsWith(input, page, [f \in Filters |-> input[f]])
searchQueryParams(input, page) ==
    ParamsWith(input, page,
        [f \in Filters |-> IF f = "eraSlugs" \/ input.type = "poems" THEN input[f] ELSE <<>>])

(* A list is its name once per value; an empty one is not sent.             *)
serializeQuery(params) ==
    LET Part(name) == IF name \notin DOMAIN params THEN <<>>
                      ELSE [i \in DOMAIN params[name] |-> Bare(name, params[name][i])]
    IN  FlattenSeq([n \in DOMAIN NameOrder |-> Part(NameOrder[n])])

-----------------------------------------------------------------------------
(* The query cache.                                                         *)
NewEntry == [status |-> "pending", pages |-> <<>>, busy |-> "no", got |-> <<>>, fails |-> 0,
             muted |-> FALSE, input |-> <<>>]
Entries == DOMAIN cache
EntryOf(section) == cache[Key(url, section)]

getNextPageParam(pages) == Last(pages).page + 1
hasMore(pages) == pages # <<>> /\ Last(pages).page < Last(pages).total
PageAsked(entry) ==
    CASE entry.busy = "next" -> getNextPageParam(entry.pages)
      [] entry.busy = "again" /\ entry.got # <<>> -> getNextPageParam(entry.got)
      [] OTHER -> 1

(* A fetch asks with the input of the drawing it was started from.          *)
Fetching(entry, mode, input) ==
    [status |-> IF entry.pages = <<>> THEN "pending" ELSE entry.status, pages |-> entry.pages,
     busy |-> mode, got |-> <<>>, fails |-> 0, muted |-> FALSE, input |-> input]

(* What each section's observer does once the URL is what it is: it fetches *)
(* a key without pages, if the section may search; a key nobody looks at    *)
(* any more is not retried.                                                 *)
Observe(u, changed, entries) ==
    LET Known(key) == IF key \in DOMAIN entries THEN entries[key] ELSE NewEntry
        seen == {Key(u, s) : s \in Sections}
        Fetched(key) == IF Known(key).busy # "no" THEN [Known(key) EXCEPT !.muted = FALSE]
                        ELSE Fetching(Known(key), "first", Input(u, key.type))
    IN  [key \in DOMAIN entries \cup seen |->
            IF key \notin seen THEN [Known(key) EXCEPT !.muted = TRUE]
            ELSE IF key.type \in changed /\ CanSearch(u, key.type) /\ Known(key).pages = <<>>
            THEN Fetched(key) ELSE Known(key)]

SearchPageInit ==
    /\ url \in Links
    /\ box = [text |-> url.q, error |-> "none", filters |-> FALSE]
    /\ cache = Observe(url, Sections, <<>>)
    /\ acts = 0

-----------------------------------------------------------------------------
(* What the page shows.                                                     *)
deriveSectionStatus(section) ==
    LET entry == EntryOf(section) IN
    IF ~CanSearch(url, section) THEN "idle"
    ELSE IF entry.status = "error" THEN "error"
    ELSE IF entry.busy = "next" THEN "success-fetching-more"
    ELSE IF entry.status = "success" THEN "success" ELSE "loading"

Items(section) == {i \in DOMAIN EntryOf(section).pages : EntryOf(section).pages[i].total >= i}
Total(section) == IF EntryOf(section).pages = <<>> THEN 0 ELSE EntryOf(section).pages[1].total

deriveSearchStatus ==
    LET active == {s \in Sections : deriveSectionStatus(s) # "idle"} IN
    IF active = {} THEN "idle"
    ELSE IF \E s \in active : deriveSectionStatus(s) = "loading" THEN "loading"
    ELSE IF \A s \in active : deriveSectionStatus(s) = "error" THEN "error"
    ELSE IF \A s \in active : deriveSectionStatus(s) = "error" \/ Total(s) = 0 THEN "empty"
    ELSE "results"

-----------------------------------------------------------------------------
(* What the user does.                                                      *)
Act(step) == acts < MaxActs /\ acts' = acts + 1 /\ step

(* The URL changes: the observers whose key or permission changed look again.*)
SetUrl(url2) ==
    /\ url' = url2
    /\ LET changed == {s \in Sections : \/ Key(url2, s) # Key(url, s)
                                        \/ CanSearch(url2, s) /\ ~CanSearch(url, s)}
       IN  cache' = Observe(url2, changed, cache)

handleInputChange(text, foreign) ==
    /\ box' = [box EXCEPT !.text = text,
                          !.error = IF foreign THEN "arabicOnly"
                                    ELSE IF text \in OverFiftyUnits THEN "maxLength" ELSE "none"]
    /\ UNCHANGED <<url, cache>>

TooLong(text) == text \in OverFiftyUnits

handleSearch ==
    LET trimmed == Trim(box.text) IN
    IF TooLong(trimmed)
    THEN box' = [box EXCEPT !.error = "maxLength"] /\ UNCHANGED <<url, cache>>
    ELSE /\ box' = [text |-> IF trimmed # url.q THEN trimmed ELSE box.text, error |-> "none",
                    filters |-> FALSE]
         /\ SetUrl([url EXCEPT !.q = trimmed])

handleInputBlur ==
    /\ Trim(box.text) \notin {"", Trim(url.q)}
    /\ handleSearch

handleClearInput ==
    /\ deriveSearchStatus # "loading" /\ Trim(box.text) # ""
    /\ box' = [box EXCEPT !.text = "", !.error = "none"]
    /\ UNCHANGED <<url, cache>>

handleToggleFilters ==
    box' = [box EXCEPT !.filters = ~@] /\ UNCHANGED <<url, cache>>

handleToggleExact == SetUrl([url EXCEPT !.exact = ~@]) /\ UNCHANGED box

ChooseFilter(f, choice) ==
    /\ box.filters
    /\ SetUrl([url EXCEPT ![f] =
            joinCsvIds(toggleOption(Selected(url, f), Options[f], f = "eraSlugs", choice))])
    /\ UNCHANGED box

ClearFilter(f) ==
    /\ box.filters /\ Selected(url, f) # <<>>
    /\ SetUrl([url EXCEPT ![f] = <<>>])
    /\ UNCHANGED box

(* More of a section: the button under the poems, the end of the poets      *)
(* scrolled into view; only where there is more and it is not on its way.   *)
LoadMore(section) ==
    LET entry == EntryOf(section) IN
    /\ deriveSearchStatus = "results" /\ Items(section) # {}
    /\ hasMore(entry.pages) /\ entry.busy # "next"
    /\ cache' = [cache EXCEPT ![Key(url, section)] = Fetching(entry, "next", Input(url, section))]
    /\ UNCHANGED <<url, box>>

(* Both queries are fetched again, from their first page to their last,     *)
(* whether their section may search or not.                                 *)
handleRetry ==
    /\ deriveSearchStatus = "error"
    /\ LET Refetched(entry, s) ==
               IF entry.pages # <<>> THEN Fetching(entry, "again", Input(url, s))
               ELSE IF entry.busy # "no" THEN [entry EXCEPT !.muted = FALSE]
               ELSE Fetching(entry, "first", Input(url, s))
       IN  cache' = [key \in Entries |->
               IF Key(url, key.type) # key THEN cache[key] ELSE Refetched(cache[key], key.type)]
    /\ UNCHANGED <<url, box>>

-----------------------------------------------------------------------------
(* What the network and the API do with the request of one key.             *)
Requesting == {key \in Entries : cache[key].busy # "no"}
Request(key) == serializeQuery(searchQueryParams(cache[key].input, PageAsked(cache[key])))
Accepted(key) == \E query \in {Request(key)} : Response(query) = 200

Succeeds(key) ==
    \E total \in Totals :
        LET entry == cache[key]
            page == [asked |-> entry.input, page |-> PageAsked(entry), total |-> total]
            got == IF entry.busy = "next" THEN Append(entry.pages, page) ELSE Append(entry.got, page)
            done == entry.busy = "again" => Len(got) = Len(entry.pages) \/ ~hasMore(got)
        IN  cache' = [cache EXCEPT ![key] =
                IF done THEN [entry EXCEPT !.pages = got, !.got = <<>>, !.busy = "no", !.status = "success"]
                ELSE [entry EXCEPT !.got = got]]

MayRetryAgain(entry, network) ==
    ~entry.muted /\ entry.fails <= (IF network THEN NetworkRetries ELSE OtherRetries)

Fails(key, network) ==
    LET entry == cache[key]
        fails == IF entry.fails <= NetworkRetries + OtherRetries THEN entry.fails + 1 ELSE entry.fails
    IN  cache' = [cache EXCEPT ![key] =
            IF MayRetryAgain(entry, network) THEN [entry EXCEPT !.fails = fails, !.got = <<>>]
            ELSE [entry EXCEPT !.busy = "no", !.got = <<>>, !.status = "error"]]

RequestEnds(key) ==
    /\ key \in Requesting
    /\ \/ Accepted(key) /\ Succeeds(key)
       \/ \E network \in BOOLEAN : Fails(key, network)
    /\ UNCHANGED <<url, box, acts>>

(* At the latest when the request has taken too long.                       *)
TimesOut(key) == key \in Requesting /\ Fails(key, TRUE) /\ UNCHANGED <<url, box, acts>>

UserActs ==
    \/ \E typed \in Typed : Act(handleInputChange(typed.text, typed.foreign))
    \/ Act(handleSearch) \/ Act(handleInputBlur) \/ Act(handleClearInput)
    \/ Act(handleToggleFilters) \/ Act(handleToggleExact) \/ Act(handleRetry)
    \/ \E f \in DOMAIN Options :
          \/ \E choice \in ToSet(Displayed(Options[f])) : Act(ChooseFilter(f, choice))
          \/ Act(ClearFilter(f))
    \/ \E s \in Sections : Act(LoadMore(s))

SearchPageNext == UserActs \/ \E key \in Entries : RequestEnds(key)

SearchPageSpec == SearchPageInit /\ [][SearchPageNext]_searchVars

-----------------------------------------------------------------------------
SearchPageTypeOK ==
    /\ DOMAIN url = {"q", "exact", "linked"} \cup Filters
    /\ box.error \in {"none", "arabicOnly", "maxLength"} /\ box.filters \in BOOLEAN
    /\ \A key \in Entries :
          /\ cache[key].status \in {"pending", "success", "error"}
          /\ cache[key].busy \in {"no", "first", "next", "again"}
          /\ (cache[key].status = "success") => cache[key].pages # <<>>

(* No request that the page makes of its own state is one the API rejects:  *)
(* what the form lets through, the filters and the serializer put together, *)
(* is within what the handler's parser accepts.  A URL typed by hand may    *)
(* hold anything.                                                           *)
PageIsNeverRejected ==
    ~url.linked => \A key \in Requesting : Accepted(key)

(* What a section shows was asked for with the state the URL has now, and   *)
(* its pages are the first, the second and so on, once each: an answer that *)
(* comes late, or a second fetch of the same pages, never mixes searches.   *)
ShownIsThisSearch ==
    \A s \in Sections : CanSearch(url, s) =>
        \A i \in DOMAIN EntryOf(s).pages :
            EntryOf(s).pages[i].asked = Input(url, s) /\ EntryOf(s).pages[i].page = i
=============================================================================
