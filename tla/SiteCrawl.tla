----------------------------- MODULE SiteCrawl -----------------------------
(***************************************************************************)
(* The inspector (apps/inspector/src): the shapes of the website's pages   *)
(* are read from its files, and a crawl from the static pages looks for    *)
(* one live example of each dynamic shape, within a budget of fetches.     *)
(* The report has a section for each example, and names the shapes that    *)
(* have none.                                                              *)
(*                                                                         *)
(* A path is a sequence of segments, a segment a sequence of pieces of     *)
(* text, as much of it as tells a prefix from a whole name.  A file is its *)
(* place among the sorted files, so that sets of files have an order.      *)
(* What a page links to is chosen when it is fetched; an href is its path. *)
(***************************************************************************)
EXTENDS Ranked, SequencesExt

CONSTANTS
    PageFiles,   \* sequence: the files under pages, sorted: [segments, astro]
    Preferred,   \* function: shape -> the path tried first
    LinkLists,   \* the sequences of hrefs a page may have
    Sentinels,     \* the hrefs of the placeholder for unknown entities
    MaxFetches,  \* MAX_FETCHES
    MaxReports   \* bound on the reports asked for

VARIABLES crawl, reports
siteCrawlVars == <<crawl, reports>>

Paths == Seq(Seq(STRING))
Slug == <<"[slug]">>
IndexPage == <<"index">>
ErrorPage == <<"500">>

ASSUME CrawlConstants ==
    /\ PageFiles \in Seq([segments : Seq(Seq(STRING)) \ {<<>>}, astro : BOOLEAN])
    /\ \A shape \in DOMAIN Preferred : Preferred[shape] \in Paths
    /\ \A links \in LinkLists : links \in Seq(Paths)
    /\ MaxFetches \in Nat /\ MaxReports \in Nat

-----------------------------------------------------------------------------
(* The shapes of the pages (route-discovery.ts).                           *)

Places == 1..Len(PageFiles)
Segments(place) == PageFiles[place].segments
Directory(place) == Front(Segments(place))
Name(place) == Last(Segments(place))

ShapeOf(place) ==
    ElementsAt(Segments(place), {i \in 1..Len(Segments(place)) : Segments(place)[i] # IndexPage})
PageShapes == {place \in Places : PageFiles[place].astro /\ Name(place) # ErrorPage}
DynamicPages == {place \in PageShapes : Slug \in ToSet(Segments(place))}
StaticPages == PageShapes \ DynamicPages
StaticPaths == {ShapeOf(place) : place \in StaticPages}

(* reservedSiblingsByDir: the other names of a directory, pages or not,     *)
(* each by the first file that has it.                                      *)
Namesake(one, other) == Directory(one) = Directory(other) /\ Name(one) = Name(other)
Reserved(place) ==
    {other \in Places :
        /\ Directory(other) = Directory(place) /\ Name(other) \notin {IndexPage, Slug}
        /\ \A earlier \in 1..(other - 1) : ~Namesake(earlier, other)}
ByPrefix(place) == {other \in Reserved(place) : \E later \in Reserved(place) : other < later}

(* MUTANT: a dynamic segment is a plain wildcard. *)
PlainWildcard(place, segment, ends) == FALSE
(* (?!one|two$): the end of the path is asked for after the last name only, *)
(* so the others exclude whatever begins with them.                         *)
IsExcluded(place, segment, ends) ==
    \/ \E other \in ByPrefix(place) : IsPrefix(Name(other), segment)
    \/ ends /\ \E other \in Reserved(place) \ ByPrefix(place) : segment = Name(other)

(* The pattern of a dynamic shape. *)
Fits(place, path) ==
    /\ Len(path) = Len(ShapeOf(place))
    /\ \A i \in 1..Len(path) : ShapeOf(place)[i] \in {Slug, path[i]}
MatchesPattern(place, path) ==
    /\ Fits(place, path)
    /\ \A i \in 1..Len(path) :
          ShapeOf(place)[i] = Slug => ~IsExcluded(place, path[i], i = Len(path))

(* The files under apps/web/src/pages: [slug] and index are last segments,  *)
(* no two pages have one shape, and the only routes that a dynamic shape    *)
(* could take for an example lie beside it.                                 *)
ASSUME PagesAreLaidOut ==
    /\ \A place \in Places : \A i \in 1..Len(Segments(place)) :
          Segments(place)[i] \in {IndexPage, Slug} => i = Len(Segments(place))
    /\ \A place, other \in PageShapes : ShapeOf(place) = ShapeOf(other) => place = other
    /\ \A place \in DynamicPages, other \in Places : Fits(place, ShapeOf(other)) =>
          Directory(other) = Directory(place) /\ Name(other) # IndexPage
(* No slug begins with the name of a route that lies beside it, unless it   *)
(* is the last name: a poem's has four letters, a poet has no such routes.  *)
ASSUME LinksAreClear ==
    \A links \in LinkLists : \A href \in ToSet(links), place \in DynamicPages :
        Fits(place, href) => \A other \in ByPrefix(place) :
            IsPrefix(Name(other), Last(href)) => Last(href) = Name(other)

-----------------------------------------------------------------------------
(* The crawl (site-crawl.ts). *)

NoCrawl == [step |-> "none", queue |-> <<>>, visited |-> {}, fetches |-> 0, at |-> <<>>,
            remaining |-> {}, resolved |-> <<>>, html |-> {}]

CrawlInit == crawl = NoCrawl /\ reports = 0

InOrder(places) == ElementsAt([place \in Places |-> place], places)
PreferredPaths ==
    LET places == InOrder({place \in DynamicPages : ShapeOf(place) \in DOMAIN Preferred})
    IN  [i \in 1..Len(places) |-> Preferred[ShapeOf(places[i])]]
StartingPaths ==
    LET places == InOrder(StaticPages) IN [i \in 1..Len(places) |-> ShapeOf(places[i])]

BeginCrawl ==
    /\ crawl.step \in {"none", "done", "failed"} /\ reports < MaxReports
    /\ reports' = reports + 1
    /\ crawl' = [NoCrawl EXCEPT !.step = "crawling", !.remaining = DynamicPages,
                                !.queue = PreferredPaths \o StartingPaths]

More == crawl.queue # <<>> /\ crawl.fetches < MaxFetches
Candidates(remaining, path) == {place \in remaining : MatchesPattern(place, path)}
FirstOf(places) == CHOOSE place \in places : \A other \in places : place <= other
IsExpected(path) == path \in StaticPaths \/ Candidates(crawl.remaining, path) # {}

(* A path that was visited, or is no example that is still looked for, is   *)
(* dropped without a fetch.                                                 *)
SkipPath ==
    LET path == Head(crawl.queue) IN
    /\ crawl.step = "crawling" /\ More
    /\ path \in crawl.visited \/ ~IsExpected(path)
    /\ crawl' = [crawl EXCEPT !.queue = Tail(@), !.visited = @ \cup {path}]
    /\ UNCHANGED reports

FetchPath ==
    LET path == Head(crawl.queue) IN
    /\ crawl.step = "crawling" /\ More
    /\ path \notin crawl.visited /\ IsExpected(path)
    /\ crawl' = [crawl EXCEPT !.step = "fetching", !.queue = Tail(@), !.visited = @ \cup {path},
                              !.fetches = @ + 1, !.at = path]
    /\ UNCHANGED reports

(* The links that may lead to what is still looked for join the queue, each *)
(* once.                                                                    *)
ToQueue(queue, visited, remaining, links) ==
    {i \in 1..Len(links) :
        /\ links[i] \notin visited \cup ToSet(queue) \cup Sentinels
        /\ Candidates(remaining, links[i]) # {}
        /\ \A j \in 1..(i - 1) : links[j] # links[i]}

(* The page arrives: an example of a dynamic shape must be usable, which a  *)
(* placeholder and a page that calls itself by another path are not; nobody *)
(* asks that of a static page.                                              *)
Arrives(links, usable) ==
    LET matched == Candidates(crawl.remaining, crawl.at)
        rejected == matched # {} /\ ~usable
        shape == IF crawl.at \in StaticPaths THEN crawl.at ELSE ShapeOf(FirstOf(matched))
        remaining == IF rejected \/ matched = {} THEN crawl.remaining
                     ELSE crawl.remaining \ {FirstOf(matched)}
        wanted == ToQueue(crawl.queue, crawl.visited, remaining, links)
    IN  /\ crawl.step = "fetching" /\ (matched = {} => usable)
        /\ crawl' = [crawl EXCEPT !.step = "crawling", !.remaining = remaining,
               !.resolved = IF rejected THEN @ ELSE Append(@, [shape |-> shape, path |-> crawl.at]),
               !.queue = @ \o ElementsAt(links, wanted),
               !.html = @ \cup {[path |-> crawl.at, links |-> links, usable |-> usable]}]
        /\ UNCHANGED reports

(* A fetch that fails fails the report.                                     *)
FetchFails ==
    /\ crawl.step = "fetching"
    /\ crawl' = [crawl EXCEPT !.step = "failed"]
    /\ UNCHANGED reports

EndCrawl ==
    /\ crawl.step = "crawling" /\ ~More
    /\ crawl' = [crawl EXCEPT !.step = "done"]
    /\ UNCHANGED reports

SiteCrawlNext ==
    \/ BeginCrawl \/ SkipPath \/ FetchPath \/ FetchFails \/ EndCrawl
    \/ \E links \in LinkLists, usable \in BOOLEAN : Arrives(links, usable)

CrawlSpec == CrawlInit /\ [][SiteCrawlNext]_siteCrawlVars

-----------------------------------------------------------------------------
(* What the report is worth.                                               *)

Sections(shape) == {i \in 1..Len(crawl.resolved) : crawl.resolved[i].shape = shape}
IsExample(place, path) ==
    /\ Fits(place, path)
    /\ path \notin {ShapeOf(other) : other \in Places} \ {ShapeOf(place)}

(* docs/exceptions.md, "Dynamic shape regexes exclude sibling static        *)
(* routes": an example is a usable page of its own shape, never another     *)
(* route that lives beside it.                                              *)
ExamplesAreOfTheirShape ==
    \A place \in DynamicPages : \A i \in Sections(ShapeOf(place)) :
        /\ IsExample(place, crawl.resolved[i].path)
        /\ \E page \in crawl.html : page.path = crawl.resolved[i].path /\ page.usable

(* No shape is lost: a dynamic one has its example or is named as one that  *)
(* has none, and a static one is missing only when the budget is used up.   *)
EveryShapeIsReported ==
    crawl.step = "done" =>
        /\ \A place \in DynamicPages : Cardinality(Sections(ShapeOf(place))) =
              IF place \in crawl.remaining THEN 0 ELSE 1
        /\ crawl.fetches < MaxFetches =>
              \A path \in StaticPaths : Cardinality(Sections(path)) = 1

(* "No live example found" is said only when every link to one, on any page *)
(* that was fetched, was tried and was of no use.                           *)
NoneMeansNone ==
    crawl.step = "done" /\ crawl.fetches < MaxFetches =>
        \A place \in crawl.remaining, page \in crawl.html :
            \A href \in ToSet(page.links) \ Sentinels : IsExample(place, href) =>
                \E tried \in crawl.html : tried.path = href /\ ~tried.usable

(* "The crawl budget counts only real fetches" (docs/exceptions.md): spent  *)
(* on the static pages, an example of each shape, and examples of no use.   *)
BudgetIsWellSpent ==
    crawl.fetches <= Cardinality(StaticPages) + Cardinality(DynamicPages)
                     + Cardinality({page \in crawl.html : ~page.usable})

InspectionIsSound ==
    ExamplesAreOfTheirShape /\ EveryShapeIsReported /\ NoneMeansNone /\ BudgetIsWellSpent
=============================================================================
