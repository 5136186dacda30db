----------------------------- MODULE SitePages -----------------------------
(***************************************************************************)
(* The pages the web server renders from the API: the sitemaps, the index  *)
(* of the sitemaps and the paged lists (apps/web/src/lib/server, its pages *)
(* under sitemap/ and lib/seo/taxonomy-pages.ts).                          *)
(*                                                                         *)
(* One visit makes one call or several at once.  A call that ends without  *)
(* a status is repeated when the failure is a transient one; one that got  *)
(* a status never is: 400 and 404 mean "no such thing", anything else that *)
(* is not data makes the page an error.  Between two calls of a visit the  *)
(* corpus behind the API may be replaced.                                  *)
(*                                                                         *)
(* A corpus is the sequence of its slugs and whether the term that lists   *)
(* them exists.  A call answers in one step; its two queries are one read. *)
(***************************************************************************)
EXTENDS Integers, Sequences, FiniteSets, SequencesExt

CONSTANTS
    Corpora,   \* sequence of [slugs, term]: the corpora that replace each other
    PerPage,   \* slugs on a page, and in a shard of the sitemap
    MaxPages,  \* bound on the pages of a listing
    Pages,     \* page numbers that are asked for
    Retries,   \* SSR_NETWORK_RETRY_COUNT
    MaxVisits  \* bound on the visits

VARIABLES corpus,  \* the corpus served now
          visit,   \* the request under way, and what the last one was answered
          call,    \* the calls of the visit
          visits   \* visits so far

sitePagesVars == <<corpus, visit, call, visits>>

Whats == {"poets.xml", "poems.xml", "sitemap-index.xml", "term"}
CallIds == 1..MaxPages
NoReply == [status |-> 0, listed |-> <<>>, shards |-> 0, next |-> FALSE]
NoVisit == [what |-> "none", page |-> 1, step |-> "idle", rest |-> {}, from |-> 1, reply |-> NoReply]
NoCall == [state |-> "idle", tries |-> 0, status |-> 0, slugs |-> <<>>, total |-> 0]

SitePagesInit ==
    /\ corpus = 1
    /\ visit = NoVisit
    /\ call = [i \in CallIds |-> NoCall]
    /\ visits = 0

(***************************************************************************)
(* What the API answers                                                    *)
(***************************************************************************)

Slugs == Corpora[corpus].slugs
Ceiling(n, d) == (n + d - 1) \div d
TotalPages(slugs) == IF slugs = <<>> THEN 1 ELSE Ceiling(Len(slugs), PerPage)
Slice(slugs, page) ==
    SubSeq(slugs, (page - 1) * PerPage + 1,
           IF page * PerPage < Len(slugs) THEN page * PerPage ELSE Len(slugs))

ASSUME SitePagesConstants ==
    /\ Corpora \in Seq([slugs : Seq(STRING), term : BOOLEAN]) \ {<<>>}
    /\ PerPage \in Nat \ {0} /\ MaxPages \in Nat \ {0, 1} /\ Pages \subseteq Nat \ {0}
    /\ Retries \in Nat /\ MaxVisits \in Nat
    /\ \A c \in 1..Len(Corpora) : TotalPages(Corpora[c].slugs) <= MaxPages

(* Which page of which list the i-th call of a visit asks for.              *)
Asks(i) == IF visit.what \in {"poems.xml", "term"} THEN visit.page ELSE i
Data(i) ==
    IF visit.what = "sitemap-index.xml" THEN [status |-> 200, slugs |-> <<>>, total |-> Len(Slugs)]
    ELSE IF visit.what = "term" /\ i = 1
    THEN [status |-> IF Corpora[corpus].term THEN 200 ELSE 404, slugs |-> <<>>, total |-> 0]
    ELSE [status |-> 200, slugs |-> Slice(Slugs, Asks(i)), total |-> TotalPages(Slugs)]

(***************************************************************************)
(* One call (safeCall)                                                     *)
(***************************************************************************)

(* (Mutant: NotCounted.)                                                    *)
NotCounted(tries) == tries
Counted(tries) == tries + 1
MayRetry(tries) == tries < Retries

Answer(i) ==
    /\ call[i].state = "asking"
    /\ \E data \in {Data(i), [Data(i) EXCEPT !.status = 500, !.slugs = <<>>]} :
          call' = [call EXCEPT ![i] = [state |-> "done", tries |-> @.tries, status |-> data.status,
                                       slugs |-> data.slugs, total |-> data.total]]
    /\ UNCHANGED <<corpus, visit, visits>>

(* No status: a connection that broke or timed out is transient, a body     *)
(* that makes no sense is not.                                              *)
Break(i, transient) ==
    /\ call[i].state = "asking"
    /\ call' = [call EXCEPT ![i] = IF transient /\ MayRetry(@.tries)
                                   THEN [@ EXCEPT !.state = "pausing", !.tries = Counted(call[i].tries)]
                                   ELSE [@ EXCEPT !.state = "done", !.status = 0]]
    /\ UNCHANGED <<corpus, visit, visits>>

AskAgain(i) ==
    /\ call[i].state = "pausing"
    /\ call' = [call EXCEPT ![i].state = "asking"]
    /\ UNCHANGED <<corpus, visit, visits>>

(***************************************************************************)
(* The pages                                                               *)
(***************************************************************************)

Asking(ids, calls) == [i \in CallIds |-> IF i \in ids THEN [NoCall EXCEPT !.state = "asking"]
                                         ELSE calls[i]]
AtOnce(what) == IF what = "term" THEN {1, 2} ELSE {1}

Visit(what, page) ==
    /\ visit.step = "idle" /\ visits < MaxVisits
    /\ what \in {"poems.xml", "term"} \/ page = 1
    /\ visit' = [NoVisit EXCEPT !.what = what, !.page = page, !.step = "first", !.from = corpus]
    /\ call' = Asking(AtOnce(what), [i \in CallIds |-> NoCall])
    /\ visits' = visits + 1
    /\ UNCHANGED corpus

(* isNotFoundStatus.  (AnyFailure is the mutant that takes every failure    *)
(* for a page that does not exist.)                                         *)
AnyFailure(status) == status # 200
isNotFoundStatus(status) == status \in {400, 404}

Needed == IF visit.step = "rest" THEN visit.rest ELSE AtOnce(visit.what)
Done(i) == call[i].state = "done"
Failing(i) == Done(i) /\ call[i].status # 200 /\ ~isNotFoundStatus(call[i].status)
Missing(i) == Done(i) /\ isNotFoundStatus(call[i].status)

Reply(reply) ==
    /\ visit' = [visit EXCEPT !.step = "idle", !.reply = reply]
    /\ UNCHANGED <<corpus, call, visits>>

(* A call without data that is not "missing" throws, and Promise.all with   *)
(* it: the page is an error before the other calls are back.                *)
Throw ==
    /\ visit.step # "idle"
    /\ \E i \in Needed : Failing(i)
    /\ Reply([NoReply EXCEPT !.status = 500])

(* collectPagedSlugs: the first page says how many there are; the others    *)
(* are asked for at once.                                                   *)
Rest(total) == 2..total
AskForTheRest ==
    /\ visit.what = "poets.xml" /\ visit.step = "first"
    /\ Done(1) /\ call[1].status = 200 /\ call[1].total > 1
    /\ visit' = [visit EXCEPT !.step = "rest", !.rest = Rest(call[1].total)]
    /\ call' = Asking(Rest(call[1].total) \ {1}, call)
    /\ UNCHANGED <<corpus, visits>>

PageSlugs(i) == IF call[i].status = 200 THEN call[i].slugs ELSE <<>>
poetsXml ==
    /\ visit.what = "poets.xml"
    /\ \/ visit.step = "first" /\ Done(1) /\ (Missing(1) \/ (call[1].status = 200 /\ call[1].total = 1))
       \/ visit.step = "rest" /\ \A i \in visit.rest : Done(i) /\ ~Failing(i)
    /\ Reply([NoReply EXCEPT !.status = 200,
                 !.listed = FlattenSeq([n \in 1..(1 + Cardinality(visit.rest)) |-> PageSlugs(n)])])

poemsXml ==
    /\ visit.what = "poems.xml" /\ visit.step = "first" /\ Done(1) /\ ~Failing(1)
    /\ Reply(IF Missing(1) \/ call[1].slugs = <<>> THEN [NoReply EXCEPT !.status = 404]
             ELSE [NoReply EXCEPT !.status = 200, !.listed = call[1].slugs])

(* shardCount                                                               *)
shardCount(total, perShard) == IF total = 0 THEN 1 ELSE Ceiling(total, perShard)
sitemapIndexXml ==
    /\ visit.what = "sitemap-index.xml" /\ visit.step = "first" /\ Done(1) /\ call[1].status = 200
    /\ Reply([NoReply EXCEPT !.status = 200, !.shards = shardCount(call[1].total, PerPage)])

(* loadTaxonomyTerm, with listPoems: a page past the last is no page.       *)
(* derivePagination: whether the page links to a next one.                  *)
hasNextPage(page, total) == page < total
termPage ==
    /\ visit.what = "term" /\ visit.step = "first"
    /\ \A i \in {1, 2} : Done(i) /\ ~Failing(i)
    /\ Reply(IF Missing(1) \/ Missing(2) \/ visit.page > call[2].total
             THEN [NoReply EXCEPT !.status = 404]
             ELSE [NoReply EXCEPT !.status = 200, !.listed = call[2].slugs,
                                  !.next = hasNextPage(visit.page, call[2].total)])

(* A reseed replaces the corpus. *)
Reseed ==
    /\ corpus < Len(Corpora)
    /\ corpus' = corpus + 1
    /\ UNCHANGED <<visit, call, visits>>

(* What the timeout of a call and the timers bring about, and the page.     *)
Settles(i) == Answer(i) \/ (\E transient \in BOOLEAN : Break(i, transient)) \/ AskAgain(i)
Renders == Throw \/ AskForTheRest \/ poetsXml \/ poemsXml \/ sitemapIndexXml \/ termPage
SitePagesNext ==
    \/ \E what \in Whats, page \in Pages : Visit(what, page)
    \/ \E i \in CallIds : Settles(i)
    \/ Renders \/ Reseed

SitePagesSpec == SitePagesInit /\ [][SitePagesNext]_sitePagesVars

(***************************************************************************)
(* What a crawler and a reader may rely on                                 *)
(***************************************************************************)

Answered(what, status) == visit.step = "idle" /\ visit.what = what /\ visit.reply.status = status
Undisturbed == visit.from = corpus

(* An outage never makes a page that exists look gone: "not found" is only  *)
(* said when the API said so, or of a page past the end.                    *)
GoneIsTheApisWord ==
    \A what \in Whats : Answered(what, 404) /\ Undisturbed =>
        \/ what = "term" /\ ~Corpora[corpus].term
        \/ visit.page > Ceiling(Len(Slugs), PerPage)

(* The poets' sitemap that is served lists each poet once, in order, when   *)
(* the corpus was not replaced meanwhile: not a part of them.               *)
PoetsAreListedOnce ==
    Answered("poets.xml", 200) /\ Undisturbed => visit.reply.listed = Slugs

(* The index of the sitemaps names as many shards as there are: none that   *)
(* is missing and none that is answered with 404.  An empty corpus is the   *)
(* exception: it names one, which is not there.                             *)
IndexNamesTheShards ==
    Answered("sitemap-index.xml", 200) /\ Undisturbed /\ Slugs # <<>> =>
        /\ \A n \in 1..visit.reply.shards : Slice(Slugs, n) # <<>>
        /\ Slice(Slugs, visit.reply.shards + 1) = <<>>

(* The link to a next page leads to one that has something on it, and a     *)
(* page without the link is the last.                                       *)
NextPageIsThere ==
    Answered("term", 200) /\ Undisturbed =>
        (visit.reply.next <=> Slice(Slugs, visit.page + 1) # <<>>)

(* All four: a 404 is the API's word, sitemaps list each poet once, their  *)
(* index names the shards, and a next page that is offered is there.       *)
PagesTellTheTruth ==
    GoneIsTheApisWord /\ PoetsAreListedOnce /\ IndexNamesTheShards /\ NextPageIsThere

(* What must come to its end: the attempts of a visit are bounded, and each *)
(* of them by SSR_FETCH_TIMEOUT_MS.                                         *)
BeingRendered == visit.step # "idle"
=============================================================================
