--------------------------- MODULE SearchIndexer ----------------------------
(***************************************************************************)
(* apps/search-indexer: the job that fills a fresh index from Postgres and  *)
(* moves an alias onto it, first for poems, then for poets.  Each request   *)
(* to Elasticsearch is a step of its own: it can fail, it can take effect   *)
(* while its answer is lost, and the job can be killed between any two.     *)
(* A run is started by the Compose init job or, forced, by an operator's    *)
(* `docker compose run` (reindex-prod.sh, reseed.sh).                       *)
(***************************************************************************)
EXTENDS Integers, FiniteSets, FiniteSetsExt

CONSTANTS
    Runs,        \* the runs that can be alive at the same time
    Pages,       \* the batches of the corpus: bulk requests 1..Pages fill an index
    MaxVersion,  \* bound: the last N of an index <prefix>N
    MaxBody,     \* bound: schema.json bodies the deployed images can carry
    MaxLaunches  \* bound: runs started

VARIABLES
    indices,    \* kind -> the indices with its prefix: N -> [body, pages]
    alias,      \* kind -> the N its alias names, or NoIndex
    run,        \* the state of each run
    body,       \* the schema.json of the deployed image
    published,  \* history: kind -> the body of the last run that moved the alias, or 0
    launches

indexerVars == <<indices, alias, run, body, published, launches>>

Kinds == {"poems", "poets"}

NoIndex == 0

\* The body of an index that bulk created because its target was gone.
Dynamic == 0

AllPages == 1..Pages

Off == [at |-> "off"]

StillRuns(r) == run[r].at \notin {"off", "done", "failed"}

-----------------------------------------------------------------------------
(* Elasticsearch, as es.rs uses it.                                        *)

Exists(k, n) == n \in DOMAIN indices[k]

With(k, n, index) ==
    [indices EXCEPT ![k] =
        [m \in DOMAIN indices[k] \cup {n} |-> IF m = n THEN index ELSE indices[k][m]]]

Without(k, n) == [indices EXCEPT ![k] = [m \in DOMAIN indices[k] \ {n} |-> indices[k][m]]]

\* An alias goes away with the index it names.
DeleteIndex(k, n) ==
    /\ indices' = Without(k, n)
    /\ alias' = [alias EXCEPT ![k] = IF alias[k] = n THEN NoIndex ELSE alias[k]]

\* alias_count(..).unwrap_or(0) > 0
Populated(k) == alias[k] # NoIndex /\ indices[k][alias[k]].pages # {}

-----------------------------------------------------------------------------
(* The run's program counter.                                              *)

Goto(r, at) == run' = [run EXCEPT ![r].at = at]

\* bootstrap propagates the error and main exits with 1.
Abort(r) == Goto(r, "failed")

IndexerInit ==
    /\ indices = [k \in Kinds |-> [n \in {} |-> Dynamic]]
    /\ alias = [k \in Kinds |-> NoIndex]
    /\ run = [r \in Runs |-> Off]
    /\ body = 1
    /\ published = [k \in Kinds |-> 0]
    /\ launches = 0

\* An operator, or Compose, starts a run with the deployed image.
Launch(r, force) ==
    /\ ~StillRuns(r)
    /\ launches < MaxLaunches
    /\ run' = [run EXCEPT ![r] =
          [at |-> "count", force |-> force, body |-> body, kind |-> "poems", ready |-> {},
           existing |-> {}, target |-> NoIndex, page |-> 1, littered |-> FALSE, rebuilt |-> FALSE]]
    /\ launches' = launches + 1
    /\ UNCHANGED <<indices, alias, body, published>>

\* Mutant: one alias that serves is enough.
CountEither(r) ==
    /\ run[r].at = "count"
    /\ LET k == run[r].kind
           ready == run[r].ready \cup {j \in {k} : Populated(j)} IN
       IF k = "poems"
       THEN run' = [run EXCEPT ![r].kind = "poets", ![r].ready = ready]
       ELSE IF ~run[r].force /\ ready # {}
       THEN run' = [run EXCEPT ![r].at = "done", ![r].ready = ready]
       ELSE run' = [run EXCEPT ![r].at = "list", ![r].kind = "poems", ![r].ready = ready]
    /\ UNCHANGED <<indices, alias, body, published, launches>>

\* bootstrap asks for both counts, one after the other, and then decides.
CountAlias(r) ==
    /\ run[r].at = "count"
    /\ LET k == run[r].kind
           ready == run[r].ready \cup {j \in {k} : Populated(j)} IN
       IF k = "poems"
       THEN run' = [run EXCEPT ![r].kind = "poets", ![r].ready = ready]
       ELSE IF ~run[r].force /\ ready = Kinds
       THEN run' = [run EXCEPT ![r].at = "done", ![r].ready = ready]
       ELSE run' = [run EXCEPT ![r].at = "list", ![r].kind = "poems", ![r].ready = ready]
    /\ UNCHANGED <<indices, alias, body, published, launches>>

\* Mutant: the next name is a count.
CountIndex(existing) == Cardinality(existing) + 1

NextIndex(existing) == IF existing = {} THEN 1 ELSE Max(existing) + 1

\* reindex lists the prefix and names its target after the highest suffix.
ListIndices(r) ==
    /\ run[r].at = "list"
    /\ LET existing == DOMAIN indices[run[r].kind] IN
       /\ NextIndex(existing) <= MaxVersion
       /\ run' = [run EXCEPT ![r].at = "probe", ![r].existing = existing,
                             ![r].target = NextIndex(existing), ![r].page = 1]
    /\ UNCHANGED <<indices, alias, body, published, launches>>

\* create_index asks first; an answer that is not a success counts as "no".
ProbeTarget(r) ==
    /\ run[r].at = "probe"
    /\ \/ Exists(run[r].kind, run[r].target) /\ Goto(r, "hold")
       \/ Goto(r, "create")
    /\ UNCHANGED <<indices, alias, body, published, launches>>

\* The index is created, unless the name is taken by now; its answer can be lost.
CreateTarget(r) ==
    /\ run[r].at = "create"
    /\ LET k == run[r].kind
           n == run[r].target IN
       \/ /\ ~Exists(k, n)
          /\ indices' = With(k, n, [body |-> run[r].body, pages |-> {}])
          /\ Goto(r, "hold") \/ Abort(r)
       \/ /\ Exists(k, n)
          /\ Abort(r)
          /\ UNCHANGED indices
    /\ UNCHANGED <<alias, body, published, launches>>

\* populate turns the refresh off; the request fails when the target is gone.
HoldRefresh(r) ==
    /\ run[r].at = "hold"
    /\ Goto(r, IF Exists(run[r].kind, run[r].target) THEN "fill" ELSE "discard")
    /\ UNCHANGED <<indices, alias, body, published, launches>>

\* Mutant: a page that fails is sent again, for ever.
FillPageRetried(r) ==
    /\ run[r].at = "fill"
    /\ \/ run' = [run EXCEPT ![r].page = @ + 1,
                             ![r].at = IF run[r].page = Pages THEN "refresh" ELSE "fill"]
       \/ Goto(r, "hold")
    /\ UNCHANGED <<indices, alias, body, published, launches>>

\* populate sends one page; bulk creates an index that is gone.  The answer can be lost.
FillPage(r) ==
    /\ run[r].at = "fill"
    /\ LET k == run[r].kind
           n == run[r].target
           page == run[r].page
           index == IF Exists(k, n) THEN indices[k][n] ELSE [body |-> Dynamic, pages |-> {}] IN
       /\ indices' = With(k, n, [index EXCEPT !.pages = @ \cup {page}])
       /\ \/ run' = [run EXCEPT ![r].page = page + 1,
                                ![r].at = IF page = Pages THEN "refresh" ELSE "fill"]
          \/ Goto(r, "discard")
    /\ UNCHANGED <<alias, body, published, launches>>

\* populate turns the refresh on and refreshes.
RefreshTarget(r) ==
    /\ run[r].at = "refresh"
    /\ Goto(r, IF Exists(run[r].kind, run[r].target) THEN "swap" ELSE "discard")
    /\ UNCHANGED <<indices, alias, body, published, launches>>

\* A failed populate deletes its target.
DiscardTarget(r) ==
    /\ run[r].at = "discard"
    /\ DeleteIndex(run[r].kind, run[r].target)
    /\ Abort(r)
    /\ UNCHANGED <<body, published, launches>>

\* The alias moves in one request: an error leaves the new index where it is.
SwapAlias(r) ==
    /\ run[r].at = "swap"
    /\ LET k == run[r].kind
           n == run[r].target IN
       \/ /\ Exists(k, n)
          /\ alias' = [alias EXCEPT ![k] = n]
          /\ published' = [published EXCEPT ![k] = run[r].body]
          /\ Goto(r, "cleanup") \/ Abort(r)
       \/ /\ ~Exists(k, n)
          /\ Abort(r)
          /\ UNCHANGED <<alias, published>>
    /\ UNCHANGED <<indices, body, launches>>

\* Mutant: only the index before the target is deleted.
PredecessorOnly(r) == run[r].existing \cap {run[r].target - 1}

\* What the run listed before it named its target is deleted, one index after another.
Leftover(r) == run[r].existing \ {run[r].target}

DeleteLeftover(r) ==
    /\ run[r].at = "cleanup"
    /\ \E n \in Leftover(r) :
          /\ DeleteIndex(run[r].kind, n)
          /\ run' = [run EXCEPT ![r].existing = @ \ {n}]
    /\ UNCHANGED <<body, published, launches>>

\* A failure to delete is ignored.
SkipLeftover(r) ==
    /\ run[r].at = "cleanup"
    /\ \E n \in Leftover(r) :
          run' = [run EXCEPT ![r].existing = @ \ {n}, ![r].littered = TRUE]
    /\ UNCHANGED <<indices, alias, body, published, launches>>

\* reindex returns: poets come after poems, and the run ends after poets.
FinishKind(r) ==
    /\ run[r].at = "cleanup"
    /\ Leftover(r) = {}
    /\ IF run[r].kind = "poems"
       THEN run' = [run EXCEPT ![r].at = "list", ![r].kind = "poets"]
       ELSE run' = [run EXCEPT ![r].at = "done", ![r].rebuilt = TRUE]
    /\ UNCHANGED <<indices, alias, body, published, launches>>

\* Mutant: an error of populate is ignored.
PopulateErrorIgnored(r) ==
    /\ \/ run[r].at \in {"count", "list", "probe", "create", "discard", "swap"} /\ Abort(r)
       \/ run[r].at \in {"hold", "fill", "refresh"} /\ Goto(r, "swap")
    /\ UNCHANGED <<indices, alias, body, published, launches>>

\* A request fails, or the query for the next page does, with no effect.
RequestFails(r) ==
    /\ \/ run[r].at \in {"count", "list", "probe", "create", "discard", "swap"} /\ Abort(r)
       \/ run[r].at \in {"hold", "fill", "refresh"} /\ Goto(r, "discard")
    /\ UNCHANGED <<indices, alias, body, published, launches>>

\* The container is killed.
Kill(r) ==
    /\ StillRuns(r)
    /\ run' = [run EXCEPT ![r] = Off]
    /\ UNCHANGED <<indices, alias, body, published, launches>>

\* A deploy builds an image whose schema.json changed.
DeploySchema ==
    /\ body < MaxBody
    /\ body' = body + 1
    /\ UNCHANGED <<indices, alias, run, published, launches>>

Step(r) ==
    \/ CountAlias(r) \/ ListIndices(r) \/ ProbeTarget(r) \/ CreateTarget(r)
    \/ HoldRefresh(r) \/ FillPage(r) \/ RefreshTarget(r) \/ DiscardTarget(r)
    \/ SwapAlias(r) \/ DeleteLeftover(r) \/ SkipLeftover(r) \/ FinishKind(r)

Next ==
    \/ \E r \in Runs :
          \/ \E force \in BOOLEAN : Launch(r, force)
          \/ Step(r)
          \/ RequestFails(r)
          \/ Kill(r)
    \/ DeploySchema

Spec == IndexerInit /\ [][Next]_indexerVars

\* A run that is alive goes on: its requests and its queries all time out.
FairSpec == Spec /\ \A r \in Runs : WF_indexerVars(Step(r))

-----------------------------------------------------------------------------
(* Properties.                                                             *)

Versions == 1..MaxVersion

Bodies == 0..MaxBody

RunStates ==
    [at : {"count", "list", "probe", "create", "hold", "fill", "refresh", "discard", "swap",
           "cleanup", "done", "failed"},
     force : BOOLEAN, body : Bodies, kind : Kinds, ready : SUBSET Kinds,
     existing : SUBSET Versions, target : Versions \cup {NoIndex}, page : 1..(Pages + 1),
     littered : BOOLEAN, rebuilt : BOOLEAN]

TypeOK ==
    /\ indices \in [Kinds -> {indices[k] : k \in Kinds}]
    /\ \A k \in Kinds :
          /\ DOMAIN indices[k] \subseteq Versions
          /\ indices[k] \in [DOMAIN indices[k] -> [body : Bodies, pages : SUBSET AllPages]]
    /\ alias \in [Kinds -> Versions \cup {NoIndex}]
    /\ run \in [Runs -> RunStates \cup {Off}]
    /\ body \in Bodies
    /\ published \in [Kinds -> Bodies]
    /\ launches \in 0..MaxLaunches

\* The API never notices a rebuild: from the first time an alias is moved it names an
\* index that holds the whole corpus under the mapping of the run that moved it, whatever
\* requests fail and wherever runs are killed (README.md, apps/search-indexer; docs/search.md,
\* "Pipeline"; docs/exceptions.md, "A failed populate cleans up after itself").
ServesTheCorpus ==
    \A k \in Kinds :
        published[k] # 0 =>
            /\ alias[k] # NoIndex
            /\ indices[k][alias[k]] = [body |-> published[k], pages |-> AllPages]

\* The API is started once the init job has completed (docker-compose.yml,
\* service_completed_successfully): a run that ends without an error, with or without a
\* rebuild, leaves both aliases serving, even after runs that died half way.
DoneMeansServing ==
    \A r \in Runs : run[r].at = "done" => \A k \in Kinds : Populated(k)

\* There is nothing to roll back by hand (docs/exceptions.md, "A failed populate cleans up
\* after itself"): a rebuild whose deletions all succeed leaves one index per alias, so it
\* also sweeps what earlier runs left behind when they were killed or their swap failed.
RebuildSweepsLeftovers ==
    \A r \in Runs :
        run[r].at = "done" /\ run[r].rebuilt /\ ~run[r].littered =>
            \A k \in Kinds : DOMAIN indices[k] = {alias[k]}

\* A run never writes to an index that serves, nor deletes it to clean up after itself.
NeverFillsTheLiveIndex ==
    \A r \in Runs :
        run[r].at \in {"create", "hold", "fill", "refresh", "discard"} =>
            alias[run[r].kind] # run[r].target

\* Both: an alias serves what its last run published, and no run touches what it serves.
AliasIsTrustworthy == ServesTheCorpus /\ NeverFillsTheLiveIndex

\* What README.md says of any rebuild: the alias, once up, never goes away.
SearchStaysUp == \A k \in Kinds : published[k] # 0 => alias[k] # NoIndex

\* What must come to its end: no failure makes a run wait for ever.
RunUnderWay == \E r \in Runs : StillRuns(r)

-----------------------------------------------------------------------------
\* What the API sees behind an alias: nothing, or a version with its mapping and pages.
Serving ==
    [k \in Kinds |->
        IF alias[k] = NoIndex THEN [version |-> 0]
        ELSE [version |-> alias[k], body |-> indices[k][alias[k]].body,
              pages |-> indices[k][alias[k]].pages]]

Published == INSTANCE PublishedIndex WITH serving <- Serving

\* The job implements PublishedIndex.
PublishesWholeIndices == Published!Spec

=============================================================================
