---------------------------- MODULE MCBackground ----------------------------
(***************************************************************************)
(* What works out of the reader's sight, for TLC: the usage recorder, the  *)
(* search indexer, and the repository's scripts.  They share no state:     *)
(* `exercised`, chosen by Init and never changed, says which one runs, so  *)
(* that one run covers them all without multiplying their state spaces.    *)
(***************************************************************************)
EXTENDS DevRun, SearchIndexer, Rollout, UsageRecorder, CiRun, SmokeRun, QuotaProbe,
        EsSnapshots, CorpusVerdicts, SiteCrawl, TLC

CONSTANTS
    Exercised,                                      \* what the run exercises
    p1, p2,                                         \* the processes
    r1,                                             \* the run of the indexer
    lint, format, types, audit, knip, stack,        \* the tasks of the gate
    home, search, hourly, keyed, etag               \* the probes of the smoke run

VARIABLE exercised

-----------------------------------------------------------------------------
(* Values of their constants.                                               *)

CiPhases ==
    << [name |-> "static", kind |-> "sequential", tasks |-> <<lint, format>>, advisory |-> {}],
       [name |-> "checks", kind |-> "parallel", tasks |-> <<types, audit, knip>>, advisory |-> {audit}],
       [name |-> "stack", kind |-> "docker", tasks |-> <<stack>>, advisory |-> {}] >>

\* Two suites and the conditional check after them; --suite is not given, names one of
\* the suites, or misspells it.
SmokeGroups == << [name |-> "routes", serial |-> FALSE, probes |-> <<home, search>>],
                  [name |-> "limits", serial |-> TRUE, probes |-> <<hourly, keyed>>],
                  [name |-> "checks", serial |-> FALSE, probes |-> <<etag>>] >>
SuiteFilters == {"every", "routes", "limits", "misspelt"}
SurfacesOf ==
    home :> {"origin", "stack"} @@ search :> {"origin", "prod"} @@ hourly :> {"origin", "prod"}
    @@ keyed :> {"origin"} @@ etag :> {"origin", "stack", "prod"}
Expected ==
    home :> "ok" @@ search :> "client-error" @@ hourly :> "healthy" @@ keyed :> "any"
    @@ etag :> "not-found"
Conditional == {etag}

\* What an alias serves one after the other: a document is gone, replaced, and restored
\* under other settings.
Generation(settings, docs) == [settings |-> settings, mappings |-> settings, docs |-> docs]
PoemsThenPoets == <<"poems", "poets">>
Restored == << Generation(1, 1 :> "x" @@ 2 :> "x" @@ 4 :> "x"),
               Generation(1, 1 :> "x" @@ 3 :> "x" @@ 4 :> "x"),
               Generation(2, 1 :> "x" @@ 3 :> "y" @@ 4 :> "x") >>

\* Hemistichs: one that ends like all, one that rhymes with an added vowel, one that does
\* neither, and one of another length.
Hemistich(tail, length) == [tail |-> tail, length |-> length]
Sadr == Hemistich(<<"ba", "meem">>, 10)
Ajuz == << Hemistich(<<"ra", "dal", "ba">>, 10), Hemistich(<<"yeh", "ra", "dal">>, 10),
           Hemistich(<<"lam", "ra", "dal">>, 10), Hemistich(<<"ra", "dal", "ba">>, 30) >>
CorpusBodies ==
    {[i \in 1..n |-> <<Sadr, Ajuz[IF i = n THEN last ELSE 1]>>] : n \in {1, 2, 5}, last \in 1..4}
    \cup {[i \in 1..(2 * n) |-> <<IF i % 2 = 1 THEN Sadr ELSE Ajuz[1]>>] : n \in {1, 2, 5}}
    \cup {<< <<Sadr, Ajuz[1]>>, <<Sadr, Ajuz[1]>>, <<Sadr>> >>, << <<Sadr, Sadr, Ajuz[1]>> >>}

ApiThenWeb == <<"api", "web">>

\* Two dynamic shapes, with the files beside the poems' as they are in the repository.
Path(directory, name) == << <<directory>>, name >>
PageFile(segments) == [segments |-> segments, astro |-> TRUE]
PageFilesOfTwoShapes == <<
    PageFile(<< <<"500">> >>), PageFile(<< <<"index">> >>),
    PageFile(Path("poems", <<"[slug]">>)),
    [segments |-> Path("poems", <<"random", ".test">>), astro |-> FALSE],
    [segments |-> Path("poems", <<"random">>), astro |-> FALSE],
    PageFile(Path("poets", <<"[slug]">>)), PageFile(Path("poets", <<"index">>)) >>
GuRy == Path("poets", <<"GuRy">>)
Randomness == Path("poems", <<"random", "ness">>)
LinksOfAPage == {
    <<>>,
    <<GuRy, Path("poets", <<"other">>), Path("poets", <<"ghayrmaruf">>)>>,
    <<Path("poems", <<"random">>), Randomness, Path("poets", <<"other">>)>>,
    << << <<"poets">> >>, Path("poems", <<"other">>), Randomness>> }
GuRyFirst == [shape \in {Path("poets", <<"[slug]">>)} |-> GuRy]
Placeholders == {Path("poets", <<"ghayrmaruf">>)}

-----------------------------------------------------------------------------
(* One of them runs.                                                       *)

vars == <<exercised, devVars, usageVars, indexerVars, ciVars, smokeVars, snapshotVars,
          quotaVars, corpusVars, rolloutVars, siteCrawlVars>>

Others ==
    /\ exercised' = exercised
    /\ IF exercised = "dev" THEN TRUE ELSE UNCHANGED devVars
    /\ IF exercised = "usage" THEN TRUE ELSE UNCHANGED usageVars
    /\ IF exercised = "indexer" THEN TRUE ELSE UNCHANGED indexerVars
    /\ IF exercised = "ci" THEN TRUE ELSE UNCHANGED ciVars
    /\ IF exercised = "smoke" THEN TRUE ELSE UNCHANGED smokeVars
    /\ IF exercised = "snapshots" THEN TRUE ELSE UNCHANGED snapshotVars
    /\ IF exercised = "quota" THEN TRUE ELSE UNCHANGED quotaVars
    /\ IF exercised = "corpus" THEN TRUE ELSE UNCHANGED corpusVars
    /\ IF exercised = "deploys" THEN TRUE ELSE UNCHANGED rolloutVars
    /\ IF exercised = "inspect" THEN TRUE ELSE UNCHANGED siteCrawlVars

\* What does not run has one initial state.
MCInit ==
    /\ exercised \in Exercised
    /\ Init /\ (exercised # "dev" => ~dev.verbose /\ ~dev.inspector)
    /\ CiInit
    /\ exercised # "ci" =>
          ci.limit = 0 /\ ci.sel = [phase |-> NoPhase, noDocker |-> FALSE, dockerOnly |-> FALSE]
    /\ SmokeInit /\ (exercised # "smoke" => smoke.surface = "origin" /\ smoke.suite = "every")
    /\ QuotaInit
    /\ exercised # "quota" =>
          now = 0 /\ limiter.used = 0 /\ quota.caller = "anonymous" /\ ~quota.drain
    /\ CorpusInit
    /\ exercised # "corpus" =>
          poem = [body |-> << <<Sadr, Sadr, Ajuz[1]>> >>, label |-> "amudi"]
    /\ UsageInit /\ IndexerInit /\ SnapshotsInit /\ RolloutInit /\ CrawlInit

MCNext ==
    /\ \/ exercised = "dev" /\ DevNext
       \/ exercised = "usage" /\ UsageNext
       \/ exercised = "indexer" /\ Next
       \/ exercised = "ci" /\ CiNext
       \/ exercised = "smoke" /\ SmokeNext
       \/ exercised = "snapshots" /\ SnapshotsNext
       \/ exercised = "quota" /\ QuotaNext
       \/ exercised = "corpus" /\ CorpusNext
       \/ exercised = "deploys" /\ RolloutNext
       \/ exercised = "inspect" /\ SiteCrawlNext
    /\ Others

(* What a process does by itself it does in the end: the supervisor's own   *)
(* steps, and apart from them the timer of its shutdown; a task of the      *)
(* gate, which ends; the teardown of the smoke run; a request or a query of *)
(* the indexer; the flusher of each process.  Services and signals owe      *)
(* nothing.  One of them runs, so that fairness of the union is fairness of *)
(* the one.                                                                 *)
OwnSteps ==
    /\ \/ exercised = "dev" /\ Supervise
       \/ exercised = "ci" /\ CiNext
       \/ exercised = "smoke" /\ TearsDown
       \/ exercised = "indexer" /\ Step(r1)
       \/ exercised = "usage" /\ Flusher(p1)
    /\ Others
OtherSteps ==
    /\ \/ exercised = "dev" /\ Leave(TRUE)
       \/ exercised = "usage" /\ Flusher(p2)
    /\ Others

MCSpec == MCInit /\ [][MCNext]_vars /\ WF_vars(OwnSteps) /\ WF_vars(OtherSteps)

-----------------------------------------------------------------------------
(* Nothing that was begun waits for ever: a run of the indexer, the end of  *)
(* a development session, the pool of the gate, the teardown of a smoke run.*)
UnderWay == RunUnderWay \/ Ending \/ PoolAtWork \/ TearingDown
WorkEnds == UnderWay ~> ~UnderWay
=============================================================================
