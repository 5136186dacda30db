---------------------------- MODULE EsSnapshots ----------------------------
(***************************************************************************)
(* scripts/es/snapshot.ts and scripts/es/diff.ts: a digest of everything   *)
(* the two aliases serve is written to a file, page by page, while the     *)
(* indexer may move an alias to a new index between any two requests; and  *)
(* two such files are compared.                                            *)
(*                                                                         *)
(* A document is its id and the hash of its source; the settings and the   *)
(* mappings of an index are one value each.  Ids are what the pages are    *)
(* sorted by.                                                              *)
(***************************************************************************)
EXTENDS Ranked, SequencesExt, Functions

CONSTANTS
    Aliases,      \* sequence: the aliases, in the order they are digested
    Generations,  \* sequence of [settings, mappings, docs (id -> hash)]: the
                  \* indices an alias is moved along
    PageSize,     \* PAGE_SIZE
    MaxSnapshots  \* bound on the digests that are taken

ASSUME SnapshotConstants ==
    /\ Aliases \in Seq(STRING) /\ Aliases # <<>> /\ PageSize \in Nat \ {0} /\ MaxSnapshots \in Nat
    /\ Len(Generations) \in Nat \ {0}
    /\ \A g \in 1..Len(Generations) :
          LET index == Generations[g] IN
          /\ index = [settings |-> index.settings, mappings |-> index.mappings, docs |-> index.docs]
          /\ index.docs = [id \in DOMAIN index.docs |-> index.docs[id]]
          /\ IsFiniteSet(DOMAIN index.docs) /\ DOMAIN index.docs \subseteq Nat \ {0}

VARIABLES serving,  \* alias -> the generation it points at
          taker,    \* the snapshot under way
          file,     \* what the two files hold
          verdict,  \* the last comparison: what it said, and of which files
          taken     \* digests begun so far

snapshotVars == <<serving, taker, file, verdict, taken>>

Files == {"baseline", "candidate"}
Served == ToSet(Aliases)
Empty == <<>>
NewDigest == [settings |-> 0, mappings |-> 0, docs |-> Empty]
Resting == [into |-> "nothing", at |-> 1, step |-> "settings", concrete |-> 0,
            digest |-> NewDigest, done |-> Empty, undisturbed |-> TRUE]

SnapshotsInit ==
    /\ serving = [a \in Served |-> 1]
    /\ taker = Resting
    /\ file = [f \in Files |-> Empty]
    /\ verdict = [says |-> "nothing", of |-> file]
    /\ taken = 0

Index == Generations[serving[Aliases[taker.at]]]

(* The next page: the ids after the last one, in their order, at most a     *)
(* page of them.  (Mutant: ShortPageEnds takes a page that is not full for  *)
(* the end.)                                                                *)
PageOf(docs, ids) ==
    LET n == IF Cardinality(ids) < PageSize THEN Cardinality(ids) ELSE PageSize
    IN  [i \in 1..n |-> [id |-> Nth(ids, i), hash |-> docs[Nth(ids, i)]]]
ShortPageEnds(docs, after) ==
    LET page == PageOf(docs, {id \in DOMAIN docs : id > after})
    IN  IF Len(page) < PageSize THEN Empty ELSE page
Page(docs, after) == PageOf(docs, {id \in DOMAIN docs : id > after})

After == IF taker.digest.docs = Empty THEN 0 ELSE Last(taker.digest.docs).id

(* The command starts, and digests the first alias. *)
Snapshot(into) ==
    /\ taker.into = "nothing" /\ taken < MaxSnapshots
    /\ taken' = taken + 1
    /\ taker' = [Resting EXCEPT !.into = into]
    /\ UNCHANGED <<serving, file, verdict>>

(* The answer names the index behind the alias.                            *)
ReadSettings ==
    /\ taker.into # "nothing" /\ taker.step = "settings"
    /\ taker' = [taker EXCEPT !.step = "mappings", !.concrete = serving[Aliases[taker.at]],
                              !.digest.settings = Index.settings]
    /\ UNCHANGED <<serving, file, verdict, taken>>

(* The mappings are looked up under that name: once the alias has moved,    *)
(* the answer holds the new index's, and none are found (0).                *)
ReadMappings ==
    /\ taker.step = "mappings"
    /\ taker' = [taker EXCEPT !.step = "pages",
                     !.digest.mappings = IF serving[Aliases[taker.at]] = taker.concrete
                                         THEN Index.mappings ELSE 0]
    /\ UNCHANGED <<serving, file, verdict, taken>>

(* One search.  A page without hits ends the alias; the file is written     *)
(* after the last one.                                                      *)
ReadPage ==
    /\ taker.step = "pages"
    /\ LET page == Page(Index.docs, After)
           done == Append(taker.done, taker.digest)
       IN  IF page # Empty
           THEN /\ taker' = [taker EXCEPT !.digest.docs = @ \o page]
                /\ UNCHANGED file
           ELSE IF taker.at < Len(Aliases)
           THEN /\ taker' = [taker EXCEPT !.at = @ + 1, !.step = "settings",
                                         !.digest = NewDigest, !.done = done]
                /\ UNCHANGED file
           ELSE /\ file' = [file EXCEPT ![taker.into] =
                               [aliases |-> done, undisturbed |-> taker.undisturbed,
                                served |-> [a \in Served |-> Generations[serving[a]]]]]
                /\ taker' = Resting
    /\ UNCHANGED <<serving, verdict, taken>>

(* A request fails for good: the command ends and writes nothing, and what  *)
(* an earlier one wrote stays.                                              *)
Fail ==
    /\ taker.into # "nothing"
    /\ taker' = Resting
    /\ UNCHANGED <<serving, file, verdict, taken>>

(* The indexer moves an alias.  (`undisturbed` only remembers that it did.) *)
Move(a) ==
    /\ serving[a] < Len(Generations)
    /\ serving' = [serving EXCEPT ![a] = @ + 1]
    /\ taker' = IF taker.into = "nothing" THEN taker ELSE [taker EXCEPT !.undisturbed = FALSE]
    /\ UNCHANGED <<file, verdict, taken>>

(***************************************************************************)
(* The comparison                                                          *)
(***************************************************************************)

Hashes(digest) == {<<doc.id, doc.hash>> : doc \in ToSet(digest.docs)}
DocIds(digest) == {doc.id : doc \in ToSet(digest.docs)}
Missing(left, right) == DocIds(left) \ DocIds(right)
Added(left, right) == DocIds(right) \ DocIds(left)
Changed(left, right) ==
    {id \in DocIds(left) \cap DocIds(right) :
        {h \in Hashes(left) : h[1] = id} # {h \in Hashes(right) : h[1] = id}}

(* Anything that makes a line of the report.                                *)
Differs(left, right) ==
    \/ left.settings # right.settings \/ left.mappings # right.mappings
    \/ Len(left.docs) # Len(right.docs)
    \/ Missing(left, right) # {} \/ Added(left, right) # {} \/ Changed(left, right) # {}

Diff ==
    /\ \A f \in Files : file[f] # Empty
    /\ verdict' = [of |-> file,
                   says |-> IF \E i \in 1..Len(Aliases) :
                                  Differs(file["baseline"].aliases[i], file["candidate"].aliases[i])
                            THEN "differ" ELSE "identical"]
    /\ UNCHANGED <<serving, taker, file, taken>>

SnapshotsNext ==
    \/ \E f \in Files : Snapshot(f)
    \/ ReadSettings \/ ReadMappings \/ ReadPage \/ Fail \/ Diff
    \/ \E a \in Served : Move(a)

SnapshotsSpec == SnapshotsInit /\ [][SnapshotsNext]_snapshotVars

(***************************************************************************)
(* What a digest is worth                                                  *)
(***************************************************************************)

(* Paging by the last id never lists a document twice, not even when the    *)
(* alias moves to another index between two pages.                          *)
EachDocumentOnce ==
    \A digest \in {taker.digest} \cup
                  UNION {IF file[f] = Empty THEN {} ELSE ToSet(file[f].aliases) : f \in Files} :
        \A i, j \in 1..Len(digest.docs) : i < j => digest.docs[i].id < digest.docs[j].id

(* A digest during which no alias moved holds, for each alias, everything   *)
(* the index behind it held: no last page is lost.                          *)
UndisturbedIsWhole ==
    \A f \in Files : file[f] # Empty /\ file[f].undisturbed =>
        \A i \in 1..Len(Aliases) :
            LET index == file[f].served[Aliases[i]]
                digest == file[f].aliases[i]
            IN  /\ digest.settings = index.settings /\ digest.mappings = index.mappings
                /\ Hashes(digest) = {<<id, index.docs[id]>> : id \in DOMAIN index.docs}

(* Two undisturbed digests compare as identical exactly when the indices    *)
(* they were taken of held the same: nothing that is missing, added or      *)
(* changed cancels out in the counts.                                       *)
DiffIsExact ==
    verdict.says # "nothing" /\ (\A f \in Files : verdict.of[f].undisturbed) =>
        (verdict.says = "identical"
            <=> verdict.of["baseline"].served = verdict.of["candidate"].served)

(* All three: a digest counts each document once, the digest of an index   *)
(* left alone is all of it, and the comparison says what has changed.      *)
DigestsAreFaithful == EachDocumentOnce /\ UndisturbedIsWhole /\ DiffIsExact
=============================================================================
