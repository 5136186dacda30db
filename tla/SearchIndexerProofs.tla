------------------------- MODULE SearchIndexerProofs -------------------------
(***************************************************************************)
(* What the API sees of the indexer, for any corpus and any number of      *)
(* deploys and of runs that fail, are killed or lose answers, one at a     *)
(* time: an alias serves a whole index, a run that ends well leaves both   *)
(* aliases up, and the job implements PublishedIndex.  The invariant says, *)
(* for each place of a run, what its target holds and what it may delete.  *)
(***************************************************************************)
EXTENDS SearchIndexer, TLAPS, WellFoundedInduction

\* One run at a time (the overlap run shows what two can do), a corpus that is not empty.
OneRunAtATime == \A r, s \in Runs : r = s

IndexerBounds ==
    MaxVersion \in Nat /\ MaxBody \in Nat \ {0} /\ MaxLaunches \in Nat /\ Pages \in Nat \ {0}

Index == [body : Bodies, pages : SUBSET AllPages]

IndicesTyped(ind) ==
    /\ ind \in [Kinds -> {ind[k] : k \in Kinds}]
    /\ \A k \in Kinds : DOMAIN ind[k] \subseteq Versions /\ ind[k] \in [DOMAIN ind[k] -> Index]

\* The places of a run after it has named its target and before it moves the alias.
Filling == {"probe", "create", "hold", "fill", "refresh", "discard", "swap"}

Rebuilding == Filling \cup {"list", "cleanup"}

\* An alias is up once something is published, and serves what was published, whole.
IndexOk(ind, al, pub, bd) ==
    \A k \in Kinds :
        /\ al[k] = NoIndex <=> pub[k] = 0
        /\ pub[k] <= bd
        /\ al[k] # NoIndex =>
              al[k] \in DOMAIN ind[k] /\ ind[k][al[k]] = [body |-> pub[k], pages |-> AllPages]

\* A run carries the newest mapping there was when it began.
BodyOk(x, pub, bd) ==
    x.at \in Rebuilding \cup {"count"} =>
        1 <= x.body /\ x.body <= bd /\ \A k \in Kinds : pub[k] <= x.body

CountOk(x, al) ==
    x.at = "count" =>
        /\ ~x.rebuilt
        /\ x.ready \subseteq (IF x.kind = "poems" THEN {} ELSE {"poems"})
        /\ \A k \in x.ready : al[k] # NoIndex

\* The target is new, and what the run has listed is all there is beside it.
TargetOk(x, ind, al) ==
    x.at \in Filling =>
        /\ x.target \in Versions
        /\ \A m \in x.existing : m < x.target
        /\ DOMAIN ind[x.kind] \ {x.target} = x.existing
        /\ al[x.kind] # x.target

Filled(x) ==
    IF x.at = "hold" THEN {} ELSE IF x.at = "fill" THEN 1..(x.page - 1) ELSE AllPages

\* What the target holds, from the mapping of the run to the last page.
ContentOk(x, ind) ==
    /\ x.at \in {"probe", "create"} => x.target \notin DOMAIN ind[x.kind]
    /\ x.at \in {"probe", "create", "hold"} => x.page = 1
    /\ x.at = "fill" => x.page \in AllPages
    /\ x.at \in {"hold", "fill", "refresh", "swap"} =>
          /\ x.target \in DOMAIN ind[x.kind]
          /\ ind[x.kind][x.target] = [body |-> x.body, pages |-> Filled(x)]

\* After the swap only what the run has listed is left to delete.
CleanupOk(x, ind, al) ==
    x.at = "cleanup" =>
        /\ x.target \in Versions /\ al[x.kind] = x.target
        /\ ~x.littered => DOMAIN ind[x.kind] \subseteq x.existing \cup {x.target}

Swept(k, ind, al) == DOMAIN ind[k] = {al[k]}

\* Poems are done when poets begin, and both when the run ends.
ProgressOk(x, ind, al) ==
    /\ x.at \in Rebuilding /\ x.kind = "poets" =>
          al["poems"] # NoIndex /\ (~x.littered => Swept("poems", ind, al))
    /\ x.at = "done" =>
          /\ \A k \in Kinds : al[k] # NoIndex
          /\ x.rebuilt /\ ~x.littered => \A k \in Kinds : Swept(k, ind, al)

RunOk(x, ind, al, pub, bd) ==
    /\ BodyOk(x, pub, bd) /\ CountOk(x, al) /\ TargetOk(x, ind, al)
    /\ ContentOk(x, ind) /\ CleanupOk(x, ind, al) /\ ProgressOk(x, ind, al)

VarsTyped ==
    /\ IndicesTyped(indices)
    /\ alias \in [Kinds -> Versions \cup {NoIndex}]
    /\ run \in [Runs -> RunStates \cup {Off}]
    /\ body \in Bodies \ {0}
    /\ published \in [Kinds -> Bodies]
    /\ launches \in 0..MaxLaunches

IndexerInv ==
    /\ VarsTyped
    /\ IndexOk(indices, alias, published, body)
    /\ \A r \in Runs : RunOk(run[r], indices, alias, published, body)

-----------------------------------------------------------------------------
(* Lemmas about the operators.                                             *)

\* A set of versions that is not empty has a highest one.
LEMMA HighestExists ==
    ASSUME MaxVersion \in Nat, NEW S \in SUBSET Versions, S # {}
    PROVE  \E x \in S : \A y \in S : x >= y
  <1> DEFINE T == {u \in Nat : \A y \in S : y <= u}
  <1>1. T # {} /\ T \subseteq Nat
    <2>1. MaxVersion \in T
      BY DEF Versions
    <2> QED
      BY <2>1
  <1>2. PICK u \in T : \A y \in T : ~(<<y, u>> \in OpToRel(<, Nat))
    BY <1>1, NatLessThanWellFounded, WFMin, Zenon
  <1>3. u \in Nat /\ \A y \in S : y <= u
    OBVIOUS
  <1>4. ASSUME u \notin S PROVE FALSE
    <2>1. PICK z \in S : TRUE
      OBVIOUS
    <2>2. \A y \in S : y \in Nat /\ y >= 1
      BY DEF Versions
    <2>3. u - 1 \in Nat /\ \A y \in S : y <= u - 1
      BY <1>3, <1>4, <2>1, <2>2
    <2>4. u - 1 \in T
      BY <2>3
    <2>5. <<u - 1, u>> \in OpToRel(<, Nat)
      BY <1>3, <2>3 DEF OpToRel
    <2> QED
      BY <1>2, <2>4, <2>5
  <1>5. \A y \in S : u >= y
    BY <1>3 DEF Versions
  <1> QED
    BY <1>4, <1>5

\* The name of a new index comes after every index there is.
LEMMA NextIndexIsFresh ==
    ASSUME MaxVersion \in Nat, NEW S \in SUBSET Versions
    PROVE  NextIndex(S) \in Nat \ {0} /\ \A m \in S : m < NextIndex(S)
  <1>1. CASE S = {}
    BY <1>1 DEF NextIndex
  <1>2. CASE S # {}
    <2> DEFINE highest == Max(S)
    <2>1. highest \in S /\ \A y \in S : highest >= y
      BY <1>2, HighestExists, Zenon DEF Max
    <2>2. NextIndex(S) = highest + 1
      BY <1>2 DEF NextIndex
    <2>3. S \subseteq Nat
      BY DEF Versions
    <2> HIDE DEF highest
    <2> QED
      BY <2>1, <2>2, <2>3
  <1> QED
    BY <1>1, <1>2

\* What With and Without leave of the indices.
LEMMA WithGives ==
    ASSUME IndicesTyped(indices), NEW k \in Kinds, NEW n \in Versions, NEW index \in Index,
           NEW ind, ind = With(k, n, index)
    PROVE  /\ IndicesTyped(ind)
           /\ DOMAIN ind[k] = DOMAIN indices[k] \cup {n} /\ ind[k][n] = index
           /\ \A m \in DOMAIN indices[k] : m # n => ind[k][m] = indices[k][m]
           /\ \A j \in Kinds : j # k => ind[j] = indices[j]
  <1> DEFINE new == [m \in DOMAIN indices[k] \cup {n} |-> IF m = n THEN index ELSE indices[k][m]]
  <1>1. ind = [indices EXCEPT ![k] = new]
    BY DEF With
  <1>2. DOMAIN new = DOMAIN indices[k] \cup {n} /\ new[n] = index
    OBVIOUS
  <1>3. \A m \in DOMAIN indices[k] : m # n => new[m] = indices[k][m]
    OBVIOUS
  <1>4. new \in [DOMAIN new -> Index] /\ DOMAIN new \subseteq Versions
    BY DEF IndicesTyped
  <1> HIDE DEF new
  <1>5. DOMAIN indices = Kinds
    BY DEF IndicesTyped
  <1>6. DOMAIN ind = Kinds /\ ind[k] = new /\ \A j \in Kinds : j # k => ind[j] = indices[j]
    BY <1>1, <1>5
  <1>7. ind = [j \in Kinds |-> ind[j]]
    BY <1>1, <1>5, <1>6
  <1>8. ind \in [Kinds -> {ind[j] : j \in Kinds}]
    BY <1>7
  <1>9. \A j \in Kinds : DOMAIN ind[j] \subseteq Versions /\ ind[j] \in [DOMAIN ind[j] -> Index]
    BY <1>4, <1>6 DEF IndicesTyped
  <1>10. IndicesTyped(ind)
    BY <1>8, <1>9 DEF IndicesTyped
  <1> QED
    BY <1>2, <1>3, <1>6, <1>10

LEMMA WithoutGives ==
    ASSUME IndicesTyped(indices), NEW k \in Kinds, NEW n,
           NEW ind, ind = Without(k, n)
    PROVE  /\ IndicesTyped(ind)
           /\ DOMAIN ind[k] = DOMAIN indices[k] \ {n}
           /\ \A m \in DOMAIN indices[k] : m # n => ind[k][m] = indices[k][m]
           /\ \A j \in Kinds : j # k => ind[j] = indices[j]
  <1> DEFINE new == [m \in DOMAIN indices[k] \ {n} |-> indices[k][m]]
  <1>1. ind = [indices EXCEPT ![k] = new]
    BY DEF Without
  <1>2. DOMAIN new = DOMAIN indices[k] \ {n}
    OBVIOUS
  <1>3. \A m \in DOMAIN indices[k] : m # n => new[m] = indices[k][m]
    OBVIOUS
  <1>4. new \in [DOMAIN new -> Index] /\ DOMAIN new \subseteq Versions
    BY DEF IndicesTyped
  <1> HIDE DEF new
  <1>5. DOMAIN indices = Kinds
    BY DEF IndicesTyped
  <1>6. DOMAIN ind = Kinds /\ ind[k] = new /\ \A j \in Kinds : j # k => ind[j] = indices[j]
    BY <1>1, <1>5
  <1>7. ind = [j \in Kinds |-> ind[j]]
    BY <1>1, <1>5, <1>6
  <1>8. ind \in [Kinds -> {ind[j] : j \in Kinds}]
    BY <1>7
  <1>9. \A j \in Kinds : DOMAIN ind[j] \subseteq Versions /\ ind[j] \in [DOMAIN ind[j] -> Index]
    BY <1>4, <1>6 DEF IndicesTyped
  <1>10. IndicesTyped(ind)
    BY <1>8, <1>9 DEF IndicesTyped
  <1> QED
    BY <1>2, <1>3, <1>6, <1>10

Places ==
    {"count", "list", "probe", "create", "hold", "fill", "refresh", "discard", "swap",
     "cleanup", "done", "failed"}

\* A run that is the same but for its place, its page and what it has listed.
Resembles(x, y) ==
    /\ x \in RunStates
    /\ x.body = y.body /\ x.kind = y.kind /\ x.target = y.target
    /\ x.littered = y.littered /\ x.rebuilt = y.rebuilt /\ x.ready = y.ready

LEMMA GotoGives ==
    ASSUME VarsTyped, NEW r \in Runs, run[r] \in RunStates, NEW at \in Places, Goto(r, at)
    PROVE  \E x \in RunStates :
              /\ run' = [run EXCEPT ![r] = x] /\ Resembles(x, run[r])
              /\ x.at = at /\ x.page = run[r].page /\ x.existing = run[r].existing
  <1> DEFINE x == [run[r] EXCEPT !.at = at]
  <1>1. x \in RunStates /\ x.at = at
    BY DEF RunStates, Places
  <1>2. /\ Resembles(x, run[r])
        /\ x.page = run[r].page /\ x.existing = run[r].existing
    BY <1>1 DEF Resembles, RunStates
  <1>3. run' = [run EXCEPT ![r] = x]
    BY DEF Goto, VarsTyped
  <1> QED
    BY <1>1, <1>2, <1>3

\* A run at a place has all of its fields.
LEMMA AtPlace ==
    ASSUME VarsTyped, NEW r \in Runs, run[r].at # "off"
    PROVE  run[r] \in RunStates
  BY DEF VarsTyped, Off

\* The invariant after a step of the one run there is.
LEMMA RunSteps ==
    ASSUME OneRunAtATime, VarsTyped, NEW r \in Runs, NEW x \in RunStates \cup {Off},
           run' = [run EXCEPT ![r] = x], body' = body, launches' \in 0..MaxLaunches,
           NEW ind, NEW al, NEW pub, indices' = ind, alias' = al, published' = pub,
           IndicesTyped(ind), al \in [Kinds -> Versions \cup {NoIndex}],
           pub \in [Kinds -> Bodies],
           IndexOk(ind, al, pub, body), RunOk(x, ind, al, pub, body)
    PROVE  IndexerInv'
  <1>1. run' \in [Runs -> RunStates \cup {Off}] /\ \A s \in Runs : run'[s] = x
    BY DEF VarsTyped, OneRunAtATime
  <1>2. VarsTyped'
    BY <1>1 DEF VarsTyped
  <1> QED
    BY <1>1, <1>2 DEF IndexerInv

\* A step that only moves the run.
LEMMA QuietSteps ==
    ASSUME OneRunAtATime, IndexerInv, NEW r \in Runs, NEW x \in RunStates \cup {Off},
           run' = [run EXCEPT ![r] = x],
           UNCHANGED <<indices, alias, body, published>>, launches' \in 0..MaxLaunches,
           RunOk(x, indices, alias, published, body)
    PROVE  IndexerInv'
  <1>1. VarsTyped /\ IndexOk(indices, alias, published, body)
    BY DEF IndexerInv
  <1>2. /\ IndicesTyped(indices) /\ alias \in [Kinds -> Versions \cup {NoIndex}]
        /\ published \in [Kinds -> Bodies]
    BY <1>1 DEF VarsTyped
  <1> QED
    BY <1>1, <1>2, RunSteps

-----------------------------------------------------------------------------
(* Steps that only move the run.                                           *)

LEMMA LaunchKeeps ==
    ASSUME OneRunAtATime, IndexerBounds, IndexerInv, NEW r \in Runs, NEW force \in BOOLEAN,
           Launch(r, force)
    PROVE  IndexerInv'
  <1> DEFINE x == [at |-> "count", force |-> force, body |-> body, kind |-> "poems", ready |-> {},
           existing |-> {}, target |-> NoIndex, page |-> 1, littered |-> FALSE, rebuilt |-> FALSE]
  <1>1. x \in RunStates
    BY DEF IndexerBounds, IndexerInv, VarsTyped, RunStates, Kinds, NoIndex
  <1>2. /\ run' = [run EXCEPT ![r] = x] /\ UNCHANGED <<indices, alias, body, published>>
        /\ launches' \in 0..MaxLaunches
    BY DEF Launch, IndexerInv, VarsTyped, IndexerBounds
  <1>3. x.at = "count" /\ ~x.rebuilt /\ x.ready = {} /\ x.body = body
    OBVIOUS
  <1> HIDE DEF x
  <1>4. BodyOk(x, published, body)
    <2>1. body \in Bodies \ {0} /\ IndexOk(indices, alias, published, body)
      BY DEF IndexerInv, VarsTyped
    <2>2. body \in Nat \ {0}
      BY <2>1 DEF Bodies, IndexerBounds
    <2>3. \A k \in Kinds : published[k] <= body
      BY <2>1 DEF IndexOk
    <2> QED
      BY <1>3, <2>2, <2>3 DEF BodyOk
  <1>5. RunOk(x, indices, alias, published, body)
    BY <1>3, <1>4 DEF RunOk, CountOk, TargetOk, ContentOk, CleanupOk, ProgressOk, Filling, Rebuilding
  <1> QED
    BY <1>1, <1>2, <1>5, QuietSteps

LEMMA CountAliasKeeps ==
    ASSUME OneRunAtATime, IndexerBounds, IndexerInv, NEW r \in Runs, CountAlias(r)
    PROVE  IndexerInv'
  <1> DEFINE k == run[r].kind
             ready == run[r].ready \cup {j \in {k} : Populated(j)}
  <1>1. run[r].at = "count" /\ UNCHANGED <<indices, alias, body, published, launches>>
    BY DEF CountAlias
  <1>2. run[r] \in RunStates /\ launches \in 0..MaxLaunches
    BY <1>1, AtPlace DEF IndexerInv, VarsTyped
  <1>3. /\ BodyOk(run[r], published, body) /\ CountOk(run[r], alias)
        /\ IndexOk(indices, alias, published, body)
    BY DEF IndexerInv, RunOk
  <1>4. k \in Kinds /\ ready \in SUBSET Kinds /\ \A j \in ready : alias[j] # NoIndex
    BY <1>1, <1>2, <1>3 DEF RunStates, Populated, CountOk
  <1>5. k = "poems" => ready \subseteq {"poems"}
    BY <1>1, <1>3 DEF CountOk
  <1>6. \/ k = "poems" /\ run' = [run EXCEPT ![r].kind = "poets", ![r].ready = ready]
        \/ ready = Kinds /\ run' = [run EXCEPT ![r].at = "done", ![r].ready = ready]
        \/ run' = [run EXCEPT ![r].at = "list", ![r].kind = "poems", ![r].ready = ready]
    BY DEF CountAlias
  <1> HIDE DEF ready, k
  <1>7. CASE k = "poems" /\ run' = [run EXCEPT ![r].kind = "poets", ![r].ready = ready]
    <2> DEFINE x == [run[r] EXCEPT !.kind = "poets", !.ready = ready]
    <2>1. /\ x \in RunStates /\ x.at = "count" /\ x.kind = "poets" /\ x.ready = ready
          /\ x.body = run[r].body /\ x.rebuilt = run[r].rebuilt
      BY <1>1, <1>2, <1>4 DEF RunStates, Kinds
    <2>2. run' = [run EXCEPT ![r] = x]
      BY <1>7 DEF IndexerInv, VarsTyped
    <2> HIDE DEF x
    <2>3. RunOk(x, indices, alias, published, body)
      BY <1>1, <1>3, <1>4, <1>5, <1>7, <2>1
         DEF RunOk, BodyOk, CountOk, TargetOk, ContentOk, CleanupOk, ProgressOk, Filling, Rebuilding
    <2> QED
      BY <1>1, <1>2, <2>1, <2>2, <2>3, QuietSteps
  <1>8. CASE ready = Kinds /\ run' = [run EXCEPT ![r].at = "done", ![r].ready = ready]
    <2> DEFINE x == [run[r] EXCEPT !.at = "done", !.ready = ready]
    <2>1. /\ x \in RunStates /\ x.at = "done" /\ x.rebuilt = run[r].rebuilt
      BY <1>1, <1>2, <1>4 DEF RunStates
    <2>2. run' = [run EXCEPT ![r] = x]
      BY <1>8 DEF IndexerInv, VarsTyped
    <2> HIDE DEF x
    <2>3. RunOk(x, indices, alias, published, body)
      BY <1>1, <1>3, <1>4, <1>8, <2>1
         DEF RunOk, BodyOk, CountOk, TargetOk, ContentOk, CleanupOk, ProgressOk, Filling, Rebuilding
    <2> QED
      BY <1>1, <1>2, <2>1, <2>2, <2>3, QuietSteps
  <1>9. CASE run' = [run EXCEPT ![r].at = "list", ![r].kind = "poems", ![r].ready = ready]
    <2> DEFINE x == [run[r] EXCEPT !.at = "list", !.kind = "poems", !.ready = ready]
    <2>1. x \in RunStates /\ x.at = "list" /\ x.kind = "poems" /\ x.body = run[r].body
      BY <1>1, <1>2, <1>4 DEF RunStates, Kinds
    <2>2. run' = [run EXCEPT ![r] = x]
      BY <1>9 DEF IndexerInv, VarsTyped
    <2> HIDE DEF x
    <2>3. RunOk(x, indices, alias, published, body)
      BY <1>1, <1>3, <2>1
         DEF RunOk, BodyOk, CountOk, TargetOk, ContentOk, CleanupOk, ProgressOk, Filling, Rebuilding
    <2> QED
      BY <1>1, <1>2, <2>1, <2>2, <2>3, QuietSteps
  <1> QED
    BY <1>6, <1>7, <1>8, <1>9

LEMMA ListIndicesKeeps ==
    ASSUME OneRunAtATime, IndexerBounds, IndexerInv, NEW r \in Runs, ListIndices(r)
    PROVE  IndexerInv'
  <1> DEFINE k == run[r].kind
             existing == DOMAIN indices[k]
             next == NextIndex(existing)
             x == [run[r] EXCEPT !.at = "probe", !.existing = existing,
                                 !.target = next, !.page = 1]
  <1>1. run[r].at = "list" /\ UNCHANGED <<indices, alias, body, published, launches>>
    BY DEF ListIndices
  <1>2. run[r] \in RunStates /\ launches \in 0..MaxLaunches
    BY <1>1, AtPlace DEF IndexerInv, VarsTyped
  <1>3. k \in Kinds /\ existing \in SUBSET Versions
    BY <1>2 DEF RunStates, IndexerInv, VarsTyped, IndicesTyped
  <1>4. next <= MaxVersion
    BY DEF ListIndices
  <1>5. next \in Versions /\ \A m \in existing : m < next
    BY <1>3, <1>4, NextIndexIsFresh DEF IndexerBounds, Versions
  <1>6. run' = [run EXCEPT ![r] = x]
    BY DEF ListIndices, IndexerInv, VarsTyped
  <1>7. /\ BodyOk(run[r], published, body) /\ ProgressOk(run[r], indices, alias)
        /\ IndexOk(indices, alias, published, body)
    BY DEF IndexerInv, RunOk
  <1> HIDE DEF next, existing
  <1>8. /\ x \in RunStates /\ x.at = "probe" /\ x.existing = existing /\ x.page = 1
        /\ x.target = next /\ x.kind = k /\ x.body = run[r].body
        /\ x.littered = run[r].littered
    <2>1. 1 \in 1..(Pages + 1)
      BY DEF IndexerBounds
    <2>2. x \in RunStates
      BY <1>2, <1>3, <1>5, <2>1 DEF RunStates
    <2> QED
      BY <1>2, <2>2 DEF RunStates
  <1> HIDE DEF x
  <1>9. next \notin existing /\ NoIndex \notin Versions
    BY <1>5, <1>3 DEF Versions, NoIndex, IndexerBounds
  <1>10. TargetOk(x, indices, alias)
    BY <1>3, <1>5, <1>7, <1>8, <1>9 DEF TargetOk, existing, IndexOk
  <1>11. ContentOk(x, indices)
    BY <1>8, <1>9 DEF ContentOk, existing
  <1>12. RunOk(x, indices, alias, published, body)
    BY <1>1, <1>7, <1>8, <1>10, <1>11
       DEF RunOk, BodyOk, CountOk, CleanupOk, ProgressOk, Filling, Rebuilding
  <1> QED
    BY <1>1, <1>2, <1>6, <1>8, <1>12, QuietSteps

\* A run that is over owes nothing any more.
LEMMA OverIsOk ==
    ASSUME NEW x, x.at \in {"failed", "off"}, NEW ind, NEW al, NEW pub, NEW bd
    PROVE  RunOk(x, ind, al, pub, bd)
  BY DEF RunOk, BodyOk, CountOk, TargetOk, ContentOk, CleanupOk, ProgressOk, Filling, Rebuilding

\* A run that only changes its place: to the next of those that fill the target.
LEMMA PlaceSteps ==
    ASSUME OneRunAtATime, IndexerInv, NEW r \in Runs, run[r] \in RunStates,
           NEW at \in Places, Goto(r, at),
           UNCHANGED <<indices, alias, body, published, launches>>,
           \/ at = "failed"
           \/ run[r].at \in Filling /\ at = "discard"
           \/ run[r].at = "probe" /\ at = "create"
           \/ run[r].at = "hold" /\ at = "fill"
           \/ run[r].at = "refresh" /\ at = "swap",
           Pages \in Nat \ {0}
    PROVE  IndexerInv'
  <1>1. VarsTyped /\ launches' \in 0..MaxLaunches
    BY DEF IndexerInv, VarsTyped
  <1>2. PICK x \in RunStates :
              /\ run' = [run EXCEPT ![r] = x] /\ Resembles(x, run[r])
              /\ x.at = at /\ x.page = run[r].page /\ x.existing = run[r].existing
    BY <1>1, GotoGives
  <1>3. RunOk(run[r], indices, alias, published, body)
    BY DEF IndexerInv
  <1>4. CASE at = "failed"
    <2>1. RunOk(x, indices, alias, published, body)
      BY <1>2, <1>4, OverIsOk
    <2> QED
      BY <1>1, <1>2, <2>1, QuietSteps
  <1>5. CASE run[r].at \in Filling /\ at \in {"discard", "create", "fill", "swap"}
    <2>1. BodyOk(x, published, body)
      BY <1>2, <1>3, <1>5 DEF RunOk, BodyOk, Resembles, Rebuilding
    <2>2. TargetOk(x, indices, alias)
      BY <1>2, <1>3, <1>5 DEF RunOk, TargetOk, Resembles
    <2>3. ContentOk(x, indices)
      <3>1. CASE at = "discard"
        BY <1>2, <3>1 DEF ContentOk
      <3>2. CASE run[r].at = "probe" /\ at = "create"
        BY <1>2, <1>3, <3>2 DEF RunOk, ContentOk, Resembles
      <3>3. CASE run[r].at = "hold" /\ at = "fill"
        <4>1. run[r].page = 1 /\ 1 \in AllPages /\ 1..(1 - 1) = {}
          BY <1>3, <3>3 DEF RunOk, ContentOk, AllPages
        <4>2. Filled(x) = Filled(run[r])
          BY <1>2, <3>3, <4>1 DEF Filled
        <4> QED
          BY <1>2, <1>3, <3>3, <4>1, <4>2 DEF RunOk, ContentOk, Resembles
      <3>4. CASE run[r].at = "refresh" /\ at = "swap"
        BY <1>2, <1>3, <3>4 DEF RunOk, ContentOk, Resembles, Filled
      <3> QED
        BY <1>5, <3>1, <3>2, <3>3, <3>4
    <2>4. ProgressOk(x, indices, alias)
      BY <1>2, <1>3, <1>5 DEF RunOk, ProgressOk, Resembles, Rebuilding
    <2>5. RunOk(x, indices, alias, published, body)
      BY <1>2, <1>5, <2>1, <2>2, <2>3, <2>4 DEF RunOk, CountOk, CleanupOk
    <2> QED
      BY <1>1, <1>2, <2>5, QuietSteps
  <1> QED
    BY <1>4, <1>5 DEF Filling

LEMMA ProbeTargetKeeps ==
    ASSUME OneRunAtATime, IndexerBounds, IndexerInv, NEW r \in Runs, ProbeTarget(r)
    PROVE  IndexerInv'
  <1>1. run[r].at = "probe" /\ UNCHANGED <<indices, alias, body, published, launches>>
    BY DEF ProbeTarget
  <1>2. run[r] \in RunStates
    BY <1>1, AtPlace DEF IndexerInv
  <1>3. ~Exists(run[r].kind, run[r].target)
    BY <1>1 DEF IndexerInv, RunOk, ContentOk, Exists
  <1>4. Goto(r, "create")
    BY <1>3 DEF ProbeTarget
  <1> QED
    BY <1>1, <1>2, <1>4, PlaceSteps DEF IndexerBounds, Places

LEMMA HoldRefreshKeeps ==
    ASSUME OneRunAtATime, IndexerBounds, IndexerInv, NEW r \in Runs, HoldRefresh(r)
    PROVE  IndexerInv'
  <1>1. run[r].at = "hold" /\ UNCHANGED <<indices, alias, body, published, launches>>
    BY DEF HoldRefresh
  <1>2. run[r] \in RunStates
    BY <1>1, AtPlace DEF IndexerInv
  <1>3. Goto(r, "fill") \/ Goto(r, "discard")
    BY DEF HoldRefresh
  <1>4. run[r].at \in Filling
    BY <1>1 DEF Filling
  <1> QED
    BY <1>1, <1>2, <1>3, <1>4, PlaceSteps DEF IndexerBounds, Places

LEMMA RefreshTargetKeeps ==
    ASSUME OneRunAtATime, IndexerBounds, IndexerInv, NEW r \in Runs, RefreshTarget(r)
    PROVE  IndexerInv'
  <1>1. run[r].at = "refresh" /\ UNCHANGED <<indices, alias, body, published, launches>>
    BY DEF RefreshTarget
  <1>2. run[r] \in RunStates
    BY <1>1, AtPlace DEF IndexerInv
  <1>3. Goto(r, "swap") \/ Goto(r, "discard")
    BY DEF RefreshTarget
  <1>4. run[r].at \in Filling
    BY <1>1 DEF Filling
  <1> QED
    BY <1>1, <1>2, <1>3, <1>4, PlaceSteps DEF IndexerBounds, Places

LEMMA RequestFailsKeeps ==
    ASSUME OneRunAtATime, IndexerBounds, IndexerInv, NEW r \in Runs, RequestFails(r)
    PROVE  IndexerInv'
  <1>1. /\ run[r].at # "off" /\ UNCHANGED <<indices, alias, body, published, launches>>
        /\ Goto(r, "failed") \/ (run[r].at \in Filling /\ Goto(r, "discard"))
    BY DEF RequestFails, Abort, Filling
  <1>2. run[r] \in RunStates
    BY <1>1, AtPlace DEF IndexerInv
  <1> QED
    BY <1>1, <1>2, PlaceSteps DEF IndexerBounds, Places

LEMMA KillKeeps ==
    ASSUME OneRunAtATime, IndexerBounds, IndexerInv, NEW r \in Runs, Kill(r)
    PROVE  IndexerInv'
  <1>1. /\ run' = [run EXCEPT ![r] = Off]
        /\ UNCHANGED <<indices, alias, body, published, launches>>
        /\ launches' \in 0..MaxLaunches
    BY DEF Kill, IndexerInv, VarsTyped
  <1>2. Off.at = "off"
    BY DEF Off
  <1>3. RunOk(Off, indices, alias, published, body)
    BY <1>2, OverIsOk
  <1> QED
    BY <1>1, <1>3, QuietSteps

LEMMA SkipLeftoverKeeps ==
    ASSUME OneRunAtATime, IndexerBounds, IndexerInv, NEW r \in Runs, SkipLeftover(r)
    PROVE  IndexerInv'
  <1>1. run[r].at = "cleanup" /\ UNCHANGED <<indices, alias, body, published, launches>>
    BY DEF SkipLeftover
  <1>2. run[r] \in RunStates /\ launches' \in 0..MaxLaunches
    BY <1>1, AtPlace DEF IndexerInv, VarsTyped
  <1>3. PICK n : run' = [run EXCEPT ![r].existing = @ \ {n}, ![r].littered = TRUE]
    BY DEF SkipLeftover
  <1> DEFINE x == [run[r] EXCEPT !.existing = @ \ {n}, !.littered = TRUE]
  <1>4. run' = [run EXCEPT ![r] = x]
    BY <1>3 DEF IndexerInv, VarsTyped
  <1>5. /\ x \in RunStates /\ x.at = "cleanup" /\ x.kind = run[r].kind /\ x.littered
        /\ x.target = run[r].target /\ x.body = run[r].body
    BY <1>1, <1>2 DEF RunStates
  <1> HIDE DEF x
  <1>6. RunOk(run[r], indices, alias, published, body)
    BY DEF IndexerInv
  <1>7. RunOk(x, indices, alias, published, body)
    BY <1>1, <1>5, <1>6
       DEF RunOk, BodyOk, CountOk, TargetOk, ContentOk, CleanupOk, ProgressOk, Filling, Rebuilding
  <1> QED
    BY <1>1, <1>2, <1>4, <1>5, <1>7, QuietSteps

LEMMA FinishKindKeeps ==
    ASSUME OneRunAtATime, IndexerBounds, IndexerInv, NEW r \in Runs, FinishKind(r)
    PROVE  IndexerInv'
  <1>1. run[r].at = "cleanup" /\ UNCHANGED <<indices, alias, body, published, launches>>
    BY DEF FinishKind
  <1>2. run[r] \in RunStates /\ launches' \in 0..MaxLaunches
    BY <1>1, AtPlace DEF IndexerInv, VarsTyped
  <1>3. /\ BodyOk(run[r], published, body) /\ CleanupOk(run[r], indices, alias)
        /\ ProgressOk(run[r], indices, alias) /\ IndexOk(indices, alias, published, body)
    BY DEF IndexerInv, RunOk
  <1>4. run[r].kind \in Kinds /\ alias[run[r].kind] # NoIndex
    BY <1>1, <1>2, <1>3 DEF RunStates, CleanupOk, Versions, NoIndex, IndexerBounds
  <1>5. ~run[r].littered => Swept(run[r].kind, indices, alias)
    BY <1>1, <1>3, <1>4 DEF CleanupOk, FinishKind, Leftover, Swept, IndexOk
  <1>6. CASE run[r].kind = "poems"
    <2> DEFINE x == [run[r] EXCEPT !.at = "list", !.kind = "poets"]
    <2>1. /\ x \in RunStates /\ x.at = "list" /\ x.kind = "poets"
          /\ x.littered = run[r].littered /\ x.body = run[r].body
      BY <1>1, <1>2 DEF RunStates, Kinds
    <2>2. run' = [run EXCEPT ![r] = x]
      BY <1>6 DEF FinishKind, IndexerInv, VarsTyped
    <2> HIDE DEF x
    <2>3. RunOk(x, indices, alias, published, body)
      BY <1>1, <1>3, <1>4, <1>5, <1>6, <2>1
         DEF RunOk, BodyOk, CountOk, TargetOk, ContentOk, CleanupOk, ProgressOk, Filling, Rebuilding
    <2> QED
      BY <1>1, <1>2, <2>1, <2>2, <2>3, QuietSteps
  <1>7. CASE run[r].kind # "poems"
    <2> DEFINE x == [run[r] EXCEPT !.at = "done", !.rebuilt = TRUE]
    <2>1. x \in RunStates /\ x.at = "done" /\ x.littered = run[r].littered
      BY <1>1, <1>2 DEF RunStates
    <2>2. run' = [run EXCEPT ![r] = x]
      BY <1>7 DEF FinishKind, IndexerInv, VarsTyped
    <2>3. run[r].kind = "poets"
      BY <1>4, <1>7 DEF Kinds
    <2> HIDE DEF x
    <2>4. \A k \in Kinds : alias[k] # NoIndex /\ (~x.littered => Swept(k, indices, alias))
      BY <1>1, <1>3, <1>4, <1>5, <2>1, <2>3 DEF ProgressOk, Rebuilding, Kinds
    <2>5. RunOk(x, indices, alias, published, body)
      BY <2>1, <2>4
         DEF RunOk, BodyOk, CountOk, TargetOk, ContentOk, CleanupOk, ProgressOk, Filling, Rebuilding
    <2> QED
      BY <1>1, <1>2, <2>1, <2>2, <2>5, QuietSteps
  <1> QED
    BY <1>6, <1>7

-----------------------------------------------------------------------------
(* Steps that write to Elasticsearch.                                      *)

\* Writing to an index that serves nobody leaves what is served as it was.
LEMMA ServedStays ==
    ASSUME IndexOk(indices, alias, published, body),
           NEW k \in Kinds, NEW n, alias[k] # n, NEW new,
           DOMAIN indices[k] \ {n} \subseteq DOMAIN new[k],
           \A m \in DOMAIN indices[k] : m # n => new[k][m] = indices[k][m],
           \A j \in Kinds : j # k => new[j] = indices[j]
    PROVE  IndexOk(new, alias, published, body)
  <1> SUFFICES ASSUME NEW j \in Kinds
               PROVE  /\ alias[j] = NoIndex <=> published[j] = 0
                      /\ published[j] <= body
                      /\ alias[j] # NoIndex =>
                            /\ alias[j] \in DOMAIN new[j]
                            /\ new[j][alias[j]] = [body |-> published[j], pages |-> AllPages]
    BY DEF IndexOk
  <1>1. CASE j # k
    BY <1>1 DEF IndexOk
  <1>2. CASE j = k
    BY <1>2 DEF IndexOk
  <1> QED
    BY <1>1, <1>2

\* The index of poems is swept when poets are filled: writes do not reach it.
LEMMA OtherKindStays ==
    ASSUME NEW x, NEW y, NEW ind, NEW new, NEW al,
           x.at \in Rebuilding, ProgressOk(x, ind, al), x.kind \in Kinds,
           y.kind = x.kind, y.littered = x.littered, y.at \in Rebuilding,
           \A j \in Kinds : j # x.kind => new[j] = ind[j]
    PROVE  ProgressOk(y, new, al)
  <1>1. "poems" \in Kinds /\ y.at # "done"
    BY DEF Kinds, Rebuilding, Filling
  <1> QED
    BY <1>1 DEF ProgressOk, Swept

LEMMA CreateTargetKeeps ==
    ASSUME OneRunAtATime, IndexerBounds, IndexerInv, NEW r \in Runs, CreateTarget(r)
    PROVE  IndexerInv'
  <1> DEFINE k == run[r].kind
             n == run[r].target
             index == [body |-> run[r].body, pages |-> {}]
             ind == With(k, n, index)
  <1>1. run[r].at = "create" /\ UNCHANGED <<alias, body, published, launches>>
    BY DEF CreateTarget
  <1>2. run[r] \in RunStates /\ VarsTyped /\ launches' \in 0..MaxLaunches
    BY <1>1, AtPlace DEF IndexerInv, VarsTyped
  <1>3. RunOk(run[r], indices, alias, published, body) /\ IndexOk(indices, alias, published, body)
    BY DEF IndexerInv
  <1>4. /\ k \in Kinds /\ n \in Versions /\ index \in Index /\ IndicesTyped(indices)
        /\ alias[k] # n /\ n \notin DOMAIN indices[k] /\ run[r].page = 1
    BY <1>1, <1>2, <1>3 DEF RunStates, RunOk, TargetOk, ContentOk, Filling, Index, VarsTyped
  <1>5. indices' = ind /\ (Goto(r, "hold") \/ Goto(r, "failed"))
    BY <1>4 DEF CreateTarget, Exists, Abort
  <1> HIDE DEF ind, index
  <1>6. /\ IndicesTyped(ind)
        /\ DOMAIN ind[k] = DOMAIN indices[k] \cup {n} /\ ind[k][n] = index
        /\ \A m \in DOMAIN indices[k] : m # n => ind[k][m] = indices[k][m]
        /\ \A j \in Kinds : j # k => ind[j] = indices[j]
    BY <1>4, WithGives DEF ind
  <1>7. IndexOk(ind, alias, published, body)
    <2>1. DOMAIN indices[k] \ {n} \subseteq DOMAIN ind[k]
      BY <1>6
    <2> HIDE DEF k, n
    <2> QED
      BY <1>3, <1>4, <1>6, <2>1, ServedStays
  <1>8. alias \in [Kinds -> Versions \cup {NoIndex}] /\ published \in [Kinds -> Bodies]
    BY <1>2 DEF VarsTyped
  <1>9. CASE Goto(r, "failed")
    <2>1. PICK x \in RunStates : run' = [run EXCEPT ![r] = x] /\ x.at = "failed"
      BY <1>2, <1>9, GotoGives DEF Places
    <2>2. RunOk(x, ind, alias, published, body)
      BY <2>1, OverIsOk
    <2> QED
      BY <1>1, <1>2, <1>5, <1>6, <1>7, <1>8, <2>1, <2>2, RunSteps
  <1>10. CASE Goto(r, "hold")
    <2>1. PICK x \in RunStates :
              /\ run' = [run EXCEPT ![r] = x] /\ Resembles(x, run[r])
              /\ x.at = "hold" /\ x.page = run[r].page /\ x.existing = run[r].existing
      BY <1>2, <1>10, GotoGives DEF Places
    <2>2. x.kind = k /\ x.target = n /\ x.body = run[r].body /\ x.littered = run[r].littered
      BY <2>1 DEF Resembles
    <2>3. BodyOk(x, published, body)
      BY <1>1, <1>3, <2>1, <2>2 DEF RunOk, BodyOk, Rebuilding, Filling
    <2>4. TargetOk(x, ind, alias)
      BY <1>1, <1>3, <1>6, <2>1, <2>2 DEF RunOk, TargetOk, Filling
    <2>5. ContentOk(x, ind)
      BY <1>4, <1>6, <2>1, <2>2 DEF ContentOk, Filled, index
    <2>6. ProgressOk(x, ind, alias)
      BY <1>1, <1>3, <1>4, <1>6, <2>1, <2>2, OtherKindStays DEF RunOk, Rebuilding, Filling
    <2>7. RunOk(x, ind, alias, published, body)
      BY <2>1, <2>3, <2>4, <2>5, <2>6 DEF RunOk, CountOk, CleanupOk
    <2> QED
      BY <1>1, <1>2, <1>5, <1>6, <1>7, <1>8, <2>1, <2>7, RunSteps
  <1> QED
    BY <1>5, <1>9, <1>10

LEMMA FillPageKeeps ==
    ASSUME OneRunAtATime, IndexerBounds, IndexerInv, NEW r \in Runs, FillPage(r)
    PROVE  IndexerInv'
  <1> DEFINE k == run[r].kind
             n == run[r].target
             page == run[r].page
             index == [body |-> run[r].body, pages |-> 1..page]
             ind == With(k, n, index)
  <1>1. run[r].at = "fill" /\ UNCHANGED <<alias, body, published, launches>>
    BY DEF FillPage
  <1>2. run[r] \in RunStates /\ VarsTyped /\ launches' \in 0..MaxLaunches
    BY <1>1, AtPlace DEF IndexerInv, VarsTyped
  <1>3. RunOk(run[r], indices, alias, published, body) /\ IndexOk(indices, alias, published, body)
    BY DEF IndexerInv
  <1>4. /\ k \in Kinds /\ n \in Versions /\ IndicesTyped(indices)
        /\ alias[k] # n /\ page \in AllPages /\ run[r].body \in Bodies
    BY <1>1, <1>2, <1>3 DEF RunStates, RunOk, TargetOk, ContentOk, Filling, VarsTyped
  <1>5. n \in DOMAIN indices[k] /\ indices[k][n] = [body |-> run[r].body, pages |-> 1..(page - 1)]
    BY <1>1, <1>3 DEF RunOk, ContentOk, Filled
  <1>6. page \in Nat /\ 1 <= page /\ page <= Pages /\ (1..(page - 1)) \cup {page} = 1..page
    BY <1>4 DEF AllPages, IndexerBounds
  <1>7. index \in Index
    BY <1>4, <1>6 DEF Index, AllPages, IndexerBounds
  <1>8. [indices[k][n] EXCEPT !.pages = @ \cup {page}] = index
    <2> DEFINE before == 1..(page - 1)
               after == 1..page
    <2>1. indices[k][n] = [body |-> run[r].body, pages |-> before]
      BY <1>5
    <2>2. before \cup {page} = after /\ index = [body |-> run[r].body, pages |-> after]
      BY <1>6
    <2> HIDE DEF before, after, index
    <2> QED
      BY <2>1, <2>2
  <1>9. indices' = With(k, n, [indices[k][n] EXCEPT !.pages = @ \cup {page}])
    BY <1>5 DEF FillPage, Exists
  <1>10. indices' = ind
    BY <1>8, <1>9
  <1>11. \/ run' = [run EXCEPT ![r].page = page + 1,
                               ![r].at = IF page = Pages THEN "refresh" ELSE "fill"]
         \/ Goto(r, "discard")
    BY DEF FillPage
  <1> HIDE DEF ind, index
  <1>12. /\ IndicesTyped(ind)
         /\ DOMAIN ind[k] = DOMAIN indices[k] \cup {n} /\ ind[k][n] = index
         /\ \A m \in DOMAIN indices[k] : m # n => ind[k][m] = indices[k][m]
         /\ \A j \in Kinds : j # k => ind[j] = indices[j]
    BY <1>4, <1>7, WithGives DEF ind
  <1>13. IndexOk(ind, alias, published, body)
    <2>1. DOMAIN indices[k] \ {n} \subseteq DOMAIN ind[k]
      BY <1>12
    <2> HIDE DEF k, n
    <2> QED
      BY <1>3, <1>4, <1>12, <2>1, ServedStays
  <1>14. alias \in [Kinds -> Versions \cup {NoIndex}] /\ published \in [Kinds -> Bodies]
    BY <1>2 DEF VarsTyped
  <1>15. ASSUME NEW x, Resembles(x, run[r]), x.existing = run[r].existing,
                x.at \in {"fill", "refresh", "discard"}, ContentOk(x, ind)
         PROVE  RunOk(x, ind, alias, published, body)
    <2>1. x.kind = k /\ x.target = n /\ x.body = run[r].body /\ x.littered = run[r].littered
      BY <1>15 DEF Resembles
    <2>2. BodyOk(x, published, body)
      BY <1>1, <1>3, <1>15, <2>1 DEF RunOk, BodyOk, Rebuilding, Filling
    <2>3. TargetOk(x, ind, alias)
      BY <1>1, <1>3, <1>12, <1>15, <2>1 DEF RunOk, TargetOk, Filling
    <2>4. ProgressOk(x, ind, alias)
      BY <1>1, <1>3, <1>4, <1>12, <1>15, <2>1, OtherKindStays DEF RunOk, Rebuilding, Filling
    <2> QED
      BY <1>15, <2>1, <2>2, <2>3, <2>4 DEF RunOk, CountOk, CleanupOk
  <1>16. CASE Goto(r, "discard")
    <2>1. PICK x \in RunStates :
              /\ run' = [run EXCEPT ![r] = x] /\ Resembles(x, run[r])
              /\ x.at = "discard" /\ x.page = run[r].page /\ x.existing = run[r].existing
      BY <1>2, <1>16, GotoGives DEF Places
    <2>2. ContentOk(x, ind)
      BY <2>1 DEF ContentOk
    <2>3. RunOk(x, ind, alias, published, body)
      BY <1>15, <2>1, <2>2
    <2> QED
      BY <1>1, <1>2, <1>10, <1>12, <1>13, <1>14, <2>1, <2>3, RunSteps
  <1>17. CASE run' = [run EXCEPT ![r].page = page + 1,
                                 ![r].at = IF page = Pages THEN "refresh" ELSE "fill"]
    <2> DEFINE at == IF page = Pages THEN "refresh" ELSE "fill"
               x == [run[r] EXCEPT !.page = page + 1, !.at = at]
    <2>1. run' = [run EXCEPT ![r] = x]
      BY <1>2, <1>17 DEF VarsTyped
    <2>2. at \in {"refresh", "fill"} /\ page + 1 \in 1..(Pages + 1)
      BY <1>6 DEF IndexerBounds
    <2> HIDE DEF at
    <2>3. x \in RunStates /\ x.at = at /\ x.page = page + 1 /\ x.existing = run[r].existing
      BY <1>2, <2>2 DEF RunStates
    <2>4. Resembles(x, run[r])
      BY <1>2, <2>3 DEF Resembles, RunStates
    <2> HIDE DEF x
    <2>5. x.kind = k /\ x.target = n /\ x.body = run[r].body
      BY <2>4 DEF Resembles
    <2>6. at = "fill" => x.page \in AllPages
      BY <1>6, <2>3 DEF at, AllPages, IndexerBounds
    <2>7. Filled(x) = 1..page
      BY <1>6, <2>3 DEF at, AllPages, Filled
    <2>8. ContentOk(x, ind)
      BY <1>12, <2>2, <2>3, <2>5, <2>6, <2>7 DEF ContentOk, index
    <2>9. RunOk(x, ind, alias, published, body)
      BY <1>15, <2>2, <2>3, <2>4, <2>8
    <2> QED
      BY <1>1, <1>2, <1>10, <1>12, <1>13, <1>14, <2>1, <2>3, <2>9, RunSteps
  <1> QED
    BY <1>11, <1>16, <1>17

LEMMA DiscardTargetKeeps ==
    ASSUME OneRunAtATime, IndexerBounds, IndexerInv, NEW r \in Runs, DiscardTarget(r)
    PROVE  IndexerInv'
  <1> DEFINE k == run[r].kind
             n == run[r].target
             ind == Without(k, n)
  <1>1. /\ run[r].at = "discard" /\ UNCHANGED <<body, published, launches>> /\ Goto(r, "failed")
        /\ indices' = ind /\ alias' = [alias EXCEPT ![k] = IF alias[k] = n THEN NoIndex ELSE alias[k]]
    BY DEF DiscardTarget, Abort, DeleteIndex
  <1>2. run[r] \in RunStates /\ VarsTyped /\ launches' \in 0..MaxLaunches
    BY <1>1, AtPlace DEF IndexerInv, VarsTyped
  <1>3. RunOk(run[r], indices, alias, published, body) /\ IndexOk(indices, alias, published, body)
    BY DEF IndexerInv
  <1>4. k \in Kinds /\ IndicesTyped(indices) /\ alias[k] # n
    BY <1>1, <1>2, <1>3 DEF RunStates, RunOk, TargetOk, Filling, VarsTyped
  <1>5. alias \in [Kinds -> Versions \cup {NoIndex}] /\ published \in [Kinds -> Bodies]
    BY <1>2 DEF VarsTyped
  <1>6. alias' = alias
    BY <1>1, <1>4, <1>5
  <1> HIDE DEF ind
  <1>7. /\ IndicesTyped(ind) /\ DOMAIN ind[k] = DOMAIN indices[k] \ {n}
        /\ \A m \in DOMAIN indices[k] : m # n => ind[k][m] = indices[k][m]
        /\ \A j \in Kinds : j # k => ind[j] = indices[j]
    BY <1>4, WithoutGives DEF ind
  <1>8. IndexOk(ind, alias, published, body)
    <2>1. DOMAIN indices[k] \ {n} \subseteq DOMAIN ind[k]
      BY <1>7
    <2> HIDE DEF k, n
    <2> QED
      BY <1>3, <1>4, <1>7, <2>1, ServedStays
  <1>9. PICK x \in RunStates : run' = [run EXCEPT ![r] = x] /\ x.at = "failed"
    BY <1>1, <1>2, GotoGives DEF Places
  <1>10. RunOk(x, ind, alias, published, body)
    BY <1>9, OverIsOk
  <1> QED
    BY <1>1, <1>2, <1>5, <1>6, <1>7, <1>8, <1>9, <1>10, RunSteps

LEMMA DeleteLeftoverKeeps ==
    ASSUME OneRunAtATime, IndexerBounds, IndexerInv, NEW r \in Runs, DeleteLeftover(r)
    PROVE  IndexerInv'
  <1>1. PICK n \in Leftover(r) :
           DeleteIndex(run[r].kind, n) /\ run' = [run EXCEPT ![r].existing = @ \ {n}]
    BY DEF DeleteLeftover
  <1> DEFINE k == run[r].kind
             ind == Without(k, n)
             x == [run[r] EXCEPT !.existing = @ \ {n}]
  <1>2. /\ run[r].at = "cleanup" /\ UNCHANGED <<body, published, launches>> /\ indices' = ind
        /\ alias' = [alias EXCEPT ![k] = IF alias[k] = n THEN NoIndex ELSE alias[k]]
    BY <1>1 DEF DeleteLeftover, DeleteIndex
  <1>3. run[r] \in RunStates /\ VarsTyped /\ launches' \in 0..MaxLaunches
    BY <1>2, AtPlace DEF IndexerInv, VarsTyped
  <1>4. RunOk(run[r], indices, alias, published, body) /\ IndexOk(indices, alias, published, body)
    BY DEF IndexerInv
  <1>5. k \in Kinds /\ IndicesTyped(indices) /\ n # run[r].target /\ alias[k] # n
    BY <1>1, <1>2, <1>3, <1>4 DEF RunStates, RunOk, CleanupOk, Leftover, VarsTyped
  <1>6. alias \in [Kinds -> Versions \cup {NoIndex}] /\ published \in [Kinds -> Bodies]
    BY <1>3 DEF VarsTyped
  <1>7. alias' = alias
    BY <1>2, <1>5, <1>6
  <1> HIDE DEF ind
  <1>8. /\ IndicesTyped(ind) /\ DOMAIN ind[k] = DOMAIN indices[k] \ {n}
        /\ \A m \in DOMAIN indices[k] : m # n => ind[k][m] = indices[k][m]
        /\ \A j \in Kinds : j # k => ind[j] = indices[j]
    BY <1>5, WithoutGives DEF ind
  <1>9. IndexOk(ind, alias, published, body)
    <2>1. DOMAIN indices[k] \ {n} \subseteq DOMAIN ind[k]
      BY <1>8
    <2> HIDE DEF k
    <2> QED
      BY <1>4, <1>5, <1>8, <2>1, ServedStays
  <1>10. run' = [run EXCEPT ![r] = x]
    BY <1>1, <1>3 DEF VarsTyped
  <1>11. /\ x \in RunStates /\ x.at = "cleanup" /\ x.kind = k /\ x.body = run[r].body
         /\ x.target = run[r].target /\ x.littered = run[r].littered
         /\ x.existing = run[r].existing \ {n}
    BY <1>2, <1>3 DEF RunStates
  <1> HIDE DEF x
  <1>12. BodyOk(x, published, body)
    BY <1>2, <1>4, <1>11 DEF RunOk, BodyOk, Rebuilding
  <1>13. CleanupOk(x, ind, alias)
    BY <1>2, <1>4, <1>5, <1>8, <1>11 DEF RunOk, CleanupOk
  <1>14. ProgressOk(x, ind, alias)
    BY <1>2, <1>4, <1>5, <1>8, <1>11, OtherKindStays DEF RunOk, Rebuilding
  <1>15. RunOk(x, ind, alias, published, body)
    BY <1>11, <1>12, <1>13, <1>14 DEF RunOk, CountOk, TargetOk, ContentOk, Filling
  <1> QED
    BY <1>2, <1>3, <1>6, <1>7, <1>8, <1>9, <1>10, <1>11, <1>15, RunSteps

\* What is known of a run that is about to move its alias.
LEMMA BeforeSwap ==
    ASSUME IndexerBounds, IndexerInv, NEW r \in Runs, run[r].at = "swap"
    PROVE  /\ run[r] \in RunStates /\ run[r].kind \in Kinds /\ run[r].target \in Versions
           /\ run[r].target \in DOMAIN indices[run[r].kind]
           /\ indices[run[r].kind][run[r].target] = [body |-> run[r].body, pages |-> AllPages]
           /\ alias[run[r].kind] < run[r].target
           /\ run[r].body \in 1..body /\ run[r].body \in Bodies
           /\ \A j \in Kinds : published[j] <= run[r].body
  <1>1. run[r] \in RunStates /\ VarsTyped
    BY AtPlace DEF IndexerInv
  <1>2. RunOk(run[r], indices, alias, published, body) /\ IndexOk(indices, alias, published, body)
    BY DEF IndexerInv
  <1>3. run[r].kind \in Kinds /\ run[r].body \in Bodies
    BY <1>1 DEF RunStates
  <1>4. /\ run[r].target \in Versions /\ \A m \in run[r].existing : m < run[r].target
        /\ DOMAIN indices[run[r].kind] \ {run[r].target} = run[r].existing
        /\ alias[run[r].kind] # run[r].target
    BY <1>2 DEF RunOk, TargetOk, Filling
  <1>5. /\ run[r].target \in DOMAIN indices[run[r].kind]
        /\ indices[run[r].kind][run[r].target] = [body |-> run[r].body, pages |-> AllPages]
    BY <1>2 DEF RunOk, ContentOk, Filled
  <1>6. /\ 1 <= run[r].body /\ run[r].body <= body
        /\ \A j \in Kinds : published[j] <= run[r].body
    BY <1>2 DEF RunOk, BodyOk, Rebuilding, Filling
  <1>7. run[r].body \in 1..body
    BY <1>1, <1>3, <1>6 DEF VarsTyped, Bodies, IndexerBounds
  <1>8. alias[run[r].kind] = NoIndex \/ alias[run[r].kind] \in run[r].existing
    BY <1>2, <1>3, <1>4 DEF IndexOk
  <1>9. NoIndex < run[r].target
    BY <1>4 DEF NoIndex, Versions, IndexerBounds
  <1> QED
    BY <1>1, <1>3, <1>4, <1>5, <1>6, <1>7, <1>8, <1>9

LEMMA SwapAliasKeeps ==
    ASSUME OneRunAtATime, IndexerBounds, IndexerInv, NEW r \in Runs, SwapAlias(r)
    PROVE  IndexerInv'
  <1> DEFINE k == run[r].kind
             n == run[r].target
             al == [alias EXCEPT ![k] = n]
             pub == [published EXCEPT ![k] = run[r].body]
  <1>1. run[r].at = "swap" /\ UNCHANGED <<indices, body, launches>>
    BY DEF SwapAlias
  <1>2. VarsTyped /\ launches' \in 0..MaxLaunches /\ IndicesTyped(indices)
    BY <1>1 DEF IndexerInv, VarsTyped
  <1>3. RunOk(run[r], indices, alias, published, body) /\ IndexOk(indices, alias, published, body)
    BY DEF IndexerInv
  <1>4. /\ run[r] \in RunStates /\ k \in Kinds /\ n \in Versions /\ n \in DOMAIN indices[k]
        /\ indices[k][n] = [body |-> run[r].body, pages |-> AllPages]
        /\ run[r].body \in 1..body /\ run[r].body \in Bodies
        /\ \A j \in Kinds : published[j] <= run[r].body
    BY <1>1, BeforeSwap
  <1>5. alias' = al /\ published' = pub /\ (Goto(r, "cleanup") \/ Goto(r, "failed"))
    BY <1>4 DEF SwapAlias, Exists, Abort
  <1>6. /\ al \in [Kinds -> Versions \cup {NoIndex}] /\ pub \in [Kinds -> Bodies]
        /\ al[k] = n /\ pub[k] = run[r].body
        /\ \A j \in Kinds : j # k => al[j] = alias[j] /\ pub[j] = published[j]
    BY <1>2, <1>4 DEF VarsTyped
  <1> HIDE DEF al, pub
  <1>7. n # NoIndex /\ run[r].body # 0 /\ run[r].body <= body
    BY <1>2, <1>4 DEF NoIndex, Versions, IndexerBounds, VarsTyped, Bodies
  <1>8. IndexOk(indices, al, pub, body)
    <2> SUFFICES ASSUME NEW j \in Kinds
                 PROVE  /\ al[j] = NoIndex <=> pub[j] = 0
                        /\ pub[j] <= body
                        /\ al[j] # NoIndex =>
                              /\ al[j] \in DOMAIN indices[j]
                              /\ indices[j][al[j]] = [body |-> pub[j], pages |-> AllPages]
      BY DEF IndexOk
    <2>1. CASE j = k
      BY <1>4, <1>6, <1>7, <2>1
    <2>2. CASE j # k
      BY <1>3, <1>6, <2>2 DEF IndexOk
    <2> QED
      BY <2>1, <2>2
  <1>9. CASE Goto(r, "failed")
    <2>1. PICK x \in RunStates : run' = [run EXCEPT ![r] = x] /\ x.at = "failed"
      BY <1>2, <1>4, <1>9, GotoGives DEF Places
    <2>2. RunOk(x, indices, al, pub, body)
      BY <2>1, OverIsOk
    <2> QED
      BY <1>1, <1>2, <1>5, <1>6, <1>8, <2>1, <2>2, RunSteps
  <1>10. CASE Goto(r, "cleanup")
    <2>1. PICK x \in RunStates :
              /\ run' = [run EXCEPT ![r] = x] /\ Resembles(x, run[r])
              /\ x.at = "cleanup" /\ x.page = run[r].page /\ x.existing = run[r].existing
      BY <1>2, <1>4, <1>10, GotoGives DEF Places
    <2>2. x.kind = k /\ x.target = n /\ x.body = run[r].body /\ x.littered = run[r].littered
      BY <2>1 DEF Resembles
    <2>3. BodyOk(x, pub, body)
      <3>1. \A j \in Kinds : pub[j] <= run[r].body
        BY <1>2, <1>4, <1>6 DEF VarsTyped, Bodies, IndexerBounds
      <3>2. 1 <= run[r].body
        BY <1>2, <1>4 DEF VarsTyped, Bodies, IndexerBounds
      <3> QED
        BY <1>7, <2>2, <3>1, <3>2 DEF BodyOk
    <2>4. CleanupOk(x, indices, al)
      BY <1>1, <1>3, <1>4, <1>6, <2>1, <2>2 DEF RunOk, TargetOk, CleanupOk, Filling
    <2>5. ProgressOk(x, indices, al)
      <3>1. x.kind = "poets" => al["poems"] = alias["poems"]
        BY <1>6, <2>2 DEF Kinds
      <3> QED
        BY <1>1, <1>3, <2>1, <2>2, <3>1 DEF RunOk, ProgressOk, Swept, Rebuilding, Filling
    <2>6. RunOk(x, indices, al, pub, body)
      BY <2>1, <2>3, <2>4, <2>5 DEF RunOk, CountOk, TargetOk, ContentOk, Filling
    <2> QED
      BY <1>1, <1>2, <1>5, <1>6, <1>8, <2>1, <2>6, RunSteps
  <1> QED
    BY <1>5, <1>9, <1>10

LEMMA DeploySchemaKeeps ==
    ASSUME IndexerBounds, IndexerInv, DeploySchema
    PROVE  IndexerInv'
  <1>1. body' = body + 1 /\ body < MaxBody /\ UNCHANGED <<indices, alias, run, published, launches>>
    BY DEF DeploySchema
  <1>2. body \in Bodies \ {0} /\ published \in [Kinds -> Bodies]
    BY DEF IndexerInv, VarsTyped
  <1>3. body \in Nat /\ body' \in Bodies \ {0}
    BY <1>1, <1>2 DEF Bodies, IndexerBounds
  <1>4. VarsTyped'
    BY <1>1, <1>3 DEF IndexerInv, VarsTyped
  <1>5. \A k \in Kinds : published[k] \in Nat
    BY <1>2 DEF Bodies
  <1> DEFINE bd == body + 1
  <1>6. IndexOk(indices, alias, published, bd)
    <2>1. IndexOk(indices, alias, published, body)
      BY DEF IndexerInv
    <2>2. \A k \in Kinds : published[k] <= body => published[k] <= bd
      BY <1>3, <1>5
    <2> HIDE DEF bd
    <2> QED
      BY <2>1, <2>2 DEF IndexOk
  <1>7. \A r \in Runs : RunOk(run[r], indices, alias, published, bd)
    <2> SUFFICES ASSUME NEW r \in Runs PROVE RunOk(run[r], indices, alias, published, bd)
      OBVIOUS
    <2>1. RunOk(run[r], indices, alias, published, body)
      BY DEF IndexerInv
    <2>2. BodyOk(run[r], published, bd)
      <3> SUFFICES ASSUME run[r].at \in Rebuilding \cup {"count"}
                   PROVE  /\ 1 <= run[r].body /\ run[r].body <= bd
                          /\ \A k \in Kinds : published[k] <= run[r].body
        BY DEF BodyOk
      <3>1. run[r].at # "off"
        BY DEF Rebuilding, Filling
      <3>2. run[r] \in RunStates
        BY <3>1, AtPlace DEF IndexerInv
      <3>3. run[r].body \in Nat
        BY <3>2 DEF RunStates, Bodies
      <3> QED
        BY <1>3, <2>1, <3>3 DEF RunOk, BodyOk
    <2> QED
      BY <2>1, <2>2 DEF RunOk
  <1>8. body' = bd
    BY <1>1
  <1> HIDE DEF bd
  <1> QED
    BY <1>1, <1>4, <1>6, <1>7, <1>8 DEF IndexerInv

-----------------------------------------------------------------------------
(* The invariant.                                                          *)

LEMMA InitHolds == ASSUME IndexerBounds PROVE IndexerInit => IndexerInv
  <1> SUFFICES ASSUME IndexerInit PROVE IndexerInv
    OBVIOUS
  <1>1. IndicesTyped(indices)
    <2> DEFINE none == [n \in {} |-> Dynamic]
    <2>1. none \in [DOMAIN none -> Index] /\ DOMAIN none \subseteq Versions
      OBVIOUS
    <2> HIDE DEF none
    <2>2. indices = [k \in Kinds |-> none]
      BY DEF IndexerInit, none
    <2> QED
      BY <2>1, <2>2 DEF IndicesTyped
  <1>2. VarsTyped
    BY <1>1 DEF VarsTyped, IndexerInit, Bodies, IndexerBounds
  <1>3. IndexOk(indices, alias, published, body)
    BY DEF IndexerInit, IndexOk
  <1>4. \A r \in Runs : run[r].at = "off"
    BY DEF IndexerInit, Off
  <1>5. \A r \in Runs : RunOk(run[r], indices, alias, published, body)
    BY <1>4, OverIsOk
  <1> QED
    BY <1>2, <1>3, <1>5 DEF IndexerInv

LEMMA StepKeeps ==
    ASSUME OneRunAtATime, IndexerBounds
    PROVE  IndexerInv /\ [Next]_indexerVars => IndexerInv'
  <1> SUFFICES ASSUME IndexerInv, [Next]_indexerVars PROVE IndexerInv'
    OBVIOUS
  <1>1. ASSUME NEW r \in Runs, NEW force \in BOOLEAN, Launch(r, force) PROVE IndexerInv'
    BY <1>1, LaunchKeeps
  <1>2. ASSUME NEW r \in Runs, Step(r) PROVE IndexerInv'
    BY <1>2, CountAliasKeeps, ListIndicesKeeps, ProbeTargetKeeps, CreateTargetKeeps,
       HoldRefreshKeeps, FillPageKeeps, RefreshTargetKeeps, DiscardTargetKeeps, SwapAliasKeeps,
       DeleteLeftoverKeeps, SkipLeftoverKeeps, FinishKindKeeps DEF Step
  <1>3. ASSUME NEW r \in Runs, RequestFails(r) \/ Kill(r) PROVE IndexerInv'
    BY <1>3, RequestFailsKeeps, KillKeeps
  <1>4. CASE DeploySchema
    BY <1>4, DeploySchemaKeeps
  <1>5. CASE UNCHANGED indexerVars
    BY <1>5 DEF indexerVars, IndexerInv, VarsTyped
  <1> QED
    BY <1>1, <1>2, <1>3, <1>4, <1>5 DEF Next

LEMMA IndexerInvHolds == ASSUME OneRunAtATime, IndexerBounds PROVE Spec => []IndexerInv
  <1> QED
    BY InitHolds, StepKeeps, PTL DEF Spec

(* Every variable of the indexer keeps its type. *)
THEOREM IndexerTypeCorrect ==
    ASSUME OneRunAtATime, IndexerBounds PROVE Spec => []TypeOK
  <1>1. IndexerInv => TypeOK
    BY DEF IndexerInv, VarsTyped, IndicesTyped, TypeOK, Index, Bodies
  <1> QED
    BY <1>1, IndexerInvHolds, PTL

(* Whatever fails and wherever runs are killed, an alias that was moved    *)
(* once serves the whole corpus under the mapping of the run that moved    *)
(* it, and no run writes to what it serves (reindex and swap_alias).       *)
THEOREM AliasStaysWhole ==
    ASSUME OneRunAtATime, IndexerBounds PROVE Spec => []AliasIsTrustworthy
  <1>1. IndexerInv => ServesTheCorpus
    <2> SUFFICES ASSUME IndexerInv, NEW k \in Kinds, published[k] # 0
                 PROVE  /\ alias[k] # NoIndex
                        /\ indices[k][alias[k]] = [body |-> published[k], pages |-> AllPages]
      BY DEF ServesTheCorpus
    <2> QED
      BY DEF IndexerInv, IndexOk
  <1>2. IndexerInv => NeverFillsTheLiveIndex
    BY DEF IndexerInv, RunOk, TargetOk, Filling, NeverFillsTheLiveIndex
  <1> QED
    BY <1>1, <1>2, IndexerInvHolds, PTL DEF AliasIsTrustworthy

(* A run that ends without an error leaves both aliases serving: by its    *)
(* own swaps, or because it counted documents behind both (bootstrap).     *)
THEOREM DoneRunsServe ==
    ASSUME OneRunAtATime, IndexerBounds PROVE Spec => []DoneMeansServing
  <1>1. IndexerInv => DoneMeansServing
    <2> SUFFICES ASSUME IndexerInv, NEW r \in Runs, run[r].at = "done", NEW k \in Kinds
                 PROVE  Populated(k)
      BY DEF DoneMeansServing
    <2>1. alias[k] # NoIndex
      BY DEF IndexerInv, RunOk, ProgressOk
    <2>2. indices[k][alias[k]] = [body |-> published[k], pages |-> AllPages]
      BY <2>1 DEF IndexerInv, IndexOk
    <2>3. AllPages # {}
      BY DEF AllPages, IndexerBounds
    <2> QED
      BY <2>1, <2>2, <2>3 DEF Populated
  <1> QED
    BY <1>1, IndexerInvHolds, PTL

(* A rebuild whose deletions all succeed leaves one index per alias, also  *)
(* when runs before it died half way (the cleanup of reindex).             *)
THEOREM RebuildsSweep ==
    ASSUME OneRunAtATime, IndexerBounds PROVE Spec => []RebuildSweepsLeftovers
  <1>1. IndexerInv => RebuildSweepsLeftovers
    BY DEF IndexerInv, RunOk, ProgressOk, Swept, RebuildSweepsLeftovers
  <1> QED
    BY <1>1, IndexerInvHolds, PTL

-----------------------------------------------------------------------------
(* The job implements PublishedIndex: what an alias serves is a function   *)
(* of the alias and of what was published, and only a swap changes these.  *)

View(al, pub) ==
    [k \in Kinds |-> IF al[k] = NoIndex THEN [version |-> 0]
                     ELSE [version |-> al[k], body |-> pub[k], pages |-> AllPages]]

LEMMA ServedIsPublished ==
    ASSUME NEW ind, NEW al, NEW pub, NEW bd, IndexOk(ind, al, pub, bd)
    PROVE  View(al, pub) =
              [k \in Kinds |->
                  IF al[k] = NoIndex THEN [version |-> 0]
                  ELSE [version |-> al[k], body |-> ind[k][al[k]].body,
                        pages |-> ind[k][al[k]].pages]]
  <1>1. \A k \in Kinds : al[k] # NoIndex =>
           ind[k][al[k]].body = pub[k] /\ ind[k][al[k]].pages = AllPages
    <2> SUFFICES ASSUME NEW k \in Kinds, al[k] # NoIndex
                 PROVE  ind[k][al[k]].body = pub[k] /\ ind[k][al[k]].pages = AllPages
      OBVIOUS
    <2>1. ind[k][al[k]] = [body |-> pub[k], pages |-> AllPages]
      BY DEF IndexOk
    <2> QED
      BY <2>1
  <1> QED
    BY <1>1 DEF View

LEMMA ServingIsView ==
    ASSUME IndexerInv, IndexerInv'
    PROVE  Serving = View(alias, published) /\ Serving' = View(alias', published')
  <1>1. IndexOk(indices, alias, published, body) /\ IndexOk(indices', alias', published', body')
    BY DEF IndexerInv
  <1> QED
    BY <1>1, ServedIsPublished DEF Serving

\* Deleting an index takes no alias away, because an alias that has been moved is up.
LEMMA DeletionsSpareAliases ==
    ASSUME IndexerInv, IndexerInv', NEW k \in Kinds, NEW n, DeleteIndex(k, n),
           published' = published
    PROVE  alias' = alias
  <1>1. alias' = [alias EXCEPT ![k] = IF alias[k] = n THEN NoIndex ELSE alias[k]]
    BY DEF DeleteIndex
  <1>2. DOMAIN alias = Kinds /\ alias = [j \in Kinds |-> alias[j]]
    BY DEF IndexerInv, VarsTyped
  <1>3. (alias[k] = NoIndex <=> published[k] = 0) /\ (alias'[k] = NoIndex <=> published[k] = 0)
    BY DEF IndexerInv, IndexOk
  <1>4. alias'[k] = alias[k]
    BY <1>1, <1>2, <1>3
  <1> QED
    BY <1>1, <1>2, <1>4

LEMMA OnlySwapsAreSeen ==
    ASSUME IndexerBounds, IndexerInv, IndexerInv', [Next]_indexerVars
    PROVE  \/ UNCHANGED <<alias, published>>
           \/ \E r \in Runs : SwapAlias(r)
  <1>1. ASSUME NEW r \in Runs, DiscardTarget(r) PROVE UNCHANGED <<alias, published>>
    <2>1. run[r].kind \in Kinds
      BY <1>1, AtPlace DEF DiscardTarget, IndexerInv, RunStates
    <2> QED
      BY <1>1, <2>1, DeletionsSpareAliases DEF DiscardTarget
  <1>2. ASSUME NEW r \in Runs, DeleteLeftover(r) PROVE UNCHANGED <<alias, published>>
    <2>1. run[r].kind \in Kinds
      BY <1>2, AtPlace DEF DeleteLeftover, IndexerInv, RunStates
    <2> QED
      BY <1>2, <2>1, DeletionsSpareAliases DEF DeleteLeftover
  <1>3. ASSUME NEW r \in Runs, Step(r), ~SwapAlias(r) PROVE UNCHANGED <<alias, published>>
    BY <1>1, <1>2, <1>3 DEF Step, CountAlias, ListIndices, ProbeTarget, CreateTarget, HoldRefresh,
       FillPage, RefreshTarget, SkipLeftover, FinishKind
  <1> QED
    BY <1>3 DEF Next, Launch, RequestFails, Kill, DeploySchema, indexerVars

LEMMA SwapPublishes ==
    ASSUME IndexerBounds, IndexerInv, IndexerInv', NEW r \in Runs, SwapAlias(r)
    PROVE  Published!Next
  <1> DEFINE k == run[r].kind
             n == run[r].target
             new == [version |-> n, body |-> run[r].body, pages |-> AllPages]
  <1>1. run[r].at = "swap"
    BY DEF SwapAlias
  <1>2. /\ k \in Kinds /\ n \in Versions /\ n \in DOMAIN indices[k] /\ alias[k] < n
        /\ run[r].body \in 1..body /\ published[k] <= run[r].body
    BY <1>1, BeforeSwap
  <1>3. alias' = [alias EXCEPT ![k] = n] /\ published' = [published EXCEPT ![k] = run[r].body]
    BY <1>2 DEF SwapAlias, Exists
  <1>4. /\ alias \in [Kinds -> Versions \cup {NoIndex}] /\ published \in [Kinds -> Bodies]
        /\ body \in Bodies
    BY DEF IndexerInv, VarsTyped
  <1>5. n # NoIndex
    BY <1>2 DEF NoIndex, Versions, IndexerBounds
  <1>6. Serving = View(alias, published) /\ Serving' = View(alias', published')
    BY ServingIsView
  <1>7. Serving' = [Serving EXCEPT ![k] = new]
    BY <1>2, <1>3, <1>4, <1>5, <1>6 DEF View
  <1>8. run[r].body \in 1..MaxBody
    BY <1>2, <1>4 DEF Bodies, IndexerBounds
  <1>9. n \in 1..MaxVersion
    BY <1>2 DEF Versions
  <1>10. n > Serving[k].version
    BY <1>2, <1>4, <1>6 DEF View, NoIndex, Versions, IndexerBounds
  <1>11. run[r].body >= Published!BodyOf(Serving[k])
    BY <1>2, <1>4, <1>6, <1>8 DEF View, Published!BodyOf, Published!Down, Bodies
  <1>12. Published!Publish(k)
    BY <1>7, <1>8, <1>9, <1>10, <1>11 DEF Published!Publish, AllPages
  <1>13. k \in DOMAIN Serving
    BY <1>2 DEF Serving
  <1> QED
    BY <1>12, <1>13 DEF Published!Next

(* To the API the job is PublishedIndex: an alias comes up once, and only  *)
(* ever moves, in one step, to a newer and complete index under a mapping  *)
(* no older than before (main.rs, reindex and swap_alias).                 *)
THEOREM IndexerImplementsPublishedIndex ==
    ASSUME OneRunAtATime, IndexerBounds PROVE Spec => PublishesWholeIndices
  <1>1. IndexerInit => Published!Init
    BY DEF IndexerInit, Published!Init, Published!Down, Serving, Kinds
  <1>2. IndexerInv /\ IndexerInv' /\ [Next]_indexerVars => [Published!Next]_Serving
    <2> SUFFICES ASSUME IndexerInv, IndexerInv', [Next]_indexerVars
                 PROVE  Published!Next \/ Serving' = Serving
      OBVIOUS
    <2>1. CASE UNCHANGED <<alias, published>>
      BY <2>1, ServingIsView
    <2>2. CASE \E r \in Runs : SwapAlias(r)
      BY <2>2, SwapPublishes
    <2> QED
      BY <2>1, <2>2, OnlySwapsAreSeen
  <1> QED
    BY <1>1, <1>2, IndexerInvHolds, PTL DEF Spec, PublishesWholeIndices, Published!Spec
=============================================================================
