--------------------------- MODULE PublishedIndex ---------------------------
(***************************************************************************)
(* What the search indexer promises to the API, which only ever queries the *)
(* aliases: an alias comes up once, and from then on it only moves to a     *)
(* newer index that already holds the whole corpus, under a mapping no      *)
(* older than the one before.                                              *)
(***************************************************************************)
EXTENDS Integers

CONSTANTS Pages, MaxVersion, MaxBody

VARIABLE serving    \* kind -> what its alias serves

Down == [version |-> 0]

BodyOf(index) == IF index = Down THEN 0 ELSE index.body

Init == serving = [k \in {"poems", "poets"} |-> Down]

\* One alias moves, in one step, to a newer and complete index.
Publish(k) ==
    \E version \in 1..MaxVersion, body \in 1..MaxBody :
        /\ version > serving[k].version
        /\ body >= BodyOf(serving[k])
        /\ serving' = [serving EXCEPT ![k] =
              [version |-> version, body |-> body, pages |-> 1..Pages]]

Next == \E k \in DOMAIN serving : Publish(k)

Spec == Init /\ [][Next]_serving

=============================================================================
