------------------------------- MODULE Ranked ------------------------------
(***************************************************************************)
(* Sorting and filtering without recursion: a number is at the n-th place  *)
(* of a finite set of numbers if n-1 are below it, and what a filter keeps *)
(* of a sequence are the elements at a set of its places, in order.  (This *)
(* is what theorems are proved about; they need no induction.)             *)
(***************************************************************************)
EXTENDS Integers, Sequences, FiniteSets

Before(ids, id) == {other \in ids : other < id}
Nth(ids, n) == CHOOSE id \in ids : Cardinality(Before(ids, id)) = n - 1

ElementsAt(list, places) == [n \in 1..Cardinality(places) |-> list[Nth(places, n)]]
=============================================================================
