-------------------------- MODULE MCSearchIndexer ---------------------------
(* Instances of SearchIndexer for TLC.                                     *)
EXTENDS SearchIndexer, TLC

Symmetry == Permutations(Runs)

=============================================================================
