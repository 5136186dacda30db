----------------------------- MODULE MCKeyCache ------------------------------
(***************************************************************************)
(* Instances of KeyCache for TLC.  Init chooses one of two environments    *)
(* and keeps it: "revocation" has one key, whose owner, plan and           *)
(* revocation change under overlapping lookups; "spray" has three keys     *)
(* that never change and a cache of two.                                   *)
(***************************************************************************)
EXTENDS KeyCache, TLC

CONSTANTS SprayKeys, SprayPlans

VARIABLE environment

Spray == INSTANCE KeyCache WITH
    Keys <- SprayKeys, Plans <- SprayPlans, MaxClock <- 1, MaxChanges <- 0

MCInit ==
    \/ environment = "revocation" /\ Init
    \/ environment = "spray" /\ Spray!Init

MCNext ==
    /\ \/ environment = "revocation" /\ Next
       \/ environment = "spray" /\ Spray!Next
    /\ UNCHANGED environment

MCSpec == MCInit /\ [][MCNext]_<<vars, environment>>

Symmetry == Permutations(Requests) \cup Permutations(Plans) \cup Permutations(SprayKeys)

=============================================================================
