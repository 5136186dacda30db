---------------------------- MODULE MCRateLimiter ----------------------------
(***************************************************************************)
(* Instances of RateLimiter for TLC.  Init chooses one of two environments *)
(* and keeps it: in the "full" one lookups straddle a second, the process  *)
(* restarts and the map fills; in the "orderly" one a request is checked   *)
(* in the second in which it read the clock, and nothing is forgotten.     *)
(***************************************************************************)
EXTENDS RateLimiter, TLC

CONSTANTS u1, k1, k2, a1,
          Environments    \* the environments of the run

VARIABLE environment

MCOwner == [k \in Keys |-> u1]

\* One user on a plan with a burst below the hourly allowance and an address ceiling
\* between the two, so that each of the three limits can be the one that refuses.
MCPlan == [u \in Users |-> [requests |-> 3, burst |-> 2, ipCeiling |-> 2]]

\* A plan whose only tight limit is the burst.
MCBurstPlan == [u \in Users |-> [requests |-> 9, burst |-> 1, ipCeiling |-> NoCeiling]]

\* Full: one key.  Orderly: two keys of the one user.
One == {k1}
Full == INSTANCE RateLimiter WITH Keys <- One, Owner <- [k \in One |-> u1]
Orderly == INSTANCE RateLimiter WITH
    Addresses <- {a1}, MaxTracked <- 9, MaxDelay <- 0, MaxClock <- 3,
    MaxCharges <- 30, MaxRestarts <- 0

MCInit ==
    /\ environment \in Environments
    /\ environment = "full" => Full!Init
    /\ environment = "orderly" => Orderly!Init

MCNext ==
    /\ \/ environment = "full" /\ Full!Next
       \/ environment = "orderly" /\ Orderly!Next
    /\ UNCHANGED environment

MCSpec == MCInit /\ [][MCNext]_<<vars, environment>>

Symmetry == Permutations(Requests)

=============================================================================
