----------------------------- MODULE MCAccounts ------------------------------
(***************************************************************************)
(* Instances of SignIn, AccountKeys and Viewer for TLC.  The three share   *)
(* no state: `exercised`, chosen by Init and never changed, says which one *)
(* runs.                                                                   *)
(***************************************************************************)
EXTENDS SignIn, AccountKeys, Viewer, TLC

CONSTANT Exercised    \* what the run exercises

VARIABLE exercised

\* Everybody has a picture of their own.
OwnPicture == [person \in People |-> person]

\* What does not run has one initial state.
MCInit ==
    /\ exercised \in Exercised
    /\ Init /\ (exercised # "sign-in" => \A i, j \in Identities : email[i] = email[j])
    /\ KeysInit /\ ViewerInit

MCNext ==
    /\ \/ exercised = "sign-in" /\ Next /\ UNCHANGED <<keysVars, viewerVars>>
       \/ exercised = "keys" /\ KeysNext /\ UNCHANGED <<vars, viewerVars>>
       \/ exercised = "header" /\ ViewerNext /\ UNCHANGED <<vars, keysVars>>
    /\ UNCHANGED exercised

MCSpec == MCInit /\ [][MCNext]_<<exercised, vars, keysVars, viewerVars>>

Symmetry == Permutations(SignIns) \cup Permutations(Identities) \cup Permutations(Emails)
            \cup Permutations(People) \cup Permutations(Tabs)

=============================================================================
