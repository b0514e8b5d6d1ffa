------------------------------ MODULE MCProfile ------------------------------
(***************************************************************************)
(* Profile for TLC: the initial state chooses which of the two runs.       *)
(***************************************************************************)
EXTENDS Profile, TLC

VARIABLE part

MCInit == Init /\ W!Init /\ part \in {"addresses", "warehouses"}

MCNext ==
    \/ part = "addresses" /\ Next /\ UNCHANGED <<part, houseVars>>
    \/ part = "warehouses" /\ W!Next /\ UNCHANGED <<part, vars>>

MCSpec == MCInit /\ [][MCNext]_<<part, vars, houseVars>>

Symmetry == Permutations(Task)
==============================================================================
