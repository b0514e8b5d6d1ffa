---------------------------- MODULE MCFulfilment ----------------------------
(***************************************************************************)
(* Returns, Fulfilment and Subscriptions for TLC, side by side: the        *)
(* initial state chooses which of them runs, so the run explores the state *)
(* spaces of all three.                                                    *)
(***************************************************************************)
EXTENDS OrderCare, TLC

VARIABLE part

\* Shipping costs below, at and above the threshold of 20 percent over 0 and 1000.
MCCost == {0, 1000, 1150}

\* Every item is refunded with one unit of money.
MCAmount == [i \in Item |-> 1]

MCInit ==
    Init /\ F!Init /\ S!Init /\ part \in {"fulfilment", "returns", "subscriptions"}

MCNext ==
    \/ part = "fulfilment" /\ F!Next /\ UNCHANGED <<part, vars, subVars>>
    \/ part = "returns" /\ Next /\ UNCHANGED <<part, fulfilmentVars, subVars>>
    \/ part = "subscriptions" /\ S!Next /\ UNCHANGED <<part, vars, fulfilmentVars>>

MCSpec == MCInit /\ [][MCNext]_<<part, vars, fulfilmentVars, subVars>>

Symmetry == Permutations(Item) \cup Permutations(Task) \cup Permutations(Return)
==============================================================================
