------------------------------ MODULE MCRefunds ------------------------------
(***************************************************************************)
(* RefundReservation and PaidOrder for TLC, side by side: the initial      *)
(* state chooses which of them runs.                                       *)
(***************************************************************************)
EXTENDS Refunds, TLC

CONSTANTS a, b

VARIABLE part

\* Item a is dearer than b; the two make up the total.
MCAmount == [i \in Item |-> IF i = a THEN 2 ELSE 1]

MCPartAmount == [r \in Part |-> 1]

Symmetry == Permutations(Task)

MCInit ==
    /\ Init /\ P!Init
    /\ \/ part = "item refunds"
       \/ part = "paid order" /\ cumulative = Absent /\ linked = 1

MCNext ==
    \/ part = "item refunds" /\ Next /\ UNCHANGED <<part, paidVars>>
    \/ part = "paid order" /\ P!Next /\ UNCHANGED <<part, vars>>

MCSpec == MCInit /\ [][MCNext]_<<part, vars, paidVars>>
=============================================================================
