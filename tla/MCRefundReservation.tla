------------------------- MODULE MCRefundReservation -------------------------
(* RefundReservation for TLC. *)
EXTENDS RefundReservation, TLC

MCAmount == [i \in Item |-> 2]

Symmetry == Permutations(Task)
=============================================================================
