----------------------------- MODULE MCPaidOrder -----------------------------
(* PaidOrder for TLC, without refunds beside the cancellation's.             *)
EXTENDS PaidOrder

MCAmount == [r \in Part |-> 1]
=============================================================================
