--------------------------- MODULE MCCheckoutOrder ---------------------------
(* Instances of CheckoutOrder for TLC. *)
EXTENDS CheckoutOrder, TLC

CONSTANTS p1, p2

\* Every order has the same cart: a physical product and, where the instance
\* has it, the digital one.
MCCart == [o \in Order |-> Product]

\* One unit of each product, so that two orders compete.
MCStock == [p \in Product |-> 1]

\* Enough for both.
MCPlenty == [p \in Product |-> 2]

\* Every request has a key of its own, or all have the same.
OwnKeys == [o \in Order |-> o]
SharedKey == [o \in Order |-> "key"]

Symmetry == Permutations(Worker)
=============================================================================
