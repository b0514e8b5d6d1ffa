----------------------------- MODULE StockLedger -----------------------------
(***************************************************************************)
(* What the marketplace expects of products.stockQuantity: a counter per   *)
(* product that units are taken from and returned to in single steps.  A   *)
(* restore that was asked for is performed once and in full, or reported   *)
(* as not performed; it never writes back a quantity that another writer   *)
(* has changed meanwhile.  StockCas is the implementation.                 *)
(***************************************************************************)
EXTENDS Integers

CONSTANTS
    Product,    \* product ids
    Restorer,   \* handler runs that restore stock for one order item
    ProductOf,  \* the item's productId
    Quantity,   \* the item's quantity
    Amount      \* quantities of orders and of edits

VARIABLES
    stock,    \* stockQuantity of each product
    outcome   \* what each restore has come to

ledger == <<stock, outcome>>

LedgerInit ==
    /\ stock \in [Product -> Nat]
    /\ outcome = [r \in Restorer |-> "none"]

Ask(r) ==
    /\ outcome[r] = "none"
    /\ outcome' = [outcome EXCEPT ![r] = "asked"]
    /\ UNCHANGED stock

Give(r) ==
    /\ outcome[r] = "asked"
    /\ outcome' = [outcome EXCEPT ![r] = "done"]
    /\ stock' = [stock EXCEPT ![ProductOf[r]] = stock[ProductOf[r]] + Quantity[r]]

GiveUp(r) ==
    /\ outcome[r] = "asked"
    /\ outcome' = [outcome EXCEPT ![r] = "refused"]
    /\ UNCHANGED stock

Take(p, n) ==
    /\ stock[p] >= n
    /\ stock' = [stock EXCEPT ![p] = stock[p] - n]
    /\ UNCHANGED outcome

Add(p, n) ==
    /\ stock' = [stock EXCEPT ![p] = stock[p] + n]
    /\ UNCHANGED outcome

Replace(p, n) ==
    /\ stock' = [stock EXCEPT ![p] = n]
    /\ UNCHANGED outcome

LedgerNext ==
    \/ \E r \in Restorer : Ask(r) \/ Give(r) \/ GiveUp(r)
    \/ \E p \in Product, n \in Amount : Take(p, n) \/ Add(p, n) \/ Replace(p, n)

LedgerSpec == LedgerInit /\ [][LedgerNext]_ledger
=============================================================================
