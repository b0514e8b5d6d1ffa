------------------------------ MODULE StockCas ------------------------------
(***************************************************************************)
(* How handlers change products.stockQuantity.  A restore reads the        *)
(* product and then calls update_document_cas with the quantity it read,   *)
(* up to three times (restore_stock_for_order in payments/webhooks.rs,     *)
(* restore_stock_for_items in orders/shipping.rs, and the same loop in     *)
(* refunds.rs and returns.rs).  Meanwhile checkout takes stock with a      *)
(* guarded UPDATE, the expiry job adds with an UPDATE, and a seller's edit *)
(* replaces the quantity.                                                  *)
(***************************************************************************)
EXTENDS Integers

CONSTANTS
    Product, Restorer, ProductOf, Quantity, Amount,   \* as in StockLedger
    MaxWrites   \* bound: writes to one product's stock

ASSUME RestorerAssumption ==
    /\ ProductOf \in [Restorer -> Product]
    /\ Quantity \in [Restorer -> Nat \ {0}]
ASSUME AmountAssumption == Amount \subseteq Nat
ASSUME BoundAssumption == MaxWrites \in Nat

\* for _attempt in 0..3
Attempts == 3

VARIABLES
    stock,    \* stockQuantity of each product
    pc,       \* where each restore is
    seen,     \* current_stock, as read
    attempt,  \* attempts made
    writes,   \* history: writes to each product's stock
    base,     \* history: writes when the restore began
    readAt,   \* history: writes when current_stock was read
    erred     \* history: restores that met a database error

vars == <<stock, pc, seen, attempt, writes, base, readAt, erred>>

TypeOK ==
    /\ stock \in [Product -> Nat]
    /\ pc \in [Restorer -> {"idle", "read", "cas", "done", "refused"}]
    /\ seen \in [Restorer -> Nat]
    /\ attempt \in [Restorer -> 0 .. Attempts]
    /\ writes \in [Product -> Nat]
    /\ base \in [Restorer -> Nat]
    /\ readAt \in [Restorer -> Nat]
    /\ erred \subseteq Restorer

Init ==
    /\ stock \in [Product -> Amount]
    /\ pc = [r \in Restorer |-> "idle"]
    /\ seen = [r \in Restorer |-> 0]
    /\ attempt = [r \in Restorer |-> 0]
    /\ writes = [p \in Product |-> 0]
    /\ base = [r \in Restorer |-> 0]
    /\ readAt = [r \in Restorer |-> 0]
    /\ erred = {}

Write(p, n) ==
    /\ writes[p] < MaxWrites
    /\ stock' = [stock EXCEPT ![p] = n]
    /\ writes' = [writes EXCEPT ![p] = writes[p] + 1]

-----------------------------------------------------------------------------
(* A restore of one item. *)

Begin(r) ==
    /\ pc[r] = "idle"
    /\ pc' = [pc EXCEPT ![r] = "read"]
    /\ base' = [base EXCEPT ![r] = writes[ProductOf[r]]]
    /\ UNCHANGED <<stock, seen, attempt, writes, readAt, erred>>

Read(r) ==
    /\ pc[r] = "read"
    /\ pc' = [pc EXCEPT ![r] = "cas"]
    /\ seen' = [seen EXCEPT ![r] = stock[ProductOf[r]]]
    /\ readAt' = [readAt EXCEPT ![r] = writes[ProductOf[r]]]
    /\ UNCHANGED <<stock, attempt, writes, base, erred>>

\* get_document(...).unwrap_or_default(): a failed read counts as a stock of 0.
ReadError(r) ==
    /\ pc[r] = "read"
    /\ pc' = [pc EXCEPT ![r] = "cas"]
    /\ seen' = [seen EXCEPT ![r] = 0]
    /\ readAt' = [readAt EXCEPT ![r] = writes[ProductOf[r]]]
    /\ erred' = erred \cup {r}
    /\ UNCHANGED <<stock, attempt, writes, base>>

\* MUTANT: the check of the quantity read is left out of the WHERE clause.
CasHitUnchecked(r) ==
    /\ pc[r] = "cas"
    /\ Write(ProductOf[r], seen[r] + Quantity[r])
    /\ pc' = [pc EXCEPT ![r] = "done"]
    /\ UNCHANGED <<seen, attempt, base, readAt, erred>>

\* update_document_cas finds the quantity it expects.
CasHit(r) ==
    /\ pc[r] = "cas"
    /\ stock[ProductOf[r]] = seen[r]
    /\ Write(ProductOf[r], seen[r] + Quantity[r])
    /\ pc' = [pc EXCEPT ![r] = "done"]
    /\ UNCHANGED <<seen, attempt, base, readAt, erred>>

\* MUTANT: the loop ends one attempt early.
CasMissShortLoop(r) ==
    /\ pc[r] = "cas"
    /\ stock[ProductOf[r]] # seen[r]
    /\ attempt' = [attempt EXCEPT ![r] = attempt[r] + 1]
    /\ pc' = [pc EXCEPT ![r] =
                 IF attempt[r] + 1 < Attempts - 1 THEN "read" ELSE "refused"]
    /\ UNCHANGED <<stock, seen, writes, base, readAt, erred>>

\* It finds another one: None, and the next attempt reads again.
CasMiss(r) ==
    /\ pc[r] = "cas"
    /\ stock[ProductOf[r]] # seen[r]
    /\ attempt' = [attempt EXCEPT ![r] = attempt[r] + 1]
    /\ pc' = [pc EXCEPT ![r] =
                 IF attempt[r] + 1 < Attempts THEN "read" ELSE "refused"]
    /\ UNCHANGED <<stock, seen, writes, base, readAt, erred>>

\* A failed statement is returned with `?'.
CasError(r) ==
    /\ pc[r] = "cas"
    /\ pc' = [pc EXCEPT ![r] = "refused"]
    /\ erred' = erred \cup {r}
    /\ UNCHANGED <<stock, seen, attempt, writes, base, readAt>>

-----------------------------------------------------------------------------
(* The other writers. *)

\* UPDATE products SET stock - n WHERE stock >= n, in the order transaction.
CheckoutTake(p, n) ==
    /\ stock[p] >= n
    /\ Write(p, stock[p] - n)
    /\ UNCHANGED <<pc, seen, attempt, base, readAt, erred>>

\* The UPDATE with stock + n of check_expired_authorizations.
ExpiryAdd(p, n) ==
    /\ Write(p, stock[p] + n)
    /\ UNCHANGED <<pc, seen, attempt, base, readAt, erred>>

\* update_product and bulk_update_products merge the seller's stockQuantity,
\* which validate_price_and_stock keeps from being negative.
SellerEdit(p, n) ==
    /\ Write(p, n)
    /\ UNCHANGED <<pc, seen, attempt, base, readAt, erred>>

-----------------------------------------------------------------------------
Restore(r) ==
    \/ Begin(r)
    \/ Read(r)
    \/ ReadError(r)
    \/ CasHit(r)
    \/ CasMiss(r)
    \/ CasError(r)

Next ==
    \/ \E r \in Restorer : Restore(r)
    \/ \E p \in Product, n \in Amount :
        CheckoutTake(p, n) \/ ExpiryAdd(p, n) \/ SellerEdit(p, n)

Spec == Init /\ [][Next]_vars

-----------------------------------------------------------------------------
(* Properties. *)

\* A restore gives up without a database error only after three other writers
\* changed the product while it ran: the loop never fails by itself.
RefusedOnlyUnderContention ==
    \A r \in Restorer :
        pc[r] = "refused" /\ r \notin erred =>
            writes[ProductOf[r]] - base[r] >= Attempts

\* How a restore looks to its caller.
Outcome(r) ==
    CASE pc[r] = "idle" -> "none"
      [] pc[r] \in {"read", "cas"} -> "asked"
      [] OTHER -> pc[r]

Ledger == INSTANCE StockLedger WITH outcome <- [r \in Restorer |-> Outcome(r)]

\* The read-compare-write loops implement the ledger: a restore changes the
\* stock once, by its quantity, whatever checkout, the expiry job and sellers
\* write between its read and its write.
ImplementsLedger == Ledger!LedgerSpec
=============================================================================
