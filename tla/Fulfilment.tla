------------------------------ MODULE Fulfilment ------------------------------
(***************************************************************************)
(* A paid order of physical items on its way to the buyer: the buyer       *)
(* confirms receipt, the seller or an admin changes order and item status  *)
(* (orders/status.rs), the seller changes the cost of shipping and the     *)
(* buyer approves or rejects it (orders/shipping.rs), capture_payment and  *)
(* the archive job write the same document.                                *)
(*                                                                         *)
(* A handler reads the order in one statement, decides on what it read,    *)
(* and writes in a later one.  Only three writes have a condition: those   *)
(* of confirm_item_receipt and of the general path of update_order_status  *)
(* compare orderStatus, the rejection of a shipping cost compares the      *)
(* status of the approval.  All items belong to one seller.                *)
(***************************************************************************)
EXTENDS Integers, FiniteSets

CONSTANTS
    Item,        \* products of the order, one unit each
    Task,        \* server tasks
    Cost,        \* shipping costs a seller may ask for, in cents
    Subtotal,    \* subtotalCents
    Shipping,    \* shippingCostCents as checkout wrote it
    Tax,         \* taxAmountCents as checkout wrote it
    Rate,        \* get_tax_rate_bps of the buyer's province
    MaxRequests, \* bound: requests made
    NoItem       \* the product of a request that names none

ItemStatus == {"pending", "shipped", "delivered", "refunded"}

OrderStatus ==
    {"confirmed", "awaiting_shipping_approval", "processing", "shipped", "delivered",
     "cancelled", "refunded", "return_requested", "return_approved",
     "return_rejected", "returned"}

Order ==
    [st : OrderStatus, items : [Item -> ItemStatus],
     pay : {"authorized", "captured", "refunded"},
     approval : {"none", "pending", "approved", "rejected"},
     newCost : Nat,    \* newCostCents of the approval
     sellerCost : Nat, \* sellerShippingCosts of the seller, 0 if absent
     ship : Nat, tax : Int, total : Int,
     restored : BOOLEAN, archived : BOOLEAN]

VARIABLES
    order,    \* the document
    refunded, \* Stripe: 1 once the payment was refunded in full
    pc,       \* the statement each task executes next
    item,     \* the product of its request
    to,       \* the status or the actor's intent of its request
    cost,     \* the shipping cost of its request
    snap,     \* the order as it read it
    todo,     \* items whose unit it still has to give back
    requests, \* history: requests so far
    units,    \* history: how often the unit of an item was given back
    stale,    \* history: 1 once an unconditional write hit a changed order
    reopened  \* history: 1 once a rejection found the approval pending again after another
              \* one, which came after its read, had restored the units

locals == <<pc, item, to, cost, snap, todo>>
history == <<units, stale, reopened>>
vars == <<order, refunded, locals, requests, history>>

Label ==
    {"idle", "confirm", "seller_ship", "status", "item_status", "cost", "approve",
     "reject_refund", "reject", "reject_refunded", "restore", "capture", "archive"}

TypeOK ==
    /\ order \in Order
    /\ refunded \in {0, 1}
    /\ pc \in [Task -> Label]
    /\ item \in [Task -> Item \cup {NoItem}]
    /\ to \in [Task -> ItemStatus \cup OrderStatus]
    /\ cost \in [Task -> Nat]
    /\ snap \in [Task -> Order]
    /\ todo \in [Task -> SUBSET Item]
    /\ requests \in 0..MaxRequests
    /\ units \in [Item -> Nat]
    /\ stale \in {0, 1}
    /\ reopened \in {0, 1}

\* The order as checkout and the confirming webhook leave it, its payment
\* authorized.
NewOrder ==
    [st |-> "confirmed", items |-> [i \in Item |-> "pending"], pay |-> "authorized",
     approval |-> "none", newCost |-> 0, sellerCost |-> 0, ship |-> Shipping,
     tax |-> Tax, total |-> Subtotal + Shipping + Tax,
     restored |-> FALSE, archived |-> FALSE]

Init ==
    /\ order = NewOrder
    /\ refunded = 0
    /\ pc = [t \in Task |-> "idle"]
    /\ item = [t \in Task |-> NoItem]
    /\ to = [t \in Task |-> "pending"]
    /\ cost = [t \in Task |-> 0]
    /\ snap = [t \in Task |-> NewOrder]
    /\ todo = [t \in Task |-> {}]
    /\ requests = 0
    /\ units = [i \in Item |-> 0]
    /\ stale = 0
    /\ reopened = 0

-----------------------------------------------------------------------------
(* Pure helpers. *)

is_valid_item_transition(from, new) ==
    <<from, new>> \in {<<"pending", "shipped">>, <<"shipped", "delivered">>,
                       <<"delivered", "refunded">>}

is_valid_order_transition(from, new) ==
    <<from, new>> \in
        {<<"confirmed", "processing">>, <<"confirmed", "awaiting_shipping_approval">>,
         <<"confirmed", "cancelled">>, <<"awaiting_shipping_approval", "processing">>,
         <<"awaiting_shipping_approval", "cancelled">>, <<"processing", "shipped">>,
         <<"processing", "cancelled">>, <<"shipped", "delivered">>,
         <<"shipped", "return_requested">>, <<"delivered", "return_requested">>,
         <<"delivered", "refunded">>, <<"return_requested", "return_approved">>,
         <<"return_requested", "return_rejected">>, <<"return_approved", "returned">>,
         <<"returned", "refunded">>}

all_items_delivered(its) == \A i \in Item : its[i] = "delivered"
all_items_shipped(its) == \A i \in Item : its[i] \in {"shipped", "delivered"}

\* Integer division of the code rounds towards zero.
Quotient(a, b) == IF a >= 0 THEN a \div b ELSE -((-a) \div b)

signum(d) == IF d > 0 THEN 1 ELSE IF d < 0 THEN -1 ELSE 0

shipping_tax_difference_cents(d) == Quotient(d * Rate + 50000 * signum(d), 100000)

max_allowed_shipping_cents(old) == IF old = 0 THEN 50000 ELSE (old * 120 + 50) \div 100

shipping_update_requires_approval(old, new) ==
    IF old > 0 THEN Quotient((new - old) * 10000, old) > 2000 ELSE new > 0

\* The three amounts of an order whose shipping becomes n, computed from o.
NewTax(o, n) == o.tax + shipping_tax_difference_cents(n - o.ship)
NewTotal(o, n) ==
    o.total + (n - o.ship) + shipping_tax_difference_cents(n - o.ship)

-----------------------------------------------------------------------------
(* Steps of a task. *)

Begin(t, label, i, s, c) ==
    /\ pc[t] = "idle"
    /\ requests < MaxRequests
    /\ requests' = requests + 1
    /\ pc' = [pc EXCEPT ![t] = label]
    /\ item' = [item EXCEPT ![t] = i]
    /\ to' = [to EXCEPT ![t] = s]
    /\ cost' = [cost EXCEPT ![t] = c]
    /\ snap' = [snap EXCEPT ![t] = order]
    /\ UNCHANGED <<order, refunded, todo, history>>

Goto(t, label) ==
    /\ pc' = [pc EXCEPT ![t] = label]
    /\ UNCHANGED <<item, to, cost, snap, todo>>

End(t) ==
    /\ pc' = [pc EXCEPT ![t] = "idle"]
    /\ item' = [item EXCEPT ![t] = NoItem]
    /\ to' = [to EXCEPT ![t] = "pending"]
    /\ cost' = [cost EXCEPT ![t] = 0]
    /\ snap' = [snap EXCEPT ![t] = NewOrder]
    /\ todo' = [todo EXCEPT ![t] = {}]

\* A handler's last write, without a condition.
Overwrite(t, new) ==
    /\ order' = new
    /\ stale' = IF order = snap[t] THEN stale ELSE 1
    /\ End(t)
    /\ UNCHANGED <<refunded, requests, units, reopened>>

\* A handler's last write if orderStatus is still what it read; otherwise it
\* answers "please retry".
WriteIfStatus(t, new) ==
    /\ order' = IF order.st = snap[t].st THEN new ELSE order
    /\ End(t)
    /\ UNCHANGED <<refunded, requests, history>>

\* A statement fails, or the task is dropped between two statements.
Drop(t) ==
    /\ pc[t] # "idle"
    /\ End(t)
    /\ UNCHANGED <<order, refunded, requests, history>>

-----------------------------------------------------------------------------
(* confirm_item_receipt. *)

\* The buyer confirms an item that is shipped.
ConfirmBegin(t, i) ==
    /\ order.items[i] = "shipped"
    /\ Begin(t, "confirm", i, "delivered", 0)

ConfirmWrite(t) ==
    /\ pc[t] = "confirm"
    /\ LET its == [snap[t].items EXCEPT ![item[t]] = "delivered"]
           done == all_items_delivered(its) /\ snap[t].pay = "captured"
       IN WriteIfStatus(t, [order EXCEPT !.items = its,
                                         !.st = IF done THEN "delivered" ELSE @])

-----------------------------------------------------------------------------
(* update_order_status. *)

\* The order is read and the request checked; shipping has a gate of its own.
StatusBegin(t, by, new) ==
    /\ ~order.archived
    /\ by = "seller" => new # "delivered"
    /\ new = "shipped" => order.approval \notin {"pending", "rejected"}
    /\ is_valid_order_transition(order.st, new)
    /\ Begin(t, IF by = "seller" /\ new = "shipped" THEN "seller_ship" ELSE "status",
             NoItem, new, 0)

\* The seller ships: every item of the seller, whatever its status.
SellerShipWrite(t) ==
    /\ pc[t] = "seller_ship"
    /\ Overwrite(t, [order EXCEPT !.items = [i \in Item |-> "shipped"],
                                  !.st = "shipped"])

\* Every other change; "shipped" and "delivered" cascade to the items.
StatusWrite(t) ==
    /\ pc[t] = "status"
    /\ LET old == snap[t].items
           its == CASE to[t] = "shipped" ->
                         [i \in Item |-> IF old[i] \in {"delivered", "refunded"}
                                         THEN old[i] ELSE "shipped"]
                    [] to[t] = "delivered" -> [i \in Item |-> "delivered"]
                    [] OTHER -> order.items
       IN WriteIfStatus(t, [order EXCEPT !.st = to[t], !.items = its])

-----------------------------------------------------------------------------
(* update_item_status. *)

ItemBegin(t, by, i, new) ==
    /\ ~order.archived
    /\ by = "seller" => /\ new # "delivered"
                        /\ is_valid_item_transition(order.items[i], new)
    /\ Begin(t, "item_status", i, new, 0)

\* The order follows its items if the payment is captured, or if it was read
\* before shipping.
ItemWrite(t) ==
    /\ pc[t] = "item_status"
    /\ LET old == snap[t]
           its == [old.items EXCEPT ![item[t]] = to[t]]
           all == all_items_delivered(its)
           deliver == all /\ old.st # "delivered" /\ old.pay = "captured"
           ship == ~all /\ all_items_shipped(its) /\ old.st \in {"processing", "confirmed"}
       IN Overwrite(t, [order EXCEPT !.items = its,
                                     !.st = IF deliver THEN "delivered"
                                            ELSE IF ship THEN "shipped" ELSE @])

-----------------------------------------------------------------------------
(* update_shipping_cost. *)

CostBegin(t, c) ==
    /\ order.st \in {"confirmed", "processing"}
    /\ order.pay \in {"authorized", "captured"}
    /\ Begin(t, "cost", NoItem, "pending", c)

\* A raise beyond the threshold waits for the buyer.  Otherwise shipping, tax and
\* total are written, of a captured payment the shipping only.
CostWrite(t) ==
    /\ pc[t] = "cost"
    /\ LET old == snap[t]
           c == cost[t]
           open == old.pay # "captured"
       IN IF shipping_update_requires_approval(old.sellerCost, c)
          THEN Overwrite(t, [order EXCEPT !.approval = "pending", !.newCost = c])
          ELSE Overwrite(t, [order EXCEPT !.sellerCost = c, !.ship = c,
                                          !.tax = IF open THEN NewTax(old, c) ELSE @,
                                          !.total = IF open THEN NewTotal(old, c) ELSE @])

-----------------------------------------------------------------------------
(* approve_shipping_cost. *)

\* The buyer approves the cost that is pending.
ApproveBegin(t) ==
    /\ order.approval = "pending"
    /\ order.newCost <= max_allowed_shipping_cents(order.sellerCost)
    /\ Begin(t, "approve", NoItem, "pending", order.newCost)

ApproveWrite(t) ==
    /\ pc[t] = "approve"
    /\ LET old == snap[t]
           c == cost[t]
       IN Overwrite(t, [order EXCEPT !.sellerCost = c, !.ship = c,
                                     !.tax = NewTax(old, c), !.total = NewTotal(old, c),
                                     !.approval = "approved", !.newCost = 0])

\* The buyer rejects it; a captured payment is refunded first.
RejectBegin(t) ==
    /\ order.approval = "pending"
    /\ Begin(t, IF order.pay = "captured" THEN "reject_refund" ELSE "reject",
             NoItem, "cancelled", 0)

\* Stripe refunds in full; it may fail, and may refund although the caller
\* sees an error.
RejectRefund(t) ==
    /\ pc[t] = "reject_refund"
    /\ \/ Goto(t, "reject_refunded") /\ refunded' = 1
       \/ Goto(t, "reject") /\ refunded' \in {refunded, 1}
    /\ UNCHANGED <<order, requests, history>>

\* MUTANT: the units are given back although the order read says they were.
RejectUpdateAgain(t) ==
    /\ pc[t] \in {"reject", "reject_refunded"}
    /\ IF order.approval # "pending"
       THEN End(t) /\ UNCHANGED order
       ELSE /\ order' = [order EXCEPT !.approval = "rejected", !.st = "cancelled",
                                      !.restored = TRUE, !.newCost = 0,
                                      !.pay = IF pc[t] = "reject_refunded"
                                              THEN "refunded" ELSE @]
            /\ pc' = [pc EXCEPT ![t] = "restore"]
            /\ todo' = [todo EXCEPT ![t] = Item]
            /\ UNCHANGED <<item, to, cost, snap>>
    /\ reopened' = IF order.approval = "pending" /\ order.restored /\ ~snap[t].restored
                   THEN 1 ELSE reopened
    /\ UNCHANGED <<refunded, requests, units, stale>>

\* The update hits only an approval that is still pending.
RejectUpdate(t) ==
    /\ pc[t] \in {"reject", "reject_refunded"}
    /\ IF order.approval # "pending"
       THEN End(t) /\ UNCHANGED order
       ELSE /\ order' = [order EXCEPT !.approval = "rejected", !.st = "cancelled",
                                      !.restored = TRUE, !.newCost = 0,
                                      !.pay = IF pc[t] = "reject_refunded"
                                              THEN "refunded" ELSE @]
            /\ pc' = [pc EXCEPT ![t] = "restore"]
            /\ todo' = [todo EXCEPT ![t] = IF snap[t].restored THEN {} ELSE Item]
            /\ UNCHANGED <<item, to, cost, snap>>
    /\ reopened' = IF order.approval = "pending" /\ order.restored /\ ~snap[t].restored
                   THEN 1 ELSE reopened
    /\ UNCHANGED <<refunded, requests, units, stale>>

\* restore_stock_for_items, one product at a time.
Restore(t, i) ==
    /\ pc[t] = "restore"
    /\ i \in todo[t]
    /\ units' = [units EXCEPT ![i] = @ + 1]
    /\ todo' = [todo EXCEPT ![t] = @ \ {i}]
    /\ UNCHANGED <<order, refunded, pc, item, to, cost, snap, requests, stale, reopened>>

RestoreEnd(t) ==
    /\ pc[t] = "restore"
    /\ todo[t] = {}
    /\ End(t)
    /\ UNCHANGED <<order, refunded, requests, history>>

-----------------------------------------------------------------------------
(* capture_payment, and the job auto_archive_old_orders. *)

\* The order is read, and Stripe captures the payment.
CaptureBegin(t) ==
    /\ order.st \in {"confirmed", "awaiting_shipping_approval"}
    /\ order.pay = "authorized"
    /\ Begin(t, "capture", NoItem, "processing", 0)

CaptureWrite(t) ==
    /\ pc[t] = "capture"
    /\ Overwrite(t, [order EXCEPT !.st = "processing", !.pay = "captured"])

\* The job selects an order that has not been updated for a month.
ArchiveBegin(t) ==
    /\ order.st \in {"delivered", "cancelled"}
    /\ ~order.archived
    /\ Begin(t, "archive", NoItem, "pending", 0)

ArchiveWrite(t) ==
    /\ pc[t] = "archive"
    /\ Overwrite(t, [order EXCEPT !.archived = TRUE])

-----------------------------------------------------------------------------
Request(t) ==
    \/ \E i \in Item : ConfirmBegin(t, i)
    \/ \E by \in {"seller", "admin"} :
          \/ \E new \in OrderStatus : StatusBegin(t, by, new)
          \/ \E i \in Item, new \in ItemStatus : ItemBegin(t, by, i, new)
    \/ \E c \in Cost : CostBegin(t, c)
    \/ ApproveBegin(t)
    \/ RejectBegin(t)
    \/ CaptureBegin(t)
    \/ ArchiveBegin(t)

Step(t) ==
    \/ ConfirmWrite(t)
    \/ SellerShipWrite(t)
    \/ StatusWrite(t)
    \/ ItemWrite(t)
    \/ CostWrite(t)
    \/ ApproveWrite(t)
    \/ RejectRefund(t)
    \/ RejectUpdate(t)
    \/ \E i \in Item : Restore(t, i)
    \/ RestoreEnd(t)
    \/ CaptureWrite(t)
    \/ ArchiveWrite(t)

Next == \E t \in Task : Request(t) \/ Step(t) \/ Drop(t)

Spec == Init /\ [][Next]_vars

-----------------------------------------------------------------------------
(* Properties. *)

\* The rejection of a shipping cost gives every unit back at most once, also when two
\* rejections overlap, or when a late update_shipping_cost makes the approval pending
\* again on the order they cancelled.  It takes both at once to break this: a rejection
\* that read the order before another one, and a write over a changed order between them.
UnitsReturnedOnce ==
    /\ reopened = 0 => \A i \in Item : units[i] <= 1
    /\ reopened = 1 => stale = 1

\* As long as the payment is only authorized, totalAmountCents is the sum of subtotal,
\* shipping and tax.  Overlapping cost changes and approvals may lose a change, but
\* each writes the three amounts together.
TotalsAgree == order.pay = "authorized" => order.total = Subtotal + order.ship + order.tax

\* paymentStatus "refunded" has a refund at Stripe behind it, whatever answer of
\* Stripe was lost and whoever wrote the order in between.
RefundedIsReal == order.pay = "refunded" => refunded = 1

\* Unless an unconditional write hit an order that had changed since it was read, an
\* order whose shipping cost was rejected does not come back to the way to the buyer.
RejectedNotShipped ==
    stale = 0 /\ order.approval = "rejected" =>
        order.st \notin {"confirmed", "awaiting_shipping_approval", "processing", "shipped"}

===============================================================================
