-------------------------- MODULE RefundReservation --------------------------
(***************************************************************************)
(* refund_order_item (orders/refunds.rs): concurrent item refunds of one   *)
(* captured order.  Each request reserves its amount in                    *)
(* cumulativeRefundedCents with a compare-and-set loop, asks Stripe for    *)
(* the refund, takes the reservation back if Stripe fails, and otherwise   *)
(* writes the items array and restores the stock.                          *)
(*                                                                         *)
(* A request is a task with one step per database or Stripe call.  The     *)
(* order is in the state in which the handler accepts it: paymentStatus    *)
(* "captured", payoutStatus not "processing", the caller entitled.         *)
(***************************************************************************)
EXTENDS Integers, FiniteSets

CONSTANTS
    Item,        \* products of the order
    Task,        \* server tasks
    Amount,      \* calculate_refund_amount_cents of each item
    Total,       \* totalAmountCents
    MaxRequests, \* bound: requests made
    MaxFaults    \* bound: failed statements and Stripe calls, timeouts, crashes

Attempts == 3

\* The field cumulativeRefundedCents is absent until the first refund.
Absent == -1

ASSUME ItemAssumption == Item # {}
ASSUME AmountAssumption == Amount \in [Item -> Nat]
ASSUME TotalAssumption == Total \in Nat
ASSUME BoundAssumption == MaxRequests \in Nat /\ MaxFaults \in Nat

VARIABLES
    cumulative, \* cumulativeRefundedCents
    marked,     \* items with status "refunded"
    linked,     \* whether the order has a paymentIntentId
    paid,       \* Stripe: items refunded; the idempotency key names the item
    pc, item,   \* what each task executes, and for which item
    snapshot,   \* the items marked in the order the task read first
    attempt,    \* its round of the compare-and-set loop
    seen,       \* the value it read in this round, or before its rollback
    requests,   \* history: requests so far
    granted,    \* history: cents reserved and not taken back
    clobbered,  \* history: 1 once an unconditional write hit a changed value
    unheard,    \* history: items whose refund a request did not hear of
    faults      \* history: faults so far

order == <<cumulative, marked, linked>>
locals == <<pc, item, snapshot, attempt, seen>>
history == <<granted, clobbered, unheard>>
vars == <<order, paid, locals, requests, history, faults>>

Value(c) == IF c = Absent THEN 0 ELSE c

TypeOK ==
    /\ cumulative \in {Absent} \cup Nat
    /\ marked \subseteq Item
    /\ linked \in {0, 1}
    /\ paid \subseteq Item
    /\ pc \in [Task -> {"idle", "read", "init", "cas", "stripe", "rollback_read",
                        "rollback", "mark", "restock"}]
    /\ item \in [Task -> Item]
    /\ snapshot \in [Task -> SUBSET Item]
    /\ attempt \in [Task -> 1..Attempts]
    /\ seen \in [Task -> {Absent} \cup Nat]
    /\ requests \in 0..MaxRequests
    /\ granted \in Int
    /\ clobbered \in {0, 1}
    /\ unheard \subseteq Item
    /\ faults \in 0..MaxFaults

\* The order may have been refunded in part before, and a captured order may
\* lack its PaymentIntent.
Init ==
    /\ cumulative \in {Absent, 0}
    /\ marked = {}
    /\ linked \in {0, 1}
    /\ paid = {}
    /\ pc = [t \in Task |-> "idle"]
    /\ item = [t \in Task |-> CHOOSE i \in Item : TRUE]
    /\ snapshot = [t \in Task |-> {}]
    /\ attempt = [t \in Task |-> 1]
    /\ seen = [t \in Task |-> Absent]
    /\ requests = 0
    /\ granted = 0
    /\ clobbered = 0
    /\ unheard = {}
    /\ faults = 0

Goto(t, label) ==
    /\ pc' = [pc EXCEPT ![t] = label]
    /\ UNCHANGED <<item, snapshot, attempt, seen>>

End(t) ==
    /\ pc' = [pc EXCEPT ![t] = "idle"]
    /\ snapshot' = [snapshot EXCEPT ![t] = {}]
    /\ item' = [item EXCEPT ![t] = CHOOSE i \in Item : TRUE]
    /\ attempt' = [attempt EXCEPT ![t] = 1]
    /\ seen' = [seen EXCEPT ![t] = Absent]

Fault ==
    /\ faults < MaxFaults
    /\ faults' = faults + 1

-----------------------------------------------------------------------------
\* The order is read and the item is not refunded yet.
Begin(t, i) ==
    /\ pc[t] = "idle"
    /\ requests < MaxRequests
    /\ i \notin marked
    /\ requests' = requests + 1
    /\ pc' = [pc EXCEPT ![t] = "read"]
    /\ item' = [item EXCEPT ![t] = i]
    /\ snapshot' = [snapshot EXCEPT ![t] = marked]
    /\ UNCHANGED <<order, paid, attempt, seen, history, faults>>

\* A round of the loop reads the order again and stops if the total would be
\* exceeded.
ReadTotal(t) ==
    /\ pc[t] = "read"
    /\ IF Value(cumulative) + Amount[item[t]] > Total
       THEN End(t)
       ELSE /\ pc' = [pc EXCEPT ![t] = IF cumulative = Absent THEN "init" ELSE "cas"]
            /\ seen' = [seen EXCEPT ![t] = cumulative]
            /\ UNCHANGED <<item, snapshot, attempt>>
    /\ UNCHANGED <<order, paid, requests, history, faults>>

\* An absent field is set to 0, whatever it is by now.
InitZero(t) ==
    /\ pc[t] = "init"
    /\ cumulative' = 0
    /\ clobbered' = IF Value(cumulative) = 0 THEN clobbered ELSE 1
    /\ Goto(t, "cas")
    /\ UNCHANGED <<marked, linked, paid, requests, granted, unheard, faults>>

\* An error of that write is ignored.
InitZeroError(t) ==
    /\ pc[t] = "init"
    /\ Fault
    /\ Goto(t, "cas")
    /\ UNCHANGED <<order, paid, requests, history>>

\* MUTANT: the update does not compare.
CasHitUnchecked(t) ==
    /\ pc[t] = "cas"
    /\ cumulative' = Value(seen[t]) + Amount[item[t]]
    /\ granted' = granted + Amount[item[t]]
    /\ Goto(t, "stripe")
    /\ UNCHANGED <<marked, linked, paid, requests, clobbered, unheard, faults>>

\* update_document_cas finds the value that was read.
CasHit(t) ==
    /\ pc[t] = "cas"
    /\ cumulative = Value(seen[t])
    /\ cumulative' = Value(seen[t]) + Amount[item[t]]
    /\ granted' = granted + Amount[item[t]]
    /\ Goto(t, "stripe")
    /\ UNCHANGED <<marked, linked, paid, requests, clobbered, unheard, faults>>

\* It does not: another round, or an error after the third.
CasMiss(t) ==
    /\ pc[t] = "cas"
    /\ cumulative # Value(seen[t])
    /\ IF attempt[t] < Attempts
       THEN /\ pc' = [pc EXCEPT ![t] = "read"]
            /\ attempt' = [attempt EXCEPT ![t] = attempt[t] + 1]
            /\ UNCHANGED <<item, snapshot, seen>>
       ELSE End(t)
    /\ UNCHANGED <<order, paid, requests, history, faults>>

-----------------------------------------------------------------------------
\* Without a PaymentIntent the request fails and leaves its reservation.
NoIntent(t) ==
    /\ pc[t] = "stripe"
    /\ linked = 0
    /\ End(t)
    /\ UNCHANGED <<order, paid, requests, history, faults>>

\* Stripe refunds the item, or answers with the refund it made before.
StripeOk(t) ==
    /\ pc[t] = "stripe"
    /\ linked = 1
    /\ paid' = paid \cup {item[t]}
    /\ Goto(t, "mark")
    /\ UNCHANGED <<order, requests, history, faults>>

\* MUTANT: the error is not returned.
StripeFailsIgnored(t) ==
    /\ pc[t] = "stripe"
    /\ linked = 1
    /\ Fault
    /\ Goto(t, "mark")
    /\ UNCHANGED <<order, paid, requests, history>>

\* Stripe refuses, or does not get the request.
StripeFails(t) ==
    /\ pc[t] = "stripe"
    /\ linked = 1
    /\ Fault
    /\ Goto(t, "rollback_read")
    /\ UNCHANGED <<order, paid, requests, history>>

\* Stripe refunds the item and the answer is late or lost.
StripeTimeout(t) ==
    /\ pc[t] = "stripe"
    /\ linked = 1
    /\ Fault
    /\ paid' = paid \cup {item[t]}
    /\ unheard' = unheard \cup {item[t]}
    /\ Goto(t, "rollback_read")
    /\ UNCHANGED <<order, requests, granted, clobbered>>

\* The rollback reads the order.
RollbackRead(t) ==
    /\ pc[t] = "rollback_read"
    /\ pc' = [pc EXCEPT ![t] = "rollback"]
    /\ seen' = [seen EXCEPT ![t] = Value(cumulative)]
    /\ UNCHANGED <<item, snapshot, attempt>>
    /\ UNCHANGED <<order, paid, requests, history, faults>>

\* A failed read counts as an order without the field.
RollbackReadError(t) ==
    /\ pc[t] = "rollback_read"
    /\ Fault
    /\ pc' = [pc EXCEPT ![t] = "rollback"]
    /\ seen' = [seen EXCEPT ![t] = 0]
    /\ UNCHANGED <<item, snapshot, attempt>>
    /\ UNCHANGED <<order, paid, requests, history>>

\* The reduced value is written whatever the field is by now.
Rollback(t) ==
    /\ pc[t] = "rollback"
    /\ cumulative' = IF seen[t] > Amount[item[t]] THEN seen[t] - Amount[item[t]] ELSE 0
    /\ granted' = granted - Amount[item[t]]
    /\ clobbered' = IF Value(cumulative) = seen[t] THEN clobbered ELSE 1
    /\ End(t)
    /\ UNCHANGED <<marked, linked, paid, requests, unheard, faults>>

\* The items array is written as it was read, with this item refunded.
Mark(t) ==
    /\ pc[t] = "mark"
    /\ marked' = snapshot[t] \cup {item[t]}
    /\ Goto(t, "restock")
    /\ UNCHANGED <<cumulative, linked, paid, requests, granted, clobbered, unheard, faults>>

\* The loop that restores the stock (StockCas) or the update that revokes the
\* licenses, and the order event.
Restock(t) ==
    /\ pc[t] = "restock"
    /\ End(t)
    /\ UNCHANGED <<order, paid, requests, history, faults>>

\* A statement fails and the handler returns (a failed rollback is logged), or
\* the request is dropped.
Stop(t) ==
    /\ pc[t] # "idle"
    /\ Fault
    /\ End(t)
    /\ UNCHANGED <<order, paid, requests, history>>

Step(t) ==
    \/ ReadTotal(t)
    \/ InitZero(t)
    \/ InitZeroError(t)
    \/ CasHit(t)
    \/ CasMiss(t)
    \/ NoIntent(t)
    \/ StripeOk(t)
    \/ StripeFails(t)
    \/ StripeTimeout(t)
    \/ RollbackRead(t)
    \/ RollbackReadError(t)
    \/ Rollback(t)
    \/ Mark(t)
    \/ Restock(t)
    \/ Stop(t)

Next == \E t \in Task : Step(t) \/ \E i \in Item : Begin(t, i)

Spec == Init /\ [][Next]_vars

-----------------------------------------------------------------------------
(* Properties. *)

\* The reservations in force fit into the total and the field accounts for all
\* of them, whichever requests interleave, fail, time out or are dropped, as
\* long as neither the write of 0 nor a rollback has overwritten a value it did
\* not read.
CapHolds ==
    /\ Value(cumulative) <= Total
    /\ clobbered = 0 => granted <= Value(cumulative)

\* The order shows an item as refunded only if Stripe has refunded it: the items
\* array is written after Stripe's answer, and what overlapping requests put back
\* from their older copies had been refunded too.
MarkedIsPaid == marked \subseteq paid

-----------------------------------------------------------------------------
(* What a comment says and the code does not do. *)

\* "concurrent refund requests cannot both succeed if they would exceed
\* totalAmountCents": the loop that reserves the amount.
ConcurrentRefundsFit == granted <= Total
=============================================================================
