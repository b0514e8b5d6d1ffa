------------------------------ MODULE PaidOrder ------------------------------
(***************************************************************************)
(* An order whose payment is authorized: capture_payment                   *)
(* (payments/capture.rs), cancel_order with its Stripe branches            *)
(* (orders/refunds.rs) and the webhook handlers of refunds and disputes    *)
(* (payments/webhooks.rs).                                                 *)
(*                                                                         *)
(* A handler is a task with one step per database or Stripe call.  The     *)
(* restore of all items is one step (StockCas, CheckoutOrder).  Webhook    *)
(* events arrive in any order, as WebhookDelivery says: not twice at once, *)
(* again after an error, no more after a crash.  charge.captured and       *)
(* charge.dispute.closed are left out: their statements name columns that  *)
(* the table orders does not have, fail, and change nothing.               *)
(***************************************************************************)
EXTENDS Integers, FiniteSets, FiniteSetsExt

CONSTANTS
    Task,       \* server tasks
    Part,       \* refunds made outside cancel_order: items, or by hand at Stripe
    PartAmount, \* their amounts
    Total,      \* totalAmountCents
    MaxCancels, \* bound: cancellations requested
    MaxFaults   \* bound: failed statements and Stripe calls, crashes, dropped requests

Full == "full"          \* the refund cancel_order makes
Refund == Part \cup {Full}

VARIABLES
    status,   \* orderStatus
    pay,      \* paymentStatus
    flagged,  \* stockRestored
    cents,    \* refundedAmountCents
    records,  \* the collection refunds: stripeRefundStatus of each refund
    pi,       \* Stripe: the PaymentIntent
    made,     \* Stripe: status of each refund
    amount,   \* Stripe: amount of each refund
    dispute,  \* Stripe: the dispute
    events,   \* Stripe: events not acknowledged; refund.created and
              \* refund.updated have the refund's status as their kind
    pc, job,  \* what each task executes, and for which event
    seen,     \* the orderStatus it read
    seenFlag, \* stockRestored as it read it
    sum,      \* the refunded amount it is about to write
    newPay,   \* the paymentStatus a cancellation is about to write
    cancels,  \* history: cancellations so far
    returned, \* history: times the units were returned to stock
    peak,     \* history: the highest amount_refunded at Stripe
    faults    \* history: faults so far

order == <<status, pay, flagged, cents, records>>
stripe == <<pi, made, amount, dispute, events>>
task == <<pc, job, seen, seenFlag, sum, newPay>>
vars == <<order, stripe, task, cancels, returned, peak, faults>>

Event(kind, ref, n) == [kind |-> kind, ref |-> ref, n |-> n]
Capture == Event("capture", Full, 0)
Cancel == Event("cancel", Full, 0)
Idle == Event("idle", Full, 0)

Events ==
    [kind : {"charge.refunded", "pending", "succeeded", "failed",
             "dispute.created"},
     ref : Refund, n : 0..Total]

Cancellable == {"confirmed", "processing"}
Terminal == {"cancelled", "refunded", "partially_refunded", "disputed"}

TypeOK ==
    /\ status \in Cancellable \cup Terminal
    /\ pay \in {"authorized", "captured", "refunded", "partially_refunded", "cancelled",
                "cancel_failed"}
    /\ flagged \in {0, 1}
    /\ cents \in 0..Total
    /\ records \in [Refund -> {"none", "pending", "succeeded", "failed"}]
    /\ pi \in {"authorized", "captured", "canceled"}
    /\ made \in [Refund -> {"none", "pending", "succeeded", "failed"}]
    /\ amount \in [Refund -> 0..Total]
    /\ dispute \in {"none", "open"}
    /\ events \subseteq Events
    /\ pc \in [Task -> {"idle", "capture", "capture_write", "refund", "cancel_pi",
                        "quarantine", "close", "close_restore", "handle", "sum", "sync",
                        "sync_restore", "sync_write"}]
    /\ job \in [Task -> Events \cup {Idle, Capture, Cancel}]
    /\ seen \in [Task -> Cancellable]
    /\ seenFlag \in [Task -> {0, 1}]
    /\ sum \in [Task -> Nat]
    /\ newPay \in [Task -> {"refunded", "cancelled"}]
    /\ cancels \in 0..MaxCancels
    /\ returned \in Nat
    /\ peak \in 0..Total
    /\ faults \in 0..MaxFaults

Init ==
    /\ status = "confirmed"
    /\ pay = "authorized"
    /\ flagged = 0
    /\ cents = 0
    /\ records = [r \in Refund |-> "none"]
    /\ pi = "authorized"
    /\ made = [r \in Refund |-> "none"]
    /\ amount = [r \in Refund |-> 0]
    /\ dispute = "none"
    /\ events = {}
    /\ pc = [t \in Task |-> "idle"]
    /\ job = [t \in Task |-> Idle]
    /\ seen = [t \in Task |-> "confirmed"]
    /\ seenFlag = [t \in Task |-> 0]
    /\ sum = [t \in Task |-> 0]
    /\ newPay = [t \in Task |-> "cancelled"]
    /\ cancels = 0
    /\ returned = 0
    /\ peak = 0
    /\ faults = 0

Goto(t, label) ==
    /\ pc' = [pc EXCEPT ![t] = label]
    /\ UNCHANGED <<job, seen, seenFlag, sum, newPay>>

End(t) ==
    /\ pc' = [pc EXCEPT ![t] = "idle"]
    /\ job' = [job EXCEPT ![t] = Idle]
    /\ seen' = [seen EXCEPT ![t] = "confirmed"]
    /\ seenFlag' = [seenFlag EXCEPT ![t] = 0]
    /\ sum' = [sum EXCEPT ![t] = 0]
    /\ newPay' = [newPay EXCEPT ![t] = "cancelled"]

Ack(t) == events' = events \ {job[t]}

Error ==
    /\ faults < MaxFaults
    /\ faults' = faults + 1

\* The cents of a set of refunds.
Cents(refunds) == MapThenSumSet(LAMBDA r : amount[r], refunds)

\* charge.amount_refunded at Stripe.
Refunded == Cents({r \in Refund : made[r] \in {"pending", "succeeded"}})

-----------------------------------------------------------------------------
(* Stripe. *)

\* Stripe makes refund r; it succeeds at once or later.  charge.refunded has the
\* amount refunded so far.
Make(r, n) ==
    \E s \in {"pending", "succeeded"} :
        /\ made' = [made EXCEPT ![r] = s]
        /\ amount' = [amount EXCEPT ![r] = n]
        /\ peak' = IF Refunded + n > peak THEN Refunded + n ELSE peak
        /\ events' = events \cup {Event("charge.refunded", Full, Refunded + n),
                                  Event(s, r, 0)}
        /\ UNCHANGED <<pi, dispute>>

\* An item refund, or one made by hand.
PartRefund(r) ==
    /\ pi = "captured"
    /\ made[r] = "none"
    /\ Refunded + PartAmount[r] <= Total
    /\ Make(r, PartAmount[r])
    /\ UNCHANGED <<order, task, cancels, returned, faults>>

RefundEnds(r) ==
    /\ made[r] = "pending"
    /\ \E s \in {"succeeded", "failed"} :
        /\ made' = [made EXCEPT ![r] = s]
        /\ events' = events \cup {Event(s, r, 0)}
    /\ UNCHANGED <<order, pi, amount, dispute, task, cancels, returned, peak, faults>>

DisputeOpens ==
    /\ pi = "captured"
    /\ dispute = "none"
    /\ dispute' = "open"
    /\ events' = events \cup {Event("dispute.created", Full, 0)}
    /\ UNCHANGED <<order, pi, made, amount, task, cancels, returned, peak, faults>>

-----------------------------------------------------------------------------
(* capture_payment. *)

CaptureBegin(t) ==
    /\ pc[t] = "idle"
    /\ status = "confirmed"
    /\ pay = "authorized"
    /\ pc' = [pc EXCEPT ![t] = "capture"]
    /\ job' = [job EXCEPT ![t] = Capture]
    /\ UNCHANGED <<seen, seenFlag, sum, newPay>>
    /\ UNCHANGED <<order, stripe, cancels, returned, peak, faults>>

\* MUTANT: the answer of Stripe is not looked at.
CaptureStripeUnchecked(t) ==
    /\ pc[t] = "capture"
    /\ pi' = IF pi = "canceled" THEN pi ELSE "captured"
    /\ Goto(t, "capture_write")
    /\ UNCHANGED <<order, made, amount, dispute, events, cancels, returned, peak, faults>>

\* Stripe captures, or repeats its answer; a canceled PaymentIntent is refused.
CaptureStripe(t) ==
    /\ pc[t] = "capture"
    /\ IF pi = "canceled"
       THEN End(t) /\ UNCHANGED pi
       ELSE Goto(t, "capture_write") /\ pi' = "captured"
    /\ UNCHANGED <<order, made, amount, dispute, events, cancels, returned, peak, faults>>

\* The answer is lost.
CaptureUnheard(t) ==
    /\ pc[t] = "capture"
    /\ pi # "canceled"
    /\ Error
    /\ pi' = "captured"
    /\ End(t)
    /\ UNCHANGED <<order, made, amount, dispute, events, cancels, returned, peak>>

\* The order is written whatever it is by now.
CaptureWrite(t) ==
    /\ pc[t] = "capture_write"
    /\ status' = "processing"
    /\ pay' = "captured"
    /\ End(t)
    /\ UNCHANGED <<flagged, cents, records, stripe, cancels, returned, peak, faults>>

-----------------------------------------------------------------------------
(* cancel_order. *)

\* The order is read; the branch depends on its paymentStatus.
CancelBegin(t) ==
    /\ pc[t] = "idle"
    /\ cancels < MaxCancels
    /\ status \in Cancellable
    /\ cancels' = cancels + 1
    /\ pc' = [pc EXCEPT ![t] = CASE pay = "captured" -> "refund"
                                 [] pay = "authorized" -> "cancel_pi"
                                 [] OTHER -> "close"]
    /\ job' = [job EXCEPT ![t] = Cancel]
    /\ seen' = [seen EXCEPT ![t] = status]
    /\ seenFlag' = [seenFlag EXCEPT ![t] = flagged]
    /\ UNCHANGED <<sum, newPay>>
    /\ UNCHANGED <<order, stripe, returned, peak, faults>>

\* Stripe refunds what is left, or repeats its answer to this key.
CancelRefund(t) ==
    /\ pc[t] = "refund"
    /\ \/ made[Full] # "none" /\ UNCHANGED <<stripe, peak>>
       \/ made[Full] = "none" /\ Refunded < Total /\ Make(Full, Total - Refunded)
    /\ pc' = [pc EXCEPT ![t] = "close"]
    /\ newPay' = [newPay EXCEPT ![t] = "refunded"]
    /\ UNCHANGED <<job, seen, seenFlag, sum>>
    /\ UNCHANGED <<order, cancels, returned, faults>>

\* Nothing is left to refund, or the call fails.
CancelRefundFails(t) ==
    /\ pc[t] = "refund"
    /\ \/ made[Full] = "none" /\ Refunded = Total /\ UNCHANGED faults
       \/ Error
    /\ Goto(t, "quarantine")
    /\ UNCHANGED <<order, stripe, cancels, returned, peak>>

\* Stripe makes the refund and the answer is late.
CancelRefundUnheard(t) ==
    /\ pc[t] = "refund"
    /\ made[Full] = "none"
    /\ Refunded < Total
    /\ Error
    /\ Make(Full, Total - Refunded)
    /\ Goto(t, "quarantine")
    /\ UNCHANGED <<order, cancels, returned>>

\* stripe_cancel_pi: only an authorized PaymentIntent can be canceled.
CancelPi(t) ==
    /\ pc[t] = "cancel_pi"
    /\ IF pi = "authorized"
       THEN Goto(t, "close") /\ pi' = "canceled"
       ELSE Goto(t, "quarantine") /\ UNCHANGED pi
    /\ UNCHANGED <<order, made, amount, dispute, events, cancels, returned, peak, faults>>

\* The call fails; Stripe may have canceled all the same.
CancelPiFails(t) ==
    /\ pc[t] = "cancel_pi"
    /\ Error
    /\ \/ UNCHANGED pi
       \/ pi = "authorized" /\ pi' = "canceled"
    /\ Goto(t, "quarantine")
    /\ UNCHANGED <<order, made, amount, dispute, events, cancels, returned, peak>>

\* The paymentStatus is written whatever the order is by now.
Quarantine(t) ==
    /\ pc[t] = "quarantine"
    /\ pay' = "cancel_failed"
    /\ End(t)
    /\ UNCHANGED <<status, flagged, cents, records, stripe, cancels, returned, peak, faults>>

\* update_document_cas finds the status that was read.
CloseWins(t) ==
    /\ pc[t] = "close"
    /\ status = seen[t]
    /\ status' = "cancelled"
    /\ pay' = newPay[t]
    /\ flagged' = 1
    /\ IF seenFlag[t] = 1 THEN End(t) ELSE Goto(t, "close_restore")
    /\ UNCHANGED <<cents, records, stripe, cancels, returned, peak, faults>>

CloseLoses(t) ==
    /\ pc[t] = "close"
    /\ status # seen[t]
    /\ End(t)
    /\ UNCHANGED <<order, stripe, cancels, returned, peak, faults>>

CloseRestore(t) ==
    /\ pc[t] = "close_restore"
    /\ returned' = returned + 1
    /\ End(t)
    /\ UNCHANGED <<order, stripe, cancels, peak, faults>>

-----------------------------------------------------------------------------
(* The webhook handlers of refunds and disputes. *)

StartEvent(t, e) ==
    /\ pc[t] = "idle"
    /\ \A u \in Task : job[u] # e
    /\ pc' = [pc EXCEPT ![t] = IF e.kind = "charge.refunded" THEN "sync" ELSE "handle"]
    /\ job' = [job EXCEPT ![t] = e]
    /\ sum' = [sum EXCEPT ![t] = e.n]
    /\ UNCHANGED <<seen, seenFlag, newPay>>
    /\ UNCHANGED <<order, stripe, cancels, returned, peak, faults>>

\* upsert_refund_record, for refund.created, refund.updated and refund.failed.
UpsertRecord(t) ==
    /\ pc[t] = "handle"
    /\ job[t].kind \in {"pending", "succeeded", "failed"}
    /\ records' = [records EXCEPT ![job[t].ref] = job[t].kind]
    /\ IF job[t].kind = "succeeded"
       THEN Goto(t, "sum") /\ UNCHANGED events
       ELSE End(t) /\ Ack(t)
    /\ UNCHANGED <<status, pay, flagged, cents, pi, made, amount, dispute,
                   cancels, returned, peak, faults>>

\* sync_order_refund_state_from_records adds up the refunds that succeeded; a
\* failed query counts as none.
SumRecords(t) ==
    /\ pc[t] = "sum"
    /\ LET n == Cents({r \in Refund : records[r] = "succeeded"}) IN
        \/ /\ n > 0
           /\ pc' = [pc EXCEPT ![t] = "sync"]
           /\ sum' = [sum EXCEPT ![t] = n]
           /\ UNCHANGED <<job, seen, seenFlag, newPay, events, faults>>
        \/ n = 0 /\ End(t) /\ Ack(t) /\ UNCHANGED faults
        \/ Error /\ End(t) /\ Ack(t)
    /\ UNCHANGED <<order, pi, made, amount, dispute, cancels, returned, peak>>

\* sync_order_refund_state reads the order.  It refuses more than the total,
\* which Stripe never refunds.
SyncRead(t) ==
    /\ pc[t] = "sync"
    /\ sum[t] <= Total
    /\ pc' = [pc EXCEPT ![t] =
                 IF sum[t] = Total /\ flagged = 0 THEN "sync_restore" ELSE "sync_write"]
    /\ UNCHANGED <<job, seen, seenFlag, sum, newPay>>
    /\ UNCHANGED <<order, stripe, cancels, returned, peak, faults>>

SyncRestore(t) ==
    /\ pc[t] = "sync_restore"
    /\ returned' = returned + 1
    /\ Goto(t, "sync_write")
    /\ UNCHANGED <<order, stripe, cancels, peak, faults>>

\* MUTANT: any refund counts as a full one.
SyncWriteAlwaysFull(t) ==
    /\ pc[t] = "sync_write"
    /\ cents' = sum[t]
    /\ status' = "refunded"
    /\ pay' = "refunded"
    /\ flagged' = 1
    /\ End(t)
    /\ Ack(t)
    /\ UNCHANGED <<records, pi, made, amount, dispute, cancels, returned, peak, faults>>

\* It writes the order whatever it is by now.
SyncWrite(t) ==
    /\ pc[t] = "sync_write"
    /\ cents' = sum[t]
    /\ status' = IF sum[t] = Total THEN "refunded" ELSE "partially_refunded"
    /\ pay' = IF sum[t] = Total THEN "refunded" ELSE "partially_refunded"
    /\ flagged' = IF sum[t] = Total THEN 1 ELSE flagged
    /\ End(t)
    /\ Ack(t)
    /\ UNCHANGED <<records, pi, made, amount, dispute, cancels, returned, peak, faults>>

\* charge.dispute.created: update_order_status from confirmed.
DisputeCreated(t) ==
    /\ pc[t] = "handle"
    /\ job[t].kind = "dispute.created"
    /\ status' = IF status = "confirmed" THEN "disputed" ELSE status
    /\ End(t)
    /\ Ack(t)
    /\ UNCHANGED <<pay, flagged, cents, records, pi, made, amount, dispute,
                   cancels, returned, peak, faults>>

\* A statement fails and the handler returns; Stripe sends the event again.
HandlerError(t) ==
    /\ pc[t] # "idle"
    /\ Error
    /\ End(t)
    /\ UNCHANGED <<order, stripe, cancels, returned, peak>>

\* The process stops or the request is dropped; the event is not sent again.
Crash(t) ==
    /\ pc[t] # "idle"
    /\ Error
    /\ End(t)
    /\ Ack(t)
    /\ UNCHANGED <<order, pi, made, amount, dispute, cancels, returned, peak>>

-----------------------------------------------------------------------------
CaptureStep(t) ==
    CaptureBegin(t) \/ CaptureStripe(t) \/ CaptureUnheard(t) \/ CaptureWrite(t)

CancelStep(t) ==
    \/ CancelBegin(t)
    \/ CancelRefund(t)
    \/ CancelRefundFails(t)
    \/ CancelRefundUnheard(t)
    \/ CancelPi(t)
    \/ CancelPiFails(t)
    \/ Quarantine(t)
    \/ CloseWins(t)
    \/ CloseLoses(t)
    \/ CloseRestore(t)

EventStep(t) ==
    \/ \E e \in events : StartEvent(t, e)
    \/ UpsertRecord(t)
    \/ SumRecords(t)
    \/ SyncRead(t)
    \/ SyncRestore(t)
    \/ SyncWrite(t)
    \/ DisputeCreated(t)

Next ==
    \/ \E t \in Task : CaptureStep(t) \/ CancelStep(t) \/ EventStep(t)
    \/ \E t \in Task : HandlerError(t) \/ Crash(t)
    \/ \E r \in Part : PartRefund(r)
    \/ \E r \in Refund : RefundEnds(r)
    \/ DisputeOpens

Spec == Init /\ [][Next]_vars

-----------------------------------------------------------------------------
(* Properties. *)

\* An order is shown as captured or in processing only if Stripe has captured
\* the payment, whatever cancellations, refunds and lost answers intervene.
CapturedIsReal ==
    pay = "captured" \/ status = "processing" => pi = "captured"

\* An order counts as refunded in full, and its stock as restored by a webhook,
\* only if Stripe had refunded the whole amount: no order of events, repeated
\* handler or stale refund record adds up to more than was refunded.
FullRefundIsReal ==
    /\ status = "refunded" => peak = Total
    /\ cents <= peak
    /\ returned > 0 => flagged = 1 \/ peak = Total

-----------------------------------------------------------------------------
(* What a comment says and the code does not do. *)

\* "Authorized-but-uncaptured payments are canceled in Stripe, captured payments
\* are refunded": an order that is cancelled holds no money of the buyer.
CancelReleasesFunds ==
    status = "cancelled" => pi = "canceled" \/ Refunded = Total
=============================================================================
