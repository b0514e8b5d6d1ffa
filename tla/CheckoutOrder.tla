---------------------------- MODULE CheckoutOrder ----------------------------
(***************************************************************************)
(* An order from checkout until its payment is confirmed or it is closed:  *)
(* create_checkout_session (payments/checkout.rs), the webhook handlers of *)
(* checkout.session.* and payment_intent.* (payments/webhooks.rs),         *)
(* cancel_order (orders/refunds.rs) and check_expired_authorizations       *)
(* (cron/mod.rs).                                                          *)
(*                                                                         *)
(* A handler is a worker that takes one step per database or Stripe call,  *)
(* so any two of them interleave at every await.  Every order line has     *)
(* quantity one, and a stock change is one step: StockCas shows that the   *)
(* loops behind it may be seen that way.  Webhook events are delivered as  *)
(* WebhookDelivery says: not twice at once, again after an error, and no   *)
(* more after a crash.                                                     *)
(***************************************************************************)
EXTENDS Integers, FiniteSets

CONSTANTS
    Order,       \* checkout requests; each makes its own order id
    Product,     \* product ids
    Worker,      \* tasks of the server
    Cart,        \* the products of each order
    Digital,     \* products with isDigital
    KeyOf,       \* the idempotency key of each checkout request
    WithCoupon,  \* orders with a coupon code
    Meta,        \* orders whose PaymentIntent carries metadata.order_id, which
                 \* create_checkout_session only puts on the session
    Delayed,     \* orders that may be paid by a method that settles later
    InitialStock, \* stockQuantity before the first checkout
    MaxErrors,   \* bound: failed statements
    MaxCrashes   \* bound: crashes and dropped requests

NoOrder == "no_order"
ASSUME CartAssumption == Cart \in [Order -> SUBSET Product]
ASSUME StockAssumption == InitialStock \in [Product -> Nat]
ASSUME OrderAssumption == NoOrder \notin Order
ASSUME BoundAssumption == MaxErrors \in Nat /\ MaxCrashes \in Nat

VARIABLES
    status,    \* orderStatus; "none": no such document
    pay,       \* paymentStatus
    flagged,   \* orders with stockRestored
    linked,    \* orders with a paymentIntentId
    coupon,    \* the order's record in coupon_uses
    stock,     \* stockQuantity of each product
    session,   \* Stripe: the order's Checkout Session
    payment,   \* Stripe: the session's PaymentIntent
    events,    \* Stripe: events not acknowledged yet, <<type, order>>
    pc, job, ord,     \* what each worker executes, and for which order
    seen,      \* the orderStatus a worker read
    seenFlag,  \* workers that read stockRestored = true
    seenPi,    \* workers that read a paymentIntentId
    todo,      \* products a worker has still to restore
    asked,     \* requests and job runs already made, <<what, order>>
    taken,     \* history: products whose stock the order's transaction took
    given,     \* history: times a unit of <<order, product>> was returned
    disturbed, \* history: orders created without their stock, or restored
               \*          by a webhook handler that lost its update
    errors,    \* history: failed statements so far
    crashes    \* history: crashes so far

doc == <<status, pay, flagged, linked, coupon>>
stripe == <<session, payment, events>>
task == <<pc, job, ord, seen, seenFlag, seenPi, todo>>
history == <<taken, given, disturbed>>
faults == <<errors, crashes>>
vars == <<doc, stock, stripe, task, asked, history, faults>>

Confirming == {"completed", "async_succeeded", "pi_succeeded"}
Closing == {"expired", "pi_failed", "pi_canceled"}
Webhook == Confirming \cup Closing \cup {"async_failed"}
Request == {"cancel", "expire"}
Job == Webhook \cup Request \cup {"checkout"}

Open == {"pending", "confirmed"}
Closed == {"cancelled", "expired", "failed"}

Physical(o) == Cart[o] \ Digital

TypeOK ==
    /\ status \in [Order -> {"none"} \cup Open \cup Closed]
    /\ pay \in [Order -> {"none", "awaiting_payment", "cancelled"}]
    /\ flagged \subseteq Order
    /\ linked \subseteq Order
    /\ coupon \in [Order -> {"none", "reserved", "redeemed"}]
    /\ stock \in [Product -> Nat]
    /\ session \in [Order -> {"none", "open", "complete", "expired"}]
    /\ payment \in [Order -> {"none", "processing", "authorized", "failed", "released"}]
    /\ events \subseteq Webhook \X Order
    /\ pc \in [Worker -> {"idle", "session", "commit", "read", "cas", "link",
                          "redeem", "cancel_pi", "restore", "release"}]
    /\ job \in [Worker -> Job]
    /\ ord \in [Worker -> Order \cup {NoOrder}]
    /\ \A w \in Worker : pc[w] # "idle" => ord[w] \in Order
    /\ seen \in [Worker -> Open]
    /\ seenFlag \subseteq Worker
    /\ seenPi \subseteq Worker
    /\ todo \in [Worker -> SUBSET Product]
    /\ asked \subseteq {"checkout", "cancel", "expire"} \X Order
    /\ taken \in [Order -> SUBSET Product]
    /\ given \in [Order \X Product -> Nat]
    /\ disturbed \subseteq Order
    /\ errors \in Nat
    /\ crashes \in Nat

Init ==
    /\ status = [o \in Order |-> "none"]
    /\ pay = [o \in Order |-> "none"]
    /\ flagged = {}
    /\ linked = {}
    /\ coupon = [o \in Order |-> "none"]
    /\ stock = InitialStock
    /\ session = [o \in Order |-> "none"]
    /\ payment = [o \in Order |-> "none"]
    /\ events = {}
    /\ pc = [w \in Worker |-> "idle"]
    /\ job = [w \in Worker |-> "checkout"]
    /\ ord = [w \in Worker |-> NoOrder]
    /\ seen = [w \in Worker |-> "pending"]
    /\ seenFlag = {}
    /\ seenPi = {}
    /\ todo = [w \in Worker |-> {}]
    /\ asked = {}
    /\ taken = [o \in Order |-> {}]
    /\ given = [x \in Order \X Product |-> 0]
    /\ disturbed = {}
    /\ errors = 0
    /\ crashes = 0

-----------------------------------------------------------------------------
(* Bookkeeping of a worker. *)

Start(w, j, o, label) ==
    /\ pc[w] = "idle"
    /\ pc' = [pc EXCEPT ![w] = label]
    /\ job' = [job EXCEPT ![w] = j]
    /\ ord' = [ord EXCEPT ![w] = o]
    /\ UNCHANGED <<seen, seenFlag, seenPi, todo>>

Goto(w, label) ==
    /\ pc' = [pc EXCEPT ![w] = label]
    /\ UNCHANGED <<job, ord, seen, seenFlag, seenPi, todo>>

End(w) ==
    /\ pc' = [pc EXCEPT ![w] = "idle"]
    /\ job' = [job EXCEPT ![w] = "checkout"]
    /\ ord' = [ord EXCEPT ![w] = NoOrder]
    /\ seen' = [seen EXCEPT ![w] = "pending"]
    /\ seenFlag' = seenFlag \ {w}
    /\ seenPi' = seenPi \ {w}
    /\ todo' = [todo EXCEPT ![w] = {}]

Ack(w) == events' = events \ {<<job[w], ord[w]>>}

Error ==
    /\ errors < MaxErrors
    /\ errors' = errors + 1
    /\ UNCHANGED crashes

Ask(what, o) ==
    /\ <<what, o>> \notin asked
    /\ asked' = asked \cup {<<what, o>>}

-----------------------------------------------------------------------------
(* create_checkout_session. *)

\* The cart is validated against the stock, and no order of this buyer has the
\* idempotency key (a lookup that finds one answers with it and changes nothing),
\* or the lookup fails, which is ignored.
CheckoutBegin(w, o) ==
    /\ \A p \in Cart[o] : stock[p] >= 1
    /\ \/ (\A q \in Order : KeyOf[q] = KeyOf[o] => status[q] = "none") /\ UNCHANGED faults
       \/ Error
    /\ Ask("checkout", o)
    /\ Start(w, "checkout", o, "session")
    /\ UNCHANGED <<doc, stock, stripe, history>>

\* MUTANT: the request carries no Idempotency-Key.
CreateSessionNoKey(w) ==
    /\ pc[w] = "session"
    /\ Goto(w, "commit")
    /\ session' = [session EXCEPT ![ord[w]] = "open"]
    /\ UNCHANGED <<doc, stock, payment, events, asked, history, faults>>

\* POST /checkout/sessions with the Idempotency-Key.  The form contains the new
\* order id, so Stripe refuses a key it has already seen.
CreateSession(w) ==
    /\ pc[w] = "session"
    /\ IF \E q \in Order : KeyOf[q] = KeyOf[ord[w]] /\ session[q] # "none"
       THEN End(w) /\ UNCHANGED session
       ELSE Goto(w, "commit") /\ session' = [session EXCEPT ![ord[w]] = "open"]
    /\ UNCHANGED <<doc, stock, payment, events, asked, history, faults>>

\* The transaction: insert the order and the coupon use, then take one unit of
\* each physical product that still has one.  The check afterwards looks for an
\* empty array or a null among the results; a statement that matched no row
\* yields an object, so the order stands with or without its units.
CommitOrder(w) ==
    /\ pc[w] = "commit"
    /\ status[ord[w]] = "none"
    /\ LET o == ord[w]
           available == {p \in Physical(o) : stock[p] >= 1}
       IN  /\ status' = [status EXCEPT ![o] = "pending"]
           /\ pay' = [pay EXCEPT ![o] = "awaiting_payment"]
           /\ coupon' = [coupon EXCEPT ![o] =
                            IF o \in WithCoupon THEN "reserved" ELSE "none"]
           /\ taken' = [taken EXCEPT ![o] = available]
           /\ stock' = [p \in Product |->
                            IF p \in available THEN stock[p] - 1 ELSE stock[p]]
           /\ disturbed' = IF available = Physical(o)
                           THEN disturbed ELSE disturbed \cup {o}
    /\ End(w)
    /\ UNCHANGED <<flagged, linked, stripe, asked, given, faults>>

\* A failed transaction leaves the session at Stripe and no order.
CommitError(w) ==
    /\ pc[w] = "commit"
    /\ Error
    /\ End(w)
    /\ UNCHANGED <<doc, stock, stripe, asked, history>>

-----------------------------------------------------------------------------
(* The buyer and Stripe. *)

Emit(k, o) == events' = events \cup {<<k, o>>}

\* The buyer has the URL once the order exists; a card is authorized at once.
PayByCard(o) ==
    /\ status[o] # "none"
    /\ session[o] = "open"
    /\ session' = [session EXCEPT ![o] = "complete"]
    /\ payment' = [payment EXCEPT ![o] = "authorized"]
    /\ events' = events \cup ({<<"completed", o>>} \cup
                     IF o \in Meta THEN {<<"pi_succeeded", o>>} ELSE {})
    /\ UNCHANGED <<doc, stock, task, asked, history, faults>>

\* A bank debit completes the session and settles, or fails, later.
PayByDebit(o) ==
    /\ o \in Delayed
    /\ status[o] # "none"
    /\ session[o] = "open"
    /\ session' = [session EXCEPT ![o] = "complete"]
    /\ payment' = [payment EXCEPT ![o] = "processing"]
    /\ Emit("completed", o)
    /\ UNCHANGED <<doc, stock, task, asked, history, faults>>

DebitSettles(o) ==
    /\ payment[o] = "processing"
    /\ payment' = [payment EXCEPT ![o] = "authorized"]
    /\ events' = events \cup ({<<"async_succeeded", o>>} \cup
                     IF o \in Meta THEN {<<"pi_succeeded", o>>} ELSE {})
    /\ UNCHANGED <<doc, stock, session, task, asked, history, faults>>

DebitFails(o) ==
    /\ payment[o] = "processing"
    /\ payment' = [payment EXCEPT ![o] = "failed"]
    /\ Emit("async_failed", o)
    /\ UNCHANGED <<doc, stock, session, task, asked, history, faults>>

\* A declined card leaves the session open for another attempt.
Decline(o) ==
    /\ o \in Meta
    /\ status[o] # "none"
    /\ session[o] = "open"
    /\ Emit("pi_failed", o)
    /\ UNCHANGED <<doc, stock, session, payment, task, asked, history, faults>>

SessionExpires(o) ==
    /\ session[o] = "open"
    /\ session' = [session EXCEPT ![o] = "expired"]
    /\ events' = events \cup ({<<"expired", o>>} \cup
                     IF o \in Meta THEN {<<"pi_canceled", o>>} ELSE {})
    /\ UNCHANGED <<doc, stock, payment, task, asked, history, faults>>

-----------------------------------------------------------------------------
(* The webhook handlers of checkout.session.* and payment_intent.*. *)

StartEvent(w, k, o) ==
    /\ <<k, o>> \in events
    /\ \A v \in Worker : pc[v] # "idle" => <<job[v], ord[v]>> # <<k, o>>
    /\ Start(w, k, o, "read")
    /\ UNCHANGED <<doc, stock, stripe, asked, history, faults>>

\* find_order_by_metadata_id, and the test for a pending order.
ReadForEvent(w) ==
    /\ pc[w] = "read"
    /\ job[w] \in Webhook
    /\ LET s == status[ord[w]] IN
        \/ s = "none" /\ End(w) /\ UNCHANGED events          \* NotFound: 500
        \/ s = "pending" /\ Goto(w, "cas") /\ UNCHANGED events
        \/ /\ s \notin {"none", "pending"}
           /\ IF job[w] \in Confirming
              THEN End(w) /\ Ack(w)
              ELSE Goto(w, "release") /\ UNCHANGED events
    /\ UNCHANGED <<doc, stock, session, payment, asked, history, faults>>

\* MUTANT: an expired session confirms the order.
TargetConfirmsExpired(j) ==
    CASE j \in Confirming \cup {"expired"} -> "confirmed"
      [] j \in {"pi_failed", "pi_canceled", "cancel"} -> "cancelled"
      [] j = "expire" -> "expired"
      [] OTHER -> "failed"

\* The status each handler writes.
Target(j) ==
    CASE j \in Confirming -> "confirmed"
      [] j \in {"pi_failed", "pi_canceled", "cancel"} -> "cancelled"
      [] j \in {"expired", "expire"} -> "expired"
      [] OTHER -> "failed"

\* Enter the restore loop with the products of the order's items: the webhook
\* handlers restore every item, the others the physical ones.
Restoring(w, products) ==
    /\ pc' = [pc EXCEPT ![w] = "restore"]
    /\ todo' = [todo EXCEPT ![w] = products]
    /\ UNCHANGED <<job, ord, seen, seenFlag, seenPi>>

\* MUTANT: the WHERE clause of update_order_status names only the id.
UpdateWinsUnguarded(w) ==
    /\ pc[w] = "cas"
    /\ job[w] \in Webhook
    /\ status' = [status EXCEPT ![ord[w]] = Target(job[w])]
    /\ IF job[w] \in Confirming THEN Goto(w, "link")
       ELSE IF job[w] \in Closing THEN Restoring(w, Cart[ord[w]])
       ELSE Goto(w, "release")
    /\ UNCHANGED <<pay, flagged, linked, coupon, stock, stripe, asked, history, faults>>

\* update_order_status finds the order still pending.
UpdateWins(w) ==
    /\ pc[w] = "cas"
    /\ job[w] \in Webhook
    /\ status[ord[w]] = "pending"
    /\ status' = [status EXCEPT ![ord[w]] = Target(job[w])]
    /\ IF job[w] \in Confirming THEN Goto(w, "link")
       ELSE IF job[w] \in Closing THEN Restoring(w, Cart[ord[w]])
       ELSE Goto(w, "release")
    /\ UNCHANGED <<pay, flagged, linked, coupon, stock, stripe, asked, history, faults>>

\* It does not.  The confirming handlers stop; the others ignore the result,
\* and those that close the order go on to restore its stock.
UpdateLoses(w) ==
    /\ pc[w] = "cas"
    /\ job[w] \in Webhook
    /\ status[ord[w]] # "pending"
    /\ IF job[w] \in Confirming
       THEN End(w) /\ Ack(w) /\ UNCHANGED disturbed
       ELSE IF job[w] \in Closing
       THEN /\ Restoring(w, Cart[ord[w]])
            /\ disturbed' = disturbed \cup {ord[w]}
            /\ UNCHANGED events
       ELSE Goto(w, "release") /\ UNCHANGED <<events, disturbed>>
    /\ UNCHANGED <<doc, stock, session, payment, asked, taken, given, faults>>

\* Store the ids on the order.  The statement of payment_intent.succeeded names
\* columns that do not exist and always fails.
Link(w) ==
    /\ pc[w] = "link"
    /\ IF job[w] = "pi_succeeded"
       THEN End(w) /\ UNCHANGED linked
       ELSE Goto(w, "redeem") /\ linked' = linked \cup {ord[w]}
    /\ UNCHANGED <<status, pay, flagged, coupon, stock, stripe, asked, history, faults>>

\* mark_coupon_redeemed, then the cart and the mails, whose errors are ignored.
Redeem(w) ==
    /\ pc[w] = "redeem"
    /\ coupon' = [coupon EXCEPT ![ord[w]] =
                     IF coupon[ord[w]] = "reserved" THEN "redeemed" ELSE coupon[ord[w]]]
    /\ End(w)
    /\ Ack(w)
    /\ UNCHANGED <<status, pay, flagged, linked, stock, session, payment, asked, history, faults>>

\* release_coupon_reservation deletes the record unless it is redeemed.
Release(w) ==
    /\ pc[w] = "release"
    /\ coupon' = [coupon EXCEPT ![ord[w]] =
                     IF coupon[ord[w]] = "reserved" THEN "none" ELSE coupon[ord[w]]]
    /\ End(w)
    /\ Ack(w)
    /\ UNCHANGED <<status, pay, flagged, linked, stock, session, payment, asked, history, faults>>

-----------------------------------------------------------------------------
(* Returning stock. *)

\* One item of restore_stock_for_order, of the loop in cancel_order or of the
\* one in check_expired_authorizations.
RestoreOne(w, p) ==
    /\ pc[w] = "restore"
    /\ p \in todo[w]
    /\ stock' = [stock EXCEPT ![p] = stock[p] + 1]
    /\ given' = [given EXCEPT ![<<ord[w], p>>] = given[<<ord[w], p>>] + 1]
    /\ todo' = [todo EXCEPT ![w] = todo[w] \ {p}]
    /\ UNCHANGED <<doc, stripe, pc, job, ord, seen, seenFlag, seenPi, asked,
                   taken, disturbed, faults>>

\* After the last item: a webhook handler releases the coupon, the others
\* write an order event and end.
RestoreDone(w) ==
    /\ pc[w] = "restore"
    /\ todo[w] = {}
    /\ IF job[w] \in Webhook THEN Goto(w, "release") ELSE End(w)
    /\ UNCHANGED <<doc, stock, stripe, asked, history, faults>>

-----------------------------------------------------------------------------
(* cancel_order and check_expired_authorizations. *)

\* The order as the handler reads it: status, stockRestored, paymentIntentId.
Snapshot(w, j, o) ==
    /\ pc[w] = "idle"
    /\ status[o] \in Open
    /\ pc' = [pc EXCEPT ![w] = "cas"]
    /\ job' = [job EXCEPT ![w] = j]
    /\ ord' = [ord EXCEPT ![w] = o]
    /\ seen' = [seen EXCEPT ![w] = status[o]]
    /\ seenFlag' = IF o \in flagged THEN seenFlag \cup {w} ELSE seenFlag
    /\ seenPi' = IF o \in linked THEN seenPi \cup {w} ELSE seenPi
    /\ UNCHANGED todo

\* A buyer, the seller or an admin cancels.  The paymentStatus of an open order
\* is awaiting_payment, neither captured nor authorized, so Stripe is not called.
CancelBegin(w, o) ==
    /\ pay[o] = "awaiting_payment"
    /\ Ask("cancel", o)
    /\ Snapshot(w, "cancel", o)
    /\ UNCHANGED <<doc, stock, stripe, history, faults>>

\* The job selects an order that is seven days old; its session is over by then.
ExpireBegin(w, o) ==
    /\ pay[o] = "awaiting_payment"
    /\ session[o] # "open"
    /\ Ask("expire", o)
    /\ Snapshot(w, "expire", o)
    /\ UNCHANGED <<doc, stock, stripe, history, faults>>

\* MUTANT: update_document instead of update_document_cas.
CloseWinsUnguarded(w) ==
    /\ pc[w] = "cas"
    /\ job[w] \in Request
    /\ status' = [status EXCEPT ![ord[w]] = Target(job[w])]
    /\ pay' = [pay EXCEPT ![ord[w]] = "cancelled"]
    /\ flagged' = flagged \cup {ord[w]}
    /\ Restoring(w, IF w \in seenFlag THEN {} ELSE Physical(ord[w]))
    /\ UNCHANGED <<linked, coupon, stock, stripe, asked, history, faults>>

\* MUTANT: the products are not restored.
CloseWinsKeepsStock(w) ==
    /\ pc[w] = "cas"
    /\ job[w] \in Request
    /\ status[ord[w]] = seen[w]
    /\ status' = [status EXCEPT ![ord[w]] = Target(job[w])]
    /\ pay' = [pay EXCEPT ![ord[w]] = "cancelled"]
    /\ flagged' = flagged \cup {ord[w]}
    /\ Restoring(w, IF w \in seenFlag THEN Physical(ord[w]) ELSE {})
    /\ UNCHANGED <<linked, coupon, stock, stripe, asked, history, faults>>

\* update_document_cas finds the status that was read; it sets the status, the
\* paymentStatus and stockRestored in one statement.
CloseWins(w) ==
    /\ pc[w] = "cas"
    /\ job[w] \in Request
    /\ status[ord[w]] = seen[w]
    /\ status' = [status EXCEPT ![ord[w]] = Target(job[w])]
    /\ pay' = [pay EXCEPT ![ord[w]] = "cancelled"]
    /\ flagged' = flagged \cup {ord[w]}
    /\ IF job[w] = "expire" /\ w \in seenPi
       THEN Goto(w, "cancel_pi")
       ELSE Restoring(w, IF w \in seenFlag THEN {} ELSE Physical(ord[w]))
    /\ UNCHANGED <<linked, coupon, stock, stripe, asked, history, faults>>

\* The status changed meanwhile: cancel_order returns an error, the job skips.
CloseLoses(w) ==
    /\ pc[w] = "cas"
    /\ job[w] \in Request
    /\ status[ord[w]] # seen[w]
    /\ End(w)
    /\ UNCHANGED <<doc, stock, stripe, asked, history, faults>>

\* stripe_cancel_pi, whose result the job ignores.
CancelPi(w) ==
    /\ pc[w] = "cancel_pi"
    /\ payment' = [payment EXCEPT ![ord[w]] =
                      IF payment[ord[w]] = "authorized" THEN "released" ELSE payment[ord[w]]]
    /\ Restoring(w, IF w \in seenFlag THEN {} ELSE Physical(ord[w]))
    /\ UNCHANGED <<doc, stock, session, events, asked, history, faults>>

-----------------------------------------------------------------------------
(* Errors and crashes. *)

\* A statement fails and the handler returns the error; Stripe sends the event
\* of a webhook handler again.
HandlerError(w) ==
    /\ \/ pc[w] \in {"read", "cas", "link", "redeem"}
       \/ pc[w] = "restore" /\ todo[w] # {} /\ job[w] # "expire"
    /\ Error
    /\ End(w)
    /\ UNCHANGED <<doc, stock, stripe, asked, history>>

\* A product is not restored and the handler goes on: cancel_order after three
\* attempts, the job after an error.
RestoreSkips(w, p) ==
    /\ pc[w] = "restore"
    /\ job[w] \in Request
    /\ p \in todo[w]
    /\ Error
    /\ todo' = [todo EXCEPT ![w] = todo[w] \ {p}]
    /\ UNCHANGED <<doc, stock, stripe, pc, job, ord, seen, seenFlag, seenPi, asked, history>>

\* The error of release_coupon_reservation is logged and the handler succeeds.
ReleaseError(w) ==
    /\ pc[w] = "release"
    /\ Error
    /\ End(w)
    /\ Ack(w)
    /\ UNCHANGED <<doc, stock, session, payment, asked, history>>

\* The process stops or the request is dropped: the record of the event stays,
\* so Stripe's retries are answered as duplicates.
Crash(w) ==
    /\ pc[w] # "idle"
    /\ crashes < MaxCrashes
    /\ crashes' = crashes + 1
    /\ End(w)
    /\ Ack(w)
    /\ UNCHANGED <<doc, stock, session, payment, asked, history, errors>>

-----------------------------------------------------------------------------
Step(w) ==
    \/ CreateSession(w)
    \/ CommitOrder(w)
    \/ ReadForEvent(w)
    \/ UpdateWins(w)
    \/ UpdateLoses(w)
    \/ Link(w)
    \/ Redeem(w)
    \/ Release(w)
    \/ \E p \in Product : RestoreOne(w, p)
    \/ RestoreDone(w)
    \/ CloseWins(w)
    \/ CloseLoses(w)
    \/ CancelPi(w)

Faulty(w) ==
    \/ CommitError(w)
    \/ HandlerError(w)
    \/ \E p \in Product : RestoreSkips(w, p)
    \/ ReleaseError(w)
    \/ Crash(w)

Buyer(o) ==
    \/ PayByCard(o)
    \/ PayByDebit(o)
    \/ DebitSettles(o)
    \/ DebitFails(o)
    \/ Decline(o)
    \/ SessionExpires(o)

Begins(w, o) ==
    \/ CheckoutBegin(w, o)
    \/ \E k \in Webhook : StartEvent(w, k, o)
    \/ CancelBegin(w, o)
    \/ ExpireBegin(w, o)

Next ==
    \/ \E w \in Worker : Step(w) \/ Faulty(w)
    \/ \E w \in Worker, o \in Order : Begins(w, o)
    \/ \E o \in Order : Buyer(o)

Spec == Init /\ [][Next]_vars

\* The runtime runs every task, Stripe ends every session, settles every debit
\* and delivers every event.  Nobody has to pay, decline or cancel.
Fairness ==
    /\ \A w \in Worker : WF_vars(Step(w))
    /\ \A o \in Order :
        /\ WF_vars(SessionExpires(o))
        /\ WF_vars(DebitSettles(o) \/ DebitFails(o))
        /\ \A k \in Webhook : SF_vars(\E w \in Worker : StartEvent(w, k, o))

FairSpec == Spec /\ Fairness

-----------------------------------------------------------------------------
(* Properties. *)

\* No handler, however late, reopens a closed order or moves it to another
\* closed status: every write of orderStatus is conditional on the status that
\* the handler read.
ClosedIsFinal ==
    [][\A o \in Order : status[o] \in Closed => status'[o] = status[o]]_vars

\* While an order is open, none of its units is back in stock, unless the order
\* is disturbed: the handlers change the status first and restore afterwards.
HeldWhileOpen ==
    \A o \in Order \ disturbed : status[o] \in {"none"} \cup Open =>
        \A p \in Physical(o) : given[<<o, p>>] = 0

\* Of each unit the checkout transaction took, at most one is ever returned,
\* and of a unit it did not take none, unless the order is disturbed: the
\* webhooks, cancel_order and the expiry job do not restore twice.
ReturnedAtMostOnce ==
    \A o \in Order \ disturbed : \A p \in Physical(o) :
        given[<<o, p>>] <= IF p \in taken[o] THEN 1 ELSE 0

\* So much for the units of an undisturbed order: held while it is open, and returned
\* at most once.
StockHolds == HeldWhileOpen /\ ReturnedAtMostOnce

\* A coupon is redeemed, and a PaymentIntent recorded, only for an order whose
\* session the buyer completed.
RedeemedOnlyIfCompleted ==
    \A o \in Order : coupon[o] = "redeemed" \/ o \in linked \/ status[o] = "confirmed"
        => session[o] = "complete"

\* Repeated checkouts with one idempotency key create one order.
OneOrderPerKey ==
    \A o, q \in Order :
        KeyOf[o] = KeyOf[q] /\ status[o] # "none" /\ status[q] # "none" => o = q

\* Unless a statement fails or a handler stops, the units of a cancelled or expired
\* order come back.
UnitsComeBack ==
    \A o \in Order :
        status[o] \in {"cancelled", "expired"} ~>
            \/ \A p \in taken[o] : given[<<o, p>>] >= 1
            \/ errors + crashes > 0

\* Unless a statement fails or a handler stops, no order stays pending: its session
\* ends and the event of its end is handled.
PendingEnds ==
    \A o \in Order : status[o] = "pending" ~> status[o] # "pending" \/ errors + crashes > 0

\* Every order settles: it does not stay pending, and the units of one that was closed do
\* not stay away.
OrdersSettle == PendingEnds /\ UnitsComeBack
=============================================================================
