------------------------------ MODULE OrderCare ------------------------------
(***************************************************************************)
(* What happens to a paid order and its buyer: return requests (Returns),  *)
(* the way of the order to the buyer (Fulfilment) and the buyer's          *)
(* subscription (Subscriptions).  They share no document, so that their    *)
(* properties are stated beside each other.                                *)
(***************************************************************************)
EXTENDS Returns

CONSTANTS Cost, Subtotal, Shipping, Tax, Rate, MaxRequests, Sub, NoSub, MaxChanges, MaxLost

ASSUME CostAssumption == Cost \subseteq Nat
ASSUME AmountsAssumption == {Subtotal, Shipping, Tax, Rate} \subseteq Nat
ASSUME RequestsAssumption == MaxRequests \in Nat
ASSUME NoSubAssumption == NoSub \notin Sub

VARIABLES
    paid, refunded, fpc, item, to, cost, snap, todo, requests, restored, fstale, freopened,
    remote, atEnd, version, session, events, doc, premium, req, docVer, premVer,
    disturbed, excused, lost, sfaults

F == INSTANCE Fulfilment
        WITH order <- paid, pc <- fpc, units <- restored, stale <- fstale,
             reopened <- freopened

S == INSTANCE Subscriptions WITH stripe <- remote, faults <- sfaults

fulfilmentVars == <<paid, refunded, fpc, item, to, cost, snap, todo, requests, restored,
                    fstale, freopened>>

subVars == <<remote, atEnd, version, session, events, doc, premium, req, docVer, premVer,
             disturbed, excused, lost, sfaults>>

\* Fulfilment: the amounts of an order agree, a refund it shows is real, its units come
\* back once, and what was rejected is not shipped.
FulfilmentSafe ==
    /\ F!TypeOK
    /\ F!TotalsAgree /\ F!RefundedIsReal /\ F!UnitsReturnedOnce /\ F!RejectedNotShipped

\* Subscriptions: the document names every live subscription, so that its buyer can cancel
\* it, but for the exceptions of create_subscription.
BilledIsNamed == S!BilledIsNamed

\* Subscriptions: when all is quiet and nothing disturbed them, the document and isPremium
\* tell Stripe's last state.
DocumentFollows == S!TypeOK /\ S!DocumentFollows
===============================================================================
