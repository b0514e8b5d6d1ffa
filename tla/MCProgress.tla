----------------------------- MODULE MCProgress -----------------------------
(***************************************************************************)
(* What must eventually happen to an order, to a return request and to a   *)
(* subscription: CheckoutOrder, Returns and Subscriptions for TLC, side by *)
(* side.  The initial state chooses which of them runs, and its fairness   *)
(* is assumed for that one.                                                *)
(***************************************************************************)
EXTENDS MCCheckoutOrder

CONSTANTS Item, Return, Task, Charge, MaxFaults, NoItem, NoReturn,
          Sub, NoSub, MaxChanges, MaxLost

VARIABLES part,
          rstatus, product, marked, keys, spent, rpc, ret, target, rseen, copy, made,
          units, stale, unchecked, unmarked, rfaults,
          stripeSub, atEnd, version, page, subEvents, subDoc, premium, req, docVer,
          premVer, subDisturbed, excused, lost, sfaults

returnVars == <<rstatus, product, marked, keys, spent, rpc, ret, target, rseen, copy,
                made, units, stale, unchecked, unmarked, rfaults>>
subVars == <<stripeSub, atEnd, version, page, subEvents, subDoc, premium, req, docVer,
             premVer, subDisturbed, excused, lost, sfaults>>

MCAmount == [i \in Item |-> 1]

R == INSTANCE Returns
        WITH Amount <- MCAmount, status <- rstatus, pc <- rpc, seen <- rseen,
             faults <- rfaults
S == INSTANCE Subscriptions
        WITH stripe <- stripeSub, session <- page, events <- subEvents, doc <- subDoc,
             disturbed <- subDisturbed, faults <- sfaults

MCInit == Init /\ R!Init /\ S!Init /\ part \in {"order", "return", "subscription"}

MCNext ==
    \/ part = "order" /\ Next /\ UNCHANGED <<part, returnVars, subVars>>
    \/ part = "return" /\ R!Next /\ UNCHANGED <<part, vars, subVars>>
    \/ part = "subscription" /\ S!Next /\ UNCHANGED <<part, vars, returnVars>>

OrderFairness ==
    /\ \A w \in Worker : WF_vars(part = "order" /\ Step(w))
    /\ \A o \in Order :
        /\ WF_vars(part = "order" /\ SessionExpires(o))
        /\ WF_vars(part = "order" /\ (DebitSettles(o) \/ DebitFails(o)))
        /\ \A k \in Webhook :
            SF_vars(part = "order" /\ \E w \in Worker : StartEvent(w, k, o))

ReturnFairness ==
    /\ \A t \in Task : WF_returnVars(part = "return" /\ R!Step(t))
    /\ \A r \in Return :
        SF_returnVars(part = "return" /\ \E t \in Task : R!JobBegin(t, r))

SubscriptionFairness ==
    /\ \A t \in Task : WF_subVars(part = "subscription" /\ S!Step(t))
    /\ SF_subVars(part = "subscription" /\ \E t \in Task : S!JobSelect(t))

MCSpec ==
    /\ MCInit /\ [][MCNext]_<<part, vars, returnVars, subVars>>
    /\ OrderFairness /\ ReturnFairness /\ SubscriptionFairness

-----------------------------------------------------------------------------
\* escalate_stale_return_requests answers every return request nobody answers, and
\* sync_expired_subscriptions ends the premium of a subscription whose end was missed.
JobsRepair == R!RequestedIsAnswered /\ S!MissedEndIsRepaired
=============================================================================
