----------------------------- MODULE Primitives ------------------------------
(***************************************************************************)
(* The mechanisms that handlers and jobs build on, beside each other: the  *)
(* restore loops on the stock (StockCas), the lock around a job (CronLock) *)
(* and the deduplication of Stripe's events (WebhookDelivery), the last    *)
(* two on variables of their own.                                          *)
(***************************************************************************)
EXTENDS StockCas

CONSTANTS
    Worker, MaxFaults,                  \* of CronLock and WebhookDelivery
    TTL, MaxLag,                        \* of CronLock
    Event, MaxFailures, MaxCleanups     \* of WebhookDelivery

VARIABLES
    lock, age, place, lag, crashes, outdated, excused,
    recorded, doomed, task, ev, acked, old, applied, failures, purged, faults, cleanups

lockVars == <<lock, age, place, lag, crashes, outdated, excused>>
deliveryVars == <<recorded, doomed, task, ev, acked, old, applied, failures, purged,
                  faults, cleanups>>

L == INSTANCE CronLock WITH pc <- place, faults <- crashes
D == INSTANCE WebhookDelivery WITH pc <- task

ASSUME LockAssumption == TTL \in Nat \ {0} /\ MaxLag \in Nat /\ MaxFaults \in Nat
ASSUME DeliveryAssumption ==
    /\ MaxFailures \in Nat /\ MaxFaults \in Nat /\ MaxCleanups \in Nat
    /\ D!NoEvent \notin Event

\* Two workers run a job of cron/mod.rs together only if one of them wrote the lock over a
\* write it had not seen, after a failed read of it, or over the lock of a job that had
\* run for the TTL.
Exclusive == L!Exclusive

\* An event whose record no cleanup purged is in at most one handler of
\* handle_stripe_webhook at a time, and takes effect at most once.
HandledOnce == D!HandledOnce
==============================================================================
