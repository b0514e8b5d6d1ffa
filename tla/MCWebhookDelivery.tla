-------------------------- MODULE MCWebhookDelivery --------------------------
(***************************************************************************)
(* Events on their way, for TLC: Stripe's to their handlers in             *)
(* WebhookDelivery, and changes of products to the search index in         *)
(* SearchMirror, side by side.  The initial state chooses which of them    *)
(* runs, and its fairness is assumed for that one.                         *)
(***************************************************************************)
EXTENDS Primitives

CONSTANTS Mutation, QueueSize, MaxAttempts, MaxRequests, MaxMirrorFaults

VARIABLES part,
          doc, index, mwrites, req, changes, natives, searches, bridged, attempts, sent,
          muddled, failed, requests, mfaults

mirrorVars == <<doc, index, mwrites, req, changes, natives, searches, bridged, attempts,
                sent, muddled, failed, requests, mfaults>>

M == INSTANCE SearchMirror
        WITH MaxFaults <- MaxMirrorFaults, writes <- mwrites, faults <- mfaults

\* What stands still in this run.
other == <<vars, lockVars>>

MCProductOf == [r \in Restorer |-> CHOOSE p \in Product : TRUE]
MCQuantity == [r \in Restorer |-> 1]

MCInit ==
    /\ Init /\ L!Init /\ D!Init /\ M!Init
    /\ \/ part = "webhooks" /\ doc = [p \in Product |-> M!None]
       \/ part = "mirror"

MCNext ==
    \/ part = "webhooks" /\ D!Next /\ UNCHANGED <<part, mirrorVars, other>>
    \/ part = "mirror" /\ M!Next /\ UNCHANGED <<part, deliveryVars, other>>

\* The runtime polls every request task to its end, and Stripe keeps sending an event it
\* has no 2xx answer for.
WebhookFairness ==
    /\ \A w \in Worker : WF_deliveryVars(part = "webhooks" /\ D!Task(w))
    /\ \A e \in Event :
        WF_deliveryVars(part = "webhooks" /\ \E w \in Worker : D!Deliver(w, e))

\* The runtime polls every task of the pipeline, and sends and calls return.
MirrorFairness ==
    /\ \A t \in Mutation : WF_mirrorVars(part = "mirror" /\ M!Step(t))
    /\ WF_mirrorVars(part = "mirror" /\ M!Bridge)
    /\ WF_mirrorVars(part = "mirror" /\ M!Syncer)
    /\ WF_mirrorVars(part = "mirror" /\ M!Executor)

MCSpec ==
    /\ MCInit /\ [][MCNext]_<<part, deliveryVars, mirrorVars, other>>
    /\ WebhookFairness /\ MirrorFairness

-----------------------------------------------------------------------------
\* An event that meets no fault is applied in the end.
MCEventuallyApplied == part = "webhooks" => D!EventuallyApplied

\* Back-pressure of the three channels never stops the pipeline, and the search index
\* catches up with the products table.
IndexCatchesUp == M!IndexCatchesUp
=============================================================================
