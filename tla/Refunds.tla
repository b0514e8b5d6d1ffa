------------------------------- MODULE Refunds -------------------------------
(***************************************************************************)
(* Money given back: item refunds of a captured order (RefundReservation), *)
(* and capture, cancellation and Stripe's events of an authorized order    *)
(* (PaidOrder).  They are about different orders; their properties are     *)
(* stated beside each other.                                               *)
(***************************************************************************)
EXTENDS RefundReservation, FiniteSetsExt

CONSTANTS Part, PartAmount, MaxCancels, MaxPaidFaults

VARIABLES
    status, pay, flagged, cents, records, pi, made, amount, dispute, events, ppc,
    job, pseen, seenFlag, sum, newPay, cancels, returned, peak, pfaults

P == INSTANCE PaidOrder
        WITH MaxFaults <- MaxPaidFaults, pc <- ppc, seen <- pseen, faults <- pfaults

paidVars == <<status, pay, flagged, cents, records, pi, made, amount, dispute, events,
              ppc, job, pseen, seenFlag, sum, newPay, cancels, returned, peak, pfaults>>

\* PaidOrder: an order shown as captured or in processing was captured at Stripe.
CapturedIsReal == P!CapturedIsReal

Cents(items) == MapThenSumSet(LAMBDA i : Amount[i], items)

\* What Stripe refunded is covered by cumulativeRefundedCents, so that later requests are
\* measured against it, unless a request did not hear of the refund or an unconditional
\* write has overwritten a value it did not read.
PaidIsReserved ==
    clobbered = 0 => Cents(paid \ unheard) <= Value(cumulative)

\* The sums agree: what the items' refunds took is reserved, the refunded amount of a paid
\* order is within its total, and an order shown as refunded in full was refunded in full.
SumsAgree == PaidIsReserved /\ P!TypeOK /\ P!FullRefundIsReal
===============================================================================
