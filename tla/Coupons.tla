------------------------------- MODULE Coupons -------------------------------
(***************************************************************************)
(* A coupon code and its uses (ob-handlers/src/coupons/mod.rs; checkout    *)
(* validates the coupon in payments/checkout.rs, its webhooks redeem and   *)
(* release the reservation in payments/webhooks.rs).                       *)
(*                                                                         *)
(* Two accounts are kept.  redeem_coupon raises `usedCount` and adds a     *)
(* record to coupon_uses; a checkout counts the records and adds one,      *)
(* which it never counts in `usedCount`.  Each count, read and write is a  *)
(* statement of its own.  The code of the coupon is fixed; requests of     *)
(* users who may not make them, and those over the rate limit, return      *)
(* before they change anything.  Values of discounts are in thousandths    *)
(* (of a percent, of a cent), amounts are in cents.                        *)
(***************************************************************************)
EXTENDS Integers, FiniteSets, FiniteSetsExt

CONSTANTS
    User, Task,
    Terms,          \* terms an admin asks for: [type, value, min, max, own, active]
    Subtotals,      \* cart subtotals
    NoLimit,        \* an absent minOrderCents or maxUsesTotal
    NoUser,         \* the user of no request
    MaxRequests,    \* bound: requests
    MaxFaults       \* bound: failed statements and dropped requests

MIN_CHECKOUT_TOTAL_CENTS == 100
MAX_COUPON_DISCOUNT == 90000

VARIABLES
    exists, terms, used,    \* the document: its terms and usedCount
    expired,        \* expiresAt is past
    reserved, bought, claimed,  \* coupon_uses by user: of checkout without and with
                    \* redeemedAt, of redeem_coupon
    req,            \* requests in progress
    quote,          \* history: the last discount computed, and from what
    reset,          \* history: usedCount was written over a value its writer had not read
    lost,           \* history: increments of usedCount without a record
    unseen,         \* history: records made without counting all that were there
    requests, faults

doc == <<exists, terms, used, expired>>
uses == <<reserved, bought, claimed>>
history == <<quote, reset, lost, unseen>>
vars == <<doc, uses, req, history, requests, faults>>

NoTerms == [type |-> "none", value |-> 0, min |-> NoLimit, max |-> NoLimit, own |-> 1,
            active |-> FALSE]
NoQuote == [type |-> "none", value |-> 0, subtotal |-> 0, cents |-> 0]

\* A request: its user, the terms it read or writes, its subtotal, what it counted.
Idle == [pc |-> "idle", user |-> NoUser, terms |-> NoTerms, sub |-> 0, seen |-> 0]

Of(u) == reserved[u] + bought[u] + claimed[u]
Total == MapThenSumSet(Of, User)

Init ==
    /\ exists = FALSE /\ terms = NoTerms /\ used = 0 /\ expired = FALSE
    /\ reserved = [u \in User |-> 0] /\ bought = reserved /\ claimed = reserved
    /\ req = [t \in Task |-> Idle]
    /\ quote = NoQuote /\ reset = FALSE /\ lost = 0
    /\ unseen = [u \in User |-> 0]
    /\ requests = 0 /\ faults = 0

Accept == requests < MaxRequests /\ requests' = requests + 1

Fault == faults < MaxFaults /\ faults' = faults + 1

Done(t) == req' = [req EXCEPT ![t] = Idle]

Goto(t, pc) == req' = [req EXCEPT ![t].pc = pc]

----------------------------------------------------------------------------
\* The discount in cents, by integer arithmetic.
compute_discount(type, value, subtotal) ==
    IF subtotal <= MIN_CHECKOUT_TOTAL_CENTS THEN 0
    ELSE CASE type = "percentage" ->
                 Min({(subtotal * Min({value, MAX_COUPON_DISCOUNT})) \div 100000,
                      subtotal - MIN_CHECKOUT_TOTAL_CENTS})
           [] type = "fixed_amount" ->
                 Min({value \div 1000, subtotal - MIN_CHECKOUT_TOTAL_CENTS})
           [] OTHER -> 0

\* checkout.rs has a copy of the function.
compute_coupon_discount_cents(type, value, subtotal) ==
    compute_discount(type, value, subtotal)

Quote(t, cents) ==
    quote' = [type |-> req[t].terms.type, value |-> req[t].terms.value,
              subtotal |-> req[t].sub, cents |-> cents]

----------------------------------------------------------------------------
\* The checks of create_coupon on its request.
Acceptable(m) ==
    /\ m.type \in {"percentage", "fixed_amount", "free_shipping"} /\ m.value > 0
    /\ m.type = "percentage" => m.value \in 1000..90000
    /\ m.type = "fixed_amount" =>
          /\ m.value >= 100000
          /\ m.min # NoLimit =>
                m.min >= (m.value \div 1000) + 5 * MIN_CHECKOUT_TOTAL_CENTS
    /\ m.min # NoLimit => m.min >= 0
    /\ m.max # NoLimit => m.max >= 1

\* create_coupon up to its write: a failed lookup counts as "no such code".
Create(t, m) ==
    /\ req[t] = Idle /\ Accept /\ Acceptable(m)
    /\ \/ ~exists /\ UNCHANGED faults
       \/ exists /\ Fault
    /\ req' = [req EXCEPT ![t].pc = "create", ![t].terms = m]
    /\ UNCHANGED <<doc, uses, history>>

\* upsert_document merges the new document into one that is there.
CreateWrite(t) ==
    /\ req[t].pc = "create"
    /\ exists' = TRUE /\ terms' = req[t].terms /\ used' = 0 /\ expired' = FALSE
    /\ reset' = (reset \/ exists)
    /\ Done(t)
    /\ UNCHANGED <<uses, quote, lost, unseen, requests, faults>>

\* expiresAt passes.
Expire ==
    /\ exists /\ ~expired /\ expired' = TRUE
    /\ UNCHANGED <<exists, terms, used, uses, req, history, requests, faults>>

----------------------------------------------------------------------------
\* apply_coupon up to the count of the user's records.
Apply(t, u, s) ==
    /\ req[t] = Idle /\ Accept
    /\ exists /\ terms.active /\ ~expired
    /\ terms.max # NoLimit => used < terms.max
    /\ req' = [req EXCEPT ![t] = [pc |-> "apply", user |-> u, terms |-> terms, sub |-> s,
                                  seen |-> 0]]
    /\ UNCHANGED <<doc, uses, history, faults>>

\* The count, which is 0 when the statement fails, then the minimum and the discount.
ApplyQuote(t) ==
    /\ req[t].pc = "apply" /\ Done(t)
    /\ \E n \in {Of(req[t].user), 0} :
          /\ IF n = Of(req[t].user) THEN UNCHANGED faults ELSE Fault
          /\ LET m == req[t].terms
             IN  IF n < m.own /\ (m.min # NoLimit => req[t].sub >= m.min)
                 THEN Quote(t, compute_discount(m.type, m.value, req[t].sub))
                 ELSE UNCHANGED quote
    /\ UNCHANGED <<doc, uses, reset, lost, unseen, requests>>

----------------------------------------------------------------------------
\* validate_checkout_coupon up to the count of all records.
Checkout(t, u, s) ==
    /\ req[t] = Idle /\ Accept
    /\ exists /\ terms.active /\ ~expired
    /\ terms.min # NoLimit => s >= terms.min
    /\ req' = [req EXCEPT ![t] = [pc |-> "count", user |-> u, terms |-> terms, sub |-> s,
                                  seen |-> 0]]
    /\ UNCHANGED <<doc, uses, history, faults>>

\* The count of all records, 0 when the statement fails.
CheckoutCount(t) ==
    /\ req[t].pc = "count"
    /\ \E n \in {Total, 0} :
          /\ IF n = Total THEN UNCHANGED faults ELSE Fault
          /\ IF req[t].terms.max # NoLimit /\ n >= req[t].terms.max THEN Done(t)
             ELSE req' = [req EXCEPT ![t].pc = "own", ![t].seen = n]
    /\ UNCHANGED <<doc, uses, history, requests>>

\* The count of the user's records, likewise, and the discount.
CheckoutOwn(t) ==
    /\ req[t].pc = "own"
    /\ \E n \in {Of(req[t].user), 0} :
          /\ IF n = Of(req[t].user) THEN UNCHANGED faults ELSE Fault
          /\ IF n >= req[t].terms.own THEN Done(t) /\ UNCHANGED quote
             ELSE /\ Goto(t, "reserve")
                  /\ Quote(t, compute_coupon_discount_cents(req[t].terms.type,
                                 req[t].terms.value, req[t].sub))
    /\ UNCHANGED <<doc, uses, reset, lost, unseen, requests>>

\* The insert of the reservation, in the transaction of the order.
Reserve(t) ==
    LET u == req[t].user
    IN  /\ req[t].pc = "reserve" /\ Done(t)
        /\ reserved' = [reserved EXCEPT ![u] = @ + 1]
        /\ unseen' = [unseen EXCEPT ![u] = IF Total > req[t].seen THEN @ + 1 ELSE @]
        /\ UNCHANGED <<doc, bought, claimed, quote, reset, lost, requests, faults>>

\* mark_coupon_redeemed of a webhook that confirms the order.
Redeem(u) ==
    /\ reserved[u] > 0
    /\ reserved' = [reserved EXCEPT ![u] = @ - 1]
    /\ bought' = [bought EXCEPT ![u] = @ + 1]
    /\ UNCHANGED <<doc, claimed, req, history, requests, faults>>

\* release_coupon_reservation of a webhook that closes the order.
Release(u) ==
    /\ reserved[u] > 0
    /\ reserved' = [reserved EXCEPT ![u] = @ - 1]
    /\ UNCHANGED <<doc, bought, claimed, req, history, requests, faults>>

----------------------------------------------------------------------------
\* redeem_coupon up to the increment; `seen` is usedCount.
Claim(t, u) ==
    /\ req[t] = Idle /\ Accept
    /\ exists /\ ~expired
    /\ terms.max # NoLimit => used < terms.max
    /\ req' = [req EXCEPT ![t] = [pc |-> "claim", user |-> u, terms |-> terms, sub |-> 0,
                                  seen |-> used]]
    /\ UNCHANGED <<doc, uses, history, faults>>

\* MUTANT: a limited coupon is incremented without a condition, too.
ClaimWriteBlind(t) ==
    /\ req[t].pc = "claim"
    /\ used' = req[t].seen + 1 /\ Goto(t, "record")
    /\ reset' = (reset \/ (used # req[t].seen /\ req[t].terms.max = NoLimit))
    /\ UNCHANGED <<exists, terms, expired, uses, quote, lost, unseen, requests, faults>>

\* The increment: with a limit only if usedCount is what was read, else "fully redeemed";
\* without one unconditionally.
ClaimWrite(t) ==
    /\ req[t].pc = "claim"
    /\ IF req[t].terms.max # NoLimit /\ used # req[t].seen
       THEN Done(t) /\ UNCHANGED <<used, reset>>
       ELSE /\ used' = req[t].seen + 1 /\ Goto(t, "record")
            /\ reset' = (reset \/ used # req[t].seen)
    /\ UNCHANGED <<exists, terms, expired, uses, quote, lost, unseen, requests, faults>>

\* create_document of the record of the use.
ClaimRecord(t) ==
    LET u == req[t].user
    IN  /\ req[t].pc = "record" /\ Done(t)
        /\ claimed' = [claimed EXCEPT ![u] = @ + 1]
        /\ unseen' = [unseen EXCEPT ![u] = @ + 1]
        /\ UNCHANGED <<doc, reserved, bought, quote, reset, lost, requests, faults>>

\* A statement fails or the request is dropped at an await.
Drop(t) ==
    /\ req[t] # Idle /\ Fault /\ Done(t)
    /\ lost' = IF req[t].pc = "record" THEN lost + 1 ELSE lost
    /\ UNCHANGED <<doc, uses, quote, reset, unseen, requests>>

Next ==
    \/ Expire
    \/ \E u \in User : Redeem(u) \/ Release(u)
    \/ \E t \in Task :
          \/ CreateWrite(t) \/ ApplyQuote(t) \/ CheckoutCount(t) \/ CheckoutOwn(t)
          \/ Reserve(t) \/ ClaimWrite(t) \/ ClaimRecord(t) \/ Drop(t)
          \/ \E m \in Terms : Create(t, m)
          \/ \E u \in User : Claim(t, u)
          \/ \E u \in User, s \in Subtotals : Apply(t, u, s) \/ Checkout(t, u, s)

Spec == Init /\ [][Next]_vars

----------------------------------------------------------------------------
\* The variables have their types.
TypeOK ==
    /\ {exists, expired, reset} \subseteq BOOLEAN
    /\ terms \in Terms \cup {NoTerms} /\ exists <=> terms # NoTerms
    /\ {reserved, bought, claimed, unseen} \subseteq [User -> Nat]
    /\ \A t \in Task :
          /\ req[t].pc \in {"idle", "create", "apply", "count", "own", "reserve", "claim",
                            "record"}
          /\ req[t].user \in User \cup {NoUser} /\ req[t].terms \in Terms \cup {NoTerms}
    /\ {used, lost, requests, faults} \subseteq Nat

Recording == Cardinality({t \in Task : req[t].pc = "record"})

\* usedCount is the number of redemptions that redeem_coupon recorded, is about to record
\* or lost between its two writes, and is within maxUses; unless the document was created
\* again, or an unlimited increment was written over another one.
UsedCountHolds ==
    \/ reset
    \/ /\ used = MapThenSumSet(LAMBDA u : claimed[u], User) + Recording + lost
       /\ terms.max # NoLimit => used <= terms.max

\* The records of a coupon stay within maxUses, but for one more for each record that
\* was made without counting all that were there: by a checkout that counted before
\* another's insert or whose count failed, and by redeem_coupon, which does not count.
RecordsLimited ==
    reset \/ terms.max = NoLimit \/ Total <= terms.max + MapThenSumSet(LAMBDA u : unseen[u], User)

\* A discount is the largest whole number of cents that is within the coupon's value and
\* 90 %, and leaves the smallest total; none for a cart that is not above that total.
DiscountExact ==
    LET fits(d) == CASE quote.type = "percentage" ->
                           /\ d * 100000 <= quote.subtotal * quote.value
                           /\ d * 10 <= quote.subtotal * 9
                     [] quote.type = "fixed_amount" -> d * 1000 <= quote.value
                     [] OTHER -> d = 0
        sound(d) == fits(d) /\ (d = 0 \/ quote.subtotal - d >= MIN_CHECKOUT_TOTAL_CENTS)
    IN  sound(quote.cents) /\ ~sound(quote.cents + 1)
==============================================================================
