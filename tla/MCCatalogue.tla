----------------------------- MODULE MCCatalogue -----------------------------
(***************************************************************************)
(* SearchMirror, Licences, Coupons and Chat for TLC, side by side: the     *)
(* initial state chooses which of them runs.                               *)
(***************************************************************************)
EXTENDS SearchMirror, TLC

CONSTANTS Device, Token, NoToken, DeviceLimit, MaxLicenceRequests,
          NoLimit, NoUser, MaxCouponRequests, MaxMessages, MaxChatRequests

VARIABLES part,
          kind, status, activations, unused, live, issued, lreq, seats, crossed, late,
          open, served, excess, lrequests, lfaults,
          coupon, terms, used, expired, reserved, bought, claimed, kreq, quote, kreset,
          klost, unseen, krequests, kfaults,
          thread, count, unread, last, recent, msgs, creq, prev, creset, clost, cmuddled,
          crequests, cfaults

licenceVars == <<kind, status, activations, unused, live, issued, lreq, seats, crossed,
                 late, open, served, excess, lrequests, lfaults>>
couponVars == <<coupon, terms, used, expired, reserved, bought, claimed, kreq, quote,
                kreset, klost, unseen, krequests, kfaults>>
chatVars == <<thread, count, unread, last, recent, msgs, creq, prev, creset, clost,
              cmuddled, crequests, cfaults>>

\* A third off once; 90 % off above the minimum; a fixed amount above the subtotal.
MCTerms ==
    { [type |-> "percentage", value |-> 33333, min |-> NoLimit, max |-> 1, own |-> 1,
       active |-> TRUE],
      [type |-> "percentage", value |-> 90000, min |-> 101, max |-> NoLimit, own |-> 1,
       active |-> TRUE],
      [type |-> "fixed_amount", value |-> 150000, min |-> 650, max |-> 2, own |-> 2,
       active |-> TRUE] }
MCSubtotals == {102, 999}

L == INSTANCE Licences WITH Task <- Mutation, MaxRequests <- MaxLicenceRequests,
                            req <- lreq, requests <- lrequests, faults <- lfaults
K == INSTANCE Coupons
        WITH User <- Device, Task <- Mutation, Terms <- MCTerms, Subtotals <- MCSubtotals,
             MaxRequests <- MaxCouponRequests, exists <- coupon, req <- kreq,
             reset <- kreset, lost <- klost, requests <- krequests, faults <- kfaults
C == INSTANCE Chat
        WITH Task <- Mutation, MaxRequests <- MaxChatRequests, exists <- thread,
             req <- creq, reset <- creset, lost <- clost, muddled <- cmuddled,
             requests <- crequests, faults <- cfaults

MCInit ==
    /\ Init /\ L!Init /\ K!Init /\ C!Init
    /\ part \in {"mirror", "licences", "coupons", "chat"}
    /\ part # "licences" => kind = "book"
    /\ part # "mirror" => doc = [p \in Product |-> None]

MCNext ==
    \/ part = "mirror" /\ Next /\ UNCHANGED <<part, licenceVars, couponVars, chatVars>>
    \/ part = "licences" /\ L!Next /\ UNCHANGED <<part, vars, couponVars, chatVars>>
    \/ part = "coupons" /\ K!Next /\ UNCHANGED <<part, vars, licenceVars, chatVars>>
    \/ part = "chat" /\ C!Next /\ UNCHANGED <<part, vars, licenceVars, couponVars>>

MCSpec == MCInit /\ [][MCNext]_<<part, vars, licenceVars, couponVars, chatVars>>

Symmetry == Permutations(Mutation) \cup Permutations(Product)

-----------------------------------------------------------------------------
\* Search: with no event under way, the index holds what the products table holds, but
\* for products whose events were lost, crossed or failed.
MirrorSafe == TypeOK /\ IndexMirrors

\* Licences: the devices activated are those of the array and within deviceLimit, a
\* revoked licence gives no more than requests that read it before still obtain, and a
\* download token redirects once, but for overlapping requests and failed writes.
LicencesSafe ==
    L!TypeOK /\ L!SeatsLimited /\ L!RevokedGivesNothing /\ L!TokenOnce

\* Coupons: usedCount agrees with the uses recorded, the uses keep to the limits, and the
\* discount is the exact one, but for uses that crossed or ended between two writes.
CouponsSafe == K!TypeOK /\ K!UsedCountHolds /\ K!RecordsLimited /\ K!DiscountExact

\* The counters of a chat thread agree with its messages, and no text is stored twice
\* within five seconds, but for requests that crossed or ended between two writes.
ChatSafe == [](C!TypeOK /\ C!CountHolds /\ C!UnreadHolds) /\ C!NoRepeat
=============================================================================
