------------------------------- MODULE Returns -------------------------------
(***************************************************************************)
(* Return requests for the delivered items of one captured order           *)
(* (orders/returns.rs) and the job that escalates requests nobody          *)
(* answered (escalate_stale_return_requests).                              *)
(*                                                                         *)
(* Every handler reads the return request, checks its status, and writes   *)
(* it later without a condition.  mark_received makes four calls in a row: *)
(* the Stripe refund, the stock, the return request, the order.            *)
(*                                                                         *)
(* The order names its PaymentIntent.  For one that does not, the handler  *)
(* skips the refund and goes on; such an order cannot have been captured.  *)
(***************************************************************************)
EXTENDS Naturals, FiniteSets

CONSTANTS
    Item,      \* products of the order
    Return,    \* ids of return requests
    Task,      \* server tasks
    Amount,    \* calculate_refund_amount_cents of each item
    Charge,    \* what Stripe captured, and so refunds at most
    MaxFaults, \* bound: failed statements and Stripe calls, dropped tasks
    NoItem,    \* the item of a request that does not exist
    NoReturn   \* the request of a task that has none

ASSUME NoItemAssumption == NoItem \notin Item

Active == {"requested", "approved", "label_issued", "escalated"}
Closed == {"rejected", "refunded"}
Status == {"none"} \cup Active \cup Closed

VARIABLES
    status,   \* returnStatus, "none" before the request exists
    product,  \* productId of the request
    marked,   \* items of the order with status "refunded"
    keys,     \* Stripe: idempotency keys it has seen
    spent,    \* Stripe: cents refunded
    pc, ret, target, \* what each task executes, for which request and item
    seen,     \* the status it read
    copy,     \* mark_received: the items marked in the order it read
    made,     \* history: refunds Stripe made for a request
    units,    \* history: units given back for a request
    stale,    \* history: requests written over a status that was not read
    unchecked, \* history: items for which two creations overlapped or the query failed
    unmarked, \* history: requests whose mark in the order was lost
    faults    \* history: faults so far

order == <<status, product, marked>>
stripe == <<keys, spent>>
locals == <<pc, ret, target, seen, copy>>
history == <<made, units, stale, unchecked, unmarked>>
vars == <<order, stripe, locals, history, faults>>

Label ==
    {"idle", "query", "create", "write", "read", "refund", "restock", "resolve", "mark"}

TypeOK ==
    /\ status \in [Return -> Status]
    /\ product \in [Return -> Item \cup {NoItem}]
    /\ marked \subseteq Item
    /\ keys \subseteq Return \X (Item \cup Status)
    /\ spent \in 0..Charge
    /\ pc \in [Task -> Label]
    /\ ret \in [Task -> Return \cup {NoReturn}]
    /\ target \in [Task -> Item \cup Status]
    /\ seen \in [Task -> Status]
    /\ copy \in [Task -> SUBSET Item]
    /\ made \in [Return -> Nat]
    /\ units \in [Return -> Nat]
    /\ stale \subseteq Return
    /\ unchecked \subseteq Item
    /\ unmarked \subseteq Return
    /\ faults \in 0..MaxFaults

Init ==
    /\ status = [r \in Return |-> "none"]
    /\ product = [r \in Return |-> NoItem]
    /\ marked = {}
    /\ keys = {}
    /\ spent = 0
    /\ pc = [t \in Task |-> "idle"]
    /\ ret = [t \in Task |-> NoReturn]
    /\ target = [t \in Task |-> "none"]
    /\ seen = [t \in Task |-> "none"]
    /\ copy = [t \in Task |-> {}]
    /\ made = [r \in Return |-> 0]
    /\ units = [r \in Return |-> 0]
    /\ stale = {}
    /\ unchecked = {}
    /\ unmarked = {}
    /\ faults = 0

-----------------------------------------------------------------------------
Begin(t, label, r, x, st) ==
    /\ pc[t] = "idle"
    /\ pc' = [pc EXCEPT ![t] = label]
    /\ ret' = [ret EXCEPT ![t] = r]
    /\ target' = [target EXCEPT ![t] = x]
    /\ seen' = [seen EXCEPT ![t] = st]
    /\ UNCHANGED <<order, stripe, copy, history, faults>>

Goto(t, label) ==
    /\ pc' = [pc EXCEPT ![t] = label]
    /\ UNCHANGED <<ret, target, seen, copy>>

End(t) ==
    /\ pc' = [pc EXCEPT ![t] = "idle"]
    /\ ret' = [ret EXCEPT ![t] = NoReturn]
    /\ target' = [target EXCEPT ![t] = "none"]
    /\ seen' = [seen EXCEPT ![t] = "none"]
    /\ copy' = [copy EXCEPT ![t] = {}]

\* The status of a request is written, whatever it is by now.
SetStatus(t, r, s) ==
    /\ status' = [status EXCEPT ![r] = s]
    /\ stale' = IF status[r] = seen[t] THEN stale ELSE stale \cup {r}

\* A statement fails, or the task is dropped between two calls.
Drop(t) ==
    /\ pc[t] # "idle"
    /\ faults < MaxFaults
    /\ faults' = faults + 1
    /\ unmarked' = IF pc[t] = "mark" THEN unmarked \cup {ret[t]} ELSE unmarked
    /\ End(t)
    /\ UNCHANGED <<order, stripe, made, units, stale, unchecked>>

-----------------------------------------------------------------------------
(* create_return_request. *)

\* MUTANT: the query matches the requests that are not answered yet.
OfRequested(i) == {r \in Return : product[r] = i /\ status[r] = "requested"}

Of(i) == {r \in Return : product[r] = i}

FreshIds == {r \in Return : status[r] = "none" /\ \A t \in Task : ret[t] # r}

\* The order is read: the item is delivered.
CreateBegin(t, i) ==
    /\ i \notin marked
    /\ Begin(t, "query", NoReturn, i, "none")

\* The query returns one request for the item, whichever the database finds first; it
\* must be closed.  A query that fails counts as one that finds nothing.
CreateQuery(t, r) ==
    LET i == target[t]
        found == Of(i) = {} \/ \E x \in Of(i) : status[x] \in Closed
        overlap == \E u \in Task : pc[u] = "create" /\ target[u] = i
    IN
    /\ pc[t] = "query"
    /\ r \in FreshIds
    /\ \/ found /\ UNCHANGED faults
       \/ ~found /\ faults < MaxFaults /\ faults' = faults + 1
    /\ pc' = [pc EXCEPT ![t] = "create"]
    /\ ret' = [ret EXCEPT ![t] = r]
    /\ unchecked' = IF overlap \/ ~found THEN unchecked \cup {i} ELSE unchecked
    /\ UNCHANGED <<order, stripe, target, seen, copy, made, units, stale, unmarked>>

\* The query returns an active request (or, as a bound, all ids are used up).
CreateRefused(t) ==
    /\ pc[t] = "query"
    /\ FreshIds = {} \/ \E x \in Of(target[t]) : status[x] \in Active
    /\ End(t)
    /\ UNCHANGED <<order, stripe, history, faults>>

CreateInsert(t) ==
    /\ pc[t] = "create"
    /\ status' = [status EXCEPT ![ret[t]] = "requested"]
    /\ product' = [product EXCEPT ![ret[t]] = target[t]]
    /\ End(t)
    /\ UNCHANGED <<marked, stripe, history, faults>>

-----------------------------------------------------------------------------
(* approve and issue_label of approve_return_request, reject_return_request, *)
(* escalate_return_request, and the job.                                     *)

\* MUTANT: a request can be approved whatever its status is.
valid_return_transitions_open(from) ==
    CASE from = "approved" -> {"approved", "label_issued", "received"}
      [] from = "label_issued" -> {"approved", "received"}
      [] OTHER -> {"approved", "rejected"}

\* A receipt is recorded as "refunded"; nothing leads out of "escalated".
valid_return_transitions(from) ==
    CASE from = "requested" -> {"approved", "rejected"}
      [] from = "approved" -> {"label_issued", "received"}
      [] from = "label_issued" -> {"received"}
      [] OTHER -> {}

\* The seller or an admin answers.
AnswerBegin(t, r, s) ==
    /\ status[r] # "none"
    /\ s \in valid_return_transitions(status[r]) \cap {"approved", "label_issued", "rejected"}
    /\ Begin(t, "write", r, s, status[r])

\* The buyer escalates.
EscalateBegin(t, r) ==
    /\ status[r] \in {"requested", "approved"}
    /\ Begin(t, "write", r, "escalated", status[r])

\* MUTANT: the job selects requests that were approved.
JobBeginApproved(t, r) ==
    /\ status[r] = "approved"
    /\ Begin(t, "write", r, "escalated", status[r])

\* The job selects a request that has waited for seven days.
JobBegin(t, r) ==
    /\ status[r] = "requested"
    /\ Begin(t, "write", r, "escalated", status[r])

Write(t) ==
    /\ pc[t] = "write"
    /\ SetStatus(t, ret[t], target[t])
    /\ End(t)
    /\ UNCHANGED <<product, marked, stripe, made, units, unchecked, unmarked, faults>>

-----------------------------------------------------------------------------
(* mark_received of approve_return_request. *)

\* The request is read and checked.
ReceiveBegin(t, r) ==
    /\ "received" \in valid_return_transitions(status[r])
    /\ Begin(t, "read", r, product[r], status[r])

\* The order is read.
ReadOrder(t) ==
    /\ pc[t] = "read"
    /\ pc' = [pc EXCEPT ![t] = "refund"]
    /\ copy' = [copy EXCEPT ![t] = marked]
    /\ UNCHANGED <<order, stripe, ret, target, seen, history, faults>>

\* MUTANT: the key names the status of the request instead of its product.
IdempotencyKeyOfStatus(t) == <<ret[t], seen[t]>>

IdempotencyKey(t) == <<ret[t], target[t]>>

\* Stripe repeats its answer to a key it has seen, and refunds at most what it
\* captured.
StripeRefund(key, i) ==
    \/ /\ key \in keys
       /\ UNCHANGED <<keys, spent, made>>
    \/ /\ key \notin keys
       /\ spent + Amount[i] <= Charge
       /\ keys' = keys \cup {key}
       /\ spent' = spent + Amount[i]
       /\ made' = [made EXCEPT ![key[1]] = @ + 1]

Refund(t) ==
    /\ pc[t] = "refund"
    /\ StripeRefund(IdempotencyKey(t), target[t])
    /\ Goto(t, "restock")
    /\ UNCHANGED <<order, units, stale, unchecked, unmarked, faults>>

\* Stripe refuses.
RefundRefused(t) ==
    /\ pc[t] = "refund"
    /\ IdempotencyKey(t) \notin keys
    /\ spent + Amount[target[t]] > Charge
    /\ End(t)
    /\ UNCHANGED <<order, stripe, history, faults>>

\* Stripe refunds, and the answer is lost.
RefundUnheard(t) ==
    /\ pc[t] = "refund"
    /\ faults < MaxFaults
    /\ faults' = faults + 1
    /\ StripeRefund(IdempotencyKey(t), target[t])
    /\ End(t)
    /\ UNCHANGED <<order, units, stale, unchecked, unmarked>>

Restock(t) ==
    /\ pc[t] = "restock"
    /\ units' = [units EXCEPT ![ret[t]] = @ + 1]
    /\ Goto(t, "resolve")
    /\ UNCHANGED <<order, stripe, made, stale, unchecked, unmarked, faults>>

Resolve(t) ==
    /\ pc[t] = "resolve"
    /\ SetStatus(t, ret[t], "refunded")
    /\ Goto(t, "mark")
    /\ UNCHANGED <<product, marked, stripe, made, units, unchecked, unmarked, faults>>

\* The items array read before the refund is written back whole: marks made since
\* are lost.
Mark(t) ==
    /\ pc[t] = "mark"
    /\ marked' = copy[t] \cup {target[t]}
    /\ unmarked' = unmarked \cup {r \in Return : product[r] \in marked \ marked'}
    /\ End(t)
    /\ UNCHANGED <<status, product, stripe, made, units, stale, unchecked, faults>>

-----------------------------------------------------------------------------
Request(t) ==
    \/ \E i \in Item : CreateBegin(t, i)
    \/ \E r \in Return :
        \/ \E s \in Status : AnswerBegin(t, r, s)
        \/ EscalateBegin(t, r)
        \/ ReceiveBegin(t, r)

Job(t) == \E r \in Return : JobBegin(t, r)

Step(t) ==
    \/ \E r \in Return : CreateQuery(t, r)
    \/ CreateRefused(t)
    \/ CreateInsert(t)
    \/ Write(t)
    \/ ReadOrder(t)
    \/ Refund(t)
    \/ RefundRefused(t)
    \/ Restock(t)
    \/ Resolve(t)
    \/ Mark(t)

Next == \E t \in Task : Request(t) \/ Job(t) \/ Step(t) \/ RefundUnheard(t) \/ Drop(t)

\* The runtime polls every task, and the job comes back to every request it selects
\* (some task is free for it again and again).
Fairness ==
    /\ \A t \in Task : WF_vars(Step(t))
    /\ \A r \in Return : SF_vars(\E t \in Task : JobBegin(t, r))

Spec == Init /\ [][Next]_vars /\ Fairness

-----------------------------------------------------------------------------
(* Properties. *)

\* mark_received may run twice at once, or again after a failure at any of its four
\* calls: Stripe makes at most one refund for a return request.
RefundedOncePerReturn == \A r \in Return : made[r] <= 1

\* A request that says "refunded", and a unit that went back to the stock, have a refund
\* at Stripe behind them.
RefundBehindIt ==
    \A r \in Return : status[r] = "refunded" \/ units[r] > 0 => made[r] > 0

\* An item has one active request, unless two creations overlapped, a query failed, or it
\* met an older, closed request of the item.
OneActiveReturn ==
    \A i \in Item \ unchecked : \A r, q \in Return :
        /\ product[r] = i /\ product[q] = i
        /\ \A x \in Return : product[x] = i => status[x] \in Active /\ x \notin stale
        => r = q

\* The order shows the refund of every request that says "refunded", once its handler has
\* written it, unless a failure or a concurrent write of the items array lost the mark.
RefundedIsMarked ==
    \A r \in Return \ unmarked :
        status[r] = "refunded" /\ (\A t \in Task : ~(pc[t] = "mark" /\ ret[t] = r))
            => product[r] \in marked

\* Return request, stock, order and Stripe agree about the refund of a return: it is made
\* once, before anything says so, and the order shows it.
RefundsAgree == RefundedOncePerReturn /\ RefundBehindIt /\ RefundedIsMarked

\* A closed request changes only by a handler that read it before it was closed.
ClosedUnlessStale ==
    [][\A r \in Return : status[r] \in Closed /\ status'[r] # status[r]
                            => r \in stale']_vars

\* No request waits for an answer forever: the job escalates it.
RequestedIsAnswered ==
    \A r \in Return : status[r] = "requested" ~> status[r] # "requested"

===============================================================================
