--------------------------- MODULE OrderCareProofs ---------------------------
(***************************************************************************)
(* What Returns, Fulfilment and Subscriptions guarantee for any number of  *)
(* items, requests and tasks, any amounts and any number of faults.        *)
(***************************************************************************)
EXTENDS OrderCare, Integers, TLAPS

Receiving == {"read", "refund", "restock", "resolve", "mark"}
Paid == {"restock", "resolve", "mark"}
Answers == {"approved", "label_issued", "rejected", "escalated"}

\* The types the argument needs; amounts are not among them.
Typed ==
    /\ status \in [Return -> Status] /\ product \in [Return -> Item \cup {NoItem}]
    /\ pc \in [Task -> Label]
    /\ ret \in [Task -> Return \cup {NoReturn}]
    /\ target \in [Task -> Item \cup {NoItem} \cup Status]
    /\ seen \in [Task -> Status]
    /\ made \in [Return -> Nat] /\ units \in [Return -> Nat]

\* A task that is about to insert a request is alone with a fresh id; one that answers a
\* request, or handles a receipt, read it when it was open.
Working(t) ==
    /\ pc[t] = "create" => /\ ret[t] \in Return /\ status[ret[t]] = "none"
                           /\ \A u \in Task \ {t} : pc[u] = "create" => ret[u] # ret[t]
    /\ pc[t] \in {"query", "create"} => target[t] \in Item
    /\ pc[t] \in Receiving \cup {"write"} =>
           ret[t] \in Return /\ status[ret[t]] # "none" /\ seen[t] \notin Closed
    /\ pc[t] = "write" => target[t] \in Answers
    /\ pc[t] \in Receiving => target[t] = product[ret[t]]
    /\ pc[t] \in Paid => made[ret[t]] > 0

\* Stripe has seen the key of a request exactly when it refunded it.
Keyed ==
    /\ \A k \in keys : \E r \in Return : k = <<r, product[r]>> /\ status[r] # "none"
    /\ \A r \in Return : made[r] = IF <<r, product[r]>> \in keys THEN 1 ELSE 0

Inv == Typed /\ (\A t \in Task : Working(t)) /\ Keyed /\ RefundBehindIt

\* The initial state.
LEMMA InitInv == Init => Inv
BY DEF Init, Inv, Typed, Working, Keyed, RefundBehindIt, Status, Active, Closed, Label,
       Receiving, Paid

\* The other tasks, when a step of t takes no fresh id of theirs and keeps what exists.
LEMMA Others ==
    ASSUME Inv, NEW t \in Task, NEW u \in Task \ {t},
           pc'[u] = pc[u], ret'[u] = ret[u], target'[u] = target[u], seen'[u] = seen[u],
           made' \in [Return -> Nat], \A r \in Return : made'[r] >= made[r],
           \A r \in Return : status[r] # "none" => status'[r] # "none" /\ product'[r] = product[r],
           pc[u] = "create" => /\ status'[ret[u]] = "none"
                               /\ pc'[t] = "create" => ret'[t] # ret[u]
                               /\ \A v \in Task \ {t} : pc'[v] = pc[v] /\ ret'[v] = ret[v]
    PROVE  Working(u)'
<1>1. Working(u)
  BY Zenon DEF Inv
<1>2. pc[u] \in Paid => made'[ret[u]] > 0
  <2>1. pc[u] \in Paid => ret[u] \in Return /\ made[ret[u]] > 0
    BY Zenon, <1>1 DEF Working, Paid, Receiving
  <2> QED BY <2>1 DEF Inv, Typed
<1> QED BY Zenon, <1>1, <1>2 DEF Working

\* A step that only moves task t.
LEMMA Locals ==
    ASSUME Inv, NEW t \in Task, UNCHANGED <<status, product, keys, made, units>>,
           pc' \in [Task -> Label], ret' \in [Task -> Return \cup {NoReturn}],
           target' \in [Task -> Item \cup {NoItem} \cup Status], seen' \in [Task -> Status],
           \A u \in Task \ {t} : /\ pc'[u] = pc[u] /\ ret'[u] = ret[u]
                                 /\ target'[u] = target[u] /\ seen'[u] = seen[u],
           pc'[t] = "create" => \A u \in Task \ {t} : pc[u] = "create" => ret[u] # ret'[t],
           Working(t)'
    PROVE  Inv'
<1>1. Typed' /\ Keyed' /\ RefundBehindIt'
  BY Zenon DEF Inv, Typed, Keyed, RefundBehindIt
<1>2. ASSUME NEW u \in Task \ {t} PROVE Working(u)'
  <2>1. pc[u] = "create" => status[ret[u]] = "none"
    BY Zenon DEF Inv, Working
  <2>2. made' \in [Return -> Nat] /\ \A r \in Return : made'[r] >= made[r]
    BY DEF Inv, Typed
  <2> QED BY Zenon, <2>1, <2>2, Others
<1> QED BY Zenon, <1>1, <1>2 DEF Inv

\* The requests of buyers, sellers and the job begin.
LEMMA Begins ==
    ASSUME Inv, NEW t \in Task, NEW label \in Label \ (Paid \cup {"create"}),
           NEW r \in Return \cup {NoReturn}, NEW x \in Item \cup {NoItem} \cup Status,
           NEW st \in Status, Begin(t, label, r, x, st),
           label \in Receiving \cup {"write"} =>
               r \in Return /\ status[r] # "none" /\ st \notin Closed,
           label = "write" => x \in Answers,
           label = "query" => x \in Item,
           label \in Receiving => x = product[r]
    PROVE  Inv'
<1>1. /\ pc'[t] = label /\ ret'[t] = r /\ target'[t] = x /\ seen'[t] = st
      /\ UNCHANGED <<status, product, keys, made, units>>
  BY Zenon DEF Begin, Inv, Typed, order, stripe, history
<1>2. /\ pc' \in [Task -> Label] /\ ret' \in [Task -> Return \cup {NoReturn}]
      /\ target' \in [Task -> Item \cup {NoItem} \cup Status] /\ seen' \in [Task -> Status]
      /\ \A u \in Task \ {t} : /\ pc'[u] = pc[u] /\ ret'[u] = ret[u]
                               /\ target'[u] = target[u] /\ seen'[u] = seen[u]
  BY Zenon DEF Begin, Inv, Typed
<1>3. Working(t)'
  <2>1. label # "create" /\ label \notin Paid
    OBVIOUS
  <2> QED BY Zenon, <1>1, <2>1 DEF Working
<1>4. pc'[t] # "create"
  BY Zenon, <1>1
<1> QED BY Zenon, <1>1, <1>2, <1>3, <1>4, Locals

\* Requests and the job.
LEMMA BeginStep ==
    ASSUME Inv, NEW t \in Task, Request(t) \/ Job(t)
    PROVE  Inv'
<1>1. ASSUME NEW i \in Item, CreateBegin(t, i) PROVE Inv'
  <2>1. Begin(t, "query", NoReturn, i, "none")
    BY Zenon, <1>1 DEF CreateBegin
  <2> QED BY Zenon, <2>1, Begins DEF Label, Paid, Receiving, Status
<1>2. ASSUME NEW r \in Return, NEW s \in Answers, NEW st \in Status \ {"none"},
             st = status[r], st \notin Closed, Begin(t, "write", r, s, st)
      PROVE  Inv'
  <2>1. s \in Status
    BY Zenon DEF Answers, Status, Active, Closed
  <2> QED BY <1>2, <2>1, Begins DEF Label, Paid, Receiving
<1>3. ASSUME NEW r \in Return, NEW s \in Status, AnswerBegin(t, r, s) PROVE Inv'
  <2>1. status[r] \in {"requested", "approved", "label_issued"} /\ s \in Answers
    BY Zenon, <1>3 DEF AnswerBegin, valid_return_transitions, Answers
  <2> QED BY Zenon, <1>2, <1>3, <2>1 DEF AnswerBegin, Status, Active, Closed
<1>4. ASSUME NEW r \in Return, EscalateBegin(t, r) \/ JobBegin(t, r) PROVE Inv'
  BY Zenon, <1>2, <1>4 DEF EscalateBegin, JobBegin, Answers, Status, Active, Closed
<1>5. ASSUME NEW r \in Return, ReceiveBegin(t, r) PROVE Inv'
  <2>1. status[r] \in {"approved", "label_issued"}
    BY Zenon, <1>5 DEF ReceiveBegin, valid_return_transitions
  <2>2. status[r] \in Status /\ status[r] # "none" /\ status[r] \notin Closed
    BY Zenon, <2>1 DEF Status, Active, Closed
  <2>3. product[r] \in Item \cup {NoItem}
    BY Zenon DEF Inv, Typed
  <2> QED BY <1>5, <2>2, <2>3, Begins DEF ReceiveBegin, Label, Paid, Receiving
<1> QED BY Zenon, <1>1, <1>3, <1>4, <1>5 DEF Request, Job

\* A handler ends or goes on without a write that matters here.
LEMMA QuietStep ==
    ASSUME Inv, NEW t \in Task,
           \/ \E r \in Return : CreateQuery(t, r)
           \/ CreateRefused(t) \/ ReadOrder(t) \/ RefundRefused(t) \/ Mark(t) \/ Drop(t)
    PROVE  Inv'
<1>1. UNCHANGED <<status, product, keys, made, units>>
  BY Zenon DEF CreateQuery, CreateRefused, ReadOrder, RefundRefused, Mark, Drop, order, stripe, history
<1>2. ASSUME NEW r \in Return, CreateQuery(t, r) PROVE Inv'
  <2>1. /\ pc' = [pc EXCEPT ![t] = "create"] /\ ret' = [ret EXCEPT ![t] = r]
        /\ UNCHANGED <<target, seen>> /\ status[r] = "none" /\ \A u \in Task : ret[u] # r
    BY Zenon, <1>2 DEF CreateQuery, FreshIds
  <2>2. /\ pc' \in [Task -> Label] /\ ret' \in [Task -> Return \cup {NoReturn}]
        /\ target' \in [Task -> Item \cup {NoItem} \cup Status] /\ seen' \in [Task -> Status]
        /\ pc'[t] = "create" /\ ret'[t] = r
        /\ \A u \in Task \ {t} : pc'[u] = pc[u] /\ ret'[u] = ret[u]
    BY Zenon, <2>1 DEF Inv, Typed, Label
  <2>3. Working(t)'
    <3>1. target[t] \in Item
      BY Zenon, <1>2 DEF Working, CreateQuery, Inv
    <3>2. "create" \notin Receiving \cup {"write"} /\ "create" \notin Paid
      BY DEF Receiving, Paid
    <3> QED BY Zenon, <1>1, <2>1, <2>2, <3>1, <3>2 DEF Working
  <2> QED BY Zenon, <1>1, <2>1, <2>2, <2>3, Locals
<1>3. ASSUME End(t) PROVE Inv'
  <2>1. /\ pc' \in [Task -> Label] /\ ret' \in [Task -> Return \cup {NoReturn}]
        /\ target' \in [Task -> Item \cup {NoItem} \cup Status] /\ seen' \in [Task -> Status]
        /\ pc'[t] = "idle"
        /\ \A u \in Task \ {t} : /\ pc'[u] = pc[u] /\ ret'[u] = ret[u]
                                 /\ target'[u] = target[u] /\ seen'[u] = seen[u]
    BY Zenon, <1>3 DEF End, Inv, Typed, Label, Status
  <2>2. Working(t)'
    BY Zenon, <2>1 DEF Working, Receiving, Paid
  <2> QED BY Zenon, <1>1, <2>1, <2>2, Locals
<1>4. CASE ReadOrder(t)
  <2>1. pc[t] = "read" /\ pc' = [pc EXCEPT ![t] = "refund"] /\ UNCHANGED <<ret, target, seen>>
    BY Zenon, <1>4 DEF ReadOrder
  <2>2. pc' \in [Task -> Label] /\ pc'[t] = "refund" /\ \A u \in Task \ {t} : pc'[u] = pc[u]
    BY Zenon, <2>1 DEF Inv, Typed, Label
  <2>3. Working(t)
    BY Zenon DEF Inv
  <2>4. Working(t)'
    BY Zenon, <1>1, <2>1, <2>2, <2>3 DEF Working, Receiving, Paid
  <2> QED BY Zenon, <1>1, <2>1, <2>2, <2>4, Locals DEF Inv, Typed
<1> QED BY Zenon, <1>2, <1>3, <1>4 DEF CreateRefused, RefundRefused, Mark, Drop

\* What End and Goto do.
LEMMA Moves ==
    ASSUME Inv, NEW t \in Task, NEW label \in Label, End(t) \/ Goto(t, label)
    PROVE  /\ pc' \in [Task -> Label] /\ ret' \in [Task -> Return \cup {NoReturn}]
           /\ target' \in [Task -> Item \cup {NoItem} \cup Status] /\ seen' \in [Task -> Status]
           /\ \A u \in Task \ {t} : /\ pc'[u] = pc[u] /\ ret'[u] = ret[u]
                                    /\ target'[u] = target[u] /\ seen'[u] = seen[u]
           /\ End(t) => pc'[t] = "idle"
           /\ Goto(t, label) => /\ pc'[t] = label
                                /\ ret' = ret /\ target' = target /\ seen' = seen
BY Zenon DEF End, Goto, Inv, Typed, Label, Status

\* A new request: its id is fresh for Stripe, too.
LEMMA InsertStep ==
    ASSUME Inv, NEW t \in Task, CreateInsert(t)
    PROVE  Inv'
<1> DEFINE r == ret[t]
<1>1. /\ r \in Return /\ status[r] = "none"
      /\ \A u \in Task \ {t} : pc[u] = "create" => ret[u] # r
  BY Zenon DEF CreateInsert, Inv, Working
<1>2. /\ status' = [status EXCEPT ![r] = "requested"]
      /\ product' = [product EXCEPT ![r] = target[t]]
      /\ UNCHANGED <<keys, made, units>> /\ End(t)
  BY Zenon DEF CreateInsert, stripe, history
<1>3. \A u \in Task \ {t} : /\ pc'[u] = pc[u] /\ ret'[u] = ret[u]
                            /\ target'[u] = target[u] /\ seen'[u] = seen[u]
  BY Zenon, <1>2, Moves DEF Label
<1>4. /\ \A q \in Return : status[q] # "none" => status'[q] # "none" /\ product'[q] = product[q]
      /\ \A q \in Return \ {r} : status'[q] = status[q] /\ product'[q] = product[q]
  BY Zenon, <1>1, <1>2 DEF Inv, Typed
<1>6. \A k \in keys : \A y : k # <<r, y>>
  BY <1>1 DEF Inv, Keyed
<1>7. made[r] = 0
  BY Zenon, <1>1, <1>6 DEF Inv, Keyed
<1>8. Keyed'
  BY <1>1, <1>2, <1>4, <1>6, <1>7 DEF Inv, Keyed
<1>9. RefundBehindIt'
  BY Zenon, <1>1, <1>2 DEF Inv, Typed, RefundBehindIt
<1>10. ASSUME NEW u \in Task \ {t} PROVE Working(u)'
  <2>1. pc[u] = "create" => ret[u] \in Return \ {r} /\ status[ret[u]] = "none"
    BY Zenon, <1>1 DEF Inv, Working
  <2>2. made' \in [Return -> Nat] /\ \A q \in Return : made'[q] >= made[q]
    BY <1>2 DEF Inv, Typed
  <2>3. pc'[t] # "create"
    BY Zenon, <1>2, Moves DEF Label
  <2> QED BY Zenon, <1>3, <1>4, <2>1, <2>2, <2>3, Others
<1>11. Working(t)'
  BY Zenon, <1>2, Moves DEF Working, Receiving, Paid, Label
<1>12. Typed'
  <2>1. target[t] \in Item
    BY Zenon DEF Inv, Working, CreateInsert
  <2> QED BY Zenon, <1>2, <2>1, Moves DEF Inv, Typed, Label, Status, Active
<1> QED BY Zenon, <1>8, <1>9, <1>10, <1>11, <1>12 DEF Inv

\* The status of a request is written: by an answer, or after a refund.
LEMMA StatusStep ==
    ASSUME Inv, NEW t \in Task, Write(t) \/ Resolve(t)
    PROVE  Inv'
<1> DEFINE r == ret[t]
<1>0. Working(t)
  BY Zenon DEF Inv
<1>1. r \in Return /\ status[r] # "none"
  BY Zenon, <1>0 DEF Write, Resolve, Working, Receiving
<1>2. PICK s \in Answers \cup {"refunded"} :
         /\ status' = [status EXCEPT ![r] = s]
         /\ s = "refunded" => made[r] > 0
  BY Zenon, <1>0 DEF Write, Resolve, SetStatus, Working, Paid, Answers
<1>3. UNCHANGED <<product, keys, made, units>> /\ (End(t) \/ Goto(t, "mark"))
  BY Zenon DEF Write, Resolve, stripe
<1>4. s # "none" /\ s \in Status
  BY Zenon DEF Answers, Status, Active, Closed
<1>5. /\ \A q \in Return : status[q] # "none" => status'[q] # "none"
      /\ \A q \in Return \ {r} : status'[q] = status[q]
      /\ status' \in [Return -> Status] /\ status'[r] = s
  BY Zenon, <1>1, <1>2, <1>4 DEF Inv, Typed
<1>6. /\ pc' \in [Task -> Label] /\ ret' \in [Task -> Return \cup {NoReturn}]
      /\ target' \in [Task -> Item \cup {NoItem} \cup Status] /\ seen' \in [Task -> Status]
      /\ \A u \in Task \ {t} : /\ pc'[u] = pc[u] /\ ret'[u] = ret[u]
                               /\ target'[u] = target[u] /\ seen'[u] = seen[u]
      /\ pc'[t] \in {"idle", "mark"}
  BY Zenon, <1>3, Moves DEF Label
<1>7. Typed'
  BY Zenon, <1>3, <1>5, <1>6 DEF Inv, Typed
<1>11. Keyed'
  BY Zenon, <1>3, <1>5 DEF Inv, Keyed
<1>8. RefundBehindIt'
  BY Zenon, <1>2, <1>3, <1>5 DEF Inv, RefundBehindIt
<1>9. ASSUME NEW u \in Task \ {t} PROVE Working(u)'
  <2>1. pc[u] = "create" => ret[u] \in Return \ {r} /\ status[ret[u]] = "none"
    BY Zenon, <1>1 DEF Inv, Working
  <2>2. made' \in [Return -> Nat] /\ \A q \in Return : made'[q] >= made[q]
    BY <1>3 DEF Inv, Typed
  <2> QED BY Zenon, <1>3, <1>5, <1>6, <2>1, <2>2, Others
<1>10. Working(t)'
  <2>1. CASE Write(t)
    <3>1. pc'[t] = "idle"
      BY Zenon, <2>1, Moves DEF Write, Label
    <3> QED BY Zenon, <3>1 DEF Working, Receiving, Paid
  <2>2. CASE Resolve(t)
    <3>1. /\ pc[t] = "resolve" /\ pc'[t] = "mark"
          /\ ret' = ret /\ target' = target /\ seen' = seen
      BY Zenon, <2>2, Moves DEF Resolve, Label
    <3> QED BY Zenon, <1>0, <1>3, <1>4, <1>5, <3>1 DEF Working, Receiving, Paid
  <2> QED BY Zenon, <2>1, <2>2
<1> QED BY Zenon, <1>7, <1>8, <1>9, <1>10, <1>11 DEF Inv

\* Stripe refunds, or repeats its answer.
LEMMA RefundStep ==
    ASSUME Inv, NEW t \in Task, Refund(t) \/ RefundUnheard(t)
    PROVE  Inv'
<1> DEFINE r == ret[t]
           k == <<r, product[r]>>
<1>0. Working(t) /\ pc[t] = "refund"
  BY Zenon DEF Inv, Refund, RefundUnheard
<1>1. r \in Return /\ status[r] # "none" /\ target[t] = product[r]
  BY Zenon, <1>0 DEF Working, Receiving
<1>2. UNCHANGED <<status, product, units>> /\ (End(t) \/ Goto(t, "restock"))
  BY Zenon DEF Refund, RefundUnheard, order
<1>3. \/ k \in keys /\ UNCHANGED <<keys, made>>
      \/ /\ k \notin keys /\ keys' = keys \cup {k}
         /\ made' = [made EXCEPT ![r] = @ + 1]
  <2>1. IdempotencyKey(t) = k /\ k[1] = r
    BY Zenon, <1>1 DEF IdempotencyKey
  <2>2. StripeRefund(k, target[t])
    BY Zenon, <2>1 DEF Refund, RefundUnheard
  <2> QED BY Zenon, <2>1, <2>2 DEF StripeRefund
<1>4. k \in keys' /\ (\A x \in keys' : x \in keys \/ x = k) /\ keys \subseteq keys'
  BY Zenon, <1>3
<1>5. /\ made' \in [Return -> Nat] /\ made'[r] = 1
      /\ \A q \in Return \ {r} : made'[q] = made[q]
      /\ \A q \in Return : made'[q] >= made[q]
  BY <1>1, <1>3 DEF Inv, Typed, Keyed
<1>6. Keyed'
  <2>1. \A x \in keys' : \E q \in Return : x = <<q, product[q]>> /\ status[q] # "none"
    BY Zenon, <1>1, <1>4 DEF Inv, Keyed
  <2>2. ASSUME NEW q \in Return
        PROVE  made'[q] = IF <<q, product[q]>> \in keys' THEN 1 ELSE 0
    <3>1. CASE q = r
      BY Zenon, <1>4, <1>5, <3>1
    <3>2. CASE q # r
      <4>1. <<q, product[q]>> # k
        BY Zenon, <3>2
      <4>2. <<q, product[q]>> \in keys' <=> <<q, product[q]>> \in keys
        BY Zenon, <1>4, <4>1
      <4> QED BY Zenon, <1>5, <3>2, <4>2 DEF Inv, Keyed
    <3> QED BY Zenon, <3>1, <3>2
  <2> QED BY Zenon, <1>2, <2>1, <2>2 DEF Keyed
<1>7. RefundBehindIt'
  BY <1>2, <1>5 DEF Inv, Typed, RefundBehindIt
<1>8. /\ pc' \in [Task -> Label] /\ ret' \in [Task -> Return \cup {NoReturn}]
      /\ target' \in [Task -> Item \cup {NoItem} \cup Status] /\ seen' \in [Task -> Status]
      /\ \A u \in Task \ {t} : /\ pc'[u] = pc[u] /\ ret'[u] = ret[u]
                               /\ target'[u] = target[u] /\ seen'[u] = seen[u]
      /\ pc'[t] \in {"idle", "restock"}
  BY Zenon, <1>2, Moves DEF Label
<1>9. Typed'
  BY Zenon, <1>2, <1>5, <1>8 DEF Inv, Typed
<1>10. ASSUME NEW u \in Task \ {t} PROVE Working(u)'
  <2>1. pc[u] = "create" => status[ret[u]] = "none"
    BY Zenon DEF Inv, Working
  <2> QED BY Zenon, <1>2, <1>5, <1>8, <2>1, Others
<1>11. Working(t)'
  <2>1. CASE End(t)
    BY Zenon, <2>1, Moves DEF Working, Receiving, Paid, Label
  <2>2. CASE Goto(t, "restock")
    <3>1. pc'[t] = "restock" /\ ret' = ret /\ target' = target /\ seen' = seen
      BY Zenon, <2>2, Moves DEF Label
    <3> QED BY <1>0, <1>1, <1>2, <1>5, <3>1 DEF Working, Receiving, Paid
  <2> QED BY Zenon, <1>2, <2>1, <2>2
<1> QED BY Zenon, <1>6, <1>7, <1>9, <1>10, <1>11 DEF Inv

\* A unit goes back to the stock after the refund.
LEMMA RestockStep ==
    ASSUME Inv, NEW t \in Task, Restock(t)
    PROVE  Inv'
<1>0. Working(t) /\ pc[t] = "restock" /\ Goto(t, "resolve")
  BY Zenon DEF Inv, Restock
<1>1. ret[t] \in Return /\ made[ret[t]] > 0
  BY Zenon, <1>0 DEF Working, Receiving, Paid
<1>2. UNCHANGED <<status, product, keys, made>> /\ units' = [units EXCEPT ![ret[t]] = @ + 1]
  BY Zenon DEF Restock, order, stripe
<1>3. /\ pc' \in [Task -> Label] /\ pc'[t] = "resolve"
      /\ UNCHANGED <<ret, target, seen>> /\ \A u \in Task \ {t} : pc'[u] = pc[u]
  BY Zenon, <1>0, Moves DEF Label
<1>4. Typed' /\ Keyed' /\ RefundBehindIt'
  BY <1>1, <1>2, <1>3 DEF Inv, Typed, Keyed, RefundBehindIt
<1>5. ASSUME NEW u \in Task \ {t} PROVE Working(u)'
  <2>1. pc[u] = "create" => status[ret[u]] = "none"
    BY Zenon DEF Inv, Working
  <2>2. made' \in [Return -> Nat] /\ \A q \in Return : made'[q] >= made[q]
    BY <1>2 DEF Inv, Typed
  <2> QED BY Zenon, <1>2, <1>3, <2>1, <2>2, Others
<1>6. Working(t)'
  BY Zenon, <1>0, <1>1, <1>2, <1>3 DEF Working, Receiving, Paid
<1> QED BY Zenon, <1>4, <1>5, <1>6 DEF Inv

\* Every step keeps the invariant.
LEMMA InvStep == Inv /\ [Next]_vars => Inv'
<1> SUFFICES ASSUME Inv, [Next]_vars PROVE Inv'
  OBVIOUS
<1>1. CASE UNCHANGED vars
  BY Zenon, <1>1 DEF vars, order, stripe, locals, history, Inv, Typed, Working, Keyed, RefundBehindIt
<1>2. CASE Next
  BY Zenon, <1>2, BeginStep, QuietStep, InsertStep, StatusStep, RefundStep, RestockStep DEF Next, Step
<1> QED BY Zenon, <1>1, <1>2

\* Stripe makes at most one refund for a return request (mark_received in returns.rs), for
\* any number of handlers at once, and failures at any of their calls.
THEOREM OneRefund == Spec => []RefundedOncePerReturn
<1>1. Inv => RefundedOncePerReturn
  <2> SUFFICES ASSUME Inv, NEW r \in Return PROVE made[r] <= 1
    BY Zenon DEF RefundedOncePerReturn
  <2>1. made[r] = 0 \/ made[r] = 1
    BY Zenon DEF Inv, Keyed
  <2> QED BY <2>1
<1> QED BY <1>1, InitInv, InvStep, PTL DEF Spec

\* A request that says "refunded", and a returned unit, have a refund at Stripe behind them.
THEOREM RefundFirst == Spec => []RefundBehindIt
<1>1. Inv => RefundBehindIt
  BY Zenon DEF Inv
<1> QED BY <1>1, InitInv, InvStep, PTL DEF Spec

\* A step changes a closed request only if it is noted as stale.
LEMMA ClosedStep ==
    ASSUME Inv, [Next]_vars, NEW r \in Return, status[r] \in Closed, status'[r] # status[r]
    PROVE  r \in stale'
<1>1. PICK t \in Task : CreateInsert(t) \/ Write(t) \/ Resolve(t)
  <2>1. Next
    BY Zenon DEF vars, order
  <2>2. PICK t \in Task : Request(t) \/ Job(t) \/ Step(t) \/ RefundUnheard(t) \/ Drop(t)
    BY Zenon, <2>1 DEF Next
  <2>3. ~Request(t) /\ ~Job(t)
    BY Zenon DEF Request, Job, CreateBegin, AnswerBegin, EscalateBegin, ReceiveBegin, JobBegin,
           Begin, order
  <2>4. ~(\E q \in Return : CreateQuery(t, q)) /\ ~CreateRefused(t) /\ ~ReadOrder(t)
    BY Zenon DEF CreateQuery, CreateRefused, ReadOrder, order
  <2>5. ~Refund(t) /\ ~RefundRefused(t) /\ ~Restock(t) /\ ~Mark(t)
    BY Zenon DEF Refund, RefundRefused, Restock, Mark, order
  <2>6. ~RefundUnheard(t) /\ ~Drop(t)
    BY Zenon DEF RefundUnheard, Drop, order
  <2> QED BY Zenon, <2>2, <2>3, <2>4, <2>5, <2>6 DEF Step
<1>2. Working(t)
  BY Zenon DEF Inv
<1>3. CASE CreateInsert(t)
  <2>1. ret[t] \in Return /\ status[ret[t]] = "none"
    BY Zenon, <1>2, <1>3 DEF CreateInsert, Working
  <2> QED BY Zenon, <1>3, <2>1 DEF CreateInsert, Inv, Typed, Closed
<1>4. CASE Write(t) \/ Resolve(t)
  <2>1. PICK s : SetStatus(t, ret[t], s)
    BY Zenon, <1>4 DEF Write, Resolve
  <2>2. seen[t] \notin Closed
    BY Zenon, <1>2, <1>4 DEF Write, Resolve, Working, Receiving
  <2>3. r = ret[t]
    BY Zenon, <2>1 DEF SetStatus, Inv, Typed
  <2> QED BY Zenon, <2>1, <2>2, <2>3 DEF SetStatus
<1> QED BY Zenon, <1>1, <1>3, <1>4

\* A closed request changes only by a handler that read it before it was closed.
THEOREM ClosedStays == Spec => ClosedUnlessStale
<1>1. Inv /\ [Next]_vars =>
        [\A r \in Return : status[r] \in Closed /\ status'[r] # status[r] => r \in stale']_vars
  BY Zenon, ClosedStep
<1> QED BY <1>1, InitInv, InvStep, PTL DEF Spec, ClosedUnlessStale

\* The order shows a refund.
LEMMA MarkedStep ==
    ASSUME Inv, RefundedIsMarked, [Next]_vars
    PROVE  RefundedIsMarked'
<1> SUFFICES ASSUME NEW r \in Return \ unmarked', status'[r] = "refunded",
                    \A t \in Task : ~(pc'[t] = "mark" /\ ret'[t] = r)
             PROVE  product'[r] \in marked'
  BY Zenon DEF RefundedIsMarked
<1>1. ASSUME NEW t \in Task, Mark(t) PROVE product'[r] \in marked'
  <2>1. /\ status' = status /\ product' = product /\ marked' = copy[t] \cup {target[t]}
        /\ r \notin unmarked /\ product[r] \notin marked \ marked'
    BY Zenon, <1>1 DEF Mark
  <2>2. CASE ret[t] = r
    BY Zenon, <1>1, <2>1, <2>2 DEF Mark, Inv, Working, Receiving
  <2>3. CASE ret[t] # r
    <3>1. \A u \in Task \ {t} : pc'[u] = pc[u] /\ ret'[u] = ret[u]
      BY Zenon, <1>1, Moves DEF Mark, Label
    <3>2. \A u \in Task : ~(pc[u] = "mark" /\ ret[u] = r)
      BY Zenon, <2>3, <3>1
    <3> QED BY Zenon, <2>1, <3>2 DEF RefundedIsMarked
  <2> QED BY Zenon, <2>2, <2>3
<1>2. ASSUME NEW t \in Task, Resolve(t) PROVE product'[r] \in marked'
  <2>1. /\ pc'[t] = "mark" /\ ret'[t] = ret[t]
        /\ \A u \in Task \ {t} : pc'[u] = pc[u] /\ ret'[u] = ret[u]
    BY Zenon, <1>2, Moves DEF Resolve, Label
  <2>2. r # ret[t]
    BY Zenon, <2>1
  <2>3. status[r] = "refunded" /\ UNCHANGED <<product, marked, unmarked>>
    BY Zenon, <1>2, <2>2 DEF Resolve, SetStatus, Inv, Typed
  <2>4. \A u \in Task : ~(pc[u] = "mark" /\ ret[u] = r)
    BY Zenon, <2>1, <2>2
  <2> QED BY Zenon, <2>3, <2>4 DEF RefundedIsMarked
<1>3. ASSUME NEW t \in Task, Write(t) PROVE product'[r] \in marked'
  <2>1. ret[t] \in Return /\ target[t] # "refunded"
    BY Zenon, <1>3 DEF Write, Inv, Working, Answers
  <2>2. status[r] = "refunded" /\ UNCHANGED <<product, marked, unmarked>>
    BY Zenon, <1>3, <2>1 DEF Write, SetStatus, Inv, Typed
  <2>3. pc[t] = "write" /\ \A u \in Task \ {t} : pc'[u] = pc[u] /\ ret'[u] = ret[u]
    BY Zenon, <1>3, Moves DEF Write, Label
  <2> QED BY Zenon, <2>2, <2>3 DEF RefundedIsMarked
<1>4. ASSUME NEW t \in Task, CreateInsert(t) PROVE product'[r] \in marked'
  <2>1. ret[t] \in Return /\ status[ret[t]] = "none" /\ pc[t] = "create"
    BY Zenon, <1>4 DEF CreateInsert, Inv, Working
  <2>2. status[r] = "refunded" /\ product'[r] = product[r] /\ UNCHANGED <<marked, unmarked>>
    BY Zenon, <1>4, <2>1 DEF CreateInsert, Inv, Typed, history
  <2>3. \A u \in Task \ {t} : pc'[u] = pc[u] /\ ret'[u] = ret[u]
    BY Zenon, <1>4, Moves DEF CreateInsert, Label
  <2> QED BY Zenon, <2>1, <2>2, <2>3 DEF RefundedIsMarked
<1>5. ASSUME NEW t \in Task, UNCHANGED <<status, product, marked>>, unmarked \subseteq unmarked',
             \A u \in Task \ {t} : pc'[u] = pc[u] /\ ret'[u] = ret[u],
             pc[t] = "mark" => ret[t] \in unmarked'
      PROVE  product'[r] \in marked'
  BY Zenon, <1>5 DEF RefundedIsMarked
<1>6. ASSUME NEW t \in Task, Request(t) \/ Job(t) PROVE product'[r] \in marked'
  <2>1. PICK label, q, x, st : Begin(t, label, q, x, st)
    BY Zenon, <1>6 DEF Request, Job, CreateBegin, AnswerBegin, EscalateBegin, ReceiveBegin, JobBegin
  <2> QED BY Zenon, <1>5, <2>1 DEF Begin, order, history, Inv, Typed
<1>7. ASSUME NEW t \in Task, \/ \E q \in Return : CreateQuery(t, q)
                             \/ ReadOrder(t)
      PROVE  product'[r] \in marked'
  BY Zenon, <1>5, <1>7 DEF CreateQuery, ReadOrder, order, history, Inv, Typed
<1>8. ASSUME NEW t \in Task, \/ CreateRefused(t) \/ RefundRefused(t) \/ Refund(t)
                             \/ RefundUnheard(t) \/ Restock(t) \/ Drop(t)
      PROVE  product'[r] \in marked'
  <2>1. End(t) \/ \E label \in Label : Goto(t, label)
    BY Zenon, <1>8 DEF CreateRefused, RefundRefused, Refund, RefundUnheard, Restock, Drop, Label
  <2>2. \A u \in Task \ {t} : pc'[u] = pc[u] /\ ret'[u] = ret[u]
    BY Zenon, <2>1, Moves DEF Label
  <2>3. UNCHANGED <<status, product, marked>> /\ unmarked \subseteq unmarked'
    BY Zenon, <1>8 DEF CreateRefused, RefundRefused, Refund, RefundUnheard, Restock, Drop, order, history
  <2>4. pc[t] = "mark" => ret[t] \in unmarked'
    BY Zenon, <1>8 DEF CreateRefused, RefundRefused, Refund, RefundUnheard, Restock, Drop
  <2> QED BY Zenon, <1>5, <2>2, <2>3, <2>4
<1>9. CASE UNCHANGED vars
  BY Zenon, <1>9 DEF vars, order, locals, history, RefundedIsMarked
<1> QED BY Zenon, <1>1, <1>2, <1>3, <1>4, <1>6, <1>7, <1>8, <1>9 DEF Next, Step

\* The order shows the refund of every request that says "refunded", once its handler has
\* written it, apart from the marks that a failure or a concurrent write lost.
THEOREM RefundShown == Spec => []RefundedIsMarked
<1>1. Init => RefundedIsMarked
  BY Zenon DEF Init, RefundedIsMarked
<1> QED BY <1>1, MarkedStep, InitInv, InvStep, PTL DEF Spec

\* Return request, stock, order and Stripe agree about the refund of a return
\* (mark_received): made once, before anything says so, and shown by the order.
THEOREM Agreement == Spec => []RefundsAgree
<1>1. RefundedOncePerReturn /\ RefundBehindIt /\ RefundedIsMarked => RefundsAgree
  BY Zenon DEF RefundsAgree
<1> QED BY <1>1, OneRefund, RefundFirst, RefundShown, PTL

-----------------------------------------------------------------------------
(* One active request. *)

\* An id that is not used yet names no item.
Unborn == \A r \in Return : status[r] = "none" => product[r] = NoItem /\ r \notin stale

\* The query of a task that is about to insert found no active request, and this is still
\* so: nobody else inserts one for the item, and a closed one stays closed unless stale.
Checked(t) ==
    pc[t] = "create" /\ target[t] \notin unchecked =>
        /\ \A u \in Task \ {t} : pc[u] = "create" => target[u] # target[t]
        /\ \/ \A x \in Return : product[x] # target[t]
           \/ \E x \in Return : product[x] = target[t] /\ (status[x] \in Closed \/ x \in stale)

One == Unborn /\ (\A t \in Task : Checked(t)) /\ OneActiveReturn

\* A step that writes no request, and brings no task to its insertion.
LEMMA OneQuiet ==
    ASSUME One, NEW t \in Task, UNCHANGED <<status, product, stale, unchecked>>, pc'[t] # "create",
           \A u \in Task \ {t} : pc'[u] = pc[u] /\ target'[u] = target[u]
    PROVE  One'
<1>1. Unborn' /\ OneActiveReturn'
  BY DEF One, Unborn, OneActiveReturn
<1>2. ASSUME NEW u \in Task PROVE Checked(u)'
  <2>1. CASE u = t
    BY Zenon, <2>1 DEF Checked
  <2>2. CASE u # t
    <3>1. Checked(u) /\ pc'[u] = pc[u] /\ target'[u] = target[u]
      BY Zenon, <2>2 DEF One
    <3> QED BY Zenon, <3>1 DEF Checked
  <2> QED BY Zenon, <2>1, <2>2
<1> QED BY Zenon, <1>1, <1>2 DEF One

\* The query: it overlaps with no other creation, or the item is noted.
LEMMA OneQuery ==
    ASSUME Inv, One, NEW t \in Task, NEW r \in Return, CreateQuery(t, r)
    PROVE  One'
<1> DEFINE i == target[t]
           found == Of(i) = {} \/ \E x \in Of(i) : status[x] \in Closed
           overlap == \E u \in Task : pc[u] = "create" /\ target[u] = i
<1>1. /\ UNCHANGED <<status, product, stale, target>>
      /\ unchecked' = IF overlap \/ ~found THEN unchecked \cup {i} ELSE unchecked
      /\ pc'[t] = "create" /\ \A u \in Task \ {t} : pc'[u] = pc[u]
  BY Zenon DEF CreateQuery, order, Inv, Typed
<1>2. unchecked \subseteq unchecked' /\ (i \notin unchecked' => ~overlap /\ found)
  BY Zenon, <1>1
<1>3. Unborn' /\ OneActiveReturn'
  <2>1. Unborn'
    BY Zenon, <1>1 DEF One, Unborn
  <2> QED BY <1>1, <1>2, <2>1 DEF One, OneActiveReturn
<1>4. ASSUME NEW u \in Task PROVE Checked(u)'
  <2>1. CASE u = t
    BY Zenon, <1>1, <1>2, <2>1 DEF Checked, Of
  <2>2. CASE u # t
    <3>1. Checked(u) /\ pc'[u] = pc[u]
      BY Zenon, <1>1, <2>2 DEF One
    <3>2. pc[u] = "create" /\ target[u] \notin unchecked' => target[u] # i
      BY Zenon, <1>2
    <3> QED BY Zenon, <1>1, <1>2, <2>2, <3>1, <3>2 DEF Checked
  <2> QED BY Zenon, <2>1, <2>2
<1> QED BY Zenon, <1>3, <1>4 DEF One

\* The insertion.
LEMMA OneInsert ==
    ASSUME Inv, One, NEW t \in Task, CreateInsert(t)
    PROVE  One'
<1> DEFINE n == ret[t]
           i == target[t]
<1>1. /\ n \in Return /\ status[n] = "none" /\ i \in Item
      /\ product[n] = NoItem /\ n \notin stale
  BY Zenon DEF CreateInsert, Inv, Working, One, Unborn
<1>2. /\ status'[n] = "requested" /\ product'[n] = i /\ UNCHANGED <<stale, unchecked>>
      /\ \A q \in Return \ {n} : status'[q] = status[q] /\ product'[q] = product[q]
      /\ pc[t] = "create" /\ pc'[t] = "idle"
      /\ \A u \in Task \ {t} : pc'[u] = pc[u] /\ target'[u] = target[u]
  BY Zenon, <1>1 DEF CreateInsert, history, End, Inv, Typed
<1>3. Unborn'
  BY Zenon, <1>2 DEF One, Unborn
<1>4. n \notin stale /\ status[n] \notin Closed /\ Checked(t)
  BY Zenon, <1>1 DEF Closed, One
<1>5. ASSUME NEW u \in Task PROVE Checked(u)'
  <2>1. CASE u = t
    BY Zenon, <1>2, <2>1 DEF Checked
  <2>2. CASE u # t
    <3>1. Checked(u) /\ pc'[u] = pc[u] /\ target'[u] = target[u]
      BY Zenon, <1>2, <2>2 DEF One
    <3>2. pc[u] = "create" /\ target[u] \notin unchecked => target[u] # i
      BY Zenon, <1>2, <2>2, <3>1 DEF Checked
    <3>3. ASSUME \A x \in Return : product[x] # target[u], target[u] # i
          PROVE  \A x \in Return : product'[x] # target[u]
      BY Zenon, <1>2, <3>3
    <3>4. ASSUME NEW x \in Return, product[x] = target[u], status[x] \in Closed \/ x \in stale
          PROVE  product'[x] = target[u] /\ (status'[x] \in Closed \/ x \in stale')
      <4>1. x # n
        BY Zenon, <1>4, <3>4
      <4> QED BY Zenon, <1>2, <3>4, <4>1
    <3> QED BY Zenon, <1>2, <2>2, <3>1, <3>2, <3>3, <3>4 DEF Checked
  <2> QED BY Zenon, <2>1, <2>2
<1>6. ASSUME NEW j \in Item \ unchecked', NEW r \in Return, NEW q \in Return,
             product'[r] = j, product'[q] = j,
             \A x \in Return : product'[x] = j => status'[x] \in Active /\ x \notin stale'
      PROVE  r = q
  <2>1. CASE j = i
    <3>1. ~\E x \in Return : product[x] = i /\ (status[x] \in Closed \/ x \in stale)
      <4> SUFFICES ASSUME NEW x \in Return, product[x] = i, status[x] \in Closed \/ x \in stale
                   PROVE  FALSE
        BY Zenon
      <4>1. x # n
        BY Zenon, <1>4
      <4> QED BY Zenon, <1>2, <1>6, <2>1, <4>1 DEF Active, Closed
    <3>2. \A x \in Return : product[x] # i
      BY Zenon, <1>2, <1>4, <2>1, <3>1 DEF Checked
    <3> QED BY Zenon, <1>2, <1>6, <2>1, <3>2
  <2>2. CASE j # i
    <3>1. r # n /\ q # n /\ product[n] # j
      BY Zenon, <1>1, <1>2, <1>6, <2>2, NoItemAssumption
    <3>2. \A x \in Return : product[x] = j => status[x] \in Active /\ x \notin stale
      BY Zenon, <1>2, <1>6, <3>1
    <3> QED BY <1>2, <1>6, <3>1, <3>2 DEF One, OneActiveReturn
  <2> QED BY Zenon, <2>1, <2>2
<1>7. OneActiveReturn'
  BY Zenon, <1>6 DEF OneActiveReturn
<1> QED BY Zenon, <1>3, <1>5, <1>7 DEF One

\* An answer or a receipt: a closed request that it opens again is stale.
LEMMA OneStatus ==
    ASSUME Inv, One, NEW t \in Task, Write(t) \/ Resolve(t)
    PROVE  One'
<1> DEFINE n == ret[t]
<1>1. n \in Return /\ status[n] # "none" /\ seen[t] \notin Closed
  BY Zenon DEF Write, Resolve, Inv, Working, Receiving
<1>2. PICK s \in Status \ {"none"} : SetStatus(t, n, s)
  BY Zenon DEF Write, Resolve, Inv, Working, Answers, Status, Active, Closed
<1>3. /\ UNCHANGED <<product, unchecked>> /\ pc'[t] # "create"
      /\ \A u \in Task \ {t} : pc'[u] = pc[u] /\ target'[u] = target[u]
  BY Zenon, Moves DEF Write, Resolve, Label
<1>4. /\ status'[n] = s /\ stale \subseteq stale' /\ stale' \subseteq stale \cup {n}
      /\ \A q \in Return \ {n} : status'[q] = status[q]
      /\ status[n] \in Closed => n \in stale'
  BY Zenon, <1>1, <1>2 DEF SetStatus, Inv, Typed
<1>5. Unborn'
  BY Zenon, <1>1, <1>3, <1>4 DEF One, Unborn
<1>6. \A x \in Return : status[x] \in Closed \/ x \in stale => status'[x] \in Closed \/ x \in stale'
  BY Zenon, <1>4
<1>7. ASSUME NEW u \in Task PROVE Checked(u)'
  <2>1. CASE u = t
    BY Zenon, <1>3, <2>1 DEF Checked
  <2>2. CASE u # t
    <3>1. Checked(u) /\ pc'[u] = pc[u] /\ target'[u] = target[u]
      BY Zenon, <1>3, <2>2 DEF One
    <3> QED BY Zenon, <1>3, <1>6, <2>2, <3>1 DEF Checked
  <2> QED BY Zenon, <2>1, <2>2
<1>8. ASSUME NEW j \in Item, NEW x \in Return,
             product[x] = j, status'[x] \in Active, x \notin stale'
      PROVE  status[x] \in Active /\ x \notin stale
  <2>1. x \notin stale /\ status[x] \in Status
    BY Zenon, <1>4, <1>8 DEF Inv, Typed
  <2>2. x = n => status[x] \notin Closed /\ status[x] # "none"
    BY Zenon, <1>1, <1>4, <1>8
  <2> QED BY Zenon, <1>4, <1>8, <2>1, <2>2 DEF Status
<1>9. OneActiveReturn'
  <2> SUFFICES ASSUME NEW j \in Item \ unchecked', NEW r \in Return, NEW q \in Return,
                      product'[r] = j, product'[q] = j,
                      \A x \in Return : product'[x] = j => status'[x] \in Active /\ x \notin stale'
               PROVE  r = q
    BY Zenon DEF OneActiveReturn
  <2>1. \A x \in Return : product[x] = j => status[x] \in Active /\ x \notin stale
    BY Zenon, <1>3, <1>8
  <2> QED BY <1>3, <2>1 DEF One, OneActiveReturn
<1> QED BY Zenon, <1>5, <1>7, <1>9 DEF One

\* Every step.
LEMMA OneStep ==
    ASSUME Inv, One, [Next]_vars
    PROVE  One'
<1>1. CASE UNCHANGED vars
  <2>1. UNCHANGED <<status, product, stale, unchecked, pc, target>>
    BY Zenon, <1>1 DEF vars, order, locals, history
  <2>2. Unborn' /\ OneActiveReturn'
    BY <2>1 DEF One, Unborn, OneActiveReturn
  <2> QED BY Zenon, <2>1, <2>2 DEF One, Checked
<1>2. ASSUME NEW t \in Task, Request(t) \/ Job(t) PROVE One'
  <2>1. \E label \in Label \ {"create"} : \E q, x, st : Begin(t, label, q, x, st)
    BY Zenon, <1>2 DEF Request, Job, CreateBegin, AnswerBegin, EscalateBegin, ReceiveBegin,
           JobBegin, Label
  <2>2. /\ UNCHANGED <<status, product, stale, unchecked>> /\ pc'[t] # "create"
        /\ \A u \in Task \ {t} : pc'[u] = pc[u] /\ target'[u] = target[u]
    BY Zenon, <2>1 DEF Begin, order, history, Inv, Typed
  <2> QED BY Zenon, <2>2, OneQuiet
<1>3. ASSUME NEW t \in Task, \/ CreateRefused(t) \/ RefundRefused(t) \/ Mark(t) \/ Drop(t)
                             \/ Refund(t) \/ RefundUnheard(t) \/ Restock(t) \/ ReadOrder(t)
      PROVE  One'
  <2>1. \/ End(t)
        \/ \E label \in Label \ {"create"} : Goto(t, label)
        \/ ReadOrder(t)
    BY Zenon, <1>3 DEF CreateRefused, RefundRefused, Mark, Drop, Refund, RefundUnheard, Restock, Label
  <2>2. /\ pc'[t] # "create"
        /\ \A u \in Task \ {t} : pc'[u] = pc[u] /\ target'[u] = target[u]
    <3>1. CASE ReadOrder(t)
      BY Zenon, <3>1 DEF ReadOrder, Inv, Typed
    <3>2. CASE End(t)
      BY Zenon, <3>2, Moves DEF Label
    <3>3. ASSUME NEW label \in Label \ {"create"}, Goto(t, label)
          PROVE  /\ pc'[t] # "create"
                 /\ \A u \in Task \ {t} : pc'[u] = pc[u] /\ target'[u] = target[u]
      BY <3>3, Moves
    <3> QED BY Zenon, <2>1, <3>1, <3>2, <3>3
  <2>3. UNCHANGED <<status, product, stale, unchecked>>
    BY Zenon, <1>3 DEF CreateRefused, RefundRefused, Mark, Drop, Refund, RefundUnheard, Restock,
           ReadOrder, order, history
  <2> QED BY Zenon, <2>2, <2>3, OneQuiet
<1> QED BY Zenon, <1>1, <1>2, <1>3, OneQuery, OneInsert, OneStatus DEF Next, Step

\* An item has one active return request (create_return_request), for any number of items
\* and requests, unless two creations overlapped, a query failed, or it met a closed one.
THEOREM OneActive == Spec => []OneActiveReturn
<1>1. Init => One
  BY NoItemAssumption DEF Init, One, Unborn, Checked, OneActiveReturn
<1>2. One => OneActiveReturn
  BY Zenon DEF One
<1> QED BY <1>1, <1>2, OneStep, InitInv, InvStep, PTL DEF Spec

-----------------------------------------------------------------------------
(* Fulfilment. *)

\* An order on its way to the buyer.
Way == {"confirmed", "awaiting_shipping_approval", "processing", "shipped"}

\* What a task knows of the order it read.
Held(t) ==
    /\ snap[t].pay = "authorized" => snap[t].total = Subtotal + snap[t].ship + snap[t].tax
    /\ paid.pay = "authorized" => snap[t].pay = "authorized"
    /\ fpc[t] = "seller_ship" => snap[t].approval \notin {"pending", "rejected"}
    /\ fpc[t] = "status" => /\ to[t] \in F!OrderStatus
                            /\ F!is_valid_order_transition(snap[t].st, to[t])
    /\ fpc[t] = "item_status" => to[t] \in F!ItemStatus
    /\ fpc[t] = "cost" => snap[t].st \in {"confirmed", "processing"}
    /\ fpc[t] = "approve" => snap[t].approval = "pending"
    /\ fpc[t] = "capture" => snap[t].st \in {"confirmed", "awaiting_shipping_approval"}
    /\ fpc[t] = "reject_refunded" => refunded = 1

\* A unit comes back from one task, and only after the order says that they do.
Returned ==
    /\ ~paid.restored => (\A i \in Item : restored[i] = 0) /\ (\A t \in Task : todo[t] = {})
    /\ freopened = 0 =>
          \A i \in Item :
              /\ restored[i] <= 1
              /\ \A t \in Task : i \in todo[t] =>
                    restored[i] = 0 /\ \A u \in Task \ {t} : i \notin todo[u]
    /\ freopened = 1 => fstale = 1

\* Without a stale write the approval of an order whose units came back stays rejected.
Rejected ==
    /\ fstale = 0 /\ paid.approval = "rejected" => paid.st \notin Way
    /\ fstale = 0 /\ paid.restored => paid.approval = "rejected"

FInv ==
    /\ F!TypeOK /\ F!TotalsAgree /\ F!RefundedIsReal
    /\ (\A t \in Task : Held(t)) /\ Returned /\ Rejected

\* The amounts of checkout make an order.
LEMMA NewOrderType == F!NewOrder \in F!Order
BY AmountsAssumption DEF F!NewOrder, F!Order, F!OrderStatus, F!ItemStatus

\* The initial state.
LEMMA FInit == F!Init => FInv
<1> SUFFICES ASSUME F!Init PROVE FInv
  OBVIOUS
<1>1. F!TypeOK
  BY NewOrderType, RequestsAssumption DEF F!Init, F!TypeOK, F!Label, F!ItemStatus
<1>2. F!TotalsAgree /\ F!RefundedIsReal
  BY AmountsAssumption DEF F!Init, F!TotalsAgree, F!RefundedIsReal, F!NewOrder
<1>3. ASSUME NEW t \in Task PROVE Held(t)
  BY AmountsAssumption DEF F!Init, Held, F!NewOrder
<1>4. Returned /\ Rejected
  BY DEF F!Init, Returned, Rejected, F!NewOrder
<1> QED BY <1>1, <1>2, <1>3, <1>4 DEF FInv

\* What End does to the tasks.
LEMMA FEnd ==
    ASSUME FInv, NEW t \in Task, F!End(t)
    PROVE  /\ fpc' \in [Task -> F!Label] /\ item' \in [Task -> Item \cup {NoItem}]
           /\ to' \in [Task -> F!ItemStatus \cup F!OrderStatus] /\ cost' \in [Task -> Nat]
           /\ snap' \in [Task -> F!Order] /\ todo' \in [Task -> SUBSET Item]
           /\ \A u \in Task \ {t} : /\ fpc'[u] = fpc[u] /\ to'[u] = to[u]
                                    /\ snap'[u] = snap[u] /\ todo'[u] = todo[u]
           /\ fpc'[t] = "idle" /\ snap'[t] = F!NewOrder /\ todo'[t] = {}
BY NewOrderType DEF F!End, FInv, F!TypeOK, F!Label, F!ItemStatus

\* A task that has ended knows nothing but a new order.
LEMMA EndHeld ==
    ASSUME NEW t \in Task, fpc'[t] = "idle", snap'[t] = F!NewOrder
    PROVE  Held(t)'
<1>1. F!NewOrder.total = Subtotal + F!NewOrder.ship + F!NewOrder.tax /\ F!NewOrder.pay = "authorized"
  BY AmountsAssumption DEF F!NewOrder
<1> QED BY Zenon, <1>1 DEF Held

\* The other tasks, when the payment does not become authorized again.
LEMMA OthersHeld ==
    ASSUME NEW u \in Task, Held(u), fpc'[u] = fpc[u], to'[u] = to[u], snap'[u] = snap[u],
           paid'.pay = "authorized" => paid.pay = "authorized",
           refunded = 1 => refunded' = 1
    PROVE  Held(u)'
BY Zenon DEF Held, F!OrderStatus, F!ItemStatus, F!is_valid_order_transition

\* A handler's last write of the order.
LEMMA LastWrite ==
    ASSUME FInv, NEW t \in Task, F!End(t), UNCHANGED <<refunded, requests, restored, freopened>>,
           paid' \in F!Order, fstale' \in {0, 1}, fstale' = 0 => fstale = 0,
           paid'.restored = paid.restored,
           paid'.pay = "authorized" =>
               paid.pay = "authorized" /\ paid'.total = Subtotal + paid'.ship + paid'.tax,
           paid'.pay = "refunded" => paid.pay = "refunded",
           Rejected'
    PROVE  FInv'
<1>1. F!TypeOK'
  BY FEnd DEF FInv, F!TypeOK
<1>2. F!TotalsAgree' /\ F!RefundedIsReal'
  BY Zenon DEF FInv, F!TotalsAgree, F!RefundedIsReal
<1>3. ASSUME NEW u \in Task PROVE Held(u)'
  <2>1. CASE u = t
    BY Zenon, <2>1, FEnd, EndHeld
  <2>2. CASE u # t
    <3>1. Held(u)
      BY Zenon DEF FInv
    <3>2. \A v \in Task \ {t} : fpc'[v] = fpc[v] /\ to'[v] = to[v] /\ snap'[v] = snap[v]
      BY Zenon, FEnd
    <3>3. fpc'[u] = fpc[u] /\ to'[u] = to[u] /\ snap'[u] = snap[u]
      BY Zenon, <2>2, <3>2
    <3> QED BY Zenon, <3>1, <3>3, OthersHeld
  <2> QED BY Zenon, <2>1, <2>2
<1>4. Returned'
  <2>1. \A u \in Task : todo'[u] \subseteq todo[u]
    BY Zenon, FEnd
  <2>2. fstale = 1 => fstale' = 1
    BY DEF FInv, F!TypeOK
  <2> QED BY <2>1, <2>2 DEF FInv, Returned
<1> QED BY Zenon, <1>1, <1>2, <1>3, <1>4 DEF FInv

\* A write without a condition: it is stale, or hits the order it read.
LEMMA OverwriteStep ==
    ASSUME FInv, NEW t \in Task, NEW new \in F!Order, F!Overwrite(t, new),
           new.restored = paid.restored,
           new.pay = "authorized" =>
               paid.pay = "authorized" /\ new.total = Subtotal + new.ship + new.tax,
           new.pay = "refunded" => paid.pay = "refunded",
           fstale = 0 /\ paid = snap[t] =>
               /\ new.approval = "rejected" => new.st \notin Way
               /\ new.restored => new.approval = "rejected"
    PROVE  FInv'
<1>1. /\ paid' = new /\ F!End(t) /\ UNCHANGED <<refunded, requests, restored, freopened>>
      /\ fstale' = IF paid = snap[t] THEN fstale ELSE 1
  BY Zenon DEF F!Overwrite
<1>2. fstale' \in {0, 1} /\ (fstale' = 0 => fstale = 0 /\ paid = snap[t])
  BY <1>1 DEF FInv, F!TypeOK
<1>3. Rejected'
  BY Zenon, <1>1, <1>2 DEF Rejected
<1> QED BY Zenon, <1>1, <1>2, <1>3, LastWrite

\* A write on condition of orderStatus.
LEMMA WriteIfStep ==
    ASSUME FInv, NEW t \in Task, NEW new \in F!Order, F!WriteIfStatus(t, new),
           new.restored = paid.restored, new.approval = paid.approval, new.pay = paid.pay,
           new.total = paid.total, new.ship = paid.ship, new.tax = paid.tax,
           paid.st = snap[t].st /\ paid.st \notin Way => new.st \notin Way
    PROVE  FInv'
<1>1. /\ paid' = (IF paid.st = snap[t].st THEN new ELSE paid) /\ F!End(t)
      /\ UNCHANGED <<refunded, requests, restored, fstale, freopened>>
  BY Zenon DEF F!WriteIfStatus, F!history
<1>2. /\ paid' \in F!Order /\ fstale' \in {0, 1} /\ paid'.restored = paid.restored
      /\ paid'.approval = paid.approval /\ paid'.pay = paid.pay /\ paid'.total = paid.total
      /\ paid'.ship = paid.ship /\ paid'.tax = paid.tax
      /\ paid.st \notin Way => paid'.st \notin Way
  BY Zenon, <1>1 DEF FInv, F!TypeOK
<1>3. Rejected'
  BY Zenon, <1>1, <1>2 DEF FInv, Rejected
<1>4. paid'.pay = "authorized" => paid'.total = Subtotal + paid'.ship + paid'.tax
  BY Zenon, <1>2 DEF FInv, F!TotalsAgree
<1> QED BY Zenon, <1>1, <1>2, <1>3, <1>4, LastWrite

\* The tax on a difference is an integer.
LEMMA TaxType == \A d \in Int : F!shipping_tax_difference_cents(d) \in Int
<1>1. \A a \in Int : F!Quotient(a, 100000) \in Int
  BY DEF F!Quotient
<1>2. \A d \in Int : F!signum(d) \in Int
  BY DEF F!signum
<1>3. ASSUME NEW d \in Int, NEW g \in Int PROVE d * Rate + 50000 * g \in Int
  BY AmountsAssumption
<1> QED BY <1>1, <1>2, <1>3 DEF F!shipping_tax_difference_cents

\* The three amounts move together.
LEMMA Amounts ==
    ASSUME NEW o \in F!Order, NEW n \in Nat
    PROVE  /\ F!NewTax(o, n) \in Int /\ F!NewTotal(o, n) \in Int
           /\ o.total = Subtotal + o.ship + o.tax =>
                  F!NewTotal(o, n) = Subtotal + n + F!NewTax(o, n)
<1>1. o.ship \in Int /\ o.tax \in Int /\ o.total \in Int /\ n - o.ship \in Int
  BY DEF F!Order
<1>2. F!shipping_tax_difference_cents(n - o.ship) \in Int
  BY Zenon, <1>1, TaxType
<1> QED BY <1>1, <1>2, AmountsAssumption DEF F!NewTax, F!NewTotal

\* confirm_item_receipt and update_order_status, in the general path.
LEMMA ConditionalStep ==
    ASSUME FInv, NEW t \in Task, F!ConfirmWrite(t) \/ F!StatusWrite(t)
    PROVE  FInv'
<1>0. paid \in F!Order /\ snap[t] \in F!Order /\ Held(t)
  BY Zenon DEF FInv, F!TypeOK
<1>1. CASE F!ConfirmWrite(t)
  <2> DEFINE its == [snap[t].items EXCEPT ![item[t]] = "delivered"]
             st == IF F!all_items_delivered(its) /\ snap[t].pay = "captured"
                   THEN "delivered" ELSE paid.st
             new == [paid EXCEPT !.items = its, !.st = st]
  <2>1. F!WriteIfStatus(t, new)
    BY <1>0, <1>1 DEF F!ConfirmWrite, F!Order
  <2>2. its \in [Item -> F!ItemStatus] /\ st \in F!OrderStatus
    BY Zenon, <1>0 DEF F!Order, F!ItemStatus, F!OrderStatus
  <2>3. /\ new \in F!Order /\ new.st = st
        /\ new.restored = paid.restored /\ new.approval = paid.approval /\ new.pay = paid.pay
        /\ new.total = paid.total /\ new.ship = paid.ship /\ new.tax = paid.tax
    BY Zenon, <1>0, <2>2 DEF F!Order
  <2>4. paid.st \notin Way => st \notin Way
    BY Zenon DEF Way
  <2> HIDE DEF new, st
  <2> QED BY Zenon, <2>1, <2>3, <2>4, WriteIfStep
<1>2. CASE F!StatusWrite(t)
  <2> DEFINE old == snap[t].items
             its == CASE to[t] = "shipped" ->
                           [i \in Item |-> IF old[i] \in {"delivered", "refunded"}
                                           THEN old[i] ELSE "shipped"]
                      [] to[t] = "delivered" -> [i \in Item |-> "delivered"]
                      [] OTHER -> paid.items
             new == [paid EXCEPT !.st = to[t], !.items = its]
  <2>1. F!WriteIfStatus(t, new) /\ fpc[t] = "status"
    BY Zenon, <1>2 DEF F!StatusWrite
  <2>2. to[t] \in F!OrderStatus /\ F!is_valid_order_transition(snap[t].st, to[t])
    BY Zenon, <1>0, <2>1 DEF Held
  <2>3. its \in [Item -> F!ItemStatus]
    <3>1. old \in [Item -> F!ItemStatus] /\ paid.items \in [Item -> F!ItemStatus]
      BY <1>0 DEF F!Order
    <3> QED BY <3>1 DEF F!ItemStatus
  <2>4. /\ new \in F!Order /\ new.st = to[t]
        /\ new.restored = paid.restored /\ new.approval = paid.approval /\ new.pay = paid.pay
        /\ new.total = paid.total /\ new.ship = paid.ship /\ new.tax = paid.tax
    <3> HIDE DEF its
    <3> QED BY Zenon, <1>0, <2>2, <2>3 DEF F!Order
  <2>5. paid.st = snap[t].st /\ paid.st \notin Way => to[t] \notin Way
    BY <2>2 DEF F!is_valid_order_transition, Way
  <2> HIDE DEF new
  <2> QED BY Zenon, <2>1, <2>4, <2>5, WriteIfStep
<1> QED BY Zenon, <1>1, <1>2

\* Writes of status and items: update_order_status of the seller, update_item_status,
\* capture_payment and the archive job.
LEMMA StatusWrites ==
    ASSUME FInv, NEW t \in Task,
           F!SellerShipWrite(t) \/ F!ItemWrite(t) \/ F!CaptureWrite(t) \/ F!ArchiveWrite(t)
    PROVE  FInv'
<1>0. paid \in F!Order /\ snap[t] \in F!Order /\ Held(t) /\ Rejected /\ F!TotalsAgree
  BY Zenon DEF FInv, F!TypeOK
<1>1. CASE F!SellerShipWrite(t)
  <2> DEFINE its == [i \in Item |-> "shipped"]
             new == [paid EXCEPT !.items = its, !.st = "shipped"]
  <2>1. F!Overwrite(t, new) /\ fpc[t] = "seller_ship"
    BY Zenon, <1>1 DEF F!SellerShipWrite
  <2>2. /\ new \in F!Order /\ new.restored = paid.restored /\ new.approval = paid.approval
        /\ new.pay = paid.pay /\ new.total = paid.total /\ new.ship = paid.ship /\ new.tax = paid.tax
    BY Zenon, <1>0 DEF F!Order, F!ItemStatus, F!OrderStatus
  <2>3. paid = snap[t] => paid.approval # "rejected"
    BY Zenon, <1>0, <2>1 DEF Held
  <2>4. new.pay = "authorized" => paid.pay = "authorized" /\ new.total = Subtotal + new.ship + new.tax
    BY Zenon, <1>0, <2>2 DEF F!TotalsAgree
  <2> HIDE DEF new
  <2> QED BY Zenon, <1>0, <2>1, <2>2, <2>3, <2>4, OverwriteStep DEF Rejected
<1>2. CASE F!ItemWrite(t)
  <2> DEFINE old == snap[t]
             its == [old.items EXCEPT ![item[t]] = to[t]]
             all == F!all_items_delivered(its)
             deliver == all /\ old.st # "delivered" /\ old.pay = "captured"
             ship == ~all /\ F!all_items_shipped(its) /\ old.st \in {"processing", "confirmed"}
             st == IF deliver THEN "delivered" ELSE IF ship THEN "shipped" ELSE paid.st
             new == [paid EXCEPT !.items = its, !.st = st]
  <2>1. F!Overwrite(t, new) /\ fpc[t] = "item_status"
    BY <1>0, <1>2 DEF F!ItemWrite, F!Order
  <2>2. its \in [Item -> F!ItemStatus] /\ st \in F!OrderStatus
    <3>1. to[t] \in F!ItemStatus
      BY Zenon, <1>0, <2>1 DEF Held
    <3> QED BY Zenon, <1>0, <3>1 DEF F!Order, F!OrderStatus
  <2>3. paid = snap[t] /\ paid.st \notin Way => st \notin Way
    BY Zenon DEF Way
  <2> HIDE DEF its, st
  <2>4. /\ new \in F!Order /\ new.restored = paid.restored /\ new.approval = paid.approval
        /\ new.pay = paid.pay /\ new.total = paid.total /\ new.ship = paid.ship /\ new.tax = paid.tax
        /\ new.st = st
    BY Zenon, <1>0, <2>2 DEF F!Order
  <2>5. new.pay = "authorized" => paid.pay = "authorized" /\ new.total = Subtotal + new.ship + new.tax
    BY Zenon, <1>0, <2>4 DEF F!TotalsAgree
  <2> HIDE DEF new
  <2> QED BY Zenon, <1>0, <2>1, <2>3, <2>4, <2>5, OverwriteStep DEF Rejected
<1>3. CASE F!CaptureWrite(t)
  <2> DEFINE new == [paid EXCEPT !.st = "processing", !.pay = "captured"]
  <2>1. F!Overwrite(t, new) /\ fpc[t] = "capture"
    BY Zenon, <1>3 DEF F!CaptureWrite
  <2>2. /\ new \in F!Order /\ new.restored = paid.restored /\ new.approval = paid.approval
        /\ new.pay = "captured"
    BY Zenon, <1>0 DEF F!Order, F!OrderStatus
  <2>3. fstale = 0 /\ paid = snap[t] => paid.approval # "rejected"
    BY Zenon, <1>0, <2>1 DEF Held, Rejected, Way
  <2> HIDE DEF new
  <2> QED BY Zenon, <1>0, <2>1, <2>2, <2>3, OverwriteStep DEF Rejected
<1>4. CASE F!ArchiveWrite(t)
  <2> DEFINE new == [paid EXCEPT !.archived = TRUE]
  <2>1. F!Overwrite(t, new)
    BY Zenon, <1>4 DEF F!ArchiveWrite
  <2>2. /\ new \in F!Order /\ new.restored = paid.restored /\ new.approval = paid.approval
        /\ new.pay = paid.pay /\ new.total = paid.total /\ new.ship = paid.ship /\ new.tax = paid.tax
        /\ new.st = paid.st
    BY Zenon, <1>0 DEF F!Order
  <2>3. new.pay = "authorized" => paid.pay = "authorized" /\ new.total = Subtotal + new.ship + new.tax
    BY Zenon, <1>0, <2>2 DEF F!TotalsAgree
  <2> HIDE DEF new
  <2> QED BY Zenon, <1>0, <2>1, <2>2, <2>3, OverwriteStep DEF Rejected
<1> QED BY Zenon, <1>1, <1>2, <1>3, <1>4

\* Writes of the amounts: update_shipping_cost and approve_shipping_cost.
LEMMA CostWrites ==
    ASSUME FInv, NEW t \in Task, F!CostWrite(t) \/ F!ApproveWrite(t)
    PROVE  FInv'
<1> DEFINE old == snap[t]
           c == cost[t]
<1>0. /\ paid \in F!Order /\ old \in F!Order /\ c \in Nat
      /\ Held(t) /\ Rejected /\ F!TotalsAgree
  BY Zenon DEF FInv, F!TypeOK
<1>1. /\ F!NewTax(old, c) \in Int /\ F!NewTotal(old, c) \in Int
      /\ paid.pay = "authorized" => F!NewTotal(old, c) = Subtotal + c + F!NewTax(old, c)
  BY Zenon, <1>0, Amounts DEF Held
<1>2. CASE F!CostWrite(t)
  <2>0. fpc[t] = "cost" /\ (fstale = 0 /\ paid = snap[t] => paid.approval # "rejected")
    BY Zenon, <1>0, <1>2 DEF F!CostWrite, Held, Rejected, Way
  <2>1. CASE F!shipping_update_requires_approval(old.sellerCost, c)
    <3> DEFINE new == [paid EXCEPT !.approval = "pending", !.newCost = c]
    <3>1. F!Overwrite(t, new)
      BY Zenon, <1>2, <2>1 DEF F!CostWrite
    <3>2. /\ new \in F!Order /\ new.restored = paid.restored /\ new.approval = "pending"
          /\ new.pay = paid.pay /\ new.total = paid.total /\ new.ship = paid.ship /\ new.tax = paid.tax
      BY Zenon, <1>0 DEF F!Order
    <3>3. new.pay = "authorized" => paid.pay = "authorized" /\ new.total = Subtotal + new.ship + new.tax
      BY Zenon, <1>0, <3>2 DEF F!TotalsAgree
    <3> HIDE DEF new
    <3> QED BY Zenon, <1>0, <2>0, <3>1, <3>2, <3>3, OverwriteStep DEF Rejected
  <2>2. CASE ~F!shipping_update_requires_approval(old.sellerCost, c)
    <3> DEFINE open == old.pay # "captured"
               tax == IF open THEN F!NewTax(old, c) ELSE paid.tax
               total == IF open THEN F!NewTotal(old, c) ELSE paid.total
               new == [paid EXCEPT !.sellerCost = c, !.ship = c, !.tax = tax, !.total = total]
    <3>1. F!Overwrite(t, new)
      BY <1>0, <1>2, <2>2 DEF F!CostWrite, F!Order
    <3>2. tax \in Int /\ total \in Int
      BY <1>0, <1>1 DEF F!Order
    <3>3. paid.pay = "authorized" => total = Subtotal + c + tax
      BY Zenon, <1>0, <1>1 DEF Held
    <3> HIDE DEF tax, total
    <3>4. /\ new \in F!Order /\ new.restored = paid.restored /\ new.approval = paid.approval
          /\ new.pay = paid.pay /\ new.total = total /\ new.ship = c /\ new.tax = tax
      BY Zenon, <1>0, <3>2 DEF F!Order
    <3> HIDE DEF new
    <3> QED BY Zenon, <1>0, <2>0, <3>1, <3>3, <3>4, OverwriteStep DEF Rejected
  <2> QED BY Zenon, <2>1, <2>2
<1>3. CASE F!ApproveWrite(t)
  <2> DEFINE tax == F!NewTax(old, c)
             total == F!NewTotal(old, c)
             new == [paid EXCEPT !.sellerCost = c, !.ship = c, !.tax = tax, !.total = total,
                                 !.approval = "approved", !.newCost = 0]
  <2>1. F!Overwrite(t, new) /\ fpc[t] = "approve"
    BY Zenon, <1>3 DEF F!ApproveWrite
  <2> HIDE DEF tax, total
  <2>2. /\ new \in F!Order /\ new.restored = paid.restored /\ new.approval = "approved"
        /\ new.pay = paid.pay /\ new.total = total /\ new.ship = c /\ new.tax = tax
    BY Zenon, <1>0, <1>1 DEF F!Order, tax, total
  <2>3. paid = snap[t] => paid.approval = "pending"
    BY Zenon, <1>0, <2>1 DEF Held
  <2>4. new.pay = "authorized" => paid.pay = "authorized" /\ new.total = Subtotal + new.ship + new.tax
    BY Zenon, <1>1, <2>2 DEF tax, total
  <2>5. fstale = 0 /\ paid = snap[t] => ~new.restored
    BY <1>0, <2>2, <2>3 DEF Rejected
  <2> HIDE DEF new
  <2> QED BY Zenon, <2>1, <2>2, <2>4, <2>5, OverwriteStep
<1> QED BY Zenon, <1>2, <1>3

\* A request begins: it has read the order as it is.
LEMMA FBegins ==
    ASSUME FInv, NEW t \in Task, NEW label \in F!Label, NEW i \in Item \cup {NoItem},
           NEW s \in F!ItemStatus \cup F!OrderStatus, NEW c \in Nat, F!Begin(t, label, i, s, c),
           label = "seller_ship" => paid.approval \notin {"pending", "rejected"},
           label = "status" => s \in F!OrderStatus /\ F!is_valid_order_transition(paid.st, s),
           label = "item_status" => s \in F!ItemStatus,
           label = "cost" => paid.st \in {"confirmed", "processing"},
           label = "approve" => paid.approval = "pending",
           label = "capture" => paid.st \in {"confirmed", "awaiting_shipping_approval"},
           label # "reject_refunded"
    PROVE  FInv'
<1>1. /\ UNCHANGED <<paid, refunded, todo, restored, fstale, freopened>>
      /\ fpc'[t] = label /\ to'[t] = s /\ snap'[t] = paid
      /\ \A u \in Task \ {t} : fpc'[u] = fpc[u] /\ to'[u] = to[u] /\ snap'[u] = snap[u]
  BY Zenon DEF F!Begin, F!history, FInv, F!TypeOK
<1>2. F!TypeOK'
  BY RequestsAssumption DEF F!Begin, F!history, FInv, F!TypeOK
<1>3. F!TotalsAgree' /\ F!RefundedIsReal' /\ Returned' /\ Rejected'
  BY Zenon, <1>1 DEF FInv, F!TotalsAgree, F!RefundedIsReal, Returned, Rejected
<1>4. ASSUME NEW u \in Task PROVE Held(u)'
  <2>1. CASE u = t
    BY Zenon, <1>1, <2>1 DEF Held, FInv, F!TotalsAgree, F!OrderStatus, F!ItemStatus,
           F!is_valid_order_transition
  <2>2. CASE u # t
    BY Zenon, <1>1, <2>2, OthersHeld DEF FInv
  <2> QED BY Zenon, <2>1, <2>2
<1> QED BY Zenon, <1>2, <1>3, <1>4 DEF FInv

\* The requests of buyer, seller and admin, and the jobs.
LEMMA FRequest ==
    ASSUME FInv, NEW t \in Task, F!Request(t)
    PROVE  FInv'
<1>0. 0 \in Nat /\ paid \in F!Order /\ "pending" \in F!ItemStatus
  BY DEF FInv, F!TypeOK, F!ItemStatus
<1>1. ASSUME NEW i \in Item, F!ConfirmBegin(t, i) PROVE FInv'
  <2>1. F!Begin(t, "confirm", i, "delivered", 0)
    BY Zenon, <1>1 DEF F!ConfirmBegin
  <2> QED BY Zenon, <1>0, <2>1, FBegins DEF F!Label, F!ItemStatus
<1>2. ASSUME NEW by \in {"seller", "admin"}, NEW new \in F!OrderStatus, F!StatusBegin(t, by, new)
      PROVE  FInv'
  <2>1. PICK label \in {"seller_ship", "status"} :
            /\ F!Begin(t, label, NoItem, new, 0)
            /\ label = "seller_ship" => new = "shipped"
    BY Zenon, <1>2 DEF F!StatusBegin
  <2>2. /\ new = "shipped" => paid.approval \notin {"pending", "rejected"}
        /\ F!is_valid_order_transition(paid.st, new)
    BY Zenon, <1>2 DEF F!StatusBegin
  <2>3. /\ label \in F!Label /\ label # "item_status" /\ label # "cost" /\ label # "approve"
        /\ label # "capture" /\ label # "reject_refunded"
    BY Zenon DEF F!Label
  <2> QED BY Zenon, <1>0, <2>1, <2>2, <2>3, FBegins
<1>3. ASSUME NEW by \in {"seller", "admin"}, NEW i \in Item, NEW new \in F!ItemStatus,
             F!ItemBegin(t, by, i, new)
      PROVE  FInv'
  <2>1. F!Begin(t, "item_status", i, new, 0)
    BY Zenon, <1>3 DEF F!ItemBegin
  <2> QED BY Zenon, <1>0, <2>1, FBegins DEF F!Label
<1>4. ASSUME NEW c \in Cost, F!CostBegin(t, c) PROVE FInv'
  <2>1. c \in Nat /\ F!Begin(t, "cost", NoItem, "pending", c) /\ paid.st \in {"confirmed", "processing"}
    BY Zenon, <1>4, CostAssumption DEF F!CostBegin
  <2> QED BY Zenon, <1>0, <2>1, FBegins DEF F!Label
<1>5. CASE F!ApproveBegin(t)
  <2>1. paid.newCost \in Nat
    BY <1>0 DEF F!Order
  <2>2. F!Begin(t, "approve", NoItem, "pending", paid.newCost) /\ paid.approval = "pending"
    BY Zenon, <1>5 DEF F!ApproveBegin
  <2> QED BY Zenon, <1>0, <2>1, <2>2, FBegins DEF F!Label
<1>6. CASE F!RejectBegin(t)
  <2>1. PICK label \in {"reject_refund", "reject"} : F!Begin(t, label, NoItem, "cancelled", 0)
    BY Zenon, <1>6 DEF F!RejectBegin
  <2>2. /\ label \in F!Label /\ label # "seller_ship" /\ label # "status" /\ label # "item_status"
        /\ label # "cost" /\ label # "approve" /\ label # "capture" /\ label # "reject_refunded"
    BY Zenon DEF F!Label
  <2> QED BY Zenon, <1>0, <2>1, <2>2, FBegins DEF F!OrderStatus
<1>7. CASE F!CaptureBegin(t)
  <2>1. /\ F!Begin(t, "capture", NoItem, "processing", 0)
        /\ paid.st \in {"confirmed", "awaiting_shipping_approval"}
    BY Zenon, <1>7 DEF F!CaptureBegin
  <2> QED BY Zenon, <1>0, <2>1, FBegins DEF F!Label, F!OrderStatus
<1>8. CASE F!ArchiveBegin(t)
  <2>1. F!Begin(t, "archive", NoItem, "pending", 0)
    BY Zenon, <1>8 DEF F!ArchiveBegin
  <2> QED BY Zenon, <1>0, <2>1, FBegins DEF F!Label
<1> QED BY Zenon, <1>1, <1>2, <1>3, <1>4, <1>5, <1>6, <1>7, <1>8 DEF F!Request

\* A handler ends without a write.
LEMMA FQuiet ==
    ASSUME FInv, NEW t \in Task, F!End(t),
           UNCHANGED <<paid, refunded, requests, restored, fstale, freopened>>
    PROVE  FInv'
<1>1. paid' \in F!Order /\ fstale' \in {0, 1}
  BY Zenon DEF FInv, F!TypeOK
<1>2. paid'.pay = "authorized" =>
        paid.pay = "authorized" /\ paid'.total = Subtotal + paid'.ship + paid'.tax
  BY Zenon DEF FInv, F!TotalsAgree
<1>3. Rejected'
  BY Zenon DEF FInv, Rejected
<1> QED BY Zenon, <1>1, <1>2, <1>3, LastWrite

\* A rejection asks Stripe for the refund.
LEMMA FRefund ==
    ASSUME FInv, NEW t \in Task, F!RejectRefund(t)
    PROVE  FInv'
<1>1. PICK label \in {"reject_refunded", "reject"} :
          /\ F!Goto(t, label) /\ refunded' \in {refunded, 1}
          /\ label = "reject_refunded" => refunded' = 1
  BY Zenon DEF F!RejectRefund
<1>2. UNCHANGED <<paid, requests, restored, fstale, freopened, item, to, cost, snap, todo>>
  BY Zenon, <1>1 DEF F!RejectRefund, F!Goto, F!history
<1>3. /\ fpc' \in [Task -> F!Label] /\ fpc'[t] = label
      /\ \A u \in Task \ {t} : fpc'[u] = fpc[u]
  BY Zenon, <1>1 DEF F!Goto, F!Label, FInv, F!TypeOK
<1>4. refunded' \in {0, 1} /\ (refunded = 1 => refunded' = 1)
  BY <1>1 DEF FInv, F!TypeOK
<1>5. F!TypeOK'
  BY Zenon, <1>2, <1>3, <1>4 DEF FInv, F!TypeOK
<1>6. F!TotalsAgree' /\ F!RefundedIsReal' /\ Returned' /\ Rejected'
  BY Zenon, <1>2, <1>4 DEF FInv, F!TotalsAgree, F!RefundedIsReal, Returned, Rejected
<1>7. ASSUME NEW u \in Task PROVE Held(u)'
  <2>1. CASE u = t
    BY Zenon, <1>1, <1>2, <1>3, <2>1 DEF Held, FInv
  <2>2. CASE u # t
    BY Zenon, <1>2, <1>3, <1>4, <2>2, OthersHeld DEF FInv
  <2> QED BY Zenon, <2>1, <2>2
<1> QED BY Zenon, <1>5, <1>6, <1>7 DEF FInv

\* The rejection: either nothing came back so far, or nothing will.
LEMMA FReject ==
    ASSUME FInv, NEW t \in Task, F!RejectUpdate(t)
    PROVE  FInv'
<1>0. paid \in F!Order /\ Held(t) /\ fpc[t] \in {"reject", "reject_refunded"}
  BY Zenon DEF FInv, F!TypeOK, F!RejectUpdate
<1>1. CASE paid.approval # "pending"
  <2>1. F!End(t) /\ UNCHANGED <<paid, refunded, requests, restored, fstale, freopened>>
    BY Zenon, <1>1 DEF F!RejectUpdate
  <2> QED BY Zenon, <2>1, FQuiet
<1>2. CASE paid.approval = "pending"
  <2> DEFINE pay == IF fpc[t] = "reject_refunded" THEN "refunded" ELSE paid.pay
             new == [paid EXCEPT !.approval = "rejected", !.st = "cancelled", !.restored = TRUE,
                                 !.newCost = 0, !.pay = pay]
             left == IF snap[t].restored THEN {} ELSE Item
  <2>1. /\ paid' = new
        /\ fpc' = [fpc EXCEPT ![t] = "restore"] /\ todo' = [todo EXCEPT ![t] = left]
        /\ UNCHANGED <<item, to, cost, snap, refunded, requests, restored, fstale>>
        /\ freopened' = IF paid.restored /\ ~snap[t].restored THEN 1 ELSE freopened
    BY <1>0, <1>2 DEF F!RejectUpdate, F!Order
  <2>2. /\ new \in F!Order /\ new.restored /\ new.approval = "rejected" /\ new.st = "cancelled"
        /\ new.pay = pay /\ new.total = paid.total /\ new.ship = paid.ship /\ new.tax = paid.tax
    BY Zenon, <1>0 DEF F!Order, F!OrderStatus
  <2>3. /\ pay = "authorized" => paid.pay = "authorized"
        /\ pay = "refunded" => refunded = 1
    BY Zenon, <1>0 DEF Held, FInv, F!RefundedIsReal
  <2> HIDE DEF new, pay
  <2>4. /\ fpc' \in [Task -> F!Label] /\ fpc'[t] = "restore"
        /\ \A u \in Task \ {t} : fpc'[u] = fpc[u] /\ todo'[u] = todo[u]
        /\ todo' \in [Task -> SUBSET Item] /\ todo'[t] = left
    BY <2>1 DEF F!Label, FInv, F!TypeOK
  <2>5. F!TypeOK'
    BY <2>1, <2>2, <2>4 DEF FInv, F!TypeOK
  <2>6. F!TotalsAgree' /\ F!RefundedIsReal' /\ Rejected'
    BY Zenon, <2>1, <2>2, <2>3 DEF FInv, F!TotalsAgree, F!RefundedIsReal, Rejected, Way
  <2>7. ASSUME NEW u \in Task PROVE Held(u)'
    <3>1. CASE u = t
      BY Zenon, <2>1, <2>2, <2>3, <2>4, <3>1 DEF Held, FInv
    <3>2. CASE u # t
      BY Zenon, <2>1, <2>2, <2>3, <2>4, <3>2, OthersHeld DEF FInv
    <3> QED BY Zenon, <3>1, <3>2
  <2>8. freopened' = 1 => fstale' = 1
    <3>1. paid.restored => fstale # 0
      BY Zenon, <1>2 DEF FInv, Rejected
    <3> QED BY <2>1, <3>1 DEF FInv, F!TypeOK, Returned
  <2>9. ASSUME freopened' = 0, NEW i \in Item
        PROVE  /\ restored'[i] <= 1
               /\ \A u \in Task : i \in todo'[u] =>
                     restored'[i] = 0 /\ \A v \in Task \ {u} : i \notin todo'[v]
    <3>1. freopened = 0 /\ (paid.restored => snap[t].restored)
      BY <2>1, <2>9 DEF FInv, F!TypeOK
    <3>2. CASE paid.restored
      <4>1. \A u \in Task : todo'[u] \subseteq todo[u]
        BY Zenon, <2>4, <3>1, <3>2
      <4> QED BY Zenon, <2>1, <3>1, <4>1 DEF FInv, Returned
    <3>3. CASE ~paid.restored
      <4>1. restored[i] = 0 /\ \A u \in Task \ {t} : todo'[u] = {}
        BY Zenon, <2>4, <3>3 DEF FInv, Returned
      <4> QED BY <2>1, <4>1
    <3> QED BY Zenon, <3>2, <3>3
  <2>10. Returned'
    BY Zenon, <2>1, <2>2, <2>8, <2>9 DEF Returned
  <2> QED BY Zenon, <2>5, <2>6, <2>7, <2>10 DEF FInv
<1> QED BY Zenon, <1>1, <1>2

\* restore_stock_for_items gives a unit back.
LEMMA FRestore ==
    ASSUME FInv, NEW t \in Task, NEW i \in Item, F!Restore(t, i)
    PROVE  FInv'
<1>1. /\ i \in todo[t]
      /\ restored' = [restored EXCEPT ![i] = @ + 1] /\ todo' = [todo EXCEPT ![t] = @ \ {i}]
      /\ UNCHANGED <<paid, refunded, fpc, item, to, cost, snap, requests, fstale, freopened>>
  BY Zenon DEF F!Restore
<1>2. /\ todo' \in [Task -> SUBSET Item] /\ i \notin todo'[t]
      /\ \A u \in Task : todo'[u] \subseteq todo[u]
      /\ restored' \in [Item -> Nat] /\ restored'[i] = restored[i] + 1
      /\ \A j \in Item \ {i} : restored'[j] = restored[j]
  BY <1>1 DEF FInv, F!TypeOK
<1>3. F!TypeOK'
  BY Zenon, <1>1, <1>2 DEF FInv, F!TypeOK
<1>4. F!TotalsAgree' /\ F!RefundedIsReal' /\ Rejected' /\ \A u \in Task : Held(u)'
  BY Zenon, <1>1 DEF FInv, F!TotalsAgree, F!RefundedIsReal, Rejected, Held
<1>5. paid'.restored
  BY Zenon, <1>1 DEF FInv, Returned
<1>6. ASSUME freopened = 0, NEW j \in Item
      PROVE  /\ restored'[j] <= 1
             /\ \A u \in Task : j \in todo'[u] =>
                   restored'[j] = 0 /\ \A v \in Task \ {u} : j \notin todo'[v]
  <2>1. CASE j = i
    <3>1. restored[i] = 0 /\ \A u \in Task \ {t} : i \notin todo[u]
      BY Zenon, <1>1, <1>6 DEF FInv, Returned
    <3> QED BY <1>2, <2>1, <3>1
  <2>2. CASE j # i
    BY Zenon, <1>2, <1>6, <2>2 DEF FInv, Returned
  <2> QED BY Zenon, <2>1, <2>2
<1>7. Returned'
  BY Zenon, <1>1, <1>5, <1>6 DEF FInv, Returned
<1> QED BY Zenon, <1>3, <1>4, <1>7 DEF FInv

\* Every step keeps the invariant.
LEMMA FStep == FInv /\ [F!Next]_F!vars => FInv'
<1> SUFFICES ASSUME FInv, [F!Next]_F!vars PROVE FInv'
  OBVIOUS
<1>1. CASE UNCHANGED F!vars
  BY Zenon, <1>1 DEF F!vars, F!locals, F!history, FInv, F!TypeOK, F!TotalsAgree, F!RefundedIsReal,
         Held, Returned, Rejected
<1>2. ASSUME NEW t \in Task, F!Drop(t) \/ F!RestoreEnd(t) PROVE FInv'
  BY Zenon, <1>2, FQuiet DEF F!Drop, F!RestoreEnd, F!history
<1>3. ASSUME NEW t \in Task, F!Step(t) PROVE FInv'
  BY Zenon, <1>2, <1>3, ConditionalStep, StatusWrites, CostWrites, FRefund, FReject, FRestore DEF F!Step
<1> QED BY Zenon, <1>1, <1>2, <1>3, FRequest DEF F!Next

\* The amounts of an order agree, a refund it shows is real, its units come back once and
\* what was rejected is not shipped (orders/status.rs, orders/shipping.rs, capture_payment),
\* for any number of items, handlers at once and requests, any costs and any tax rate.
THEOREM FulfilmentHolds == F!Spec => []FulfilmentSafe
<1>1. FInv => FulfilmentSafe
  BY Zenon DEF FInv, FulfilmentSafe, Returned, Rejected, Way, F!UnitsReturnedOnce, F!RejectedNotShipped
<1> QED BY <1>1, FInit, FStep, PTL DEF F!Spec

-----------------------------------------------------------------------------
(* Subscriptions. *)

Named == Sub \cup {NoSub}

Remote == {"none", "canceled"} \cup S!Live

Event ==
    {e \in [type : {"created", "updated", "deleted"}, sub : Sub, status : Remote, ver : Nat] :
        e.type = "updated" => e.status \in S!Live}

SLabel ==
    {"idle", "create", "store", "flag", "cancel", "reactivate", "pending", "active", "deleted",
     "expire", "clear"}

Req == [pc : SLabel, sub : Named, status : Remote, ver : Nat, saw : Named]

STypes ==
    /\ remote \in [Sub -> Remote]
    /\ events \subseteq Event
    /\ doc \in [sub : Named, status : S!DocStatus, subscriptionStatus : S!DocStatus]
    /\ req \in [Task -> Req]
    /\ version \in Nat

\* What the check of a creation saw may be replaced; a request or an event is about one
\* subscription.
Asked(t) ==
    /\ req[t].pc \in {"create", "store"} => req[t].saw \in excused \cup {NoSub}
    /\ req[t].pc = "store" => req[t].status \in S!Live
    /\ req[t].pc \in {"cancel", "reactivate", "deleted"} => req[t].sub \in Sub

SInv == STypes /\ (\A t \in Task : Asked(t)) /\ S!BilledIsNamed

\* A change at Stripe keeps the types.
LEMMA ChangeTypes ==
    ASSUME STypes, NEW type \in {"created", "updated", "deleted"}, NEW s \in Sub,
           NEW st \in Remote, NEW end, S!Change(type, s, st, end),
           type = "updated" => st \in S!Live
    PROVE  /\ remote' \in [Sub -> Remote] /\ remote'[s] = st
           /\ \A q \in Sub \ {s} : remote'[q] = remote[q]
           /\ events' \subseteq Event
           /\ version' \in Nat
BY DEF STypes, S!Change, Event

\* A step that frees no subscription, and moves one task only.
LEMMA SQuiet ==
    ASSUME SInv, STypes', NEW t \in Task, \A u \in Task \ {t} : req'[u] = req[u],
           excused \subseteq excused',
           Asked(t)',
           \A s \in Sub : remote'[s] \in S!Live /\ remote[s] \notin S!Live =>
               s \in excused' \/ (req'[t].pc = "store" /\ req'[t].sub = s),
           doc'.sub # doc.sub => doc.sub \in excused' \cup {NoSub},
           req[t].pc = "store" => \/ doc'.sub = req[t].sub \/ req[t].sub \in excused'
                                  \/ req'[t] = req[t]
    PROVE  SInv'
<1>1. ASSUME NEW u \in Task PROVE Asked(u)'
  <2>1. CASE u = t
    BY Zenon, <2>1
  <2>2. CASE u # t
    <3>1. Asked(u) /\ req'[u] = req[u]
      BY Zenon, <2>2 DEF SInv
    <3> QED BY Zenon, <3>1 DEF Asked
  <2> QED BY Zenon, <2>1, <2>2
<1>2. ASSUME NEW s \in Sub, remote'[s] \in S!Live, s \notin excused', doc'.sub # s
      PROVE  \E u \in Task : req'[u].pc = "store" /\ req'[u].sub = s
  <2>1. CASE remote[s] \notin S!Live
    BY Zenon, <1>2, <2>1
  <2>2. CASE remote[s] \in S!Live
    <3>1. doc.sub # s
      <4>1. s # NoSub
        BY Zenon, NoSubAssumption
      <4> QED BY Zenon, <1>2, <4>1
    <3>2. PICK u \in Task : req[u].pc = "store" /\ req[u].sub = s
      BY Zenon, <1>2, <2>2, <3>1 DEF SInv, S!BilledIsNamed, S!At
    <3> QED BY Zenon, <1>2, <3>2
  <2> QED BY Zenon, <2>1, <2>2
<1>3. S!BilledIsNamed'
  BY Zenon, <1>2 DEF S!BilledIsNamed, S!At
<1> QED BY Zenon, <1>1, <1>3 DEF SInv

\* Steps of Stripe and the events: no task moves.
LEMMA SOutside ==
    ASSUME SInv, STypes', req' = req, excused \subseteq excused', doc'.sub = doc.sub,
           \A s \in Sub : remote'[s] \in S!Live /\ remote[s] \notin S!Live => s \in excused'
    PROVE  SInv'
<1>1. ASSUME NEW u \in Task PROVE Asked(u)'
  BY Zenon DEF SInv, Asked
<1>2. S!BilledIsNamed'
  BY Zenon DEF SInv, S!BilledIsNamed, S!At
<1> QED BY Zenon, <1>1, <1>2 DEF SInv

\* A subscription changes by itself, or is bought on a Checkout page.
LEMMA SStripe ==
    ASSUME SInv, S!Pay \/ \E s \in Sub : S!Evolve(s)
    PROVE  SInv'
<1>1. CASE S!Pay
  <2>1. PICK s \in Sub : S!Change("created", s, "active", FALSE) /\ excused' = excused \cup {s}
    BY Zenon, <1>1 DEF S!Pay
  <2>2. UNCHANGED <<doc, req>>
    BY Zenon, <1>1 DEF S!Pay, S!fields
  <2>3. "active" \in Remote
    BY Zenon DEF Remote, S!Live
  <2>4. STypes' /\ \A q \in Sub \ {s} : remote'[q] = remote[q]
    BY Zenon, <2>1, <2>2, <2>3, ChangeTypes DEF SInv, STypes
  <2> QED BY Zenon, <2>1, <2>2, <2>4, SOutside
<1>2. ASSUME NEW s \in Sub, S!Evolve(s) PROVE SInv'
  <2>1. PICK type \in {"updated", "deleted"}, st \in {"active", "past_due", "canceled"} :
            \E end : S!Change(type, s, st, end) /\ (type = "updated" => st \in S!Live)
    BY Zenon, <1>2 DEF S!Evolve, S!Live
  <2>2. UNCHANGED <<doc, req, excused>> /\ remote[s] \in S!Live
    BY Zenon, <1>2 DEF S!Evolve, S!fields, S!Live
  <2>3. st \in Remote /\ type \in {"created", "updated", "deleted"}
    BY Zenon DEF Remote, S!Live
  <2>4. STypes' /\ \A q \in Sub \ {s} : remote'[q] = remote[q]
    BY Zenon, <2>1, <2>2, <2>3, ChangeTypes DEF SInv, STypes
  <2> QED BY Zenon, <2>2, <2>4, SOutside
<1> QED BY Zenon, <1>1, <1>2

\* What a write of the document changes.
LEMMA WriteTypes ==
    ASSUME STypes, NEW s, NEW st \in S!DocStatus, NEW ver, S!Write(s, st, ver)
    PROVE  /\ doc' \in [sub : Named, status : S!DocStatus, subscriptionStatus : S!DocStatus]
           /\ doc'.sub = doc.sub
BY Zenon DEF S!Write, STypes

\* An event is lost, or handled by one write.
LEMMA SEvent ==
    ASSUME SInv, NEW e \in events, S!Lose(e) \/ S!HandleCreated(e) \/ S!HandleUpdated(e)
    PROVE  SInv'
<1>1. e.type = "updated" => e.status \in S!DocStatus
  BY DEF SInv, STypes, Event, S!DocStatus
<1>2. UNCHANGED <<remote, version, req, excused>> /\ events' = events \ {e}
  BY Zenon DEF S!Lose, S!HandleCreated, S!HandleUpdated
<1>3. /\ doc' \in [sub : Named, status : S!DocStatus, subscriptionStatus : S!DocStatus]
      /\ doc'.sub = doc.sub
  BY Zenon, <1>1, WriteTypes DEF SInv, STypes, S!Lose, S!HandleCreated, S!HandleUpdated, S!Flag
<1>4. STypes'
  BY <1>2, <1>3 DEF SInv, STypes
<1> QED BY Zenon, <1>2, <1>3, <1>4, SOutside

\* A task takes a step.
LEMMA ReqTo ==
    ASSUME STypes, NEW t \in Task, NEW r \in Req, req' = [req EXCEPT ![t] = r]
    PROVE  req' \in [Task -> Req] /\ req'[t] = r /\ \A u \in Task \ {t} : req'[u] = req[u]
BY DEF STypes

\* It ends, or goes to the next statement.
LEMMA SMoves ==
    ASSUME STypes, NEW t \in Task
    PROVE  /\ S!Idle \in Req /\ S!Idle.pc = "idle"
           /\ S!End(t) => /\ req' \in [Task -> Req] /\ req'[t].pc = "idle"
                          /\ \A u \in Task \ {t} : req'[u] = req[u]
           /\ \A label \in SLabel :
                 S!Goto(t, label) => /\ req' \in [Task -> Req] /\ req'[t].pc = label
                                     /\ \A u \in Task \ {t} : req'[u] = req[u]
<1>1. S!Idle \in Req /\ S!Idle.pc = "idle"
  BY DEF S!Idle, Req, Named, Remote, SLabel
<1>2. S!End(t) => /\ req' \in [Task -> Req] /\ req'[t].pc = "idle"
                  /\ \A u \in Task \ {t} : req'[u] = req[u]
  BY Zenon, <1>1, ReqTo DEF S!End
<1>3. ASSUME NEW label \in SLabel, S!Goto(t, label)
      PROVE  /\ req' \in [Task -> Req] /\ req'[t].pc = label
             /\ \A u \in Task \ {t} : req'[u] = req[u]
  <2> DEFINE r == [req[t] EXCEPT !.pc = label]
  <2>1. r \in Req /\ r.pc = label /\ req' = [req EXCEPT ![t] = r]
    BY <1>3 DEF S!Goto, STypes, Req
  <2> HIDE DEF r
  <2> QED BY Zenon, <2>1, ReqTo
<1> QED BY Zenon, <1>1, <1>2, <1>3

\* A step of a task outside a creation, which changes no subscription.
LEMMA SAside ==
    ASSUME SInv, NEW t \in Task, req[t].pc # "store",
           req' \in [Task -> Req], \A u \in Task \ {t} : req'[u] = req[u],
           req'[t].pc \notin {"create", "store", "cancel", "reactivate", "deleted"},
           UNCHANGED <<remote, version>>, events' \subseteq Event,
           doc' \in [sub : Named, status : S!DocStatus, subscriptionStatus : S!DocStatus],
           doc'.sub = doc.sub, excused \subseteq excused'
    PROVE  SInv'
<1>1. STypes'
  BY Zenon DEF SInv, STypes
<1>2. Asked(t)'
  BY Zenon DEF Asked
<1> QED BY Zenon, <1>1, <1>2, SQuiet

\* Reads of the document.
LEMMA SRead ==
    ASSUME SInv, NEW t \in Task,
           S!CreateCheck(t) \/ S!CancelRead(t) \/ S!ReactivateRead(t) \/ S!JobSelect(t)
    PROVE  SInv'
<1>0. doc.sub \in Named /\ req[t].pc = "idle"
  BY DEF SInv, STypes, S!CreateCheck, S!CancelRead, S!ReactivateRead, S!JobSelect, S!At
<1>1. UNCHANGED <<remote, version, events, doc>>
  BY Zenon DEF S!CreateCheck, S!CancelRead, S!ReactivateRead, S!JobSelect, S!remote, S!fields
<1>2. PICK r \in Req :
         /\ req' = [req EXCEPT ![t] = r]
         /\ r.pc \in {"create", "cancel", "reactivate", "expire"}
         /\ r.pc = "create" => r.saw \in excused' \cup {NoSub}
         /\ r.pc \in {"cancel", "reactivate"} => r.sub \in Sub
  <2>1. CASE S!CreateCheck(t)
    <3> DEFINE r == [S!Idle EXCEPT !.pc = "create", !.saw = doc.sub]
    <3>1. r \in Req /\ r.pc = "create" /\ r.saw = doc.sub
      BY Zenon, <1>0 DEF S!Idle, Req, Named, Remote, SLabel
    <3>2. req' = [req EXCEPT ![t] = r] /\ excused' = excused \cup ({doc.sub} \cap Sub)
      BY Zenon, <2>1 DEF S!CreateCheck, S!HasActive
    <3> HIDE DEF r
    <3> QED BY Zenon, <1>0, <3>1, <3>2 DEF Named
  <2>2. CASE S!CancelRead(t)
    <3> DEFINE r == [S!Idle EXCEPT !.pc = "cancel", !.sub = doc.sub]
    <3>1. r \in Req /\ r.pc = "cancel" /\ r.sub = doc.sub
      BY Zenon, <1>0 DEF S!Idle, Req, Named, Remote, SLabel
    <3>2. req' = [req EXCEPT ![t] = r] /\ doc.sub \in Sub
      BY Zenon, <1>0, <2>2 DEF S!CancelRead, Named
    <3> HIDE DEF r
    <3> QED BY Zenon, <3>1, <3>2
  <2>3. CASE S!ReactivateRead(t)
    <3> DEFINE r == [S!Idle EXCEPT !.pc = "reactivate", !.sub = doc.sub]
    <3>1. r \in Req /\ r.pc = "reactivate" /\ r.sub = doc.sub
      BY Zenon, <1>0 DEF S!Idle, Req, Named, Remote, SLabel
    <3>2. req' = [req EXCEPT ![t] = r] /\ doc.sub \in Sub
      BY Zenon, <1>0, <2>3 DEF S!ReactivateRead, Named
    <3> HIDE DEF r
    <3> QED BY Zenon, <3>1, <3>2
  <2>4. CASE S!JobSelect(t)
    <3> DEFINE r == [S!Idle EXCEPT !.pc = "expire"]
    <3>1. r \in Req /\ r.pc = "expire"
      BY DEF S!Idle, Req, Named, Remote, SLabel
    <3>2. req' = [req EXCEPT ![t] = r]
      BY Zenon, <2>4 DEF S!JobSelect
    <3> HIDE DEF r
    <3> QED BY Zenon, <3>1, <3>2
  <2> QED BY Zenon, <2>1, <2>2, <2>3, <2>4
<1>3. req' \in [Task -> Req] /\ req'[t] = r /\ \A u \in Task \ {t} : req'[u] = req[u]
  BY Zenon, <1>2, ReqTo DEF SInv
<1>4. Asked(t)'
  BY Zenon, <1>2, <1>3 DEF Asked
<1>5. excused \subseteq excused'
  BY Zenon DEF S!CreateCheck, S!CancelRead, S!ReactivateRead, S!JobSelect
<1>6. STypes'
  BY Zenon, <1>1, <1>3 DEF SInv, STypes
<1> QED BY Zenon, <1>0, <1>1, <1>3, <1>4, <1>5, <1>6, SQuiet

\* A creation at Stripe, and a change of cancel_at_period_end.
LEMMA SCall ==
    ASSUME SInv, NEW t \in Task, S!CreateStripe(t) \/ S!ChangeEnd(t)
    PROVE  SInv'
<1> DEFINE next == version + 1
<1>0. req[t] \in Req /\ Asked(t) /\ next \in Nat /\ STypes
  BY DEF SInv, STypes
<1>1. UNCHANGED <<doc, excused>>
  BY Zenon DEF S!CreateStripe, S!ChangeEnd, S!fields
<1>2. CASE S!CreateStripe(t)
  <2>1. PICK s \in Sub, st \in {"incomplete", "active"} :
           /\ S!Change("created", s, st, FALSE)
           /\ req' = [req EXCEPT ![t] = [@ EXCEPT !.pc = "store", !.sub = s, !.status = st,
                                                  !.ver = next]]
    BY Zenon, <1>2 DEF S!CreateStripe
  <2> HIDE DEF next
  <2>2. st \in Remote /\ st \in S!Live /\ req[t].pc = "create"
    BY Zenon, <1>2 DEF Remote, S!Live, S!CreateStripe, S!At
  <2> DEFINE r == [req[t] EXCEPT !.pc = "store", !.sub = s, !.status = st, !.ver = next]
  <2>3. /\ r \in Req /\ r.pc = "store" /\ r.sub = s /\ r.status = st /\ r.saw = req[t].saw
    BY Zenon, <1>0, <2>2 DEF Req, SLabel, Named
  <2>7. req' = [req EXCEPT ![t] = r]
    BY Zenon, <2>1
  <2> HIDE DEF r
  <2>4. req' \in [Task -> Req] /\ req'[t] = r /\ \A u \in Task \ {t} : req'[u] = req[u]
    BY Zenon, <1>0, <2>3, <2>7, ReqTo
  <2>5. STypes' /\ \A q \in Sub \ {s} : remote'[q] = remote[q]
    BY Zenon, <1>0, <1>1, <2>1, <2>2, <2>4, ChangeTypes DEF STypes
  <2>6. Asked(t)'
    BY Zenon, <1>0, <1>1, <2>2, <2>3, <2>4 DEF Asked
  <2> QED BY Zenon, <1>1, <2>2, <2>3, <2>4, <2>5, <2>6, SQuiet
<1>3. CASE S!ChangeEnd(t)
  <2> DEFINE s == req[t].sub
             label == IF S!At(t, "cancel") THEN "pending" ELSE "active"
  <2>1. /\ req[t].pc \in {"cancel", "reactivate"} /\ remote[s] \in S!Live
        /\ S!Change("updated", s, remote[s], S!At(t, "cancel"))
        /\ req' = [req EXCEPT ![t] = [@ EXCEPT !.pc = label, !.status = remote[s],
                                               !.ver = next]]
    BY Zenon, <1>3 DEF S!ChangeEnd
  <2>2. s \in Sub /\ remote[s] \in Remote /\ label \in {"pending", "active"}
    BY Zenon, <1>0, <2>1 DEF Asked, Remote
  <2> HIDE DEF label, next
  <2> DEFINE r == [req[t] EXCEPT !.pc = label, !.status = remote[s], !.ver = next]
  <2>3. r \in Req /\ r.pc = label
    BY Zenon, <1>0, <2>2 DEF Req, SLabel, Named
  <2>7. req' = [req EXCEPT ![t] = r]
    BY Zenon, <2>1
  <2> HIDE DEF r
  <2>4. req' \in [Task -> Req] /\ req'[t] = r /\ \A u \in Task \ {t} : req'[u] = req[u]
    BY Zenon, <1>0, <2>3, <2>7, ReqTo
  <2>5. STypes' /\ \A q \in Sub : remote'[q] = remote[q]
    <3>1. /\ remote' \in [Sub -> Remote] /\ remote'[s] = remote[s]
          /\ \A q \in Sub \ {s} : remote'[q] = remote[q]
          /\ events' \subseteq Event /\ version' \in Nat
      BY <1>0, <2>1, <2>2, ChangeTypes
    <3> QED BY Zenon, <1>0, <1>1, <2>4, <3>1 DEF STypes
  <2>6. Asked(t)' /\ req[t].pc # "store"
    BY Zenon, <2>1, <2>2, <2>3, <2>4 DEF Asked
  <2> QED BY Zenon, <1>1, <2>4, <2>5, <2>6, SQuiet
<1> QED BY Zenon, <1>2, <1>3

\* The upsert of a creation.
LEMMA SStore ==
    ASSUME SInv, NEW t \in Task, S!CreateStore(t)
    PROVE  SInv'
<1> DEFINE r == req[t]
<1>0. r \in Req /\ Asked(t) /\ STypes /\ r.pc = "store"
  BY Zenon DEF SInv, STypes, S!CreateStore, S!At
<1>1. /\ UNCHANGED <<remote, version, events>>
      /\ doc' = [sub |-> r.sub, status |-> r.status, subscriptionStatus |-> r.status]
      /\ excused' = IF doc.sub = r.saw THEN excused ELSE excused \cup {doc.sub}
      /\ S!Goto(t, "flag") \/ S!End(t)
  BY Zenon DEF S!CreateStore, S!remote
<1>2. /\ doc' \in [sub : Named, status : S!DocStatus, subscriptionStatus : S!DocStatus]
      /\ doc'.sub = r.sub
  BY <1>0, <1>1 DEF Asked, Req, S!DocStatus
<1>3. /\ req' \in [Task -> Req] /\ req'[t].pc \in {"idle", "flag"}
      /\ \A u \in Task \ {t} : req'[u] = req[u]
  BY Zenon, <1>0, <1>1, SMoves DEF SLabel
<1>4. excused \subseteq excused' /\ doc.sub \in excused' \cup {NoSub}
  BY Zenon, <1>0, <1>1 DEF Asked
<1>5. STypes' /\ Asked(t)'
  BY Zenon, <1>0, <1>1, <1>2, <1>3 DEF STypes, Asked
<1> QED BY Zenon, <1>1, <1>2, <1>3, <1>4, <1>5, SQuiet

\* Steps that end a request or write the document it names.
LEMMA SWrites ==
    ASSUME SInv, NEW t \in Task,
           \/ S!CreateSession(t) \/ S!CreateFlag(t) \/ S!Refused(t) \/ S!CancelWrite(t)
           \/ S!ReactivateWrite(t) \/ S!JobExpire(t) \/ S!JobClear(t) \/ S!WriteFails(t)
    PROVE  SInv'
<1>0. STypes /\ req[t].pc # "store"
  BY Zenon DEF SInv, S!CreateSession, S!CreateFlag, S!Refused, S!CancelWrite, S!ReactivateWrite,
         S!JobExpire, S!JobClear, S!WriteFails, S!Ignored, S!At
<1>1. UNCHANGED <<remote, version, events, excused>>
  BY Zenon DEF S!CreateSession, S!CreateFlag, S!Refused, S!CancelWrite, S!ReactivateWrite,
         S!JobExpire, S!JobClear, S!WriteFails, S!remote
<1>2. S!End(t) \/ S!Goto(t, "flag") \/ S!Goto(t, "clear")
  BY Zenon DEF S!CreateSession, S!CreateFlag, S!Refused, S!CancelWrite, S!ReactivateWrite,
         S!JobExpire, S!JobClear, S!WriteFails
<1>3. /\ req' \in [Task -> Req] /\ req'[t].pc \in {"idle", "flag", "clear"}
      /\ \A u \in Task \ {t} : req'[u] = req[u]
  BY Zenon, <1>0, <1>2, SMoves DEF SLabel
<1>4. \/ doc' = doc
      \/ \E st \in {"cancel_pending", "active"} : \E ver : S!Write(req[t].sub, st, ver)
      \/ doc' = [doc EXCEPT !.status = "expired"]
  BY Zenon DEF S!CreateSession, S!CreateFlag, S!Refused, S!CancelWrite, S!ReactivateWrite,
         S!JobExpire, S!JobClear, S!WriteFails, S!fields, S!Flag
<1>5. /\ doc' \in [sub : Named, status : S!DocStatus, subscriptionStatus : S!DocStatus]
      /\ doc'.sub = doc.sub
  <2>1. ASSUME NEW st \in {"cancel_pending", "active"}, NEW ver, S!Write(req[t].sub, st, ver)
        PROVE  /\ doc' \in [sub : Named, status : S!DocStatus, subscriptionStatus : S!DocStatus]
               /\ doc'.sub = doc.sub
    BY Zenon, <1>0, <2>1, WriteTypes DEF S!DocStatus, S!Live
  <2>2. CASE doc' = doc \/ doc' = [doc EXCEPT !.status = "expired"]
    BY <1>0, <2>2 DEF STypes, S!DocStatus
  <2> QED BY Zenon, <1>4, <2>1, <2>2
<1> QED BY Zenon, <1>0, <1>1, <1>3, <1>5, SAside DEF STypes

\* The two writes of handle_subscription_deleted.
LEMMA SDeleted ==
    ASSUME SInv, NEW t \in Task, S!DeletedWrite(t) \/ \E e \in events : S!HandleDeleted(t, e)
    PROVE  SInv'
<1>0. STypes /\ Asked(t) /\ req[t] \in Req
  BY Zenon DEF SInv, STypes
<1>1. UNCHANGED <<remote, version, excused>>
  BY Zenon DEF S!DeletedWrite, S!HandleDeleted
<1>2. CASE S!DeletedWrite(t)
  <2>1. req[t].pc = "deleted" /\ S!End(t)
    BY Zenon, <1>2 DEF S!DeletedWrite, S!At
  <2>2. S!Again(t) \in Event
    BY <1>0, <2>1 DEF Asked, Event, S!Again, Req
  <2>3. \/ events' = events \cup {S!Again(t)} /\ doc' = doc
        \/ events' = events /\ S!Write(req[t].sub, "cancelled", req[t].ver)
    BY Zenon, <1>2 DEF S!DeletedWrite, S!fields
  <2>4. events' \subseteq Event
    BY Zenon, <1>0, <2>2, <2>3 DEF STypes
  <2>5. /\ doc' \in [sub : Named, status : S!DocStatus, subscriptionStatus : S!DocStatus]
        /\ doc'.sub = doc.sub
    BY Zenon, <1>0, <2>3, WriteTypes DEF S!DocStatus, STypes
  <2> QED BY Zenon, <1>0, <1>1, <2>1, <2>4, <2>5, SMoves, SAside
<1>3. ASSUME NEW e \in events, S!HandleDeleted(t, e) PROVE SInv'
  <2> DEFINE r == [S!Idle EXCEPT !.pc = "deleted", !.sub = e.sub, !.status = e.status, !.ver = e.ver]
  <2>1. /\ req' = [req EXCEPT ![t] = r] /\ doc' = doc /\ events' = events \ {e}
        /\ req[t].pc = "idle"
    BY Zenon, <1>3 DEF S!HandleDeleted, S!Flag, S!At
  <2>2. r \in Req /\ r.pc = "deleted" /\ r.sub = e.sub /\ e.sub \in Sub
    <3>1. e.sub \in Sub /\ e.status \in Remote /\ e.ver \in Nat
      BY <1>0 DEF STypes, Event
    <3> QED BY Zenon, <3>1 DEF S!Idle, Req, Named, SLabel
  <2> HIDE DEF r
  <2>3. req' \in [Task -> Req] /\ req'[t] = r /\ \A u \in Task \ {t} : req'[u] = req[u]
    BY Zenon, <1>0, <2>1, <2>2, ReqTo
  <2>4. STypes'
    BY Zenon, <1>0, <1>1, <2>1, <2>3 DEF STypes
  <2>5. Asked(t)'
    BY Zenon, <2>2, <2>3 DEF Asked
  <2> QED BY Zenon, <1>1, <2>1, <2>3, <2>4, <2>5, SQuiet
<1> QED BY Zenon, <1>2, <1>3

\* A request is dropped: a creation that is not finished is noted.
LEMMA SDrop ==
    ASSUME SInv, NEW t \in Task, S!Drop(t)
    PROVE  SInv'
<1>0. STypes /\ Asked(t) /\ req[t] \in Req
  BY Zenon DEF SInv, STypes
<1>1. /\ UNCHANGED <<remote, version, doc>> /\ S!End(t)
      /\ excused' = IF req[t].pc = "store" THEN excused \cup {req[t].sub} ELSE excused
  BY Zenon DEF S!Drop, S!At
<1>2. events' = events \/ (req[t].pc = "deleted" /\ events' = events \cup {S!Again(t)})
  BY Zenon DEF S!Drop, S!At
<1>3. req[t].pc = "deleted" => S!Again(t) \in Event
  BY <1>0 DEF Asked, Event, S!Again, Req
<1>4. /\ req' \in [Task -> Req] /\ req'[t].pc = "idle"
      /\ \A u \in Task \ {t} : req'[u] = req[u]
  BY Zenon, <1>0, <1>1, SMoves
<1>5. STypes'
  BY Zenon, <1>0, <1>1, <1>2, <1>3, <1>4 DEF STypes
<1>6. Asked(t)'
  BY Zenon, <1>4 DEF Asked
<1> QED BY Zenon, <1>1, <1>4, <1>5, <1>6, SQuiet

\* Every step.
LEMMA SStep == SInv /\ [S!Next]_S!vars => SInv'
<1> SUFFICES ASSUME SInv, [S!Next]_S!vars PROVE SInv'
  OBVIOUS
<1>1. CASE UNCHANGED S!vars
  BY Zenon, <1>1 DEF S!vars, S!remote, S!fields, SInv, STypes, Asked, S!BilledIsNamed, S!At
<1>2. ASSUME NEW t \in Task, S!Step(t) PROVE SInv'
  BY Zenon, <1>2, SCall, SStore, SWrites, SDeleted DEF S!Step
<1>3. ASSUME NEW e \in events, S!Lose(e) \/ S!Handle(e) PROVE SInv'
  BY Zenon, <1>3, SEvent, SDeleted DEF S!Handle
<1>4. ASSUME NEW t \in Task, S!WriteFails(t) PROVE SInv'
  BY Zenon, <1>4, SWrites
<1> QED BY Zenon, <1>1, <1>2, <1>3, <1>4, SStripe, SRead, SDrop DEF S!Next

\* The document of a user names every live subscription, so that they can cancel it, but
\* for the exceptions of create_subscription: for any number of subscriptions, requests at
\* once, changes at Stripe, lost events and faults.
THEOREM Billed == S!Spec => []BilledIsNamed
<1>1. S!Init => SInv
  <2> SUFFICES ASSUME S!Init PROVE SInv
    OBVIOUS
  <2>1. STypes
    <3>1. S!Idle \in Req
      BY DEF S!Idle, Req, Named, Remote, SLabel
    <3>2. req \in [Task -> Req]
      BY <3>1 DEF S!Init
    <3>3. doc \in [sub : Named, status : S!DocStatus, subscriptionStatus : S!DocStatus]
      BY DEF S!Init, Named, S!DocStatus
    <3> QED BY <3>2, <3>3 DEF S!Init, STypes, Remote
  <2>2. \A t \in Task : Asked(t)
    BY DEF S!Init, Asked, S!Idle
  <2>3. S!BilledIsNamed
    BY DEF S!Init, S!BilledIsNamed, S!Live
  <2> QED BY Zenon, <2>1, <2>2, <2>3 DEF SInv
<1>2. SInv => BilledIsNamed
  BY Zenon DEF SInv, BilledIsNamed
<1> QED BY <1>1, <1>2, SStep, PTL DEF S!Spec

==============================================================================
