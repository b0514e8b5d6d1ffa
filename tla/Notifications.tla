---------------------------- MODULE Notifications ----------------------------
(***************************************************************************)
(* Notices about an order and its return request                           *)
(* (ob-handlers/src/native_triggers.rs).                                   *)
(*                                                                         *)
(* A GraphQL update reads the document, merges its fields into it and      *)
(* announces the document before and after.  The executor of the process   *)
(* handles the announcements one by one.  For each notice it inserts a     *)
(* record, then a claim, and sends the mail only if its own insert of the  *)
(* claim succeeded.  Two processes may meet on one claim, since a stale    *)
(* `before` shows a change that was announced already.                     *)
(*                                                                         *)
(* A notice is <<kind, what it tells, addressee>>: that is its claim key.  *)
(* The executor's channel is the queue of SearchMirror and delivers here   *)
(* what was sent.  Push messages are left out: the select of the tokens    *)
(* names a column the table does not have, so none is ever sent.  So is    *)
(* the notice about perishable items, which asks for a status that was     *)
(* skipped above it.                                                       *)
(***************************************************************************)
EXTENDS Integers, Sequences, FiniteSets, Bags, SequencesExt, TLC

CONSTANTS
    Process,        \* server processes, each with one executor
    Item, Digital,  \* lines of the order, and the digital ones
    Seller,         \* sellers of the lines
    MaxUpdates,     \* bound: updates of the documents
    MaxFaults       \* bound: failed statements, failed mails, processes ended

VARIABLES
    order, pickup,  \* the order, and its delivery speed
    return,         \* the return request
    wishes,         \* stock notifications the buyer still waits for
    read,           \* what the update in progress of each process read
    queue,          \* the executor's channel
    todo, pc,       \* the notices left to make of the event in hand
    notes, claims,  \* the notification records and the claims
    log,            \* the mail log
    mails,          \* mails sent for each notice
    updates, faults

documents == <<order, pickup, return>>
vars == <<documents, wishes, read, queue, todo, pc, notes, claims, log, mails,
          updates, faults>>

Status == {"pending", "processing", "shipped", "delivered"}
ItemStatus == {"confirmed", "shipped", "delivered"}
Payment == {"captured", "refunded"}
ReturnStatus == {"requested", "approved", "received"}
None == <<>>

-----------------------------------------------------------------------------
(* What an update is worth telling. *)

order_seller_should_notify(s) == s \in {"confirmed", "shipped", "delivered"}

return_seller_should_notify(s) == s \in {"requested", "received"}

StatusNews(before, after) ==
    IF before.status = after.status THEN <<>>
    ELSE << <<"order", {after.status}, "buyer">> >> \o
         SetToSeq({<<"order", {after.status}, s>> :
                   s \in {s \in Seller :
                          /\ order_seller_should_notify(after.status)
                          /\ ~ (after.status = "shipped" /\ after.actor = s)}})

PaymentNews(before, after) ==
    IF before.payment # after.payment /\ after.payment = "refunded"
    THEN << <<"payment", {after.payment}, "buyer">> >> ELSE <<>>

Batch(kind, items) == IF items = {} THEN <<>> ELSE << <<kind, items, "buyer">> >>

ItemNews(before, after) ==
    LET changed == {i \in Item : before.items[i] # after.items[i]}
        skip_full_order_shipped ==
            before.status # "shipped" /\ after.status = "shipped" /\ ~ pickup
    IN  Batch("shipped", {i \in changed : /\ after.items[i] = "shipped"
                                          /\ ~ skip_full_order_shipped
                                          /\ i \notin Digital})
        \o Batch("delivered", {i \in changed : after.items[i] = "delivered"})

ReturnNews(before, after) ==
    IF before = after THEN <<>>
    ELSE << <<"return", {after.status}, "buyer">> >> \o
         IF return_seller_should_notify(after.status)
         THEN << <<"return", {after.status}, "seller">> >> ELSE <<>>

News(e) ==
    IF e.about = "return" THEN ReturnNews(e.before, e.after)
    ELSE StatusNews(e.before, e.after) \o PaymentNews(e.before, e.after)
         \o ItemNews(e.before, e.after)

-----------------------------------------------------------------------------
Init ==
    /\ order = [status |-> "pending", actor |-> "buyer", payment |-> "captured",
                items |-> [i \in Item |-> "confirmed"]]
    /\ pickup \in BOOLEAN
    /\ return = [status |-> "requested"]
    /\ wishes = Item
    /\ read = [p \in Process |-> None]
    /\ queue = [p \in Process |-> <<>>]
    /\ todo = [p \in Process |-> <<>>]
    /\ pc = [p \in Process |-> "idle"]
    /\ notes = {} /\ claims = {}
    /\ log = [n \in {} |-> "pending"] /\ mails = EmptyBag
    /\ updates = 0 /\ faults = 0

-----------------------------------------------------------------------------
(* The updates. *)

\* The fields an update sets: the client sends the items array as a whole.
Payload ==
    [status : Status, actor : {"buyer"} \cup Seller]
    \cup [payment : Payment]
    \cup [items : [Item -> ItemStatus]]
    \cup [items : [Item -> ItemStatus], status : {"shipped"}, actor : Seller]

UpdateRead(p) ==
    /\ read[p] = None /\ updates < MaxUpdates
    /\ updates' = updates + 1
    /\ \E e \in {[about |-> "order", before |-> order],
                 [about |-> "return", before |-> return]} :
          read' = [read EXCEPT ![p] = e]
    /\ UNCHANGED <<documents, wishes, queue, todo, pc, notes, claims, log, mails,
                   faults>>

Announce(p, after) ==
    /\ queue' = [queue EXCEPT ![p] = Append(@, [about |-> read[p].about,
                                                before |-> read[p].before,
                                                after |-> after])]
    /\ read' = [read EXCEPT ![p] = None]

UpdateWrite(p) ==
    /\ read[p] # None
    /\ \/ /\ read[p].about = "order"
          /\ \E data \in Payload : order' = data @@ order
          /\ Announce(p, order')
          /\ UNCHANGED return
       \/ /\ read[p].about = "return"
          /\ return' \in [status : ReturnStatus]
          /\ Announce(p, return')
          /\ UNCHANGED order
    /\ UNCHANGED <<pickup, wishes, todo, pc, notes, claims, log, mails, updates,
                   faults>>

-----------------------------------------------------------------------------
(* The executor of a process. *)

Fault ==
    /\ faults < MaxFaults
    /\ faults' = faults + 1

\* The place after a notice is dealt with.
Go(p, left) ==
    /\ todo' = [todo EXCEPT ![p] = left]
    /\ pc' = [pc EXCEPT ![p] = IF left = <<>> THEN "idle" ELSE "record"]

Step(p, to) ==
    /\ pc' = [pc EXCEPT ![p] = to]
    /\ UNCHANGED todo

handle_event(p) ==
    /\ pc[p] = "idle" /\ queue[p] # <<>>
    /\ LET e == Head(queue[p])
           left == News(e)
       IN  /\ queue' = [queue EXCEPT ![p] = Tail(@)]
           /\ IF /\ e.about = "order"
                 /\ e.before.status # e.after.status
                 /\ e.after.status = "processing"
              THEN /\ todo' = [todo EXCEPT ![p] = left]
                   /\ pc' = [pc EXCEPT ![p] = "cleanup"]
              ELSE Go(p, left)
    /\ UNCHANGED <<documents, wishes, read, notes, claims, log, mails, updates, faults>>

\* The select and the deletes are statements of their own whose errors are ignored.
cleanup_stock_notifications(p) ==
    /\ pc[p] = "cleanup"
    /\ \/ wishes' = {} /\ UNCHANGED faults
       \/ Fault /\ wishes' \in SUBSET wishes
    /\ Go(p, todo[p])
    /\ UNCHANGED <<documents, read, queue, notes, claims, log, mails, updates>>

\* An insert that finds the record there goes on; one that fails without it ends the
\* event, and the notices left with it.
create_notification_record_once(p) ==
    /\ pc[p] = "record"
    /\ \/ /\ notes' = notes \cup {Head(todo[p])}
          /\ Step(p, "claim")
          /\ UNCHANGED faults
       \/ /\ Fault
          /\ Go(p, <<>>)
          /\ UNCHANGED notes
    /\ UNCHANGED <<documents, wishes, read, queue, claims, log, mails, updates>>

\* MUTANT: the claim is upserted, so that a second claim succeeds, too.
claim_notification_upserted(p) ==
    /\ pc[p] = "claim"
    /\ claims' = claims \cup {Head(todo[p])}
    /\ Step(p, "log")
    /\ UNCHANGED <<documents, wishes, read, queue, notes, log, mails, updates, faults>>

\* An insert that fails may still have taken effect.
claim_notification_once(p) ==
    /\ pc[p] = "claim"
    /\ LET n == Head(todo[p])
       IN  \/ /\ n \notin claims
              /\ claims' = claims \cup {n}
              /\ Step(p, "log")
              /\ UNCHANGED faults
           \/ /\ n \in claims
              /\ Go(p, Tail(todo[p]))
              /\ UNCHANGED <<claims, faults>>
           \/ /\ Fault
              /\ claims' \in {claims, claims \cup {n}}
              /\ Go(p, Tail(todo[p]))
    /\ UNCHANGED <<documents, wishes, read, queue, notes, log, mails, updates>>

\* The upsert of the mail log; its error is ignored.
dispatch_email(p) ==
    /\ pc[p] = "log"
    /\ \/ log' = (Head(todo[p]) :> "pending") @@ log /\ UNCHANGED faults
       \/ Fault /\ UNCHANGED log
    /\ Step(p, "send")
    /\ UNCHANGED <<documents, wishes, read, queue, notes, claims, mails, updates>>

\* A mail may go out although the call timed out.
Send(p) ==
    /\ pc[p] = "send"
    /\ LET sent == mails (+) SetToBag({Head(todo[p])})
       IN  \/ mails' = sent /\ Step(p, "sent") /\ UNCHANGED faults
           \/ Fault /\ mails' \in {mails, sent} /\ Step(p, "pending")
    /\ UNCHANGED <<documents, wishes, read, queue, notes, claims, log, updates>>

\* The update of the mail log, which matches no row if the upsert failed.
MailStatus(p) ==
    /\ pc[p] \in {"sent", "pending"}
    /\ \/ /\ log' = [n \in DOMAIN log |-> IF n = Head(todo[p]) THEN pc[p] ELSE log[n]]
          /\ UNCHANGED faults
       \/ Fault /\ UNCHANGED log
    /\ Go(p, Tail(todo[p]))
    /\ UNCHANGED <<documents, wishes, read, queue, notes, claims, mails, updates>>

\* The process ends, and its channel with it.
Restart(p) ==
    /\ Fault
    /\ read' = [read EXCEPT ![p] = None]
    /\ queue' = [queue EXCEPT ![p] = <<>>]
    /\ todo' = [todo EXCEPT ![p] = <<>>]
    /\ pc' = [pc EXCEPT ![p] = "idle"]
    /\ UNCHANGED <<documents, wishes, notes, claims, log, mails, updates>>

Executor(p) ==
    \/ handle_event(p) \/ cleanup_stock_notifications(p)
    \/ create_notification_record_once(p) \/ claim_notification_once(p)
    \/ dispatch_email(p) \/ Send(p) \/ MailStatus(p)

Next == \E p \in Process : UpdateRead(p) \/ UpdateWrite(p) \/ Executor(p) \/ Restart(p)

Spec == Init /\ [][Next]_vars

-----------------------------------------------------------------------------
(* Properties. *)

Notice ==
    ({"order"} \X {{s} : s \in Status} \X ({"buyer"} \cup Seller))
    \cup ({"payment"} \X {{"refunded"}} \X {"buyer"})
    \cup ({"shipped", "delivered"} \X (SUBSET Item \ {{}}) \X {"buyer"})
    \cup ({"return"} \X {{s} : s \in ReturnStatus} \X {"buyer", "seller"})

\* The variables of native_triggers.rs have their types, the log and the mails are about
\* notices that were claimed, and a process has notices left only while it is busy.
TypeOK ==
    /\ order \in [status : Status, actor : {"buyer"} \cup Seller, payment : Payment,
                  items : [Item -> ItemStatus]]
    /\ pickup \in BOOLEAN /\ return \in [status : ReturnStatus] /\ wishes \in SUBSET Item
    /\ notes \in SUBSET Notice /\ claims \in SUBSET notes
    /\ DOMAIN log \subseteq claims
    /\ \A n \in DOMAIN log : log[n] \in {"pending", "sent"}
    /\ \A p \in Process : (pc[p] = "idle") = (todo[p] = <<>>)
    /\ updates \in 0 .. MaxUpdates /\ faults \in 0 .. MaxFaults

\* create_notification_once: nobody gets two mails about one thing, though the change be
\* announced twice, by two processes, or repeated; and a mail says nothing that is not
\* among the addressee's notifications.
MailOnce ==
    \A n \in BagToSet(mails) : CopiesIn(n, mails) = 1 /\ n \in claims /\ n \in notes

\* A log entry "sent" has a mail behind it, also when mail and log fail separately.
SentIsSent == \A n \in DOMAIN log : log[n] = "sent" => n \in BagToSet(mails)

\* The buyer knows of item i what its status says: by the notice about the order, or by
\* one about a batch with i.
Told(i) ==
    \/ order.items[i] = "confirmed"
    \/ order.items[i] = "shipped" /\ i \in Digital
    \/ \E n \in notes : n[1] = order.items[i] /\ i \in n[2]
    \/ order.items[i] = "shipped" /\ <<"order", {"shipped"}, "buyer">> \in notes

\* handle_order_item_status_changes leaves the item notices to the order's notice when
\* the whole order is shipped: whatever order updates and stale reads come in, once the
\* executors rest no item has been shipped or delivered without word to the buyer.
EveryItemTold ==
    (/\ faults = 0
     /\ \A p \in Process : read[p] = None /\ queue[p] = <<>> /\ pc[p] = "idle")
        => \A i \in Item : Told(i)
=============================================================================
