------------------------------ MODULE MCOrders ------------------------------
(***************************************************************************)
(* CheckoutOrder and Notifications for TLC, side by side: an order from    *)
(* its checkout to its end, and the news of an order.  The initial state   *)
(* chooses which of them runs.                                             *)
(***************************************************************************)
EXTENDS MCCheckoutOrder

CONSTANTS Seller, MaxUpdates, MaxFaults

VARIABLES part,
          news, pickup, return, wishes, read, queue, left, npc, notes, claims, log,
          mails, updates, nfaults

newsVars == <<news, pickup, return, wishes, read, queue, left, npc, notes, claims, log,
              mails, updates, nfaults>>

N == INSTANCE Notifications
        WITH Process <- Worker, Item <- Product, order <- news, todo <- left, pc <- npc,
             faults <- nfaults

MCInit ==
    /\ Init /\ N!Init
    /\ part \in {"order", "news"}
    /\ part = "order" => pickup

MCNext ==
    \/ part = "order" /\ Next /\ UNCHANGED <<part, newsVars>>
    \/ part = "news" /\ N!Next /\ UNCHANGED <<part, vars>>

MCSpec == MCInit /\ [][MCNext]_<<part, vars, newsVars>>

-----------------------------------------------------------------------------
\* Notifications: nobody gets two mails about one thing, a mail logged as sent was sent,
\* and once the executors rest the buyer knows of every item shipped or delivered, unless
\* a statement failed or a process ended.
NotificationsSafe == N!TypeOK /\ N!MailOnce /\ N!SentIsSent /\ N!EveryItemTold
=============================================================================
