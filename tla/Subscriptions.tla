---------------------------- MODULE Subscriptions ----------------------------
(***************************************************************************)
(* The premium subscription of one user (payments/subscriptions.rs) and    *)
(* the job sync_expired_subscriptions.                                     *)
(*                                                                         *)
(* There is one document per user.  The handlers and the webhook events    *)
(* write it, and the user's isPremium, without a condition.  Events find   *)
(* the document by the customer, whichever subscription they are about.    *)
(*                                                                         *)
(* Stripe is external: a subscription changes by the calls of the handlers *)
(* and by itself, and every change is announced by an event.  Events come  *)
(* in any order; one whose handler failed comes again.                     *)
(***************************************************************************)
EXTENDS Naturals, FiniteSets

CONSTANTS
    Sub,        \* Stripe's ids
    Task,       \* requests and the job
    NoSub,
    MaxChanges, \* bound: changes of subscriptions at Stripe
    MaxLost,    \* bound: events that are lost
    MaxFaults   \* bound: failed statements, dropped requests

VARIABLES
    stripe,     \* Stripe: status of a subscription
    atEnd,      \* Stripe: cancel_at_period_end
    version,    \* Stripe: number of changes so far
    session,    \* Stripe: is a Checkout page open? (bound: one at a time)
    events,     \* events not handled yet
    doc,        \* [sub, status, subscriptionStatus]
    premium,    \* isPremium of the user
    req,        \* what each task is doing
    docVer, premVer, \* history: Stripe's version behind the last write of the fields
    disturbed,  \* history: the fields were written out of order (see Write)
    excused,    \* history: subscriptions the document may stop to name (see Create*)
    lost, faults

fields == <<doc, premium, docVer, premVer, disturbed>>
remote == <<stripe, atEnd, version, session, events, lost>>
vars == <<remote, fields, req, excused, faults>>

Live == {"incomplete", "active", "past_due"}

Idle == [pc |-> "idle", sub |-> NoSub, status |-> "none", ver |-> 0, saw |-> NoSub]

Init ==
    /\ stripe = [s \in Sub |-> "none"] /\ atEnd = [s \in Sub |-> FALSE]
    /\ version = 0 /\ session = FALSE /\ events = {} /\ lost = 0
    /\ doc = [sub |-> NoSub, status |-> "none", subscriptionStatus |-> "none"]
    /\ premium = FALSE /\ docVer = 0 /\ premVer = 0 /\ disturbed = FALSE
    /\ req = [t \in Task |-> Idle] /\ excused = {} /\ faults = 0

----------------------------------------------------------------------------
At(t, label) == req[t].pc = label

Goto(t, label) == req' = [req EXCEPT ![t].pc = label]

End(t) == req' = [req EXCEPT ![t] = Idle]

(***************************************************************************)
(* Stripe: a change of subscription s and its event.                       *)
(***************************************************************************)
Change(type, s, status, end) ==
    /\ version < MaxChanges /\ version' = version + 1
    /\ stripe' = [stripe EXCEPT ![s] = status]
    /\ atEnd' = [atEnd EXCEPT ![s] = end]
    /\ events' = events \cup
           {[type |-> type, sub |-> s, status |-> status, ver |-> version + 1]}
    /\ UNCHANGED lost

\* The first payment, a failed renewal and a later payment, and the end.
Evolve(s) ==
    /\ \/ stripe[s] = "incomplete" /\ Change("updated", s, "active", atEnd[s])
       \/ stripe[s] = "active" /\ Change("updated", s, "past_due", atEnd[s])
       \/ stripe[s] = "past_due" /\ Change("updated", s, "active", atEnd[s])
       \/ stripe[s] = "past_due" /\ Change("deleted", s, "canceled", FALSE)
       \/ stripe[s] = "active" /\ atEnd[s] /\ Change("deleted", s, "canceled", FALSE)
    /\ UNCHANGED <<session, fields, req, excused, faults>>

\* The user pays on a Checkout page; no document is written for it.
Pay ==
    /\ session /\ session' = FALSE
    /\ \E s \in Sub :
           /\ stripe[s] = "none"
           /\ Change("created", s, "active", FALSE)
           /\ excused' = excused \cup {s}
    /\ UNCHANGED <<fields, req, faults>>

\* History: the versions behind the fields, or that something went wrong.
Note(dv, pv, wrong) ==
    /\ disturbed' = (disturbed \/ wrong)
    /\ docVer' = IF disturbed' THEN 0 ELSE dv
    /\ premVer' = IF disturbed' THEN 0 ELSE pv

Wrong == Note(0, 0, TRUE)

Lose(e) ==
    /\ lost < MaxLost /\ lost' = lost + 1
    /\ events' = events \ {e}
    /\ Wrong
    /\ UNCHANGED <<stripe, atEnd, version, session, doc, premium, req, excused, faults>>

\* A write of the document that knows Stripe's state of version ver: it is out
\* of order if a later state was written before, or of another subscription.
Write(s, status, ver) ==
    /\ doc' = [doc EXCEPT !.status = status, !.subscriptionStatus = status]
    /\ Note(ver, premVer, ver < docVer \/ s # doc.sub)
    /\ UNCHANGED premium

Ended == \A s \in Sub : stripe[s] \notin Live

\* The same for isPremium, which is one field for all subscriptions.
Flag(value, ver) ==
    /\ premium' = value
    /\ Note(docVer, ver, ver < premVer \/ ~(value \/ Ended))
    /\ UNCHANGED doc

----------------------------------------------------------------------------
\* MUTANT: both fields must say active.
HasActiveBoth == doc.status = "active" /\ doc.subscriptionStatus = "active"

\* status or subscriptionStatus is active.
HasActive == doc.status = "active" \/ doc.subscriptionStatus = "active"

\* create_subscription: what the check sees and does not count as active may be
\* replaced.
CreateCheck(t) ==
    /\ At(t, "idle") /\ ~HasActive
    /\ req' = [req EXCEPT ![t] = [Idle EXCEPT !.pc = "create", !.saw = doc.sub]]
    /\ excused' = IF "active" \in {doc.status, doc.subscriptionStatus}
                  THEN excused ELSE excused \cup ({doc.sub} \cap Sub)
    /\ UNCHANGED <<remote, fields, faults>>

\* POST /subscriptions, without an idempotency key.
CreateStripe(t) ==
    /\ At(t, "create")
    /\ \E s \in Sub, status \in {"incomplete", "active"} :
           /\ stripe[s] = "none"
           /\ Change("created", s, status, FALSE)
           /\ req' = [req EXCEPT ![t] = [@ EXCEPT !.pc = "store", !.sub = s, !.status = status,
                                                  !.ver = version + 1]]
    /\ UNCHANGED <<session, fields, excused, faults>>

\* Without a payment method the user is sent to a Checkout page.
CreateSession(t) ==
    /\ At(t, "create") /\ ~session
    /\ session' = TRUE
    /\ End(t)
    /\ UNCHANGED <<stripe, atEnd, version, events, lost, fields, excused, faults>>

\* The upsert, also over what another creation stored since the check.
CreateStore(t) ==
    LET r == req[t]
    IN  /\ At(t, "store")
        /\ doc' = [sub |-> r.sub, status |-> r.status, subscriptionStatus |-> r.status]
        /\ Note(r.ver, premVer, r.ver < docVer)
        /\ excused' = IF doc.sub = r.saw THEN excused ELSE excused \cup {doc.sub}
        /\ IF r.status = "active" THEN Goto(t, "flag") ELSE End(t)
        /\ UNCHANGED <<remote, premium, faults>>

CreateFlag(t) ==
    /\ At(t, "flag")
    /\ Flag(TRUE, req[t].ver)
    /\ End(t)
    /\ UNCHANGED <<remote, excused, faults>>

----------------------------------------------------------------------------
\* cancel_subscription and reactivate_subscription read the document.
CancelRead(t) ==
    /\ At(t, "idle") /\ doc.sub # NoSub /\ doc.status # "cancelled"
    /\ req' = [req EXCEPT ![t] = [Idle EXCEPT !.pc = "cancel", !.sub = doc.sub]]
    /\ UNCHANGED <<remote, fields, excused, faults>>

ReactivateRead(t) ==
    /\ At(t, "idle") /\ doc.sub # NoSub /\ doc.status \notin {"active", "expired"}
    /\ req' = [req EXCEPT ![t] = [Idle EXCEPT !.pc = "reactivate", !.sub = doc.sub]]
    /\ UNCHANGED <<remote, fields, excused, faults>>

\* cancel_at_period_end is set, or unset.
ChangeEnd(t) ==
    LET s == req[t].sub
    IN  /\ req[t].pc \in {"cancel", "reactivate"} /\ stripe[s] \in Live
        /\ Change("updated", s, stripe[s], At(t, "cancel")) /\ UNCHANGED session
        /\ req' = [req EXCEPT ![t] =
                      [@ EXCEPT !.pc = IF At(t, "cancel") THEN "pending" ELSE "active",
                                !.status = stripe[s], !.ver = version + 1]]
        /\ UNCHANGED <<fields, excused, faults>>

\* Stripe refuses: a payment method, or the change of what has ended.
Refused(t) ==
    /\ req[t].pc \in {"create", "cancel", "reactivate"}
    /\ End(t)
    /\ UNCHANGED <<remote, fields, excused, faults>>

CancelWrite(t) ==
    /\ At(t, "pending")
    /\ Write(req[t].sub, "cancel_pending", req[t].ver)
    /\ End(t)
    /\ UNCHANGED <<remote, excused, faults>>

\* The document says active, whatever Stripe said.
ReactivateWrite(t) ==
    /\ At(t, "active")
    /\ Write(req[t].sub, "active", IF req[t].status = "active" THEN req[t].ver ELSE 0)
    /\ Goto(t, "flag")
    /\ UNCHANGED <<remote, excused, faults>>

----------------------------------------------------------------------------
\* handle_subscription_created
HandleCreated(e) ==
    /\ e.type = "created"
    /\ Flag(TRUE, e.ver)
    /\ events' = events \ {e}
    /\ UNCHANGED <<stripe, atEnd, version, session, lost, req, excused, faults>>

\* MUTANT: an event updates isPremium only.
HandleUpdatedFlag(e) ==
    /\ e.type = "updated" /\ doc.status # "none"
    /\ Flag(TRUE, e.ver)
    /\ events' = events \ {e}
    /\ UNCHANGED <<stripe, atEnd, version, session, lost, req, excused, faults>>

\* handle_subscription_updated: fails, and comes again, without a document.
HandleUpdated(e) ==
    /\ e.type = "updated" /\ doc.status # "none"
    /\ Write(e.sub, e.status, e.ver)
    /\ events' = events \ {e}
    /\ UNCHANGED <<stripe, atEnd, version, session, lost, req, excused, faults>>

\* handle_subscription_deleted: first the user, then the document.
HandleDeleted(t, e) ==
    /\ e.type = "deleted" /\ At(t, "idle")
    /\ Flag(FALSE, e.ver)
    /\ events' = events \ {e}
    /\ req' = [req EXCEPT ![t] = [Idle EXCEPT !.pc = "deleted", !.sub = e.sub,
                                              !.status = e.status, !.ver = e.ver]]
    /\ UNCHANGED <<stripe, atEnd, version, session, lost, excused, faults>>

Again(t) == [type |-> "deleted", sub |-> req[t].sub, status |-> req[t].status,
             ver |-> req[t].ver]

DeletedWrite(t) ==
    /\ At(t, "deleted")
    /\ IF doc.status = "none"
       THEN events' = events \cup {Again(t)} /\ UNCHANGED fields
       ELSE Write(req[t].sub, "cancelled", req[t].ver) /\ UNCHANGED events
    /\ End(t)
    /\ UNCHANGED <<stripe, atEnd, version, session, lost, excused, faults>>

----------------------------------------------------------------------------
\* sync_expired_subscriptions: the comparison of currentPeriodEnd, a number of
\* seconds, with a date is one of texts, and holds for every subscription.
JobSelect(t) ==
    /\ At(t, "idle") /\ doc.status \in {"active", "past_due"}
    /\ req' = [req EXCEPT ![t] = [Idle EXCEPT !.pc = "expire"]]
    /\ UNCHANGED <<remote, fields, excused, faults>>

\* subscriptionStatus keeps its value.
JobExpire(t) ==
    /\ At(t, "expire")
    /\ doc' = [doc EXCEPT !.status = "expired"]
    /\ Note(docVer, premVer, ~Ended)
    /\ Goto(t, "clear")
    /\ UNCHANGED <<remote, premium, excused, faults>>

JobClear(t) ==
    /\ At(t, "clear")
    /\ premium' = FALSE
    /\ Note(docVer, premVer, ~Ended)
    /\ End(t)
    /\ UNCHANGED <<remote, doc, excused, faults>>

----------------------------------------------------------------------------
\* Writes whose error the code ignores.
Ignored == {"flag", "pending", "active", "expire", "clear"}

WriteFails(t) ==
    /\ faults < MaxFaults /\ faults' = faults + 1
    /\ req[t].pc \in Ignored
    /\ Wrong
    /\ CASE At(t, "active") -> Goto(t, "flag")
         [] At(t, "expire") -> Goto(t, "clear")
         [] OTHER -> End(t)
    /\ UNCHANGED <<remote, doc, premium, excused>>

\* A request is dropped or gets an error; an event that failed comes again,
\* one whose handler was dropped does not.
Drop(t) ==
    /\ faults < MaxFaults /\ faults' = faults + 1
    /\ ~At(t, "idle")
    /\ Wrong
    /\ excused' = IF At(t, "store") THEN excused \cup {req[t].sub} ELSE excused
    /\ events' \in {events} \cup
                   (IF At(t, "deleted") THEN {events \cup {Again(t)}} ELSE {})
    /\ End(t)
    /\ UNCHANGED <<stripe, atEnd, version, session, lost, doc, premium>>

Step(t) ==
    \/ CreateStripe(t) \/ CreateSession(t) \/ CreateStore(t) \/ CreateFlag(t)
    \/ ChangeEnd(t) \/ Refused(t) \/ CancelWrite(t) \/ ReactivateWrite(t)
    \/ DeletedWrite(t) \/ JobExpire(t) \/ JobClear(t)

Handle(e) == HandleCreated(e) \/ HandleUpdated(e) \/ \E t \in Task : HandleDeleted(t, e)

Next ==
    \/ Pay \/ \E s \in Sub : Evolve(s)
    \/ \E e \in events : Lose(e) \/ Handle(e)
    \/ \E t \in Task :
           \/ CreateCheck(t) \/ CancelRead(t) \/ ReactivateRead(t) \/ JobSelect(t)
           \/ Step(t) \/ WriteFails(t) \/ Drop(t)

\* The runtime polls every request, and the job runs again and again.
Fairness ==
    /\ \A t \in Task : WF_vars(Step(t))
    /\ SF_vars(\E t \in Task : JobSelect(t))

Spec == Init /\ [][Next]_vars /\ Fairness

----------------------------------------------------------------------------
DocStatus == {"none", "cancelled", "cancel_pending", "expired"} \cup Live

\* The variables have their types.
TypeOK ==
    /\ stripe \in [Sub -> {"none", "canceled"} \cup Live] /\ atEnd \in [Sub -> BOOLEAN]
    /\ version \in 0..MaxChanges /\ session \in BOOLEAN /\ lost \in 0..MaxLost /\ faults \in 0..MaxFaults
    /\ doc \in [sub : Sub \cup {NoSub}, status : DocStatus, subscriptionStatus : DocStatus]
    /\ premium \in BOOLEAN /\ disturbed \in BOOLEAN
    /\ \A e \in events : e.sub \in Sub /\ e.ver \in 1..version

\* What the document may say about a subscription in a state at Stripe.
Shown(status) ==
    IF status = "canceled" THEN {"cancelled", "expired"} ELSE {status, "cancel_pending"}

Quiet == events = {} /\ \A t \in Task : At(t, "idle")

(***************************************************************************)
(* When all is quiet the document and isPremium tell what Stripe's last    *)
(* state was, although handlers and events write them concurrently, as     *)
(* long as no write came out of order or for another subscription, the job *)
(* and the end of a subscription met no running one, and nothing was lost  *)
(* or failed.                                                              *)
(***************************************************************************)
DocumentFollows ==
    Quiet /\ ~disturbed /\ doc.sub # NoSub =>
        /\ doc.status \in Shown(stripe[doc.sub])
        /\ premium <=> \E s \in Sub : stripe[s] \in Live

(***************************************************************************)
(* A live subscription is the one the document names, so that the user can *)
(* cancel it.  Excepted are subscriptions a creation replaced because the  *)
(* document did not show them as active or because it did not see them     *)
(* yet, those whose creation was not finished, and those bought on a       *)
(* Checkout page.                                                          *)
(***************************************************************************)
BilledIsNamed ==
    \A s \in Sub :
        \/ stripe[s] \notin Live \/ s \in excused \/ doc.sub = s
        \/ \E t \in Task : At(t, "store") /\ req[t].sub = s

(***************************************************************************)
(* The end of a subscription of which the application heard nothing, so    *)
(* that the document still shows it, takes away isPremium in the end:      *)
(* sync_expired_subscriptions is there for that.  The user may have        *)
(* subscribed again before.                                                *)
(***************************************************************************)
MissedEndIsRepaired ==
    \A s \in Sub :
        (/\ Quiet /\ doc.sub = s /\ stripe[s] = "canceled"
         /\ doc.status \in {"active", "past_due"})
            ~> (~premium \/ doc.sub # s)

============================================================================
