--------------------------- MODULE WebhookDelivery ---------------------------
(***************************************************************************)
(* The delivery protocol around the Stripe webhook handlers: the dedup     *)
(* record that handle_stripe_webhook inserts before it dispatches an event *)
(* and deletes when the handler fails (payments/webhooks.rs), and the cron *)
(* job that purges those records (cron/mod.rs).                            *)
(*                                                                         *)
(* What a handler does to an order is the subject of CheckoutOrder and     *)
(* PaidOrder; here a handler either takes effect or fails.  Stripe is      *)
(* external: it sends an event until a 2xx answer arrives, and it may send *)
(* it again before the answer (its own timeout) or after one.              *)
(***************************************************************************)
EXTENDS Integers, FiniteSets

CONSTANTS
    Event,        \* Stripe event ids
    Worker,       \* request tasks of the server
    MaxFailures,  \* bound: times the handler of one event returns Err
    MaxFaults,    \* bound: lost answers, overlapping deliveries, dropped
                  \*        requests and database errors
    MaxCleanups   \* bound: runs of cleanup_stale_webhook_events

NoEvent == "no_event"

VARIABLES
    recorded,  \* ids of the rows of webhook_events
    doomed,    \* ids the cleanup selected and has not deleted yet
    pc,        \* where each request task is in handle_stripe_webhook
    ev,        \* the event of each request task
    acked,     \* events Stripe has a 2xx answer for
    old,       \* events past the retention period, no longer sent
    applied,   \* history: handler runs that returned Ok, per event
    failures,  \* history: handler runs that returned Err, per event
    purged,    \* history: events whose record the cleanup deleted
    faults,    \* history: faults so far
    cleanups   \* history: cleanup runs so far

table == <<recorded, doomed>>
tasks == <<pc, ev>>
stripe == <<acked, old>>
history == <<applied, failures, purged, faults, cleanups>>
vars == <<table, tasks, stripe, history>>

\* A task that inserted the record and has not answered yet.
Running == {"handle", "undo"}

Runs(w, e) == pc[w] \in Running /\ ev[w] = e

\* Some delivery of e is still unanswered.
InFlight(e) == \E w \in Worker : pc[w] # "idle" /\ ev[w] = e

TypeOK ==
    /\ recorded \subseteq Event
    /\ doomed \subseteq Event
    /\ pc \in [Worker -> {"idle", "store"} \cup Running]
    /\ ev \in [Worker -> Event \cup {NoEvent}]
    /\ \A w \in Worker : pc[w] # "idle" => ev[w] \in Event
    /\ acked \subseteq Event
    /\ old \subseteq Event
    /\ applied \in [Event -> Nat]
    /\ failures \in [Event -> Nat]
    /\ purged \subseteq Event
    /\ faults \in Nat
    /\ cleanups \in Nat

Init ==
    /\ recorded = {}
    /\ doomed = {}
    /\ pc = [w \in Worker |-> "idle"]
    /\ ev = [w \in Worker |-> NoEvent]
    /\ acked = {}
    /\ old = {}
    /\ applied = [e \in Event |-> 0]
    /\ failures = [e \in Event |-> 0]
    /\ purged = {}
    /\ faults = 0
    /\ cleanups = 0

Fault ==
    /\ faults < MaxFaults
    /\ faults' = faults + 1

\* The task answers and ends; whether Stripe gets the answer is up to acked'.
Finish(w) ==
    /\ pc' = [pc EXCEPT ![w] = "idle"]
    /\ ev' = [ev EXCEPT ![w] = NoEvent]

-----------------------------------------------------------------------------
(* Stripe. *)

Accept(w, e) ==
    /\ pc[w] = "idle"
    /\ e \notin old
    /\ pc' = [pc EXCEPT ![w] = "store"]
    /\ ev' = [ev EXCEPT ![w] = e]
    /\ UNCHANGED <<table, stripe, applied, failures, purged, cleanups>>

\* A first delivery, or a retry after an answer other than 2xx.  The signature
\* and the body are valid: a request that fails there changes nothing.
Deliver(w, e) ==
    /\ e \notin acked
    /\ ~InFlight(e)
    /\ Accept(w, e)
    /\ UNCHANGED faults

\* Stripe gave up waiting for the answer, or repeats an event it has already
\* been answered for.
Redeliver(w, e) ==
    /\ e \in acked \/ InFlight(e)
    /\ Accept(w, e)
    /\ Fault

\* Seven days after the event was answered; Stripe retries for less than that.
Age(e) ==
    /\ e \in acked
    /\ ~InFlight(e)
    /\ old' = old \cup {e}
    /\ UNCHANGED <<table, tasks, acked, history>>

-----------------------------------------------------------------------------
(* handle_stripe_webhook. *)

\* MUTANT: look the record up, insert it in a later statement.
StoreLooksUpFirst(w) ==
    /\ pc[w] = "store"
    /\ pc' = [pc EXCEPT ![w] = "handle"]
    /\ recorded' = recorded \cup {ev[w]}
    /\ UNCHANGED <<ev, doomed, stripe, history>>

\* try_store_webhook_event_atomic: INSERT ... ON CONFLICT DO NOTHING.  A
\* conflict is a duplicate, which is answered 200 at once.
Store(w) ==
    /\ pc[w] = "store"
    /\ IF ev[w] \in recorded
       THEN /\ acked' = acked \cup {ev[w]}
            /\ Finish(w)
            /\ UNCHANGED recorded
       ELSE /\ recorded' = recorded \cup {ev[w]}
            /\ pc' = [pc EXCEPT ![w] = "handle"]
            /\ UNCHANGED <<acked, ev>>
    /\ UNCHANGED <<doomed, old, history>>

\* Any other error of the insert is returned: 500, nothing stored.
StoreError(w) ==
    /\ pc[w] = "store"
    /\ Fault
    /\ Finish(w)
    /\ UNCHANGED <<table, stripe, applied, failures, purged, cleanups>>

\* The handler returned Ok and the task answers 200 ...
HandleOk(w) ==
    /\ pc[w] = "handle"
    /\ applied' = [applied EXCEPT ![ev[w]] = applied[ev[w]] + 1]
    /\ acked' = acked \cup {ev[w]}
    /\ Finish(w)
    /\ UNCHANGED <<table, old, failures, purged, faults, cleanups>>

\* ... which may not reach Stripe.
HandleOkUnheard(w) ==
    /\ pc[w] = "handle"
    /\ Fault
    /\ applied' = [applied EXCEPT ![ev[w]] = applied[ev[w]] + 1]
    /\ Finish(w)
    /\ UNCHANGED <<table, stripe, failures, purged, cleanups>>

HandleErr(w) ==
    /\ pc[w] = "handle"
    /\ failures[ev[w]] < MaxFailures
    /\ failures' = [failures EXCEPT ![ev[w]] = failures[ev[w]] + 1]
    /\ pc' = [pc EXCEPT ![w] = "undo"]
    /\ UNCHANGED <<ev, table, stripe, applied, purged, faults, cleanups>>

\* MUTANT: the failed handler's record is kept.
UndoKeepsRecord(w) ==
    /\ pc[w] = "undo"
    /\ Finish(w)
    /\ UNCHANGED <<table, stripe, history>>

\* The Err arm: delete the record, answer 500.
Undo(w) ==
    /\ pc[w] = "undo"
    /\ recorded' = recorded \ {ev[w]}
    /\ Finish(w)
    /\ UNCHANGED <<doomed, stripe, history>>

\* The result of the delete is discarded: 500 all the same.
UndoError(w) ==
    /\ pc[w] = "undo"
    /\ Fault
    /\ Finish(w)
    /\ UNCHANGED <<table, stripe, applied, failures, purged, cleanups>>

\* The process stops, or the connection closes and the request's future is
\* dropped at the await it is suspended in.
Drop(w) ==
    /\ pc[w] # "idle"
    /\ Fault
    /\ Finish(w)
    /\ UNCHANGED <<table, stripe, applied, failures, purged, cleanups>>

-----------------------------------------------------------------------------
(* cleanup_stale_webhook_events. *)

\* data->>'timestamp' <= $cutoff compares texts: the timestamp is a number of
\* seconds (ten digits, the first a 1), the cutoff an RFC 3339 date (of a year
\* that begins with a 2).  Every row qualifies, whatever its age.
Purgeable == recorded

CleanupSelect ==
    /\ cleanups < MaxCleanups
    /\ cleanups' = cleanups + 1
    /\ doomed' = doomed \cup Purgeable
    /\ UNCHANGED <<recorded, tasks, stripe, applied, failures, purged, faults>>

CleanupDelete(e) ==
    /\ e \in doomed
    /\ doomed' = doomed \ {e}
    /\ recorded' = recorded \ {e}
    /\ purged' = purged \cup {e}
    /\ UNCHANGED <<tasks, stripe, applied, failures, faults, cleanups>>

-----------------------------------------------------------------------------
Task(w) ==
    \/ Store(w)
    \/ HandleOk(w)
    \/ HandleErr(w)
    \/ Undo(w)

Next ==
    \/ \E w \in Worker, e \in Event : Deliver(w, e) \/ Redeliver(w, e)
    \/ \E w \in Worker :
        \/ Task(w)
        \/ StoreError(w)
        \/ HandleOkUnheard(w)
        \/ UndoError(w)
        \/ Drop(w)
    \/ CleanupSelect
    \/ \E e \in Event : CleanupDelete(e) \/ Age(e)

Spec == Init /\ [][Next]_vars

-----------------------------------------------------------------------------
(* Properties. *)

\* While its record is not purged, an event is in the hands of at most one
\* handler, however deliveries overlap: the insert of
\* try_store_webhook_event_atomic admits one task, and the delete in the Err
\* arm comes after that task's handler has returned.
OneHandler ==
    \A e \in Event \ purged : \A v, w \in Worker :
        Runs(v, e) /\ Runs(w, e) => v = w

\* While its record is not purged, an event takes effect at most once: not
\* again after a lost answer, and not in a second task while the first one
\* is about to succeed.
AppliedAtMostOnce ==
    \A e \in Event \ purged : applied[e] <= 1

\* The two together: while its record is not purged, an event is handled once.
HandledOnce == OneHandler /\ AppliedAtMostOnce

\* Unless a fault happens, every event takes effect in the end, also when its handler
\* fails first and whatever the cleanup deletes: the Err arm deletes the
\* record, so the retry is not taken for a duplicate.
EventuallyApplied ==
    \A e \in Event : <>(applied[e] > 0 \/ faults > 0)
=============================================================================
