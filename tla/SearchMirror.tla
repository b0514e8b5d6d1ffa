---------------------------- MODULE SearchMirror ----------------------------
(***************************************************************************)
(* From a GraphQL mutation of a product to the search index                *)
(* (ob-graphql/src/resolvers.rs, the bridge in orignabase/src/main.rs,     *)
(* ob-search/src/sync.rs, ob-handlers/src/native_triggers.rs and           *)
(* products/triggers.rs).                                                  *)
(*                                                                         *)
(* A mutation writes the document and then sends a ChangeEvent into a      *)
(* bounded channel.  The bridge hands every event to the native trigger    *)
(* executor and then to the search syncer, and both write the same index   *)
(* without knowing of each other.  The channels live in memory.  The event *)
(* a task has in hand stays the head of its channel here, so QueueSize     *)
(* counts it too.  The other consumers of the bridge do not write the      *)
(* index and drain their channels.                                         *)
(*                                                                         *)
(* A document is its lifecycle and the number of the write that made it.   *)
(***************************************************************************)
EXTENDS Integers, Sequences, FiniteSets

CONSTANTS
    Product, Mutation,
    QueueSize,      \* capacity of each channel
    MaxAttempts,    \* max_attempts of the syncer
    MaxRequests,    \* bound: mutations
    MaxFaults       \* bound: dropped requests, failed calls and restarts

VARIABLES
    doc,        \* the products table
    index,      \* what Meilisearch holds
    writes,     \* number of the last write
    req,        \* mutations in progress
    changes, natives, searches,     \* the channels
    bridged,    \* has the head of `changes` been handed to the executor?
    attempts,   \* of the syncer for the head of `searches`
    sent,       \* history: the newest write of a product that was announced
    muddled,    \* history: products with an event lost, sent late or mislabelled
    failed,     \* history: <<product, writer>> whose last call did not succeed
    requests, faults

vars == <<doc, index, writes, req, changes, natives, searches, bridged, attempts, sent,
          muddled, failed, requests, faults>>

Status == {"none", "draft", "active"}

None == [st |-> "none", v |-> 0]

Announcement(act, p, d) == [act |-> act, p |-> p, doc |-> d]

\* The products a mutation has yet to write, and the events it has yet to send.
Idle == [pc |-> "idle", st |-> "none", todo |-> <<>>, out |-> <<>>]

\* A product is absent, or in the table and in the index.
Init ==
    /\ doc \in [Product -> {None, [st |-> "active", v |-> 0]}] /\ index = doc
    /\ sent = [p \in Product |-> 0]
    /\ req = [t \in Mutation |-> Idle]
    /\ changes = <<>> /\ natives = <<>> /\ searches = <<>> /\ bridged = FALSE
    /\ muddled = {} /\ failed = {}
    /\ writes = 0 /\ attempts = 0 /\ requests = 0 /\ faults = 0

channelVars == <<changes, natives, searches, bridged, attempts>>

----------------------------------------------------------------------------
(* Mutations. *)

\* The arguments of a mutation: one product, or a batch of two.
Batches == {<<p>> : p \in Product} \cup
           {s \in Product \X Product : s[1] # s[2]}

Begin(t, label, st, todo) ==
    /\ req[t] = Idle /\ requests < MaxRequests
    /\ requests' = requests + 1
    /\ req' = [req EXCEPT ![t] = [Idle EXCEPT !.pc = label, !.st = st, !.todo = todo]]
    /\ UNCHANGED <<doc, index, writes, channelVars, sent, muddled, failed, faults>>

\* create and batch_create: rules only.
Create(t, ps, st) == Begin(t, "insert", st, ps)

\* delete and batch_delete read every document for the rules first.  One step: a
\* document that goes between two reads makes the deletion fail either way.
Delete(t, ps) ==
    /\ \A i \in DOMAIN ps : doc[ps[i]].st # "none"
    /\ Begin(t, "remove", "none", ps)

\* update, update_with_field_values and each entry of batch_update.
Update(t, ps, st) == Begin(t, "read", st, ps)

\* set: the document is read, and its absence is no error.
Set(t, p, st) == Begin(t, IF doc[p].st = "none" THEN "set new" ELSE "set old", st, <<p>>)

\* The mutation ends: products it wrote and did not announce are muddled.
Abandon(t) ==
    /\ req' = [req EXCEPT ![t] = Idle]
    /\ muddled' = muddled \cup {req[t].out[i].p : i \in DOMAIN req[t].out}

\* A write of the next product of t's list, which the mutation announces as `act`.
Write(t, act, st, label) ==
    LET p == Head(req[t].todo)
        d == [st |-> st, v |-> writes + 1]
    IN  /\ writes' = writes + 1
        /\ doc' = [doc EXCEPT ![p] = d]
        /\ req' = [req EXCEPT ![t].todo = Tail(@), ![t].out = Append(@, Announcement(act, p, d)),
                              ![t].pc = label]
        /\ muddled' = IF act = "create" /\ doc[p].st # "none" THEN muddled \cup {p}
                                                             ELSE muddled
        /\ UNCHANGED <<index, channelVars, sent, failed, requests, faults>>

\* Events of a batch are sent when its last document is written.
Rest(t, label) == IF Len(req[t].todo) = 1 THEN "send" ELSE label

\* The mutation returns an error.
Return(t) == Abandon(t) /\ UNCHANGED <<doc, index, writes, channelVars, sent, failed,
                                       requests, faults>>

\* create_document: ON CONFLICT DO NOTHING, an error if the id exists.
Insert(t) ==
    /\ req[t].pc = "insert"
    /\ IF doc[Head(req[t].todo)].st = "none"
       THEN Write(t, "create", req[t].st, Rest(t, "insert"))
       ELSE Return(t)

\* delete_document: an error if the row is gone.
Remove(t) ==
    /\ req[t].pc = "remove"
    /\ IF doc[Head(req[t].todo)].st # "none"
       THEN Write(t, "delete", "none", Rest(t, "remove"))
       ELSE Return(t)

\* get_document before the update, for the rules.
ReadOld(t) ==
    /\ req[t].pc = "read"
    /\ IF doc[Head(req[t].todo)].st # "none"
       THEN /\ req' = [req EXCEPT ![t].pc = "update"]
            /\ UNCHANGED <<doc, index, writes, channelVars, sent, muddled, failed,
                           requests, faults>>
       ELSE Return(t)

\* update_document: an error if the row is gone.
Merge(t) ==
    /\ req[t].pc = "update"
    /\ IF doc[Head(req[t].todo)].st # "none"
       THEN Write(t, "update", req[t].st, "send")
       ELSE Return(t)

\* upsert_document; the action sent is that of the read before it, so a document made
\* since then is announced as new a second time.
Upsert(t) ==
    \/ req[t].pc = "set new" /\ Write(t, "create", req[t].st, "send")
    \/ req[t].pc = "set old" /\ Write(t, "update", req[t].st, "send")

\* tx.send waits for room.  After its last event a batch update reads the next
\* document, every other mutation returns.
Send(t) ==
    LET e == Head(req[t].out)
        more == Tail(req[t].out)
    IN  /\ req[t].pc = "send" /\ Len(changes) < QueueSize
        /\ changes' = Append(changes, e)
        /\ sent' = [sent EXCEPT ![e.p] = IF e.doc.v > @ THEN e.doc.v ELSE @]
        /\ muddled' = IF e.doc.v < sent[e.p] THEN muddled \cup {e.p} ELSE muddled
        /\ req' = [req EXCEPT ![t] = CASE more # <<>> -> [@ EXCEPT !.out = more]
                                       [] more = <<>> /\ @.todo # <<>> ->
                                            [@ EXCEPT !.out = <<>>, !.pc = "read"]
                                       [] OTHER -> Idle]
        /\ UNCHANGED <<doc, index, writes, natives, searches, bridged, attempts, failed,
                       requests, faults>>

\* A statement fails, or the request is dropped at an await.
Drop(t) ==
    /\ req[t] # Idle /\ faults < MaxFaults
    /\ faults' = faults + 1
    /\ Abandon(t)
    /\ UNCHANGED <<doc, index, writes, channelVars, sent, failed, requests>>

----------------------------------------------------------------------------
(* The bridge. *)

\* native_trigger_tx.send waits for room.
ToExecutor ==
    /\ changes # <<>> /\ ~bridged /\ Len(natives) < QueueSize
    /\ natives' = Append(natives, Head(changes))
    /\ bridged' = TRUE
    /\ UNCHANGED <<doc, index, writes, req, changes, searches, attempts, sent, muddled,
                   failed, requests, faults>>

\* MUTANT: every action becomes an upsert of the event's data.
UpsertsOnly(e) ==
    [act |-> "upsert", p |-> e.p,
     doc |-> IF e.act = "delete" THEN [e.doc EXCEPT !.st = "active"] ELSE e.doc]

\* SearchSyncEvent of a ChangeEvent.
SyncEvent(e) == [act |-> IF e.act = "delete" THEN "delete" ELSE "upsert",
                 p |-> e.p, doc |-> e.doc]

\* search_sync_tx.send waits for room; the bridge receives the next event after it.
ToSyncer ==
    /\ bridged /\ Len(searches) < QueueSize
    /\ searches' = Append(searches, SyncEvent(Head(changes)))
    /\ changes' = Tail(changes) /\ bridged' = FALSE
    /\ UNCHANGED <<doc, index, writes, req, natives, attempts, sent, muddled, failed,
                   requests, faults>>

----------------------------------------------------------------------------
(* Calls of Meilisearch.  A failed call may have taken effect. *)

Call(p, d, who) ==
    /\ index' = [index EXCEPT ![p] = d]
    /\ failed' = failed \ {<<p, who>>}
    /\ UNCHANGED faults

CallFails(p, d, who) ==
    /\ faults < MaxFaults /\ faults' = faults + 1
    /\ \/ UNCHANGED index
       \/ index' = [index EXCEPT ![p] = d]
    /\ failed' = failed \cup {<<p, who>>}

(* The syncer. *)

NextSearch == searches' = Tail(searches) /\ attempts' = 0

syncerRest == <<doc, writes, req, changes, natives, bridged, sent, muddled, requests>>

\* upsert_documents succeeded.
SyncUpsert ==
    /\ searches # <<>>
    /\ LET e == Head(searches)
       IN  e.act = "upsert" /\ Call(e.p, e.doc, "syncer")
    /\ NextSearch /\ UNCHANGED syncerRest

\* upsert_documents failed: again, or dropped after max_attempts.
SyncRetry ==
    /\ searches # <<>>
    /\ LET e == Head(searches)
       IN  e.act = "upsert" /\ CallFails(e.p, e.doc, "syncer")
    /\ IF attempts + 1 < MaxAttempts
       THEN attempts' = attempts + 1 /\ UNCHANGED searches
       ELSE NextSearch
    /\ UNCHANGED syncerRest

\* delete_document, tried once.
SyncDelete ==
    /\ searches # <<>>
    /\ LET e == Head(searches)
       IN  /\ e.act = "delete"
           /\ \/ Call(e.p, None, "syncer")
              \/ CallFails(e.p, None, "syncer")
    /\ NextSearch /\ UNCHANGED syncerRest

(* The native trigger executor: every call is tried once. *)

NextNative == natives' = Tail(natives)

executorRest == <<req, changes, searches, bridged, attempts, sent, muddled, requests>>

Try(p, d) == Call(p, d, "executor") \/ CallFails(p, d, "executor")

\* on_product_created, the data being valid: an inactive product is not indexed.
ProductCreated ==
    /\ natives # <<>>
    /\ LET e == Head(natives)
       IN  /\ e.act = "create"
           /\ IF e.doc.st = "active" THEN Try(e.p, e.doc)
                                     ELSE UNCHANGED <<index, failed, faults>>
    /\ NextNative /\ UNCHANGED <<doc, writes, executorRest>>

\* on_product_created, with a suspended seller or invalid data: the product becomes
\* a draft, if it still exists and the statement succeeds, and nothing announces that.
ProductRefused ==
    /\ natives # <<>>
    /\ LET p == Head(natives).p
       IN  /\ Head(natives).act = "create"
           /\ \/ doc[p].st = "none" /\ UNCHANGED <<doc, writes, failed, faults>>
              \/ /\ doc[p].st # "none"
                 /\ doc' = [doc EXCEPT ![p] = [st |-> "draft", v |-> writes + 1]]
                 /\ writes' = writes + 1
                 /\ UNCHANGED <<failed, faults>>
              \/ /\ faults < MaxFaults /\ faults' = faults + 1
                 /\ failed' = failed \cup {<<p, "executor">>}
                 /\ UNCHANGED <<doc, writes>>
    /\ NextNative /\ UNCHANGED <<index, executorRest>>

\* MUTANT: a product that is no longer active stays in the index.
ProductUpdatedKeeps ==
    /\ natives # <<>>
    /\ LET e == Head(natives)
       IN  /\ e.act = "update"
           /\ IF e.doc.st = "active" THEN Try(e.p, e.doc)
                                     ELSE UNCHANGED <<index, failed, faults>>
    /\ NextNative /\ UNCHANGED <<doc, writes, executorRest>>

\* on_product_updated: an active product is indexed, any other one removed.
ProductUpdated ==
    /\ natives # <<>>
    /\ LET e == Head(natives)
       IN  /\ e.act = "update"
           /\ Try(e.p, IF e.doc.st = "active" THEN e.doc ELSE None)
    /\ NextNative /\ UNCHANGED <<doc, writes, executorRest>>

\* on_product_deleted
ProductDeleted ==
    /\ natives # <<>>
    /\ LET e == Head(natives)
       IN  e.act = "delete" /\ Try(e.p, None)
    /\ NextNative /\ UNCHANGED <<doc, writes, executorRest>>

----------------------------------------------------------------------------
\* Products with an event that is not yet in the index.
InFlight ==
    LET of(q) == {q[i].p : i \in DOMAIN q}
    IN  of(changes) \cup of(natives) \cup of(searches) \cup
        UNION {of(req[t].out) : t \in Mutation}

\* The process ends and starts again: what was in memory is gone.
Restart ==
    /\ faults < MaxFaults /\ faults' = faults + 1
    /\ InFlight # {}
    /\ muddled' = muddled \cup InFlight
    /\ req' = [t \in Mutation |-> Idle]
    /\ changes' = <<>> /\ natives' = <<>> /\ searches' = <<>>
    /\ bridged' = FALSE /\ attempts' = 0
    /\ UNCHANGED <<doc, index, writes, sent, failed, requests>>

\* A handler of products/crud.rs makes, changes or deactivates a product: no event.
QuietWrite(p, st) ==
    /\ requests < MaxRequests
    /\ requests' = requests + 1
    /\ writes' = writes + 1
    /\ doc' = [doc EXCEPT ![p] = [st |-> st, v |-> writes + 1]]
    /\ UNCHANGED <<index, req, channelVars, sent, muddled, failed, faults>>

Step(t) == Insert(t) \/ Remove(t) \/ ReadOld(t) \/ Merge(t) \/ Upsert(t) \/ Send(t)

Bridge == ToExecutor \/ ToSyncer

Syncer == SyncUpsert \/ SyncRetry \/ SyncDelete

Executor == ProductCreated \/ ProductRefused \/ ProductUpdated \/ ProductDeleted

Next ==
    \/ \E t \in Mutation :
          \/ Step(t) \/ Drop(t)
          \/ \E ps \in Batches : Delete(t, ps)
          \/ \E ps \in Batches, st \in {"draft", "active"} :
                Create(t, ps, st) \/ Update(t, ps, st)
          \/ \E p \in Product, st \in {"draft", "active"} : Set(t, p, st)
    \/ Bridge \/ Syncer \/ Executor \/ Restart
    \/ \E p \in Product, st \in {"draft", "active"} : QuietWrite(p, st)

Spec == Init /\ [][Next]_vars

----------------------------------------------------------------------------
Doc == [st : Status, v : Nat]

Changes(acts) == Seq([act : acts, p : Product, doc : Doc])

\* The variables have their types, and no channel holds more than its capacity.
TypeOK ==
    /\ doc \in [Product -> Doc] /\ index \in [Product -> Doc]
    /\ sent \in [Product -> Nat]
    /\ \A t \in Mutation : req[t].out \in Changes({"create", "update", "delete"})
    /\ changes \in Changes({"create", "update", "delete"})
    /\ natives \in Changes({"create", "update", "delete"})
    /\ searches \in Changes({"upsert", "delete"})
    /\ \A q \in {changes, natives, searches} : Len(q) <= QueueSize
    /\ bridged => changes # <<>>
    /\ attempts \in 0..(MaxAttempts - 1)
    /\ muddled \subseteq Product
    /\ failed \subseteq Product \X {"syncer", "executor"}
    /\ {writes, requests, faults} \subseteq Nat

\* Searches show an active product as it is, and no other product as active.
Mirrored(p) ==
    IF doc[p].st = "active" THEN index[p] = doc[p] ELSE index[p].st # "active"

\* Why the index may differ from the table for good: an event was lost, overtaken or
\* announced as a creation by mistake, the last write was not announced at all, or a
\* writer's last call failed.
Excused(p) ==
    \/ p \in muddled
    \/ sent[p] # doc[p].v
    \/ \E w \in {"syncer", "executor"} : <<p, w>> \in failed

\* Once every event of a product has been handled, whichever of the two writers came
\* last and however far one lagged behind the other, searches show the product as the
\* table does, unless the difference is excused.
IndexMirrors == \A p \in Product : p \in InFlight \/ Excused(p) \/ Mirrored(p)

\* Back-pressure of the three channels never stops the pipeline: again and again the
\* index shows every product as the table does, or the difference is excused.
IndexCatchesUp == \A p \in Product : []<>(Excused(p) \/ Mirrored(p))
==============================================================================
