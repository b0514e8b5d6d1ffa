------------------------------- MODULE Realtime -------------------------------
(***************************************************************************)
(* WebSocket connections, their subscriptions and the dispatcher           *)
(* (ob-realtime: websocket.rs handle_socket, registry.rs, dispatcher.rs).  *)
(*                                                                         *)
(* The maps are concurrent: each access is atomic and the accesses of      *)
(* different connections interleave.  One connection handles its messages  *)
(* one after the other.  Subscription ids are chosen by the clients and    *)
(* are keys of one map for all connections.                                *)
(*                                                                         *)
(* All subscriptions are for one collection.  The two channels of a        *)
(* connection and the bridge between them are one queue, which is full at  *)
(* QueueSize.  dependency_map is written and never read by the server, and *)
(* is left out.                                                            *)
(***************************************************************************)
EXTENDS Integers, Sequences, FiniteSets, Functions

CONSTANTS
    Conn,           \* connection ids; a fresh uuid for each connection
    Id,             \* subscription ids the clients choose
    UserOf,         \* the user of a connection's access token
    Audience,       \* per event: the users filter_by_ownership lets see it
    NoConn,
    MaxConns,       \* MAX_CONNECTIONS_PER_USER
    MaxSubs,        \* MAX_SUBS_PER_CONNECTION
    QueueSize       \* capacity of a connection's channel

User == Range(UserOf)
Event == DOMAIN Audience

VARIABLES
    count,      \* connection_counts; 0 where the map has no entry
    pc, arg,    \* place of a connection's handler, id it works on
    subs,       \* subscriptions: id -> connection that owns the sender
    tracked,    \* connections: ids to unsubscribe when a connection ends
    presence,   \* user -> connection that reported presence, or NoConn
    queue,      \* messages <<id, event>> on their way to a client
    bridge,     \* the bridge task of a connection runs
    event,      \* events dispatched so far
    sending,    \* the dispatcher's list: <<connection, message>>
    got,        \* history: messages a client received
    confirmed,  \* history: ids a client was told it is subscribed to
    due,        \* history: messages a client must get
    refused,    \* history: messages dropped for a client
    clashed,    \* history: ids that two connections used
    wiped       \* history: connections that are not counted, per user

vars == <<count, pc, arg, subs, tracked, presence, queue, bridge, event, sending, got,
          confirmed, due, refused, clashed, wiped>>

registry == <<subs, tracked, presence>>
delivery == <<queue, bridge, event, sending, got, due, refused>>

NoId == "none"

Init ==
    /\ count = [u \in User |-> 0] /\ wiped = [u \in User |-> 0]
    /\ pc = [c \in Conn |-> "new"] /\ arg = [c \in Conn |-> NoId]
    /\ subs = <<>> /\ tracked = [c \in Conn |-> {}] /\ clashed = {}
    /\ presence = [u \in User |-> NoConn]
    /\ queue = [c \in Conn |-> <<>>] /\ bridge = [c \in Conn |-> FALSE]
    /\ event = 0 /\ sending = {}
    /\ got = [c \in Conn |-> {}] /\ confirmed = [c \in Conn |-> {}]
    /\ due = [c \in Conn |-> {}] /\ refused = [c \in Conn |-> {}]

----------------------------------------------------------------------------
At(c, label) == pc[c] = label

Goto(c, label) == pc' = [pc EXCEPT ![c] = label]

\* Its connection is counted, or was when it began.
Live(c) == pc[c] \notin {"new", "wipe", "gone"}

Put(f, k, v) == [x \in DOMAIN f \cup {k} |-> IF x = k THEN v ELSE f[x]]

\* *current_conns >= MAX_CONNECTIONS_PER_USER
LimitReached(n) == n >= MaxConns

\* Test and increment happen under the guard of the entry.
Connect(c) ==
    LET u == UserOf[c]
    IN  /\ At(c, "new")
        /\ IF LimitReached(count[u])
           THEN Goto(c, "gone") /\ UNCHANGED <<count, bridge>>
           ELSE /\ count' = [count EXCEPT ![u] = @ + 1]
                /\ bridge' = [bridge EXCEPT ![c] = TRUE]
                /\ Goto(c, "open")
        /\ UNCHANGED <<arg, registry, queue, event, sending, got, due, refused,
                       confirmed, clashed, wiped>>

----------------------------------------------------------------------------
\* MUTANT: the client is told before the subscription is stored.
SubscribeEarly(c, id) ==
    /\ At(c, "open") /\ Cardinality(tracked[c]) < MaxSubs
    /\ tracked' = [tracked EXCEPT ![c] = @ \cup {id}]
    /\ confirmed' = [confirmed EXCEPT ![c] = @ \cup {id}]
    /\ arg' = [arg EXCEPT ![c] = id] /\ Goto(c, "store")
    /\ UNCHANGED <<count, subs, presence, delivery, clashed, wiped>>

(***************************************************************************)
(* Message Subscribe: the limit, then registry.subscribe, which notes the  *)
(* id for the connection and stores the subscription.  An id that was      *)
(* unsubscribed stays noted and counts for the limit.                      *)
(***************************************************************************)
Subscribe(c, id) ==
    /\ At(c, "open") /\ Cardinality(tracked[c]) < MaxSubs
    /\ tracked' = [tracked EXCEPT ![c] = @ \cup {id}]
    /\ arg' = [arg EXCEPT ![c] = id] /\ Goto(c, "store")
    /\ UNCHANGED <<count, subs, presence, delivery, confirmed, clashed, wiped>>

\* subscriptions.insert, over whatever had the id before.
SubscribeStore(c) ==
    /\ At(c, "store")
    /\ subs' = Put(subs, arg[c], c)
    /\ clashed' = clashed \cup {id \in DOMAIN subs : id = arg[c] /\ subs[id] # c}
    /\ Goto(c, "confirm")
    /\ UNCHANGED <<count, arg, tracked, presence, delivery, confirmed, wiped>>

\* The message Subscribed.
SubscribeConfirm(c) ==
    /\ At(c, "confirm")
    /\ confirmed' = [confirmed EXCEPT ![c] = @ \cup {arg[c]}]
    /\ arg' = [arg EXCEPT ![c] = NoId] /\ Goto(c, "open")
    /\ UNCHANGED <<count, registry, delivery, clashed, wiped>>

\* registry.unsubscribe: the id goes, whoever owns it.
Remove(c, id) ==
    /\ subs' = Restrict(subs, DOMAIN subs \ {id})
    /\ clashed' = clashed \cup {i \in DOMAIN subs : i = id /\ subs[i] # c}

\* Message Unsubscribe.
Unsubscribe(c, id) ==
    /\ At(c, "open")
    /\ Remove(c, id)
    /\ confirmed' = [confirmed EXCEPT ![c] = @ \ {id}]
    /\ UNCHANGED <<count, pc, arg, tracked, presence, delivery, wiped>>

\* Message Presence.
SetPresence(c) ==
    /\ At(c, "open")
    /\ presence' = [presence EXCEPT ![UserOf[c]] = c]
    /\ UNCHANGED <<count, pc, arg, subs, tracked, delivery, confirmed, clashed, wiped>>

----------------------------------------------------------------------------
\* The socket closes: remove_presence.
Close(c) ==
    /\ At(c, "open")
    /\ presence' = [u \in User |-> IF presence[u] = c THEN NoConn ELSE presence[u]]
    /\ Goto(c, "disconnect")
    /\ UNCHANGED <<count, arg, subs, tracked, delivery, confirmed, clashed, wiped>>

\* disconnect unsubscribes the ids noted for the connection, one by one.
Disconnect(c, id) ==
    /\ At(c, "disconnect") /\ id \in tracked[c]
    /\ Remove(c, id)
    /\ tracked' = [tracked EXCEPT ![c] = @ \ {id}]
    /\ UNCHANGED <<count, pc, arg, presence, delivery, confirmed, wiped>>

\* send_task.abort, and one connection less; an entry at 0 is to be removed.
\* The history of the client ends here.
Decrement(c) ==
    LET u == UserOf[c]
    IN  /\ At(c, "disconnect") /\ tracked[c] = {}
        /\ queue' = [queue EXCEPT ![c] = <<>>] /\ bridge' = [bridge EXCEPT ![c] = FALSE]
        /\ got' = [got EXCEPT ![c] = {}] /\ refused' = [refused EXCEPT ![c] = {}]
        /\ due' = [due EXCEPT ![c] = {}] /\ confirmed' = [confirmed EXCEPT ![c] = {}]
        /\ count' = [count EXCEPT ![u] = IF @ = 0 THEN 0 ELSE @ - 1]
        /\ Goto(c, IF count[u] = 1 THEN "wipe" ELSE "gone")
        /\ UNCHANGED <<arg, registry, event, sending, clashed, wiped>>

\* The guard was dropped before: the entry goes with what was counted since.
Wipe(c) ==
    LET u == UserOf[c]
    IN  /\ At(c, "wipe")
        /\ wiped' = [wiped EXCEPT ![u] = @ + count[u]]
        /\ count' = [count EXCEPT ![u] = 0]
        /\ Goto(c, "gone")
        /\ UNCHANGED <<arg, registry, delivery, confirmed, clashed>>

----------------------------------------------------------------------------
\* The dispatcher takes an event and lists the subscribers that may see it.
Dispatch ==
    LET e == event + 1
        sees(c) == UserOf[c] \in Audience[e]
    IN  /\ sending = {} /\ e \in Event
        /\ event' = e
        /\ sending' = {<<subs[id], <<id, e>>>> :
                           id \in {i \in DOMAIN subs : sees(subs[i])}}
        /\ due' = [c \in Conn |-> due[c] \cup
                      {<<id, e>> : id \in {i \in confirmed[c] \ clashed : sees(c)}}]
        /\ UNCHANGED <<count, pc, arg, registry, queue, bridge, got, refused,
                       confirmed, clashed, wiped>>

\* try_send: refused when the channel is full or closed.
TrySend(c, m) ==
    /\ <<c, m>> \in sending
    /\ sending' = sending \ {<<c, m>>}
    /\ IF bridge[c] /\ Len(queue[c]) < QueueSize
       THEN queue' = [queue EXCEPT ![c] = Append(@, m)] /\ UNCHANGED refused
       ELSE refused' = [refused EXCEPT ![c] = @ \cup ({m} \cap due[c])] /\ UNCHANGED queue
    /\ UNCHANGED <<count, pc, arg, registry, bridge, event, got, due, confirmed,
                   clashed, wiped>>

\* The send task writes a message to the socket.
Deliver(c) ==
    /\ queue[c] # <<>>
    /\ got' = [got EXCEPT ![c] = @ \cup ({Head(queue[c])} \cap due[c])]
    /\ queue' = [queue EXCEPT ![c] = Tail(@)]
    /\ UNCHANGED <<count, pc, arg, registry, bridge, event, sending, due, refused,
                   confirmed, clashed, wiped>>

\* The bridge cannot pass a message on for 5 s and stops.  What is in its own
\* channel is lost.  The connection and its subscriptions stay.
BridgeStops(c) ==
    /\ bridge[c] /\ Len(queue[c]) = QueueSize
    /\ bridge' = [bridge EXCEPT ![c] = FALSE]
    /\ \E n \in 0..QueueSize - 1 : queue' = [queue EXCEPT ![c] = SubSeq(@, 1, n)]
    /\ refused' = [refused EXCEPT ![c] = @ \cup
                      (due[c] \cap (Range(queue[c]) \ Range(queue'[c])))]
    /\ UNCHANGED <<count, pc, arg, registry, event, sending, got, due, confirmed,
                   clashed, wiped>>

Client(c) ==
    \/ Connect(c) \/ SetPresence(c) \/ Close(c)
    \/ \E id \in Id : Subscribe(c, id) \/ Unsubscribe(c, id)

Server(c) ==
    \/ SubscribeStore(c) \/ SubscribeConfirm(c)
    \/ \E id \in Id : Disconnect(c, id)
    \/ Decrement(c) \/ Wipe(c)
    \/ \E m \in Id \X Event : TrySend(c, m)
    \/ Deliver(c) \/ BridgeStops(c)

Next == Dispatch \/ \E c \in Conn : Client(c) \/ Server(c)

Spec == Init /\ [][Next]_vars

----------------------------------------------------------------------------
Label == {"new", "open", "store", "confirm", "disconnect", "wipe", "gone"}

\* The variables have their types; a connection notes at most MaxSubs ids.
TypeOK ==
    /\ count \in [User -> Nat] /\ wiped \in [User -> Nat]
    /\ pc \in [Conn -> Label] /\ arg \in [Conn -> Id \cup {NoId}]
    /\ DOMAIN subs \subseteq Id /\ Range(subs) \subseteq Conn
    /\ tracked \in [Conn -> {ids \in SUBSET Id : Cardinality(ids) <= MaxSubs}]
    /\ presence \in [User -> Conn \cup {NoConn}]
    /\ \A c \in Conn : Len(queue[c]) <= QueueSize
    /\ bridge \in [Conn -> BOOLEAN] /\ event \in 0..Cardinality(Event)

(***************************************************************************)
(* MAX_CONNECTIONS_PER_USER bounds the open connections of a user, except  *)
(* for those whose count was lost because the removal of the entry at the  *)
(* end of handle_socket is not under the guard that found it at 0.         *)
(***************************************************************************)
ConnectionsBounded ==
    \A u \in User :
        Cardinality({c \in Conn : UserOf[c] = u /\ Live(c)}) <= MaxConns + wiped[u]

\* After its cleanup a connection is nowhere: no subscription sends to it and
\* no presence names it, whatever other connections did with the same ids.
CleanedUp ==
    \A c \in Conn : pc[c] \in {"wipe", "gone"} =>
        c \notin Range(subs) /\ c \notin Range(presence) /\ tracked[c] = {}

(***************************************************************************)
(* An event that is dispatched after a client was told it is subscribed    *)
(* reaches the client, waits for it, or was dropped because the channel    *)
(* was full or the bridge had stopped.  Ids that two connections use are   *)
(* excepted: one registry entry serves both.                               *)
(***************************************************************************)
EventsArrive ==
    \A c \in {d \in Conn : pc[d] \in {"open", "store", "confirm"}} :
        \A m \in due[c] :
            m \in got[c] \cup Range(queue[c]) \cup refused[c] \/ <<c, m>> \in sending

============================================================================
