--------------------------------- MODULE Chat --------------------------------
(***************************************************************************)
(* The thread of a buyer and a seller about a product, and its messages    *)
(* (ob-handlers/src/chat/mod.rs).                                          *)
(*                                                                         *)
(* The thread keeps a message count and an unread count for each side,     *)
(* written from a copy that was read before the message was stored.        *)
(* Refusals of the handlers that depend on other documents (subscription,  *)
(* product, order, rate limit) change nothing, like a request with an      *)
(* explicit message id: a known id is answered, and for an unknown one the *)
(* lookup fails.  report_message inserts a document that no handler reads. *)
(***************************************************************************)
EXTENDS Integers, FiniteSets

CONSTANTS
    Task,
    MaxMessages,    \* MAX_MESSAGES_PER_THREAD
    MaxRequests,    \* bound: requests
    MaxFaults       \* bound: failed statements and dropped requests

Side == {"buyer", "seller"}
Other(s) == IF s = "buyer" THEN "seller" ELSE "buyer"

\* Texts: a plain one, none (images only), one over 100 bytes whose 100th byte is inside
\* a character.
Text == {"plain", "none", "wide"}

VARIABLES
    exists, count, unread, last,    \* the thread: messageCount, unread counts, last text
    recent,         \* updatedAt is less than 5 seconds ago
    msgs,           \* messages: [id, from, read, deleted]
    req,            \* requests in progress
    prev,           \* history: text of the last message stored in these 5 seconds
    reset,          \* history: the thread was created again, or messageCount written over
                    \* a value its writer had not read
    lost,           \* history: messages whose thread was not updated
    muddled,        \* history: sides whose unread count crossed another request
    requests, faults

thread == <<exists, count, unread, last, recent>>
history == <<prev, reset, lost, muddled>>
vars == <<thread, msgs, req, history, requests, faults>>

NoCopy == [count |-> 0, unread |-> 0]

\* A request: the side that makes it, its text, its copy of the thread, its message (before
\* the insert: the messages that had updated the thread when it was read);
\* whether the other side's messages and unread count were written since it began.
Idle == [pc |-> "idle", side |-> "buyer", text |-> "none", msg |-> 0, copy |-> NoCopy,
         stale |-> FALSE]

Init ==
    /\ exists = FALSE /\ count = 0 /\ unread = [s \in Side |-> 0] /\ last = "none"
    /\ recent = FALSE
    /\ msgs = {}
    /\ req = [t \in Task |-> Idle]
    /\ prev = "none" /\ reset = FALSE /\ lost = 0 /\ muddled = {}
    /\ requests = 0 /\ faults = 0

Begin(t, r) ==
    /\ req[t] = Idle /\ requests < MaxRequests /\ requests' = requests + 1
    /\ req' = [req EXCEPT ![t] = r]

Done(t) == req' = [req EXCEPT ![t] = Idle]

\* Requests whose message is stored and whose thread is yet to be updated.
Storing == {t \in Task : req[t].pc = "thread"}

Settled == Cardinality(msgs) - Cardinality(Storing)

\* The unread messages to s.
To(s) == {m \in msgs : m.from # s /\ ~m.read}

\* The side whose unread count a request writes.
Reader(r) == IF r.pc = "zero" THEN r.side ELSE Other(r.side)

\* Request t, which goes on as r, has written messages to `sides` or their counts.
Wrote(t, r, sides) ==
    req' = [x \in Task |->
              IF x = t THEN r
              ELSE IF req[x] # Idle /\ Reader(req[x]) \in sides
              THEN [req[x] EXCEPT !.stale = TRUE] ELSE req[x]]

----------------------------------------------------------------------------
\* get_or_create_chat for a thread that is not there.
Create(t) ==
    /\ ~exists /\ Begin(t, [Idle EXCEPT !.pc = "create"])
    /\ UNCHANGED <<thread, msgs, history, faults>>

\* upsert_document: the counts of a thread made since then are set to 0.
CreateWrite(t) ==
    /\ req[t].pc = "create"
    /\ exists' = TRUE /\ count' = 0 /\ unread' = [s \in Side |-> 0] /\ recent' = TRUE
    /\ reset' = (reset \/ exists)
    /\ muddled' = IF exists THEN Side ELSE muddled
    /\ Wrote(t, Idle, Side)
    /\ UNCHANGED <<last, msgs, prev, lost, requests, faults>>

\* send_message up to the insert: not the last text again within 5 seconds, and room in
\* the thread.
Send(t, s, x) ==
    /\ exists
    /\ ~(x # "none" /\ last = x /\ recent)
    /\ count < MaxMessages
    /\ Begin(t, [Idle EXCEPT !.pc = "insert", !.side = s, !.text = x, !.msg = Settled,
                             !.copy = [count |-> count, unread |-> unread[Other(s)]]])
    /\ UNCHANGED <<thread, msgs, history, faults>>

\* upsert_document of the message under a new id.
Insert(t) ==
    LET id == Cardinality(msgs) + 1
    IN  /\ req[t].pc = "insert"
        /\ msgs' = msgs \cup {[id |-> id, from |-> req[t].side, read |-> FALSE,
                               deleted |-> FALSE]}
        /\ prev' = req[t].text
        /\ Wrote(t, [req[t] EXCEPT !.pc = "thread", !.msg = id], {Other(req[t].side)})
        /\ UNCHANGED <<thread, reset, lost, muddled, requests, faults>>

\* MUTANT: the count is taken over as it was read.
ThreadUncounted(t) ==
    LET r == req[t]
    IN  /\ r.pc = "thread" /\ r.text # "wide"
        /\ count' = r.copy.count
        /\ unread' = [unread EXCEPT ![Other(r.side)] = r.copy.unread + 1]
        /\ last' = r.text /\ recent' = TRUE
        /\ reset' = (reset \/ count # r.copy.count)
        /\ muddled' = IF r.stale THEN muddled \cup {Other(r.side)} ELSE muddled
        /\ Wrote(t, Idle, {Other(r.side)})
        /\ UNCHANGED <<exists, msgs, prev, lost, requests, faults>>

\* update_document of the thread, from the copy.  The times of the first message and the
\* first reply, which it also writes, are left out.
Thread(t) ==
    LET r == req[t]
    IN  /\ r.pc = "thread" /\ r.text # "wide"
        /\ count' = r.copy.count + 1
        /\ unread' = [unread EXCEPT ![Other(r.side)] = r.copy.unread + 1]
        /\ last' = r.text /\ recent' = TRUE
        /\ reset' = (reset \/ count # r.copy.count)
        /\ muddled' = IF r.stale THEN muddled \cup {Other(r.side)} ELSE muddled
        /\ Wrote(t, Idle, {Other(r.side)})
        /\ UNCHANGED <<exists, msgs, prev, lost, requests, faults>>

\* The message is stored and its thread is not updated.
Lose(t) ==
    /\ lost' = lost + 1 /\ muddled' = muddled \cup {Other(req[t].side)}
    /\ Done(t)
    /\ UNCHANGED <<thread, msgs, prev, reset, requests>>

\* Cutting the text at 100 bytes panics.
ThreadPanics(t) ==
    /\ req[t].pc = "thread" /\ req[t].text = "wide"
    /\ Lose(t) /\ UNCHANGED faults

----------------------------------------------------------------------------
\* mark_messages_read: the messages to s are marked read; the count is written only if
\* there were any.
MarkMessages(t, s) ==
    /\ exists
    /\ req[t] = Idle /\ requests < MaxRequests /\ requests' = requests + 1
    /\ msgs' = {IF m \in To(s) THEN [m EXCEPT !.read = TRUE] ELSE m : m \in msgs}
    /\ Wrote(t, IF To(s) = {} THEN Idle ELSE [Idle EXCEPT !.pc = "zero", !.side = s],
             IF To(s) = {} THEN {} ELSE {s})
    /\ UNCHANGED <<thread, history, faults>>

\* The unread count becomes 0.  If nobody wrote in between, it is right again.
MarkZero(t) ==
    LET s == req[t].side
    IN  /\ req[t].pc = "zero"
        /\ unread' = [unread EXCEPT ![s] = 0]
        /\ muddled' = IF req[t].stale THEN muddled \cup {s} ELSE muddled \ {s}
        /\ Wrote(t, Idle, {s})
        /\ UNCHANGED <<exists, count, last, recent, msgs, prev, reset, lost,
                       requests, faults>>

\* delete_message by its sender or an admin: the text goes, the record stays.  The read
\* before the write finds it not deleted; a second write changes nothing.
Delete(m) ==
    /\ m \in msgs /\ ~m.deleted
    /\ requests < MaxRequests /\ requests' = requests + 1
    /\ msgs' = (msgs \ {m}) \cup {[m EXCEPT !.deleted = TRUE]}
    /\ UNCHANGED <<thread, req, history, faults>>

\* Five seconds pass.
Tick ==
    /\ recent /\ recent' = FALSE /\ prev' = "none"
    /\ UNCHANGED <<exists, count, unread, last, msgs, req, reset, lost,
                   muddled, requests, faults>>

\* A statement fails or the request is dropped at an await.
Drop(t) ==
    /\ req[t] # Idle /\ faults < MaxFaults /\ faults' = faults + 1
    /\ \/ req[t].pc = "thread" /\ Lose(t)
       \/ /\ req[t].pc # "thread" /\ Done(t)
          /\ muddled' = IF req[t].pc = "zero" THEN muddled \cup {req[t].side} ELSE muddled
          /\ UNCHANGED <<thread, msgs, prev, reset, lost, requests>>

Next ==
    \/ Tick
    \/ \E m \in msgs : Delete(m)
    \/ \E t \in Task :
          \/ Create(t) \/ CreateWrite(t) \/ Insert(t) \/ Thread(t) \/ ThreadPanics(t)
          \/ MarkZero(t) \/ Drop(t)
          \/ \E s \in Side : MarkMessages(t, s) \/ \E x \in Text : Send(t, s, x)

Spec == Init /\ [][Next]_vars

----------------------------------------------------------------------------
\* The variables have their types.
TypeOK ==
    /\ {exists, recent, reset} \subseteq BOOLEAN
    /\ unread \in [Side -> Nat] /\ {last, prev} \subseteq Text /\ muddled \subseteq Side
    /\ \A m \in msgs : m.id \in 1..Cardinality(msgs) /\ m.from \in Side
    /\ \A t \in Task :
          /\ req[t].pc \in {"idle", "create", "insert", "thread", "zero"}
          /\ req[t].side \in Side /\ req[t].text \in Text /\ req[t].msg \in 0..Cardinality(msgs)
    /\ {count, lost, requests, faults} \subseteq Nat

\* messageCount is the number of messages stored, less those whose thread is yet to be
\* updated or never was, and within the limit; unless it was written over a value that
\* its writer had not read.
CountHolds ==
    reset \/ (count + Cardinality(Storing) + lost = Cardinality(msgs) /\ count <= MaxMessages)

\* The unread count of a side is the number of unread messages to it, less those whose
\* thread is yet to be updated.  It may differ while a mark-read is between its two
\* writes, and once requests crossed or a write was lost, until a mark-read ends that
\* found unread messages and that nobody crossed.
UnreadHolds ==
    \A s \in Side :
        \/ s \in muddled
        \/ \E t \in Task : req[t].pc = "zero" /\ req[t].side = s
        \/ unread[s] = Cardinality(To(s)) - Cardinality({t \in Storing :
                          \E m \in To(s) : m.id = req[t].msg})

\* A text is not stored twice in a row within five seconds, unless the second request
\* read the thread before the first had updated it, or a thread was not updated, or
\* updated by requests that crossed.
NoRepeat ==
    [][\A t \in Task :
          /\ req[t].pc = "insert" /\ req'[t].pc = "thread"
          /\ req[t].text # "none" /\ prev = req[t].text
          => lost > 0 \/ reset \/ Cardinality(msgs) > req[t].msg]_vars
==============================================================================
