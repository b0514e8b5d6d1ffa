------------------------------- MODULE Uploads -------------------------------
(***************************************************************************)
(* Resumable uploads (ob-storage/src/resumable.rs and the handlers         *)
(* init_resumable, append_resumable, cancel_resumable of routes.rs).       *)
(*                                                                         *)
(* `sessions` is the concurrent map of the manager.  append_chunk works on *)
(* a clone of the entry and inserts the clone when its chunk is written,   *)
(* so requests for one session interleave at every access of the map and   *)
(* at every access of the file.  A request may be dropped at any await.    *)
(*                                                                         *)
(* A byte is its position in the client's file, so the chunk a client      *)
(* sends for an offset is known.  write_all hands the chunk to the         *)
(* runtime's blocking pool and the file is never flushed: the chunk lands  *)
(* some time after the handler went on (`landing`).  A slot of Task is     *)
(* used again when its chunk has landed.                                   *)
(***************************************************************************)
EXTENDS Integers, Sequences, FiniteSets, Functions

CONSTANTS
    Session,        \* ids; a fresh uuid is one that was not used
    Owner,          \* authenticated users
    Task,           \* requests in progress
    NoSession,      \* a task without a session
    MaxSessions,    \* MAX_ACTIVE_SESSIONS
    MaxPerUser,     \* MAX_SESSIONS_PER_USER
    Total,          \* total_size of every upload
    MaxRequests,    \* bound: requests that are started
    MaxFaults       \* bound: dropped requests, lost writes and restarts

VARIABLES
    sessions,   \* id -> [owner, received, complete]
    used,       \* ids given out
    old,        \* ids whose session is older than SESSION_TTL_SECS
    file,       \* id -> content of the chunk file
    stored,     \* id -> content handed to the storage backend
    req,        \* what each request is doing
    landing,    \* chunks handed to the blocking pool and not in the file yet
    torn,       \* history: ids disturbed in one of the ways of Disturb
    requests, faults

vars == <<sessions, used, old, file, stored, req, landing, torn, requests,
          faults>>

UploadSession == [owner : Owner, received : 0..Total, complete : BOOLEAN]

NewSession(o) == [owner |-> o, received |-> 0, complete |-> FALSE]

(***************************************************************************)
(* A request: its place, the session it works on and its clone of it, the  *)
(* chunk it writes or the content finalize read, and whether the file it   *)
(* opened still has its name.                                              *)
(***************************************************************************)
Idle == [pc |-> "idle", id |-> NoSession, copy |-> <<>>, data |-> <<>>, linked |-> FALSE]

Landed == [id |-> NoSession, data |-> <<>>]

Init ==
    /\ sessions = <<>> /\ file = <<>> /\ stored = <<>>
    /\ used = {} /\ old = {} /\ torn = {} /\ requests = 0 /\ faults = 0
    /\ req = [t \in Task |-> Idle]
    /\ landing = [t \in Task |-> Landed]

----------------------------------------------------------------------------
\* Slot t takes a request.
Accept(t) ==
    /\ req[t] = Idle /\ landing[t] = Landed /\ requests < MaxRequests
    /\ requests' = requests + 1

At(t, label) == req[t].pc = label

Goto(t, label) == req' = [req EXCEPT ![t].pc = label]

Begin(t, label, id, copy, data) ==
    req' = [req EXCEPT ![t] = [Idle EXCEPT !.pc = label, !.id = id,
                                           !.copy = copy, !.data = data]]

End(t) == req' = [req EXCEPT ![t] = Idle]

Put(f, k, v) == [x \in DOMAIN f \cup {k} |-> IF x = k THEN v ELSE f[x]]

Without(f, ids) == Restrict(f, DOMAIN f \ ids)

\* Sessions some other request works on.
Busy(t) == {req[u].id : u \in Task \ {t}}

\* Sessions with a chunk on its way to the file.
Late == {landing[u].id : u \in Task}

(***************************************************************************)
(* The history of what may spoil an upload: two requests for a session at  *)
(* a time, a chunk written or a file read before the previous chunk        *)
(* landed, a request or a write that failed, an expiry under a request.    *)
(***************************************************************************)
Disturb(ids) == torn' = torn \cup ids

\* remove_file: whoever has the file open goes on with a file without name.
Unlinked(r, ids) == [t \in Task |-> [r[t] EXCEPT !.linked = @ /\ r[t].id \notin ids]]

Unlink(ids) ==
    /\ file' = Without(file, ids)
    /\ landing' = [t \in Task |-> IF landing[t].id \in ids THEN Landed ELSE landing[t]]

----------------------------------------------------------------------------
\* SESSION_TTL_SECS pass.
Expire(id) ==
    /\ id \in DOMAIN sessions \ old
    /\ old' = old \cup {id}
    /\ UNCHANGED <<sessions, used, file, stored, req, landing, torn, faults, requests>>

\* self.sessions.len() >= MAX_ACTIVE_SESSIONS
TooMany(n) == n >= MaxSessions

\* create_session: reap_expired, then the limit on all sessions.
CreateBegin(t, o, id) ==
    LET gone == DOMAIN sessions \cap old
        reaped == Unlinked(req, gone)
    IN  /\ Accept(t) /\ id \in Session \ used
        /\ sessions' = Without(sessions, gone)
        /\ old' = old \ gone
        /\ Unlink(gone)
        /\ Disturb(gone \cap Busy(t))
        /\ IF TooMany(Cardinality(DOMAIN sessions \ gone))
           THEN req' = reaped /\ UNCHANGED used
           ELSE /\ req' = [reaped EXCEPT ![t] = [Idle EXCEPT
                              !.pc = "count", !.id = id, !.copy = NewSession(o)]]
                /\ used' = used \cup {id}
        /\ UNCHANGED <<stored, faults>>

\* The limit per user counts the sessions in progress.
CreateCount(t) ==
    LET own == {id \in DOMAIN sessions : /\ sessions[id].owner = req[t].copy.owner
                                         /\ ~sessions[id].complete}
    IN  /\ At(t, "count")
        /\ IF Cardinality(own) >= MaxPerUser THEN End(t) ELSE Goto(t, "insert")
        /\ UNCHANGED <<sessions, used, old, file, stored, landing, torn, faults, requests>>

\* The new session enters the map, or the one a cancellation must put back.
Insert(t) ==
    /\ At(t, "insert")
    /\ sessions' = Put(sessions, req[t].id, req[t].copy)
    /\ End(t)
    /\ UNCHANGED <<used, old, file, stored, landing, torn, faults, requests>>

----------------------------------------------------------------------------
\* MUTANT: the offset of the chunk is not compared with the bytes received.
AppendCheckAnywhere(s, o, offset, len) ==
    s.owner = o /\ ~s.complete /\ s.received + len <= Total

\* Owner, status, offset and size.
AppendCheck(s, o, offset, len) ==
    s.owner = o /\ ~s.complete /\ offset = s.received /\ s.received + len <= Total

\* append_chunk clones the session and checks the clone.
AppendBegin(t, o, id, offset, len) ==
    /\ Accept(t) /\ id \in DOMAIN sessions
    /\ AppendCheck(sessions[id], o, offset, len)
    /\ Begin(t, "open", id, sessions[id], [i \in 1..len |-> offset + i])
    /\ Disturb({id} \cap Busy(t))
    /\ UNCHANGED <<sessions, used, old, file, stored, landing, faults>>

Open(t) ==
    /\ At(t, "open")
    /\ file' = IF req[t].id \in DOMAIN file THEN file ELSE Put(file, req[t].id, <<>>)
    /\ req' = [req EXCEPT ![t].linked = TRUE, ![t].pc = "write"]
    /\ UNCHANGED <<sessions, used, old, stored, landing, torn, faults, requests>>

WriteChunk(t) ==
    /\ At(t, "write")
    /\ landing' = IF ~req[t].linked THEN landing
                  ELSE [landing EXCEPT ![t] = [id |-> req[t].id, data |-> req[t].data]]
    /\ Goto(t, "append")
    /\ Disturb({req[t].id} \cap Late)
    /\ UNCHANGED <<sessions, used, old, file, stored, faults, requests>>

\* The blocking pool appends the chunk to the file.
Land(t) ==
    /\ landing[t] # Landed
    /\ file' = [file EXCEPT ![landing[t].id] = @ \o landing[t].data]
    /\ landing' = [landing EXCEPT ![t] = Landed]
    /\ UNCHANGED <<sessions, used, old, stored, req, torn, faults, requests>>

\* The write fails when nobody waits for it any more.
LandFails(t) ==
    /\ landing[t] # Landed /\ faults < MaxFaults
    /\ landing' = [landing EXCEPT ![t] = Landed]
    /\ Disturb({landing[t].id})
    /\ faults' = faults + 1
    /\ UNCHANGED <<sessions, used, old, file, stored, req, requests>>

\* The clone, with the chunk counted, replaces whatever the map has now.
AppendInsert(t) ==
    LET n == req[t].copy.received + Len(req[t].data)
    IN  /\ At(t, "append")
        /\ sessions' = Put(sessions, req[t].id,
                [req[t].copy EXCEPT !.received = n, !.complete = (n = Total)])
        /\ IF n = Total THEN Goto(t, "finalize") ELSE End(t)
        /\ UNCHANGED <<used, old, file, stored, landing, torn, faults, requests>>

----------------------------------------------------------------------------
\* finalize: the session must still be there and complete.
FinalizeCheck(t) ==
    LET id == req[t].id
    IN  /\ At(t, "finalize")
        /\ IF id \in DOMAIN sessions /\ sessions[id].complete
           THEN Goto(t, "read") ELSE End(t)
        /\ UNCHANGED <<sessions, used, old, file, stored, landing, torn, faults, requests>>

\* The last chunk may still be on its way.
FinalizeRead(t) ==
    LET id == req[t].id
    IN  /\ At(t, "read")
        /\ IF id \in DOMAIN file
           THEN req' = [req EXCEPT ![t].pc = "unlink", ![t].data = file[id]]
           ELSE End(t)
        /\ Disturb({id} \cap Late)
        /\ UNCHANGED <<sessions, used, old, file, stored, landing, faults, requests>>

FinalizeUnlink(t) ==
    /\ At(t, "unlink")
    /\ Unlink({req[t].id})
    /\ req' = [Unlinked(req, {req[t].id}) EXCEPT ![t].pc = "remove"]
    /\ UNCHANGED <<sessions, used, old, stored, torn, faults, requests>>

FinalizeRemove(t) ==
    /\ At(t, "remove")
    /\ sessions' = Without(sessions, {req[t].id})
    /\ Goto(t, "store")
    /\ UNCHANGED <<used, old, file, stored, landing, torn, faults, requests>>

\* validate_file_signature may refuse the content; then it is gone.
Store(t) ==
    /\ At(t, "store")
    /\ stored' \in {stored, Put(stored, req[t].id, req[t].data)}
    /\ End(t)
    /\ UNCHANGED <<sessions, used, old, file, landing, torn, faults, requests>>

----------------------------------------------------------------------------
\* cancel takes the session out; a foreign one is put back.
CancelBegin(t, o, id) ==
    /\ Accept(t) /\ id \in used
    /\ sessions' = Without(sessions, {id})
    /\ IF id \in DOMAIN sessions /\ sessions[id].owner # o
       THEN Begin(t, "insert", id, sessions[id], <<>>)
       ELSE Begin(t, "cancel", id, <<>>, <<>>)
    /\ Disturb({id} \cap Busy(t))
    /\ UNCHANGED <<used, old, file, stored, landing, faults>>

CancelUnlink(t) ==
    /\ At(t, "cancel")
    /\ Unlink({req[t].id})
    /\ req' = [Unlinked(req, {req[t].id}) EXCEPT ![t] = Idle]
    /\ UNCHANGED <<sessions, used, old, stored, torn, faults, requests>>

----------------------------------------------------------------------------
\* The places at an await, where a request may be dropped or an error of
\* the file system ends it.
Awaits == {"open", "write", "append", "read", "unlink", "remove", "store", "cancel"}

Drop(t) ==
    /\ req[t].pc \in Awaits /\ faults < MaxFaults
    /\ End(t)
    /\ Disturb({req[t].id})
    /\ faults' = faults + 1
    /\ UNCHANGED <<sessions, used, old, file, stored, landing, requests>>

\* A new process: an empty map, and cleanup_orphaned_files empties the disk.
Restart ==
    /\ faults < MaxFaults
    /\ faults' = faults + 1
    /\ sessions' = <<>> /\ file' = <<>> /\ old' = {}
    /\ req' = [t \in Task |-> Idle]
    /\ landing' = [t \in Task |-> Landed]
    /\ UNCHANGED <<used, stored, torn, requests>>

Step(t) ==
    \/ CreateCount(t) \/ Insert(t)
    \/ Open(t) \/ WriteChunk(t) \/ AppendInsert(t)
    \/ FinalizeCheck(t) \/ FinalizeRead(t) \/ FinalizeUnlink(t)
    \/ FinalizeRemove(t) \/ Store(t) \/ CancelUnlink(t)
    \/ Land(t) \/ LandFails(t) \/ Drop(t)

Next ==
    \/ \E id \in Session : Expire(id)
    \/ \E t \in Task, o \in Owner, id \in Session :
           \/ CreateBegin(t, o, id)
           \/ CancelBegin(t, o, id)
           \/ \E len \in 1..Total, offset \in 0..Total : AppendBegin(t, o, id, offset, len)
    \/ \E t \in Task : Step(t)
    \/ Restart

Spec == Init /\ [][Next]_vars

----------------------------------------------------------------------------
Label == {"idle", "count", "insert", "finalize"} \cup Awaits

\* The variables have their types; a session is complete exactly when all
\* its bytes are counted.
TypeOK ==
    /\ DOMAIN sessions \subseteq used /\ DOMAIN file \subseteq used
    /\ DOMAIN stored \subseteq used
    /\ used \subseteq Session /\ old \subseteq used /\ torn \subseteq used
    /\ \A id \in DOMAIN sessions :
           /\ sessions[id] \in UploadSession
           /\ sessions[id].complete <=> sessions[id].received = Total
    /\ \A t \in Task :
           /\ req[t].pc \in Label /\ req[t].id \in used \cup {NoSession}
           /\ landing[t].id \in used \cup {NoSession}
           /\ landing[t] # Landed => landing[t].id \in DOMAIN file
    /\ requests \in 0..MaxRequests /\ faults \in 0..MaxFaults

\* Ids that are in the map or that some request may insert.
Claimed == DOMAIN sessions \cup
           {req[t].id : t \in {u \in Task : req[u].pc \in {"count", "insert", "open",
                                                           "write", "append"}}}

(***************************************************************************)
(* MAX_ACTIVE_SESSIONS is tested and the session inserted in two steps, so *)
(* requests that pass the test together exceed it, but never by more than  *)
(* the number of other requests in progress.  That includes the sessions a *)
(* late append or a refused cancellation puts back into the map.           *)
(***************************************************************************)
SessionsBounded == Cardinality(Claimed) <= MaxSessions - 1 + Cardinality(Task)

\* What finalize hands to the storage backend is the client's file, byte by
\* byte in order, unless the session was disturbed.
StoredIsWhole ==
    \A id \in DOMAIN stored \ torn : stored[id] = [i \in 1..Total |-> i]

\* Nothing is left behind by a request that ended undisturbed: a chunk file
\* belongs to a session in the map or to a running request, and a complete
\* session (no request can continue it) has a request that finalizes it.
NothingLeftBehind ==
    \A id \in used \ torn :
        \/ \E t \in Task : req[t].id = id
        \/ /\ id \in DOMAIN file => id \in DOMAIN sessions
           /\ id \in DOMAIN sessions =>
                  ~sessions[id].complete /\ id \notin DOMAIN stored

============================================================================
