----------------------------- MODULE MCServices -----------------------------
(***************************************************************************)
(* Accounts, Uploads and Realtime for TLC, side by side: the initial state *)
(* chooses which of them runs.                                             *)
(***************************************************************************)
EXTENDS Accounts, TLC

CONSTANTS Owner, Session, NoSession, MaxSessions, MaxPerUser, Total,
          MaxUploadRequests, Conn, Id, NoConn, MaxConns, MaxSubs, QueueSize

VARIABLES part,
          sessions, used, old, file, stored, ureq, landing, torn, urequests, ufaults,
          count, pc, arg, subs, tracked, presence, queue, bridge, event, sending, got,
          confirmed, due, refused, clashed, wiped

uploadVars == <<sessions, used, old, file, stored, ureq, landing, torn, urequests,
                ufaults>>
realtimeVars == <<count, pc, arg, subs, tracked, presence, queue, bridge, event, sending,
                  got, confirmed, due, refused, clashed, wiped>>

\* All connections are one user's, and two events are for that user.
MCUserOf == [c \in Conn |-> "user"]
MCAudience == <<{"user"}, {"user"}>>

U == INSTANCE Uploads WITH MaxRequests <- MaxUploadRequests, req <- ureq,
                           requests <- urequests, faults <- ufaults
R == INSTANCE Realtime WITH UserOf <- MCUserOf, Audience <- MCAudience

MCInit ==
    /\ Init /\ U!Init /\ R!Init
    /\ part \in {"accounts", "uploads", "realtime"}

MCNext ==
    \/ /\ part = "accounts" /\ Next
       /\ UNCHANGED <<part, uploadVars, realtimeVars>>
    \/ /\ part = "uploads" /\ U!Next
       /\ UNCHANGED <<part, vars, realtimeVars>>
    \/ /\ part = "realtime" /\ R!Next
       /\ UNCHANGED <<part, vars, uploadVars>>

MCSpec == MCInit /\ [][MCNext]_<<part, vars, uploadVars, realtimeVars>>

Symmetry == Permutations(Device) \cup Permutations(Task) \cup Permutations(Session)

-----------------------------------------------------------------------------
\* Uploads: MAX_ACTIVE_SESSIONS is exceeded by no more than the other requests in
\* progress; what finalize stores is the client's file, and a request leaves no chunk
\* file and no complete session behind, unless the session was disturbed.
UploadsSafe ==
    U!TypeOK /\ U!SessionsBounded /\ U!StoredIsWhole /\ U!NothingLeftBehind

\* Realtime: MAX_CONNECTIONS_PER_USER bounds the connections whose count was not lost, a
\* connection is nowhere after its cleanup, and an event for a confirmed subscription
\* reaches the client or was refused by its channel.
RealtimeSafe == R!TypeOK /\ R!ConnectionsBounded /\ R!CleanedUp /\ R!EventsArrive
=============================================================================
