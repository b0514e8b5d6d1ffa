------------------------------ MODULE Licences ------------------------------
(***************************************************************************)
(* A licence of a digital product and its download tokens                  *)
(* (ob-handlers/src/digital/mod.rs; the revocation is the statement of     *)
(* refund_order_item in orders/refunds.rs).                                *)
(*                                                                         *)
(* Every handler reads the licence in one statement and writes in another. *)
(* What it writes is the whole `activations` array, computed from its      *)
(* copy and merged into the document without a condition; the status is    *)
(* not part of it.  The array is the set of its device ids here: no        *)
(* handler adds an id that its copy has, and the times of verification     *)
(* are left out.  Requests of users who do not own the licence, and those  *)
(* over the rate limit, return before they change anything.                *)
(***************************************************************************)
EXTENDS Integers, FiniteSets

CONSTANTS
    Device, Token, Task,
    NoToken,        \* a request without a token
    DeviceLimit,    \* deviceLimit of the licence
    MaxRequests,    \* bound: requests
    MaxFaults       \* bound: failed statements and dropped requests

VARIABLES
    kind,           \* digitalType: "book" or "software"
    status, activations,    \* of the licence
    unused,         \* tokens in the table that are not marked used
    live,           \* tokens within their 15 minutes
    issued,         \* tokens in the table
    req,            \* requests in progress
    seats,          \* history: devices activated and not deactivated since
    crossed,        \* history: an array was written over one that its writer had not read
    late,           \* history: activations and tokens granted after the revocation
    open,           \* history: requests in progress at the revocation
    served,         \* history: redirects per token
    excess,         \* history: overlapping redirects and failed marks per token
    requests, faults

licence == <<kind, status, activations>>
tokens == <<unused, live, issued>>
history == <<seats, crossed, late, open, served, excess>>
vars == <<licence, tokens, req, history, requests, faults>>

\* A request: the array it read, the array it writes, its effect on the seats.
Idle == [pc |-> "idle", read |-> {}, copy |-> {}, add |-> {}, del |-> {}, tok |-> NoToken]

Init ==
    /\ kind \in {"book", "software"} /\ status = "active" /\ activations = {}
    /\ unused = {} /\ live = {} /\ issued = {}
    /\ req = [t \in Task |-> Idle]
    /\ seats = {} /\ crossed = FALSE /\ late = 0 /\ open = 0
    /\ served = [k \in Token |-> 0] /\ excess = [k \in Token |-> 0]
    /\ requests = 0 /\ faults = 0

Accept(t) ==
    /\ req[t] = Idle /\ requests < MaxRequests
    /\ requests' = requests + 1

\* The request goes on to write `copy`.
Plan(t, copy, add, del) ==
    req' = [req EXCEPT ![t] = [Idle EXCEPT !.pc = "write", !.read = activations,
                                           !.copy = copy, !.add = add, !.del = del]]

----------------------------------------------------------------------------
\* MUTANT: one device too many is let in.
ActivateOver(t, d) ==
    /\ Accept(t) /\ status = "active"
    /\ \/ d \in activations /\ Plan(t, activations, {}, {})
       \/ /\ d \notin activations /\ Cardinality(activations) <= DeviceLimit
          /\ Plan(t, activations \cup {d}, {d}, {})
    /\ UNCHANGED <<licence, tokens, history, faults>>

\* activate_license up to its write: a device that is in the array is only verified.
Activate(t, d) ==
    /\ Accept(t) /\ status = "active"
    /\ \/ d \in activations /\ Plan(t, activations, {}, {})
       \/ /\ d \notin activations /\ Cardinality(activations) < DeviceLimit
          /\ Plan(t, activations \cup {d}, {d}, {})
    /\ UNCHANGED <<licence, tokens, history, faults>>

\* deactivate_license up to its write: the status is not looked at.
Deactivate(t, d) ==
    /\ Accept(t)
    /\ Plan(t, activations \ {d}, {}, {d})
    /\ UNCHANGED <<licence, tokens, history, faults>>

\* verify_license up to its write, which it makes for a known device only.
Verify(t, d) ==
    /\ Accept(t) /\ d \in activations
    /\ Plan(t, activations, {}, {})
    /\ UNCHANGED <<licence, tokens, history, faults>>

Granted(n) == late' = IF status = "revoked" THEN late + n ELSE late

\* update_document of the array.
Store(t) ==
    /\ req[t].pc = "write"
    /\ activations' = req[t].copy
    /\ crossed' = (crossed \/ activations # req[t].read)
    /\ seats' = (seats \cup req[t].add) \ req[t].del
    /\ Granted(Cardinality(req[t].add))
    /\ req' = [req EXCEPT ![t] = Idle]
    /\ UNCHANGED <<kind, status, tokens, open, served, excess, requests, faults>>

\* refund_order_item revokes the licences of the item that are active.
Revoke ==
    /\ status = "active" /\ status' = "revoked"
    /\ open' = Cardinality({t \in Task : req[t].pc \in {"write", "token"}})
    /\ UNCHANGED <<kind, activations, tokens, req, seats, crossed, late, served, excess,
                   requests, faults>>

----------------------------------------------------------------------------
\* A download request up to its insert: an active licence of the type asked for.
Download(t, type) ==
    /\ Accept(t) /\ status = "active" /\ kind = type
    /\ req' = [req EXCEPT ![t].pc = "token"]
    /\ UNCHANGED <<licence, tokens, history, faults>>

DownloadBook(t) == Download(t, "book")

DownloadSoftware(t) == Download(t, "software")

\* create_document of the token.
Issue(t, k) ==
    /\ req[t].pc = "token" /\ k \notin issued
    /\ issued' = issued \cup {k} /\ unused' = unused \cup {k} /\ live' = live \cup {k}
    /\ Granted(1)
    /\ req' = [req EXCEPT ![t] = Idle]
    /\ UNCHANGED <<licence, seats, crossed, open, served, excess, requests, faults>>

\* DOWNLOAD_TOKEN_MINUTES pass.
Expire(k) ==
    /\ k \in live /\ live' = live \ {k}
    /\ UNCHANGED <<licence, unused, issued, req, history, requests, faults>>

Redirecting(k) == \E t \in Task : req[t].pc = "mark" /\ req[t].tok = k

\* validate_redirect_token_state
Valid(k) == k \in unused /\ k \in live

\* A redirect up to its mark; the tokens of the two types are in tables of their own,
\* and a licence has tokens of its type only.
Redirect(t, k, type) ==
    /\ Accept(t) /\ kind = type /\ Valid(k)
    /\ req' = [req EXCEPT ![t].pc = "mark", ![t].tok = k]
    /\ excess' = [excess EXCEPT ![k] = IF Redirecting(k) THEN @ + 1 ELSE @]
    /\ UNCHANGED <<licence, tokens, seats, crossed, late, open, served, faults>>

GetBookRedirect(t, k) == Redirect(t, k, "book")

GetSoftwareRedirect(t, k) == Redirect(t, k, "software")

\* mark_download_token_used, whose failure is ignored, and the redirect.
Mark(t) ==
    /\ req[t].pc = "mark"
    /\ \/ unused' = unused \ {req[t].tok} /\ UNCHANGED <<excess, faults>>
       \/ /\ faults < MaxFaults /\ faults' = faults + 1
          /\ excess' = [excess EXCEPT ![req[t].tok] = @ + 1]
          /\ UNCHANGED unused
    /\ served' = [served EXCEPT ![req[t].tok] = @ + 1]
    /\ req' = [req EXCEPT ![t] = Idle]
    /\ UNCHANGED <<licence, live, issued, seats, crossed, late, open, requests>>

\* A statement fails or the request is dropped at an await.  A request dropped after its
\* statement took effect differs from Store, Issue and Mark for the client only.
Drop(t) ==
    /\ req[t] # Idle /\ faults < MaxFaults
    /\ faults' = faults + 1
    /\ req' = [req EXCEPT ![t] = Idle]
    /\ UNCHANGED <<licence, tokens, history, requests>>

Next ==
    \/ Revoke
    \/ \E k \in Token : Expire(k)
    \/ \E t \in Task :
          \/ Store(t) \/ Mark(t) \/ Drop(t) \/ DownloadBook(t) \/ DownloadSoftware(t)
          \/ \E d \in Device : Activate(t, d) \/ Deactivate(t, d) \/ Verify(t, d)
          \/ \E k \in Token :
                Issue(t, k) \/ GetBookRedirect(t, k) \/ GetSoftwareRedirect(t, k)

Spec == Init /\ [][Next]_vars

----------------------------------------------------------------------------
\* The variables have their types.
TypeOK ==
    /\ kind \in {"book", "software"} /\ status \in {"active", "revoked"}
    /\ activations \subseteq Device /\ seats \subseteq Device
    /\ unused \subseteq issued /\ live \subseteq issued /\ issued \subseteq Token
    /\ \A t \in Task :
          /\ req[t].pc \in {"idle", "write", "token", "mark"}
          /\ req[t].pc = "mark" <=> req[t].tok \in Token
          /\ req[t].copy \subseteq Device
    /\ crossed \in BOOLEAN
    /\ served \in [Token -> Nat] /\ excess \in [Token -> Nat]
    /\ {late, open, requests, faults} \subseteq Nat

\* The devices activated and not deactivated since are those in the array, and no more
\* than deviceLimit, unless an array was written over one its writer had not read: the
\* stored array alone never exceeds the limit, the devices told "approved" may.
SeatsLimited ==
    crossed \/ (seats = activations /\ Cardinality(seats) <= DeviceLimit)

\* After the revocation a licence gives no more activations and download tokens than
\* requests had read it as active before.
RevokedGivesNothing == late <= open

\* A download token redirects once, and once more only for each redirect that began
\* during another one or whose mark failed.
TokenOnce == \A k \in Token : served[k] <= 1 + excess[k]
==============================================================================
