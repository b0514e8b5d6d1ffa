------------------------------- MODULE Accounts -------------------------------
(***************************************************************************)
(* The refresh tokens of one user (ob-auth: login, refresh, logout,        *)
(* forgot_password and reset_password of routes.rs, revocation.rs, jwt.rs).*)
(*                                                                         *)
(* Time is counted in seconds, as the claims are.  A refresh token names   *)
(* its user and the second of its issue and nothing else, so a token is    *)
(* that second here: two tokens issued within a second are the same token. *)
(* The same holds for the tokens of forgot_password.                       *)
(*                                                                         *)
(* Several requests run at a time, for the same device too.  Each step is  *)
(* a statement of the handler, and a request may end at any of them.       *)
(* The users table is taken to have the columns the handlers select by.    *)
(***************************************************************************)
EXTENDS Integers, FiniteSets

CONSTANTS
    Device,     \* clients of the user; each keeps one refresh token
    Task,       \* requests in progress
    TTL,        \* refresh_ttl
    Leeway,     \* of the validation of a token's expiry
    ResetTTL,   \* life time of a reset token
    MaxTime,    \* bound: seconds
    MaxRequests, \* bound: logins, refreshes and resets
    MaxResets,  \* bound: requests for a reset token
    MaxFaults,  \* bound: requests that end early, lost database connections
    NoDevice, NoTask

Time == 0..MaxTime
Never == -1

ASSUME AccountsAssumption ==
    /\ TTL \in Nat \ {0} /\ Leeway \in Nat /\ ResetTTL \in Nat
    /\ MaxTime \in Nat /\ MaxRequests \in Nat /\ MaxResets \in Nat /\ MaxFaults \in Nat
    /\ NoDevice \notin Device /\ NoTask \notin Task

VARIABLES
    clock,
    revoked,    \* _revoked_tokens: expiresAt of a token's record, or Never
    lock,       \* advisory lock of a token: the task, or NoTask
    changed,    \* password_changed_at, or Never
    password,   \* which password is set: the number of changes
    reset,      \* reset_token_hash and reset_token_expires
    held,       \* the token a device keeps, or Never
    req,        \* what each task is doing
    rotated,    \* history: second of issue of a token's last successor, or Never
    doubled,    \* history: tokens rotated twice within TTL
    issues,     \* history: tokens issued in a second, counted up to 2
    failed,     \* history: devices whose refresh ended after the revocation
    before,     \* history: devices logged in before the last password change
    carried,    \* history: devices of `before` that a step in progress carried over
    spent,      \* history: reset tokens that set a password
    respent,    \* history: reset tokens that set a password twice
    raced,      \* history: reset tokens read by two requests before the write
    requests, resets, faults

history == <<rotated, doubled, issues, failed>>
tokens == <<revoked, lock, held, history>>
user == <<changed, password, reset, before, carried, spent, respent, raced, resets>>
vars == <<clock, tokens, user, req, requests, faults>>

Idle == [pc |-> "idle", dev |-> NoDevice, tok |-> Never, child |-> Never, saw |-> 0]

NoReset == [hash |-> Never, expires |-> Never]

Init ==
    /\ clock = 0 /\ changed = Never /\ password = 0 /\ reset = NoReset
    /\ revoked = [x \in Time |-> Never] /\ rotated = [x \in Time |-> Never]
    /\ lock = [x \in Time |-> NoTask] /\ issues = [x \in Time |-> 0]
    /\ held = [d \in Device |-> Never] /\ req = [t \in Task |-> Idle]
    /\ doubled = {} /\ failed = {} /\ before = {} /\ carried = {}
    /\ spent = {} /\ respent = {} /\ raced = {} /\ resets = 0
    /\ requests = 0 /\ faults = 0

----------------------------------------------------------------------------
At(t, label) == req[t].pc = label

Goto(t, label) == req' = [req EXCEPT ![t].pc = label]

Begin(t, label, d, x) ==
    /\ At(t, "idle") /\ requests < MaxRequests
    /\ requests' = requests + 1
    /\ req' = [req EXCEPT ![t] = [pc |-> label, dev |-> d, tok |-> x, child |-> Never,
                                  saw |-> password]]

End(t) == req' = [req EXCEPT ![t] = Idle]

\* The end of the transaction that holds t's advisory lock.
Unlock(t) == lock' = [x \in Time |-> IF lock[x] = t THEN NoTask ELSE lock[x]]

\* is_token_revoked
IsRevoked(x) == revoked[x] > clock

\* verify_token
Verifies(x) == clock <= x + TTL + Leeway

\* Not issued before password_changed_at.
Current(x) == changed = Never \/ x >= changed

Issue(x) == issues' = [issues EXCEPT ![x] = IF @ = 2 THEN 2 ELSE @ + 1]

Tick ==
    /\ clock < MaxTime /\ clock' = clock + 1
    /\ UNCHANGED <<tokens, user, req, faults, requests>>

----------------------------------------------------------------------------
\* login reads the user and verifies the password against what it read.
LoginRead(t, d) ==
    /\ held[d] = Never \/ d \in failed
    /\ Begin(t, "login", d, Never)
    /\ UNCHANGED <<clock, tokens, user, faults>>

LoginIssue(t) ==
    LET d == req[t].dev
        late == req[t].saw # password
    IN  /\ At(t, "login")
        /\ held' = [held EXCEPT ![d] = clock]
        /\ Issue(clock)
        /\ failed' = failed \ {d}
        /\ before' = IF late THEN before \cup {d} ELSE before \ {d}
        /\ carried' = IF late THEN carried \cup {d} ELSE carried \ {d}
        /\ End(t)
        /\ UNCHANGED <<clock, revoked, lock, rotated, doubled, changed, password, reset,
                       spent, respent, raced, resets, faults, requests>>

----------------------------------------------------------------------------
\* acquire_refresh_rotation_lock: without the lock the request is refused.
RefreshLock(t, d) ==
    /\ held[d] # Never /\ lock[held[d]] = NoTask
    /\ lock' = [lock EXCEPT ![held[d]] = t]
    /\ Begin(t, "check", d, held[d])
    /\ UNCHANGED <<clock, revoked, held, history, user, faults>>

RefreshCheck(t) ==
    /\ At(t, "check")
    /\ IF Verifies(req[t].tok) /\ ~IsRevoked(req[t].tok)
       THEN Goto(t, "user") /\ UNCHANGED lock
       ELSE End(t) /\ Unlock(t)
    /\ UNCHANGED <<clock, revoked, held, history, user, faults, requests>>

\* The user is read and the new tokens are made.
RefreshUser(t) ==
    /\ At(t, "user") /\ Current(req[t].tok)
    /\ req' = [req EXCEPT ![t].pc = "revoke", ![t].child = clock, ![t].saw = password]
    /\ Issue(clock)
    /\ UNCHANGED <<clock, revoked, lock, held, rotated, doubled, failed, user, faults,
                   requests>>

\* The token is older than the password, or the user is disabled or gone.
RefreshRefused(t) ==
    /\ At(t, "user")
    /\ End(t) /\ Unlock(t)
    /\ UNCHANGED <<clock, revoked, held, history, user, faults, requests>>

\* MUTANT: a failed revocation is tolerated.
RefreshRevokeTolerant(t) ==
    /\ At(t, "revoke")
    /\ revoked' \in {revoked, [revoked EXCEPT ![req[t].tok] = clock + TTL]}
    /\ Goto(t, "commit")
    /\ UNCHANGED <<clock, lock, held, history, user, faults, requests>>

\* MUTANT: the new token is revoked, too.
RefreshRevokeBoth(t) ==
    /\ At(t, "revoke")
    /\ revoked' = [revoked EXCEPT ![req[t].tok] = clock + TTL,
                                  ![req[t].child] = clock + TTL]
    /\ Goto(t, "commit")
    /\ UNCHANGED <<clock, lock, held, history, user, faults, requests>>

\* revoke_token of the old token; an error ends the request (Drop).
RefreshRevoke(t) ==
    /\ At(t, "revoke")
    /\ revoked' = [revoked EXCEPT ![req[t].tok] = clock + TTL]
    /\ Goto(t, "commit")
    /\ UNCHANGED <<clock, lock, held, history, user, faults, requests>>

(***************************************************************************)
(* rotation_lock.commit, and the answer.  The commit fails when the        *)
(* connection that held the lock is gone.  A device that has another token *)
(* by now drops the answer.                                                *)
(***************************************************************************)
RefreshCommit(t) ==
    LET r == req[t]
    IN  /\ At(t, "commit")
        /\ End(t) /\ Unlock(t)
        /\ IF lock[r.tok] # t
           THEN failed' = failed \cup {r.dev} /\ UNCHANGED <<held, rotated, doubled>>
           ELSE /\ held' = [held EXCEPT ![r.dev] = IF @ = r.tok THEN r.child ELSE @]
                /\ doubled' = IF rotated[r.tok] # Never /\ r.child < rotated[r.tok] + TTL
                              THEN doubled \cup {r.tok} ELSE doubled
                /\ rotated' = [rotated EXCEPT ![r.tok] = r.child]
                /\ UNCHANGED failed
        /\ UNCHANGED <<clock, revoked, issues, user, faults, requests>>

\* logout revokes the token without the lock.
Logout(d) ==
    /\ held[d] # Never
    /\ revoked' = [revoked EXCEPT ![held[d]] = clock + TTL]
    /\ held' = [held EXCEPT ![d] = Never]
    /\ UNCHANGED <<clock, lock, history, user, req, faults, requests>>

\* cleanup_revoked_tokens
Cleanup ==
    /\ revoked' = [x \in Time |-> IF revoked[x] < clock THEN Never ELSE revoked[x]]
    /\ UNCHANGED <<clock, lock, held, history, user, req, faults, requests>>

----------------------------------------------------------------------------
ForgotPassword ==
    /\ resets < MaxResets /\ resets' = resets + 1
    /\ reset' = [hash |-> clock, expires |-> clock + ResetTTL]
    /\ spent' = spent \ {clock}
    /\ UNCHANGED <<clock, tokens, changed, password, before, carried, respent, raced,
                   req, faults, requests>>

Resetting(x) == {t \in Task : req[t].pc \in {"hash", "reset"} /\ req[t].tok = x}

\* reset_password: the token must be the pending one and in time.
ResetRead(t) ==
    /\ reset.hash # Never /\ clock <= reset.expires
    /\ Begin(t, "hash", NoDevice, reset.hash)
    /\ raced' = IF Resetting(reset.hash) # {} THEN raced \cup {reset.hash} ELSE raced
    /\ UNCHANGED <<clock, tokens, changed, password, reset, before, carried, spent,
                   respent, resets, faults>>

\* The new password is hashed and password_changed_at is taken.
ResetStamp(t) ==
    /\ At(t, "hash")
    /\ req' = [req EXCEPT ![t].pc = "reset", ![t].child = clock]
    /\ UNCHANGED <<clock, tokens, user, faults, requests>>

\* Devices whose login or refresh read the user before this change and will
\* get a token after it.
Underway == {req[t].dev : t \in {u \in Task : req[u].pc \in {"login", "revoke", "commit"}}}

\* MUTANT: the pending reset token stays.
ResetWriteKeeps(t) ==
    LET r == req[t]
    IN  /\ At(t, "reset")
        /\ password' = password + 1 /\ changed' = r.child
        /\ before' = {d \in Device : held[d] # Never}
        /\ carried' = {d \in Device : held[d] >= r.child} \cup (Underway \ {NoDevice})
        /\ spent' = spent \cup {r.tok}
        /\ respent' = respent \cup ({r.tok} \cap spent)
        /\ End(t)
        /\ UNCHANGED <<clock, tokens, reset, raced, resets, faults, requests>>

\* One update: password, password_changed_at, and the token is consumed.
ResetWrite(t) ==
    LET r == req[t]
    IN  /\ At(t, "reset")
        /\ password' = password + 1 /\ changed' = r.child /\ reset' = NoReset
        /\ before' = {d \in Device : held[d] # Never}
        /\ carried' = {d \in Device : held[d] >= r.child} \cup (Underway \ {NoDevice})
        /\ spent' = spent \cup {r.tok}
        /\ respent' = respent \cup ({r.tok} \cap spent)
        /\ End(t)
        /\ UNCHANGED <<clock, tokens, raced, resets, faults, requests>>

----------------------------------------------------------------------------
\* A request is dropped or gets an error; its transaction is rolled back.
Drop(t) ==
    /\ faults < MaxFaults /\ faults' = faults + 1
    /\ ~At(t, "idle")
    /\ End(t) /\ Unlock(t)
    /\ failed' = IF At(t, "commit") THEN failed \cup {req[t].dev} ELSE failed
    /\ UNCHANGED <<clock, revoked, held, rotated, doubled, issues, user, requests>>

\* The connection with the lock's transaction is lost, the request goes on.
LockLost(t) ==
    /\ faults < MaxFaults /\ faults' = faults + 1
    /\ \E x \in Time : lock[x] = t
    /\ Unlock(t)
    /\ UNCHANGED <<clock, revoked, held, history, user, req, requests>>

Step(t) ==
    \/ LoginIssue(t)
    \/ RefreshCheck(t) \/ RefreshUser(t) \/ RefreshRefused(t) \/ RefreshRevoke(t)
    \/ RefreshCommit(t)
    \/ ResetRead(t) \/ ResetStamp(t) \/ ResetWrite(t)
    \/ Drop(t) \/ LockLost(t)

Next ==
    \/ Tick \/ Cleanup \/ ForgotPassword
    \/ \E d \in Device : Logout(d)
    \/ \E t \in Task, d \in Device : LoginRead(t, d) \/ RefreshLock(t, d)
    \/ \E t \in Task : Step(t)

Spec == Init /\ [][Next]_vars

----------------------------------------------------------------------------
Label == {"idle", "login", "check", "user", "revoke", "commit", "hash", "reset"}

\* The variables have their types; a lock belongs to a request of its token.
TypeOK ==
    /\ clock \in Time /\ changed \in Time \cup {Never} /\ password \in Nat
    /\ \A x \in Time :
           /\ revoked[x] \in {Never} \cup 0..MaxTime + TTL
           /\ lock[x] # NoTask => req[lock[x]].tok = x /\ ~At(lock[x], "idle")
    /\ held \in [Device -> Time \cup {Never}]
    /\ \A t \in Task : req[t].pc \in Label /\ req[t].dev \in Device \cup {NoDevice}
    /\ reset \in [hash : Time \cup {Never}, expires : {Never} \cup 0..MaxTime + ResetTTL]
    /\ requests \in 0..MaxRequests /\ resets \in 0..MaxResets /\ faults \in 0..MaxFaults

(***************************************************************************)
(* A refresh token is exchanged for a new one at most once in refresh_ttl  *)
(* seconds, whatever requests run at the same time, end early, or lose     *)
(* their lock: the lock serializes check and revocation, and the record of *)
(* the revocation is written before the answer.                            *)
(***************************************************************************)
RotatedOnce == doubled = {}

(***************************************************************************)
(* A device that uses its token is never left with a revoked one, unless   *)
(* its refresh ended between the revocation and the answer, or its token   *)
(* was issued in the same second as another one, which is the same token.  *)
(***************************************************************************)
NotStranded ==
    \A d \in Device :
        \/ held[d] = Never \/ d \in failed
        \/ issues[held[d]] = 2
        \/ \E t \in Task : req[t].dev = d
        \/ ~(revoked[held[d]] > clock)

(***************************************************************************)
(* A password reset ends the sessions it finds: a device that logged in    *)
(* before it has no token that refresh accepts, unless the token is not    *)
(* older than the second noted as password_changed_at, or a login or       *)
(* refresh had read the user before the change and answered after it.      *)
(***************************************************************************)
ResetEndsSessions ==
    \A d \in before \ carried :
        held[d] # Never => held[d] < changed

\* A reset token sets one password, unless two requests read it before the
\* first of them wrote.
ResetOnce == respent \subseteq raced

\* The two promises of a password reset: it ends the sessions it finds, and its token
\* sets one password.
ResetHolds == ResetEndsSessions /\ ResetOnce

============================================================================
