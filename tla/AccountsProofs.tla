---------------------------- MODULE AccountsProofs ----------------------------
(***************************************************************************)
(* What Accounts guarantees for any number of devices and requests, any    *)
(* life time of the tokens and any number of faults.                       *)
(***************************************************************************)
EXTENDS Accounts, TLAPS

Refreshing == {"check", "user", "revoke", "commit"}
Written == {"revoke", "commit"}

Request == [pc : Label, dev : Device \cup {NoDevice}, tok : Time \cup {Never},
            child : Time \cup {Never}, saw : Nat]

\* The types, of the history too.
Typed ==
    /\ clock \in Time /\ changed \in Time \cup {Never} /\ password \in Nat
    /\ revoked \in [Time -> {Never} \cup 0..(MaxTime + TTL)]
    /\ lock \in [Time -> Task \cup {NoTask}]
    /\ held \in [Device -> Time \cup {Never}]
    /\ rotated \in [Time -> Int]
    /\ reset \in [hash : Time \cup {Never}, expires : {Never} \cup 0..(MaxTime + ResetTTL)]
    /\ requests \in 0..MaxRequests /\ resets \in 0..MaxResets /\ faults \in 0..MaxFaults
    /\ before \subseteq Device

\* A request carries what its place needs.
Requests ==
    /\ req \in [Task -> Request]
    /\ \A t \in Task :
           /\ req[t].pc \in Refreshing \cup {"hash", "reset"} => req[t].tok \in Time
           /\ req[t].pc \in Written \cup {"reset"} => req[t].child \in Time
           /\ req[t].pc \in Refreshing \cup {"login"} => req[t].dev \in Device

\* A lock belongs to a refresh of its token.
Locks ==
    \A x \in Time : lock[x] # NoTask => req[lock[x]].tok = x /\ req[lock[x]].pc \in Refreshing

\* The initial state.
LEMMA InitTyped == Init => Typed /\ Requests /\ Locks
BY AccountsAssumption
   DEF Init, Typed, Requests, Locks, Request, Idle, NoReset, Time, Never, Label, Refreshing, Written

\* A new request.
LEMMA Begins ==
    ASSUME Requests, Typed, NEW t \in Task, NEW label \in Label,
           NEW d \in Device \cup {NoDevice}, NEW x \in Time \cup {Never}, Begin(t, label, d, x)
    PROVE  /\ req' = [req EXCEPT ![t] = [pc |-> label, dev |-> d, tok |-> x,
                                         child |-> Never, saw |-> password]]
           /\ req[t].pc = "idle" /\ requests' \in 0..MaxRequests
BY AccountsAssumption DEF Requests, Typed, Begin, At, Idle, Request

\* A request that goes on.
LEMMA Goes ==
    ASSUME Requests, NEW t \in Task, NEW label \in Label, Goto(t, label)
    PROVE  /\ req' \in [Task -> Request]
           /\ \A u \in Task \ {t} : req'[u] = req[u]
           /\ req'[t].pc = label /\ req'[t].tok = req[t].tok /\ req'[t].dev = req[t].dev
           /\ req'[t].child = req[t].child /\ req'[t].saw = req[t].saw
BY Zenon DEF Requests, Goto, Request

\* A request that ends.
LEMMA Ends ==
    ASSUME Requests, NEW t \in Task, End(t)
    PROVE  /\ req' \in [Task -> Request]
           /\ \A u \in Task \ {t} : req'[u] = req[u]
           /\ req'[t].pc = "idle"
BY Zenon DEF Requests, End, Request, Idle, Label

Types == Typed /\ Requests /\ Locks

\* Nothing but the requests and what a step writes changes: the places of the
\* tasks stay consistent.
LEMMA RequestsKept ==
    ASSUME Requests, NEW t \in Task, req' \in [Task -> Request],
           \A u \in Task \ {t} : req'[u] = req[u],
           req'[t].pc \in Refreshing \cup {"hash", "reset"} => req'[t].tok \in Time,
           req'[t].pc \in Written \cup {"reset"} => req'[t].child \in Time,
           req'[t].pc \in Refreshing \cup {"login"} => req'[t].dev \in Device
    PROVE  Requests'
BY ZenonT(30) DEF Requests

\* A request that holds no lock, or keeps its token and goes on refreshing.
LEMMA LocksKept ==
    ASSUME Types, NEW t \in Task, \A u \in Task \ {t} : req'[u] = req[u],
           lock' = lock,
           \/ req[t].pc \notin Refreshing
           \/ req'[t].pc \in Refreshing /\ req'[t].tok = req[t].tok
    PROVE  Locks'
<1> SUFFICES ASSUME NEW x \in Time, lock'[x] # NoTask
             PROVE  req'[lock'[x]].tok = x /\ req'[lock'[x]].pc \in Refreshing
  BY Zenon DEF Locks
<1>1. lock[x] \in Task /\ req[lock[x]].tok = x /\ req[lock[x]].pc \in Refreshing
  BY Zenon DEF Types, Typed, Locks
<1> QED BY Zenon, <1>1

\* A request that ends gives up its lock.
LEMMA LocksReleased ==
    ASSUME Types, NEW t \in Task, \A u \in Task \ {t} : req'[u] = req[u], Unlock(t)
    PROVE  Locks' /\ lock' \in [Time -> Task \cup {NoTask}]
<1>1. lock' \in [Time -> Task \cup {NoTask}]
  BY Zenon DEF Types, Typed, Unlock
<1> SUFFICES ASSUME NEW x \in Time, lock'[x] # NoTask
             PROVE  req'[lock'[x]].tok = x /\ req'[lock'[x]].pc \in Refreshing
  BY Zenon, <1>1 DEF Locks
<1>2. lock'[x] = lock[x] /\ lock[x] # t
  BY Zenon DEF Unlock
<1>3. lock[x] \in Task /\ req[lock[x]].tok = x /\ req[lock[x]].pc \in Refreshing
  BY Zenon, <1>2 DEF Types, Typed, Locks
<1> QED BY Zenon, <1>2, <1>3

\* Steps of the environment: no request moves and no lock changes.
LEMMA TypesQuiet ==
    ASSUME Types, Tick \/ Cleanup \/ ForgotPassword \/ (\E d \in Device : Logout(d))
    PROVE  Types'
<1> USE AccountsAssumption
<1>1. UNCHANGED <<req, lock>> => Requests' /\ Locks'
  BY Zenon DEF Types, Requests, Locks
<1>2. CASE Tick
  BY <1>1, <1>2 DEF Types, Typed, Tick, tokens, user, history, Time
<1>3. CASE Cleanup
  <2>1. revoked' \in [Time -> {Never} \cup 0..(MaxTime + TTL)]
    BY Zenon, <1>3 DEF Cleanup, Types, Typed
  <2> QED BY Zenon, <1>1, <1>3, <2>1 DEF Types, Typed, Cleanup, user, history
<1>4. CASE ForgotPassword
  <2>1. reset' \in [hash : Time \cup {Never}, expires : {Never} \cup 0..(MaxTime + ResetTTL)]
    BY <1>4 DEF ForgotPassword, Types, Typed, Time
  <2>2. resets' \in 0..MaxResets
    BY <1>4 DEF ForgotPassword, Types, Typed
  <2> QED BY Zenon, <1>1, <1>4, <2>1, <2>2 DEF Types, Typed, ForgotPassword, tokens, history
<1>5. ASSUME NEW d \in Device, Logout(d) PROVE Types'
  <2>1. clock + TTL \in 0..(MaxTime + TTL) /\ held[d] \in Time
    BY <1>5 DEF Logout, Types, Typed, Time
  <2>2. revoked' \in [Time -> {Never} \cup 0..(MaxTime + TTL)]
    BY Zenon, <1>5, <2>1 DEF Logout, Types, Typed
  <2>3. held' \in [Device -> Time \cup {Never}]
    BY Zenon, <1>5 DEF Logout, Types, Typed
  <2> QED BY Zenon, <1>1, <1>5, <2>2, <2>3 DEF Types, Typed, Logout, user, history
<1> QED BY Zenon, <1>2, <1>3, <1>4, <1>5

\* Login.
LEMMA TypesLogin ==
    ASSUME Types, NEW t \in Task, (\E d \in Device : LoginRead(t, d)) \/ LoginIssue(t)
    PROVE  Types'
<1>1. ASSUME NEW d \in Device, LoginRead(t, d) PROVE Types'
  <2>1. /\ req' = [req EXCEPT ![t] = [pc |-> "login", dev |-> d, tok |-> Never,
                                       child |-> Never, saw |-> password]]
        /\ req[t].pc = "idle" /\ requests' \in 0..MaxRequests
    BY Zenon, <1>1, Begins DEF LoginRead, Types, Label
  <2>2. req'[t] \in Request /\ req'[t].pc = "login" /\ req'[t].dev = d
    BY Zenon, <2>1 DEF Types, Requests, Typed, Request, Label
  <2>3. req' \in [Task -> Request] /\ \A u \in Task \ {t} : req'[u] = req[u]
    BY Zenon, <2>1, <2>2 DEF Types, Requests
  <2>4. Requests' /\ Locks'
    BY Zenon, <1>1, <2>1, <2>2, <2>3, RequestsKept, LocksKept
       DEF Types, LoginRead, tokens, Refreshing, Written
  <2> QED BY Zenon, <1>1, <2>1, <2>4 DEF Types, Typed, LoginRead, tokens, user, history
<1>2. CASE LoginIssue(t)
  <2>1. /\ req' \in [Task -> Request] /\ \A u \in Task \ {t} : req'[u] = req[u]
        /\ req'[t].pc = "idle" /\ req[t].pc = "login" /\ req[t].dev \in Device
    BY Zenon, <1>2, Ends DEF LoginIssue, Types, At, Requests
  <2>2. Requests' /\ Locks'
    BY Zenon, <1>2, <2>1, RequestsKept, LocksKept DEF Types, LoginIssue, Refreshing, Written
  <2>3. held' \in [Device -> Time \cup {Never}] /\ before' \subseteq Device
    BY Zenon, <1>2, <2>1 DEF LoginIssue, Types, Typed
  <2> QED BY Zenon, <1>2, <2>2, <2>3 DEF Types, Typed, LoginIssue
<1> QED BY Zenon, <1>1, <1>2

\* The steps of a refresh.
LEMMA TypesRefresh ==
    ASSUME Types, NEW t \in Task,
           \/ \E d \in Device : RefreshLock(t, d)
           \/ RefreshCheck(t) \/ RefreshUser(t) \/ RefreshRefused(t) \/ RefreshRevoke(t)
           \/ RefreshCommit(t)
    PROVE  Types'
<1>1. ASSUME NEW d \in Device, RefreshLock(t, d) PROVE Types'
  <2>0. held[d] \in Time
    BY Zenon, <1>1 DEF RefreshLock, Types, Typed
  <2>1. /\ req' = [req EXCEPT ![t] = [pc |-> "check", dev |-> d, tok |-> held[d],
                                       child |-> Never, saw |-> password]]
        /\ req[t].pc = "idle" /\ requests' \in 0..MaxRequests
    BY Zenon, <1>1, <2>0, Begins DEF RefreshLock, Types, Label
  <2>2. /\ req'[t] \in Request /\ req'[t].pc = "check" /\ req'[t].dev = d
        /\ req'[t].tok = held[d]
    BY Zenon, <2>0, <2>1 DEF Types, Requests, Typed, Request, Label
  <2>3. req' \in [Task -> Request] /\ \A u \in Task \ {t} : req'[u] = req[u]
    BY Zenon, <2>1, <2>2 DEF Types, Requests
  <2>4. Requests'
    BY Zenon, <2>0, <2>2, <2>3, RequestsKept DEF Types, Refreshing, Written
  <2>5. lock' \in [Time -> Task \cup {NoTask}]
    BY Zenon, <1>1 DEF RefreshLock, Types, Typed
  <2>6. ASSUME NEW x \in Time, lock'[x] # NoTask
        PROVE  req'[lock'[x]].tok = x /\ req'[lock'[x]].pc \in Refreshing
    <3>1. CASE x = held[d]
      BY Zenon, <1>1, <2>0, <2>2, <3>1 DEF RefreshLock, Types, Typed, Refreshing
    <3>2. CASE x # held[d]
      <4>1. lock'[x] = lock[x]
        BY Zenon, <1>1, <3>2 DEF RefreshLock, Types, Typed
      <4>2. lock[x] \in Task /\ req[lock[x]].tok = x /\ req[lock[x]].pc \in Refreshing
        BY Zenon, <2>6, <4>1 DEF Types, Typed, Locks
      <4> QED BY Zenon, <2>1, <2>3, <4>1, <4>2 DEF Refreshing
    <3> QED BY Zenon, <3>1, <3>2
  <2>7. Locks'
    BY Zenon, <2>6 DEF Locks
  <2> QED BY Zenon, <1>1, <2>1, <2>4, <2>5, <2>7 DEF Types, Typed, RefreshLock, user, history
<1>2. CASE RefreshCheck(t)
  <2>1. CASE Goto(t, "user") /\ lock' = lock
    <3>1. /\ req' \in [Task -> Request] /\ \A u \in Task \ {t} : req'[u] = req[u]
          /\ req'[t].pc = "user" /\ req'[t].tok = req[t].tok /\ req'[t].dev = req[t].dev
      BY Zenon, <2>1, Goes DEF Types, Label
    <3>2. req[t].tok \in Time /\ req[t].dev \in Device
      BY Zenon, <1>2 DEF RefreshCheck, At, Types, Requests, Refreshing
    <3>3. Requests' /\ Locks'
      BY Zenon, <2>1, <3>1, <3>2, RequestsKept, LocksKept DEF Types, Refreshing, Written
    <3> QED BY Zenon, <1>2, <2>1, <3>3 DEF Types, Typed, RefreshCheck, user, history
  <2>2. CASE End(t) /\ Unlock(t)
    <3>1. Requests' /\ Locks' /\ lock' \in [Time -> Task \cup {NoTask}]
      BY Zenon, <2>2, Ends, RequestsKept, LocksReleased DEF Types, Refreshing, Written
    <3> QED BY Zenon, <1>2, <3>1 DEF Types, Typed, RefreshCheck, user, history
  <2> QED BY Zenon, <1>2, <2>1, <2>2 DEF RefreshCheck
<1>3. CASE RefreshUser(t)
  <2>1. /\ req[t].pc = "user" /\ req[t].tok \in Time /\ req[t].dev \in Device
        /\ clock \in Time /\ password \in Nat
    BY Zenon, <1>3 DEF RefreshUser, At, Types, Requests, Typed, Refreshing
  <2>2. /\ req' \in [Task -> Request] /\ \A u \in Task \ {t} : req'[u] = req[u]
        /\ req'[t].pc = "revoke" /\ req'[t].tok = req[t].tok /\ req'[t].dev = req[t].dev
        /\ req'[t].child = clock
    <3>1. /\ req \in [Task -> Request] /\ "revoke" \in Label
          /\ req' = [req EXCEPT ![t].pc = "revoke", ![t].child = clock, ![t].saw = password]
      BY Zenon, <1>3 DEF RefreshUser, Types, Requests, Label
    <3>2. \A u \in Task \ {t} : req'[u] = req[u]
      BY Zenon, <3>1
    <3>3. req'[t] = [[[req[t] EXCEPT !.pc = "revoke"] EXCEPT !.child = clock] EXCEPT !.saw = password]
      BY <3>1
    <3>4. req[t] \in Request
      BY Zenon, <3>1
    <3>5. /\ req'[t].pc = "revoke" /\ req'[t].tok = req[t].tok /\ req'[t].dev = req[t].dev
          /\ req'[t].child = clock /\ req'[t] \in Request
      BY Zenon, <2>1, <3>1, <3>3, <3>4 DEF Request
    <3>6. req' \in [Task -> Request]
      BY Zenon, <3>1, <3>2, <3>4, <3>5
    <3> QED BY Zenon, <3>2, <3>5, <3>6
  <2>3. Requests'
    <3>1. Requests /\ "revoke" \notin {"hash", "reset"}
      BY Zenon DEF Types
    <3> QED BY Zenon, <2>1, <2>2, <3>1, RequestsKept
  <2>4. Locks'
    <3>1. "revoke" \in Refreshing /\ lock' = lock
      BY Zenon, <1>3 DEF RefreshUser, Refreshing
    <3> QED BY Zenon, <2>2, <3>1, LocksKept
  <2> QED BY Zenon, <1>3, <2>3, <2>4 DEF Types, Typed, RefreshUser, user
<1>4. CASE RefreshRefused(t)
  <2>1. Requests' /\ Locks' /\ lock' \in [Time -> Task \cup {NoTask}]
    BY Zenon, <1>4, Ends, RequestsKept, LocksReleased DEF RefreshRefused, Types, Refreshing, Written
  <2> QED BY Zenon, <1>4, <2>1 DEF Types, Typed, RefreshRefused, user, history
<1>5. CASE RefreshRevoke(t)
  <2>1. /\ req[t].pc = "revoke" /\ req[t].tok \in Time /\ req[t].dev \in Device
        /\ req[t].child \in Time /\ clock + TTL \in 0..(MaxTime + TTL)
    BY <1>5, AccountsAssumption
       DEF RefreshRevoke, At, Types, Requests, Typed, Refreshing, Written, Time
  <2>2. /\ req' \in [Task -> Request] /\ \A u \in Task \ {t} : req'[u] = req[u]
        /\ req'[t].pc = "commit" /\ req'[t].tok = req[t].tok /\ req'[t].dev = req[t].dev
        /\ req'[t].child = req[t].child
    BY Zenon, <1>5, Goes DEF RefreshRevoke, Types, Label
  <2>3. Requests' /\ Locks'
    BY Zenon, <1>5, <2>1, <2>2, RequestsKept, LocksKept
       DEF Types, RefreshRevoke, Refreshing, Written
  <2>4. revoked' \in [Time -> {Never} \cup 0..(MaxTime + TTL)]
    BY Zenon, <1>5, <2>1 DEF RefreshRevoke, Types, Typed
  <2> QED BY Zenon, <1>5, <2>3, <2>4 DEF Types, Typed, RefreshRevoke, user, history
<1>6. CASE RefreshCommit(t)
  <2>1. /\ req[t].tok \in Time /\ req[t].dev \in Device /\ req[t].child \in Time
        /\ Requests' /\ Locks' /\ lock' \in [Time -> Task \cup {NoTask}]
    BY Zenon, <1>6, Ends, RequestsKept, LocksReleased
       DEF RefreshCommit, At, Types, Requests, Refreshing, Written
  <2>2. held' \in [Device -> Time \cup {Never}]
    BY Zenon, <1>6, <2>1 DEF RefreshCommit, Types, Typed
  <2>3. rotated' \in [Time -> Int]
    BY <1>6, <2>1 DEF RefreshCommit, Types, Typed, Time
  <2> QED BY Zenon, <1>6, <2>1, <2>2, <2>3 DEF Types, Typed, RefreshCommit, user
<1> QED BY Zenon, <1>1, <1>2, <1>3, <1>4, <1>5, <1>6

\* The steps of a password reset.
LEMMA TypesReset ==
    ASSUME Types, NEW t \in Task, ResetRead(t) \/ ResetStamp(t) \/ ResetWrite(t)
    PROVE  Types'
<1>1. CASE ResetRead(t)
  <2>0. reset.hash \in Time
    BY Zenon, <1>1 DEF ResetRead, Types, Typed
  <2>1. /\ req' = [req EXCEPT ![t] = [pc |-> "hash", dev |-> NoDevice, tok |-> reset.hash,
                                       child |-> Never, saw |-> password]]
        /\ req[t].pc = "idle" /\ requests' \in 0..MaxRequests
    BY Zenon, <1>1, <2>0, Begins DEF ResetRead, Types, Label
  <2>2. req'[t] \in Request /\ req'[t].pc = "hash" /\ req'[t].tok = reset.hash
    BY Zenon, <2>0, <2>1 DEF Types, Requests, Typed, Request, Label
  <2>3. req' \in [Task -> Request] /\ \A u \in Task \ {t} : req'[u] = req[u]
    BY Zenon, <2>1, <2>2 DEF Types, Requests
  <2>4. Requests' /\ Locks'
    BY Zenon, <1>1, <2>0, <2>1, <2>2, <2>3, RequestsKept, LocksKept
       DEF Types, ResetRead, tokens, Refreshing, Written
  <2> QED BY Zenon, <1>1, <2>1, <2>4 DEF Types, Typed, ResetRead, tokens, history
<1>2. CASE ResetStamp(t)
  <2>1. req[t].pc = "hash" /\ req[t].tok \in Time /\ clock \in Time
    BY Zenon, <1>2 DEF ResetStamp, At, Types, Requests, Typed
  <2>2. /\ req' \in [Task -> Request] /\ \A u \in Task \ {t} : req'[u] = req[u]
        /\ req'[t].pc = "reset" /\ req'[t].tok = req[t].tok /\ req'[t].child = clock
    <3>1. /\ req \in [Task -> Request] /\ "reset" \in Label
          /\ req' = [req EXCEPT ![t].pc = "reset", ![t].child = clock]
      BY Zenon, <1>2 DEF ResetStamp, Types, Requests, Label
    <3> QED BY Zenon, <2>1, <3>1 DEF Request
  <2>3. Requests' /\ Locks'
    BY Zenon, <1>2, <2>1, <2>2, RequestsKept, LocksKept
       DEF Types, ResetStamp, tokens, Refreshing, Written
  <2> QED BY Zenon, <1>2, <2>3 DEF Types, Typed, ResetStamp, tokens, user, history
<1>3. CASE ResetWrite(t)
  <2>1. req[t].pc = "reset" /\ req[t].child \in Time
    BY Zenon, <1>3 DEF ResetWrite, At, Types, Requests
  <2>2. Requests' /\ Locks'
    BY Zenon, <1>3, <2>1, Ends, RequestsKept, LocksKept
       DEF ResetWrite, Types, tokens, Refreshing, Written
  <2>3. reset' \in [hash : Time \cup {Never}, expires : {Never} \cup 0..(MaxTime + ResetTTL)]
    BY Zenon, <1>3 DEF ResetWrite, NoReset
  <2> QED BY <1>3, <2>1, <2>2, <2>3 DEF Types, Typed, ResetWrite, tokens, history
<1> QED BY Zenon, <1>1, <1>2, <1>3

\* Faults.
LEMMA TypesFault ==
    ASSUME Types, NEW t \in Task, Drop(t) \/ LockLost(t)
    PROVE  Types'
<1>1. faults' \in 0..MaxFaults
  BY AccountsAssumption DEF Drop, LockLost, Types, Typed
<1>2. CASE Drop(t)
  <2>1. Requests' /\ Locks' /\ lock' \in [Time -> Task \cup {NoTask}]
    BY Zenon, <1>2, Ends, RequestsKept, LocksReleased DEF Drop, Types, Refreshing, Written
  <2> QED BY Zenon, <1>1, <1>2, <2>1 DEF Types, Typed, Drop, user
<1>3. CASE LockLost(t)
  <2>1. Requests'
    BY Zenon, <1>3 DEF LockLost, Types, Requests
  <2>2. Locks' /\ lock' \in [Time -> Task \cup {NoTask}]
    BY Zenon, <1>3, LocksReleased DEF LockLost
  <2> QED BY Zenon, <1>1, <1>3, <2>1, <2>2 DEF Types, Typed, LockLost, user, history
<1> QED BY Zenon, <1>2, <1>3

\* Every step keeps the types.
LEMMA TypesStep == Types /\ [Next]_vars => Types'
<1> SUFFICES ASSUME Types, [Next]_vars PROVE Types'
  OBVIOUS
<1>1. CASE UNCHANGED vars
  BY Zenon, <1>1 DEF vars, tokens, user, history, Types, Typed, Requests, Locks
<1>2. CASE Next
  BY Zenon, <1>2, TypesQuiet, TypesLogin, TypesRefresh, TypesReset, TypesFault DEF Next, Step
<1> QED BY Zenon, <1>1, <1>2

\* TypeOK in every reachable state.
THEOREM TypeCorrect == Spec => []TypeOK
<1>1. Spec => []Types
  BY InitTyped, TypesStep, PTL DEF Spec, Types
<1>2. Types => TypeOK
  BY Zenon DEF Types, Typed, Requests, Locks, TypeOK, Request, At, Refreshing
<1> QED BY <1>1, <1>2, PTL

----------------------------------------------------------------------------
(* Rotation. *)

\* The record of a revocation covers refresh_ttl seconds from y on, or they are over.
Covers(x, y) == y + TTL <= revoked[x] \/ y + TTL <= clock

\* A rotated token is covered by its record.
Recorded ==
    \A x \in Time : rotated[x] # Never => rotated[x] <= clock /\ Covers(x, rotated[x])

\* So is the token of a refresh that is about to answer.
Announced ==
    \A t \in Task :
        /\ req[t].pc \in Written => req[t].child <= clock
        /\ req[t].pc = "commit" => Covers(req[t].tok, req[t].child)

\* A refresh that passed the check and still has its lock is alone with a token
\* whose last rotation is long ago.
Spaced(t, y) == rotated[req[t].tok] = Never \/ rotated[req[t].tok] + TTL <= y

Cleared ==
    \A t \in Task : lock[req[t].tok] = t =>
        /\ req[t].pc = "user" => Spaced(t, clock)
        /\ req[t].pc \in Written => Spaced(t, req[t].child)

Rotation == Recorded /\ Announced /\ Cleared

\* What is compared is a number.
LEMMA Numbers ==
    ASSUME Types
    PROVE  clock \in Int /\ \A x \in Time : x \in Int /\ revoked[x] \in Int /\ rotated[x] \in Int
BY AccountsAssumption DEF Types, Typed, Time, Never

\* What a step must not change for Rotation to stay, if time and the records only
\* go on: a task that moves is not at one of the places Rotation is about.
LEMMA RotationKept ==
    ASSUME Types, Types', Rotation, clock' >= clock,
           UNCHANGED rotated,
           \A x \in Time : \/ revoked'[x] = revoked[x] \/ revoked'[x] = clock + TTL
                           \/ revoked[x] < clock,
           \A t \in Task : \/ req'[t] = req[t] /\ \A x \in Time : lock'[x] = t => lock[x] = t
                           \/ req'[t].pc \notin {"user"} \cup Written
    PROVE  Rotation'
<1> USE AccountsAssumption
<1>0. ASSUME NEW x \in Time, NEW y \in Int, y <= clock, Covers(x, y)
      PROVE  y <= clock' /\ (y + TTL <= revoked'[x] \/ y + TTL <= clock')
  <2>1. clock \in Int /\ clock' \in Int /\ revoked[x] \in Int /\ revoked'[x] \in Int
    BY DEF Types, Typed, Time, Never
  <2> QED BY <1>0, <2>1 DEF Covers
<1>1. Recorded'
  <2> SUFFICES ASSUME NEW x \in Time, rotated[x] # Never
               PROVE  /\ rotated[x] <= clock'
                      /\ rotated[x] + TTL <= revoked'[x] \/ rotated[x] + TTL <= clock'
    BY Zenon DEF Recorded, Covers
  <2>1. rotated[x] \in Int /\ rotated[x] <= clock /\ Covers(x, rotated[x])
    BY Zenon DEF Rotation, Recorded, Types, Typed
  <2> QED BY Zenon, <1>0, <2>1
<1>2. Announced'
  <2> SUFFICES ASSUME NEW t \in Task, req'[t].pc \in Written
               PROVE  /\ req'[t].child <= clock'
                      /\ req'[t].pc = "commit" =>
                            \/ req'[t].child + TTL <= revoked'[req'[t].tok]
                            \/ req'[t].child + TTL <= clock'
    BY Zenon DEF Announced, Covers, Written
  <2>1. req'[t] = req[t]
    OBVIOUS
  <2>2. req[t].child \in Time /\ req[t].tok \in Time /\ req[t].child <= clock
    BY Zenon, <2>1 DEF Rotation, Announced, Types, Requests, Written, Refreshing
  <2>3. req[t].pc = "commit" => Covers(req[t].tok, req[t].child)
    BY Zenon DEF Rotation, Announced
  <2>4. req[t].child \in Int
    BY <2>2 DEF Time
  <2>5. clock \in Int /\ clock' \in Int
    BY DEF Types, Typed, Time
  <2>6. req[t].child <= clock'
    BY <2>2, <2>4, <2>5
  <2>7. req[t].pc = "commit" => \/ req[t].child + TTL <= revoked'[req[t].tok]
                                \/ req[t].child + TTL <= clock'
    BY Zenon, <1>0, <2>2, <2>3, <2>4
  <2> QED BY Zenon, <2>1, <2>6, <2>7
<1>3. Cleared'
  <2> SUFFICES ASSUME NEW t \in Task, lock'[req'[t].tok] = t, req'[t].pc \in {"user"} \cup Written
               PROVE  /\ req'[t].pc = "user" => Spaced(t, clock)'
                      /\ req'[t].pc \in Written => Spaced(t, req[t].child)'
    BY Zenon DEF Cleared, Spaced
  <2>1. req'[t] = req[t] /\ \A x \in Time : lock'[x] = t => lock[x] = t
    OBVIOUS
  <2>2. req[t].tok \in Time
    BY Zenon, <2>1 DEF Types, Requests, Written, Refreshing
  <2>3. lock[req[t].tok] = t
    BY Zenon, <2>1, <2>2
  <2>4. /\ req[t].pc = "user" => Spaced(t, clock)
        /\ req[t].pc \in Written => Spaced(t, req[t].child)
    BY Zenon, <2>3 DEF Rotation, Cleared
  <2>5. clock \in Int /\ clock' \in Int /\ rotated[req[t].tok] \in Int
    BY <2>2 DEF Types, Typed, Time
  <2>6. Spaced(t, clock) => rotated[req[t].tok] = Never \/ rotated[req[t].tok] + TTL <= clock'
    BY <2>5 DEF Spaced
  <2> QED BY Zenon, <2>1, <2>4, <2>6 DEF Spaced
<1> QED BY Zenon, <1>1, <1>2, <1>3 DEF Rotation

\* Every step but those of a refresh past its check.
LEMMA RotationQuiet ==
    ASSUME Types, Types', Rotation,
           \/ Tick \/ Cleanup \/ ForgotPassword \/ \E d \in Device : Logout(d)
           \/ \E t \in Task, d \in Device : LoginRead(t, d) \/ RefreshLock(t, d)
           \/ \E t \in Task : \/ LoginIssue(t) \/ RefreshRefused(t)
                              \/ ResetRead(t) \/ ResetStamp(t) \/ ResetWrite(t)
                              \/ Drop(t) \/ LockLost(t)
    PROVE  Rotation'
<1>0. clock \in Int /\ clock' \in Int
  BY DEF Types, Typed, Time
<1>1. CASE Tick
  BY <1>0, <1>1, RotationKept DEF Tick, tokens, history
<1>2. CASE Cleanup
  <2>1. \A x \in Time : revoked'[x] = revoked[x] \/ revoked[x] < clock
    BY Zenon, <1>2 DEF Cleanup
  <2> QED BY <1>0, <1>2, <2>1, RotationKept DEF Cleanup, history
<1>3. CASE ForgotPassword
  BY <1>0, <1>3, RotationKept DEF ForgotPassword, tokens, history
<1>4. ASSUME NEW d \in Device, Logout(d) PROVE Rotation'
  <2>1. \A x \in Time : revoked'[x] = revoked[x] \/ revoked'[x] = clock + TTL
    BY Zenon, <1>4 DEF Logout, Types, Typed
  <2> QED BY <1>0, <1>4, <2>1, RotationKept DEF Logout, history
<1>5. ASSUME NEW t \in Task, NEW d \in Device, LoginRead(t, d) PROVE Rotation'
  <2>1. req' = [req EXCEPT ![t] = [pc |-> "login", dev |-> d, tok |-> Never,
                                    child |-> Never, saw |-> password]]
    BY <1>5, Begins DEF LoginRead, Types, Label
  <2>2. req'[t].pc = "login" /\ \A u \in Task \ {t} : req'[u] = req[u]
    BY Zenon, <2>1 DEF Types, Requests
  <2> QED BY <1>0, <1>5, <2>2, RotationKept DEF LoginRead, tokens, history, Written
<1>6. ASSUME NEW t \in Task, NEW d \in Device, RefreshLock(t, d) PROVE Rotation'
  <2>0. held[d] \in Time
    BY Zenon, <1>6 DEF RefreshLock, Types, Typed
  <2>1. req' = [req EXCEPT ![t] = [pc |-> "check", dev |-> d, tok |-> held[d],
                                    child |-> Never, saw |-> password]]
    BY <1>6, <2>0, Begins DEF RefreshLock, Types, Label
  <2>2. req'[t].pc = "check" /\ \A u \in Task \ {t} : req'[u] = req[u]
    BY Zenon, <2>1 DEF Types, Requests
  <2>3. \A u \in Task \ {t}, x \in Time : lock'[x] = u => lock[x] = u
    BY Zenon, <1>6 DEF RefreshLock, Types, Typed
  <2> QED BY <1>0, <1>6, <2>2, <2>3, RotationKept DEF RefreshLock, history, Written
<1>7. ASSUME NEW t \in Task, LoginIssue(t) \/ RefreshRefused(t) \/ ResetWrite(t) \/ Drop(t)
      PROVE  Rotation'
  <2>1. End(t) /\ clock' = clock /\ revoked' = revoked /\ rotated' = rotated
    BY Zenon, <1>7 DEF LoginIssue, RefreshRefused, ResetWrite, Drop, tokens, history
  <2>2. lock' = lock \/ Unlock(t)
    BY Zenon, <1>7 DEF LoginIssue, RefreshRefused, ResetWrite, Drop, tokens
  <2>3. req'[t].pc = "idle" /\ \A u \in Task \ {t} : req'[u] = req[u]
    BY Zenon, <2>1, Ends DEF Types
  <2>4. \A u \in Task \ {t}, x \in Time : lock'[x] = u => lock[x] = u
    BY Zenon, <2>2, AccountsAssumption DEF Unlock
  <2> QED BY <1>0, <2>1, <2>3, <2>4, RotationKept DEF Written
<1>8. ASSUME NEW t \in Task, ResetRead(t) PROVE Rotation'
  <2>0. reset.hash \in Time
    BY Zenon, <1>8 DEF ResetRead, Types, Typed
  <2>1. req' = [req EXCEPT ![t] = [pc |-> "hash", dev |-> NoDevice, tok |-> reset.hash,
                                    child |-> Never, saw |-> password]]
    <3>1. Begin(t, "hash", NoDevice, reset.hash)
      BY Zenon, <1>8 DEF ResetRead
    <3> QED BY <2>0, <3>1, Begins DEF Types, Label
  <2>2. req'[t].pc = "hash" /\ \A u \in Task \ {t} : req'[u] = req[u]
    BY Zenon, <2>1 DEF Types, Requests
  <2> QED BY <1>0, <1>8, <2>2, RotationKept DEF ResetRead, tokens, history, Written
<1>9. ASSUME NEW t \in Task, ResetStamp(t) PROVE Rotation'
  <2>1. req'[t].pc = "reset" /\ \A u \in Task \ {t} : req'[u] = req[u]
    BY Zenon, <1>9 DEF ResetStamp, Types, Requests, Request
  <2>2. UNCHANGED <<clock, revoked, lock, rotated>>
    BY Zenon, <1>9 DEF ResetStamp, tokens, history
  <2> QED BY <1>0, <2>1, <2>2, RotationKept DEF Written
<1>10. ASSUME NEW t \in Task, LockLost(t) PROVE Rotation'
  <2>1. \A u \in Task, x \in Time : lock'[x] = u => lock[x] = u
    BY Zenon, <1>10, AccountsAssumption DEF LockLost, Unlock
  <2> QED BY <1>0, <1>10, <2>1, RotationKept DEF LockLost, history
<1> QED BY Zenon, <1>1, <1>2, <1>3, <1>4, <1>5, <1>6, <1>7, <1>8, <1>9, <1>10

\* A step of the refresh t, which alone has the locks it uses.
LEMMA RotationMoves ==
    ASSUME Types, Types', Rotation, NEW t \in Task, clock' = clock,
           \A x \in Time : revoked'[x] = revoked[x] \/ revoked'[x] = clock + TTL,
           \A u \in Task \ {t} :
               /\ req'[u] = req[u]
               /\ \A x \in Time : lock'[x] = u => lock[x] = u /\ rotated'[x] = rotated[x],
           Recorded',
           req'[t].pc \in Written => req'[t].child <= clock,
           req'[t].pc = "commit" => \/ req'[t].child + TTL <= revoked'[req'[t].tok]
                                    \/ req'[t].child + TTL <= clock,
           lock'[req'[t].tok] = t =>
               /\ req'[t].pc = "user" => Spaced(t, clock)'
               /\ req'[t].pc \in Written => Spaced(t, req[t].child)'
    PROVE  Rotation'
<1> USE AccountsAssumption
<1>1. ASSUME NEW u \in Task \ {t}
      PROVE  /\ req'[u].pc \in Written => req'[u].child <= clock'
             /\ req'[u].pc = "commit" => Covers(req[u].tok, req[u].child)'
  <2>1. req'[u] = req[u] /\ (req[u].pc \in Written => req[u].child <= clock)
    BY Zenon DEF Rotation, Announced
  <2>2. ASSUME req[u].pc = "commit"
        PROVE  \/ req[u].child + TTL <= revoked'[req[u].tok]
               \/ req[u].child + TTL <= clock
    <3>1. req[u].tok \in Time /\ req[u].child \in Time /\ req[u].child <= clock
      <4>1. req[u].child <= clock
        BY Zenon, <2>1, <2>2 DEF Written
      <4>2. req[u].tok \in Time /\ req[u].child \in Time
        BY Zenon, <2>2 DEF Types, Requests, Written, Refreshing
      <4> QED BY Zenon, <4>1, <4>2
    <3>2. Covers(req[u].tok, req[u].child)
      BY Zenon, <2>2 DEF Rotation, Announced
    <3>3. clock \in Int /\ revoked[req[u].tok] \in Int /\ req[u].child \in Int
      BY Zenon, <3>1, Numbers
    <3> QED BY <3>1, <3>2, <3>3 DEF Covers
  <2> QED BY Zenon, <2>1, <2>2 DEF Covers
<1>2. Announced'
  <2>1. \A u \in Task : /\ req'[u].pc \in Written => req'[u].child <= clock'
                        /\ req'[u].pc = "commit" => \/ req'[u].child + TTL <= revoked'[req'[u].tok]
                                                    \/ req'[u].child + TTL <= clock'
    BY Zenon, <1>1 DEF Covers
  <2> QED BY Zenon, <2>1 DEF Announced, Covers
<1>3. ASSUME NEW u \in Task \ {t}, lock'[req'[u].tok] = u
      PROVE  /\ req'[u].pc = "user" => Spaced(u, clock)'
             /\ req'[u].pc \in Written => Spaced(u, req[u].child)'
  <2> SUFFICES ASSUME req[u].pc \in {"user"} \cup Written
               PROVE  /\ req'[u].pc = "user" => Spaced(u, clock)'
                      /\ req'[u].pc \in Written => Spaced(u, req[u].child)'
    OBVIOUS
  <2>1. req'[u] = req[u] /\ req[u].tok \in Time
    BY Zenon DEF Types, Requests, Written, Refreshing
  <2>2. lock[req[u].tok] = u /\ rotated'[req[u].tok] = rotated[req[u].tok]
    BY Zenon, <1>3, <2>1
  <2>3. /\ req[u].pc = "user" => Spaced(u, clock)
        /\ req[u].pc \in Written => Spaced(u, req[u].child)
    BY Zenon, <2>2 DEF Rotation, Cleared
  <2> QED BY Zenon, <2>1, <2>2, <2>3 DEF Spaced
<1>4. Cleared'
  BY Zenon, <1>3 DEF Cleared
<1> QED BY Zenon, <1>2, <1>4 DEF Rotation

\* The steps of a refresh past its check.
LEMMA RotationRefresh ==
    ASSUME Types, Types', Rotation, NEW t \in Task,
           RefreshCheck(t) \/ RefreshUser(t) \/ RefreshRevoke(t) \/ RefreshCommit(t)
    PROVE  Rotation'
<1> USE AccountsAssumption
<1>0. /\ clock \in Int /\ req[t].tok \in Time
      /\ \A x \in Time : rotated[x] \in Int /\ revoked[x] \in Int
  <2>1. req[t].pc \in Refreshing
    BY Zenon DEF RefreshCheck, RefreshUser, RefreshRevoke, RefreshCommit, At, Refreshing
  <2>2. req[t].tok \in Time
    BY Zenon, <2>1 DEF Types, Requests
  <2> QED BY Zenon, <2>2, Numbers
<1>1. CASE RefreshCheck(t)
  <2>0. UNCHANGED <<clock, revoked, rotated>>
    BY Zenon, <1>1 DEF RefreshCheck, history
  <2>1. Recorded'
    BY Zenon, <2>0 DEF Rotation, Recorded, Covers
  <2>2. CASE Goto(t, "user") /\ lock' = lock /\ ~IsRevoked(req[t].tok)
    <3>1. /\ \A u \in Task \ {t} : req'[u] = req[u]
          /\ req'[t].pc = "user" /\ req'[t].tok = req[t].tok
      BY Zenon, <2>2, Goes DEF Types, Label
    <3>2. rotated[req[t].tok] = Never \/ rotated[req[t].tok] + TTL <= clock
      BY <1>0, <2>2 DEF IsRevoked, Rotation, Recorded, Covers
    <3>3. Spaced(t, clock)'
      BY Zenon, <2>0, <3>1, <3>2 DEF Spaced
    <3> QED BY Zenon, <2>0, <2>1, <2>2, <3>1, <3>3, RotationMoves DEF Written
  <2>3. CASE End(t) /\ Unlock(t)
    <3>1. req'[t].pc = "idle" /\ \A u \in Task \ {t} : req'[u] = req[u]
      BY Zenon, <2>3, Ends DEF Types
    <3>2. \A u \in Task \ {t}, x \in Time : lock'[x] = u => lock[x] = u
      BY Zenon, <2>3 DEF Unlock
    <3> QED BY Zenon, <2>0, <2>1, <3>1, <3>2, RotationMoves DEF Written
  <2> QED BY Zenon, <1>1, <2>2, <2>3 DEF RefreshCheck
<1>2. CASE RefreshUser(t)
  <2>0. UNCHANGED <<clock, revoked, rotated, lock>> /\ req[t].pc = "user"
    BY Zenon, <1>2 DEF RefreshUser, At
  <2>1. Recorded'
    BY Zenon, <2>0 DEF Rotation, Recorded, Covers
  <2>2. /\ \A u \in Task \ {t} : req'[u] = req[u]
        /\ req'[t].pc = "revoke" /\ req'[t].tok = req[t].tok /\ req'[t].child = clock
    BY Zenon, <1>2 DEF RefreshUser, Types, Requests, Request
  <2>3. lock[req[t].tok] = t => Spaced(t, clock)
    BY Zenon, <2>0 DEF Rotation, Cleared
  <2>4. lock'[req'[t].tok] = t => Spaced(t, req[t].child)'
    BY Zenon, <2>0, <2>2, <2>3 DEF Spaced
  <2> QED BY <1>0, <2>0, <2>1, <2>2, <2>4, RotationMoves DEF Written
<1>3. CASE RefreshRevoke(t)
  <2>0. UNCHANGED <<clock, rotated, lock>> /\ req[t].pc = "revoke" /\ req[t].child \in Time
    BY Zenon, <1>3 DEF RefreshRevoke, At, history, Types, Requests, Written
  <2>1. /\ \A x \in Time : revoked'[x] = revoked[x] \/ revoked'[x] = clock + TTL
        /\ revoked'[req[t].tok] = clock + TTL
    BY Zenon, <1>0, <1>3 DEF RefreshRevoke, Types, Typed
  <2>2. Recorded'
    BY <1>0, <2>0, <2>1 DEF Rotation, Recorded, Covers
  <2>3. /\ \A u \in Task \ {t} : req'[u] = req[u]
        /\ req'[t].pc = "commit" /\ req'[t].tok = req[t].tok /\ req'[t].child = req[t].child
    BY Zenon, <1>3, Goes DEF RefreshRevoke, Types, Label
  <2>4. req[t].child <= clock /\ (lock[req[t].tok] = t => Spaced(t, req[t].child))
    BY Zenon, <2>0 DEF Rotation, Announced, Cleared, Written
  <2>5. req[t].child + TTL <= revoked'[req[t].tok]
    BY <1>0, <2>0, <2>1, <2>4 DEF Time
  <2>6. lock'[req'[t].tok] = t => Spaced(t, req[t].child)'
    BY Zenon, <2>0, <2>3, <2>4 DEF Spaced
  <2> QED BY Zenon, <2>0, <2>1, <2>2, <2>3, <2>4, <2>5, <2>6, RotationMoves
<1>4. CASE RefreshCommit(t)
  <2>0. UNCHANGED <<clock, revoked>> /\ req[t].pc = "commit" /\ End(t) /\ Unlock(t)
    BY Zenon, <1>4 DEF RefreshCommit, At
  <2>1. req'[t].pc = "idle" /\ \A u \in Task \ {t} : req'[u] = req[u]
    BY Zenon, <2>0, Ends DEF Types
  <2>2. req[t].child <= clock /\ Covers(req[t].tok, req[t].child)
    BY Zenon, <2>0 DEF Rotation, Announced, Written
  <2>3. \A x \in Time : \/ rotated'[x] = rotated[x]
                        \/ x = req[t].tok /\ rotated'[x] = req[t].child /\ lock[x] = t
    BY Zenon, <1>0, <1>4 DEF RefreshCommit, Types, Typed
  <2>4. Recorded'
    BY Zenon, <2>0, <2>2, <2>3 DEF Rotation, Recorded, Covers
  <2>5. \A u \in Task \ {t}, x \in Time :
            lock'[x] = u => lock[x] = u /\ rotated'[x] = rotated[x]
    BY Zenon, <2>0, <2>3 DEF Unlock
  <2> QED BY Zenon, <2>0, <2>1, <2>4, <2>5, RotationMoves DEF Written
<1> QED BY Zenon, <1>1, <1>2, <1>3, <1>4

\* A refresh that answers rotates a token for the first time in TTL seconds.
LEMMA RotatedStep ==
    ASSUME Types, Rotation, RotatedOnce, [Next]_vars
    PROVE  RotatedOnce'
<1>1. ASSUME NEW t \in Task, RefreshCommit(t) PROVE RotatedOnce'
  <2>1. CASE lock[req[t].tok] # t
    BY Zenon, <1>1, <2>1 DEF RefreshCommit, RotatedOnce
  <2>2. CASE lock[req[t].tok] = t
    <3>1. req[t].tok \in Time /\ req[t].child \in Int /\ req[t].pc = "commit"
      BY <1>1 DEF RefreshCommit, At, Types, Requests, Refreshing, Written, Time
    <3>2. rotated[req[t].tok] \in Int /\ Spaced(t, req[t].child)
      BY Zenon, <2>2, <3>1 DEF Rotation, Cleared, Types, Typed, Written
    <3>3. ~(rotated[req[t].tok] # Never /\ req[t].child < rotated[req[t].tok] + TTL)
      BY <3>1, <3>2, AccountsAssumption DEF Spaced
    <3> QED BY Zenon, <1>1, <2>2, <3>3 DEF RefreshCommit, RotatedOnce
  <2> QED BY Zenon, <2>1, <2>2
<1>2. CASE doubled' = doubled
  BY Zenon, <1>2 DEF RotatedOnce
<1>3. doubled' = doubled \/ \E t \in Task : RefreshCommit(t)
  BY Zenon DEF Next, Step, vars, tokens, history, Tick, Cleanup, ForgotPassword, Logout, LoginRead,
         LoginIssue, RefreshLock, RefreshCheck, RefreshUser, RefreshRefused, RefreshRevoke,
         ResetRead, ResetStamp, ResetWrite, Drop, LockLost
<1> QED BY Zenon, <1>1, <1>2, <1>3

\* A refresh token is exchanged at most once in refresh_ttl seconds (refresh in routes.rs,
\* revoke_token and is_token_revoked in revocation.rs), for any number of requests and faults.
THEOREM RotationOnce == Spec => []RotatedOnce
<1>1. Init => Types /\ Rotation /\ RotatedOnce
  <2>1. Init => Rotation /\ RotatedOnce
    BY DEF Init, Idle, Rotation, Recorded, Announced, Cleared, RotatedOnce, Written
  <2> QED BY Zenon, <2>1, InitTyped DEF Types
<1>2. Types /\ Rotation /\ RotatedOnce /\ [Next]_vars => (Types /\ Rotation /\ RotatedOnce)'
  <2> SUFFICES ASSUME Types, Rotation, RotatedOnce, [Next]_vars
               PROVE  (Types /\ Rotation /\ RotatedOnce)'
    OBVIOUS
  <2>1. Types' /\ RotatedOnce'
    BY Zenon, TypesStep, RotatedStep
  <2>2. CASE UNCHANGED vars
    <3>1. UNCHANGED <<clock, revoked, rotated, lock, req>>
      BY Zenon, <2>2 DEF vars, tokens, history
    <3> QED BY <2>1, <3>1, RotationKept, Numbers
  <2>3. CASE Next
    BY Zenon, <2>1, <2>3, RotationQuiet, RotationRefresh DEF Next, Step
  <2> QED BY Zenon, <2>1, <2>2, <2>3
<1> QED BY <1>1, <1>2, PTL DEF Spec

----------------------------------------------------------------------------
(* Sessions and the password. *)

\* Devices whose session the last reset ended.
Cut == before \ carried

\* A refresh that has read the user does not answer such a device.
Sessions ==
    /\ Cut # {} => changed \in Time
    /\ \A t \in Task : req[t].pc \in Written /\ held[req[t].dev] = req[t].tok
                       => req[t].dev \notin Cut
    /\ ResetEndsSessions

\* A step that adds no device to Cut, gives no device of Cut a token, and moves no
\* task to the writing of a refresh.
LEMMA SessionsKept ==
    ASSUME Types, Types', Sessions, changed' = changed, Cut' \subseteq Cut,
           \A d \in Cut' : held'[d] \in {held[d], Never},
           \A t \in Task : \/ req'[t].pc \notin Written
                           \/ /\ req[t].pc \in Written
                              /\ req'[t].dev = req[t].dev /\ req'[t].tok = req[t].tok
    PROVE  Sessions'
<1>1. Cut' # {} => changed' \in Time
  BY Zenon DEF Sessions
<1>2. ASSUME NEW t \in Task, req'[t].pc \in Written, held'[req'[t].dev] = req'[t].tok,
             req'[t].dev \in Cut'
      PROVE  FALSE
  <2>1. req[t].pc \in Written /\ req'[t].dev = req[t].dev /\ req'[t].tok = req[t].tok
    BY Zenon, <1>2
  <2>2. req[t].tok \in Time /\ req[t].tok # Never
    BY <2>1 DEF Types, Requests, Refreshing, Written, Time, Never
  <2>3. held[req[t].dev] = req[t].tok
    BY Zenon, <1>2, <2>1, <2>2
  <2> QED BY Zenon, <1>2, <2>1, <2>3 DEF Sessions
<1>3. ResetEndsSessions'
  <2> SUFFICES ASSUME NEW d \in Cut', held'[d] # Never PROVE held'[d] < changed'
    BY Zenon DEF ResetEndsSessions, Cut
  <2>1. d \in Cut /\ held'[d] = held[d]
    OBVIOUS
  <2> QED BY Zenon, <2>1 DEF Sessions, ResetEndsSessions, Cut
<1> QED BY Zenon, <1>1, <1>2, <1>3 DEF Sessions

\* Steps that change neither the tokens of the devices nor the password.
LEMMA SessionsQuiet ==
    ASSUME Types, Types', Sessions,
           \/ Tick \/ Cleanup \/ ForgotPassword
           \/ \E t \in Task, d \in Device : LoginRead(t, d) \/ RefreshLock(t, d)
           \/ \E t \in Task : \/ RefreshCheck(t) \/ RefreshRefused(t) \/ RefreshRevoke(t)
                              \/ ResetRead(t) \/ ResetStamp(t) \/ Drop(t) \/ LockLost(t)
    PROVE  Sessions'
<1>1. UNCHANGED <<changed, before, carried, held>>
  BY Zenon DEF Tick, Cleanup, ForgotPassword, LoginRead, RefreshLock, RefreshCheck, RefreshRefused,
         RefreshRevoke, ResetRead, ResetStamp, Drop, LockLost, tokens, user
<1>2. Cut' = Cut
  BY Zenon, <1>1 DEF Cut
<1>3. ASSUME NEW t \in Task, \A u \in Task \ {t} : req'[u] = req[u],
             \/ req'[t].pc \notin Written
             \/ /\ req[t].pc \in Written
                /\ req'[t].dev = req[t].dev /\ req'[t].tok = req[t].tok
      PROVE  Sessions'
  BY Zenon, <1>1, <1>2, <1>3, SessionsKept
<1>4. CASE req' = req
  BY Zenon, <1>1, <1>2, <1>4, SessionsKept
<1>5. ASSUME NEW t \in Task, NEW d \in Device, LoginRead(t, d) \/ RefreshLock(t, d)
      PROVE  Sessions'
  <2>1. \/ Begin(t, "login", d, Never)
        \/ Begin(t, "check", d, held[d]) /\ held[d] \in Time
    BY Zenon, <1>5 DEF LoginRead, RefreshLock, Types, Typed
  <2>2. PICK label \in {"login", "check"}, x \in Time \cup {Never} : Begin(t, label, d, x)
    BY Zenon, <2>1
  <2>3. req' = [req EXCEPT ![t] = [pc |-> label, dev |-> d, tok |-> x,
                                    child |-> Never, saw |-> password]]
    BY <2>2, Begins DEF Types, Label
  <2>4. req'[t].pc = label /\ \A u \in Task \ {t} : req'[u] = req[u]
    BY Zenon, <2>3 DEF Types, Requests
  <2> QED BY Zenon, <1>3, <2>4 DEF Written
<1>6. ASSUME NEW t \in Task, RefreshCheck(t) PROVE Sessions'
  <2>1. Goto(t, "user") \/ End(t)
    BY Zenon, <1>6 DEF RefreshCheck
  <2>2. req'[t].pc \in {"user", "idle"} /\ \A u \in Task \ {t} : req'[u] = req[u]
    BY Zenon, <2>1, Goes, Ends DEF Types, Label
  <2> QED BY Zenon, <1>3, <2>2 DEF Written
<1>7. ASSUME NEW t \in Task, RefreshRefused(t) \/ Drop(t) PROVE Sessions'
  <2>1. End(t)
    BY Zenon, <1>7 DEF RefreshRefused, Drop
  <2> QED BY Zenon, <1>3, <2>1, Ends DEF Types, Written
<1>8. ASSUME NEW t \in Task, RefreshRevoke(t) PROVE Sessions'
  <2>1. Goto(t, "commit") /\ req[t].pc = "revoke"
    BY Zenon, <1>8 DEF RefreshRevoke, At
  <2>2. /\ \A u \in Task \ {t} : req'[u] = req[u]
        /\ req'[t].tok = req[t].tok /\ req'[t].dev = req[t].dev
    BY Zenon, <2>1, Goes DEF Types, Label
  <2> QED BY Zenon, <1>3, <2>1, <2>2 DEF Written
<1>9. ASSUME NEW t \in Task, ResetRead(t) PROVE Sessions'
  <2>1. Begin(t, "hash", NoDevice, reset.hash) /\ reset.hash \in Time
    BY Zenon, <1>9 DEF ResetRead, Types, Typed
  <2>2. req' = [req EXCEPT ![t] = [pc |-> "hash", dev |-> NoDevice, tok |-> reset.hash,
                                    child |-> Never, saw |-> password]]
    BY <2>1, Begins DEF Types, Label
  <2>3. req'[t].pc = "hash" /\ \A u \in Task \ {t} : req'[u] = req[u]
    BY Zenon, <2>2 DEF Types, Requests
  <2> QED BY Zenon, <1>3, <2>3 DEF Written
<1>10. ASSUME NEW t \in Task, ResetStamp(t) PROVE Sessions'
  <2>1. req'[t].pc = "reset" /\ \A u \in Task \ {t} : req'[u] = req[u]
    BY Zenon, <1>10 DEF ResetStamp, Types, Requests, Request
  <2> QED BY Zenon, <1>3, <2>1 DEF Written
<1>11. req' = req \/ \E t \in Task : \/ \E d \in Device : LoginRead(t, d) \/ RefreshLock(t, d)
                                     \/ RefreshCheck(t) \/ RefreshRefused(t) \/ RefreshRevoke(t)
                                     \/ ResetRead(t) \/ ResetStamp(t) \/ Drop(t)
  BY Zenon DEF Tick, Cleanup, ForgotPassword, LockLost
<1> QED BY Zenon, <1>4, <1>5, <1>6, <1>7, <1>8, <1>9, <1>10, <1>11

\* Steps that change them.
LEMMA SessionsMoves ==
    ASSUME Types, Types', Sessions,
           \/ \E d \in Device : Logout(d)
           \/ \E t \in Task : \/ LoginIssue(t) \/ RefreshUser(t) \/ RefreshCommit(t)
                              \/ ResetWrite(t)
    PROVE  Sessions'
<1> USE AccountsAssumption
<1>1. ASSUME NEW d \in Device, Logout(d) PROVE Sessions'
  <2>1. UNCHANGED <<changed, before, carried, req>>
    BY Zenon, <1>1 DEF Logout, user
  <2>2. Cut' = Cut /\ \A e \in Cut' : held'[e] \in {held[e], Never}
    BY Zenon, <1>1, <2>1 DEF Cut, Logout, Types, Typed
  <2> QED BY Zenon, <2>1, <2>2, SessionsKept
<1>2. ASSUME NEW t \in Task, LoginIssue(t) PROVE Sessions'
  <2>1. /\ req'[t].pc = "idle" /\ \A u \in Task \ {t} : req'[u] = req[u]
        /\ changed' = changed
    BY Zenon, <1>2, Ends DEF LoginIssue, Types
  <2>2. Cut' = Cut \ {req[t].dev}
    BY Zenon, <1>2 DEF Cut, LoginIssue
  <2>3. \A e \in Cut' : held'[e] = held[e]
    BY Zenon, <1>2, <2>2 DEF LoginIssue, Types, Typed, Cut
  <2> QED BY Zenon, <2>1, <2>2, <2>3, SessionsKept DEF Written
<1>3. ASSUME NEW t \in Task, RefreshUser(t) PROVE Sessions'
  <2>1. UNCHANGED <<changed, before, carried, held>>
    BY Zenon, <1>3 DEF RefreshUser, user
  <2>2. /\ \A u \in Task \ {t} : req'[u] = req[u]
        /\ req'[t].tok = req[t].tok /\ req'[t].dev = req[t].dev
    BY Zenon, <1>3 DEF RefreshUser, Types, Requests, Request
  <2>3. req[t].tok \in Time /\ Current(req[t].tok)
    BY Zenon, <1>3 DEF RefreshUser, At, Types, Requests, Refreshing
  <2>4. held[req[t].dev] = req[t].tok => req[t].dev \notin Cut
    <3> SUFFICES ASSUME held[req[t].dev] = req[t].tok, req[t].dev \in Cut PROVE FALSE
      OBVIOUS
    <3>1. changed \in Time
      BY Zenon DEF Sessions
    <3>2. req[t].tok < changed
      BY <2>3 DEF Sessions, ResetEndsSessions, Cut, Time, Never
    <3> QED BY <2>3, <3>1, <3>2 DEF Current, Time, Never
  <2>5. Cut' = Cut /\ ResetEndsSessions'
    BY Zenon, <2>1 DEF Cut, Sessions, ResetEndsSessions
  <2> QED BY Zenon, <2>1, <2>2, <2>4, <2>5 DEF Sessions
<1>4. ASSUME NEW t \in Task, RefreshCommit(t) PROVE Sessions'
  <2>1. /\ UNCHANGED <<changed, before, carried>> /\ req[t].pc = "commit"
        /\ req'[t].pc = "idle" /\ \A u \in Task \ {t} : req'[u] = req[u]
    BY Zenon, <1>4, Ends DEF RefreshCommit, Types, user, At
  <2>2. Cut' = Cut
    BY Zenon, <2>1 DEF Cut
  <2>3. held[req[t].dev] = req[t].tok => req[t].dev \notin Cut
    BY Zenon, <2>1 DEF Sessions, Written
  <2>4. \A e \in Cut' : held'[e] = held[e]
    BY Zenon, <1>4, <2>2, <2>3 DEF RefreshCommit, Types, Typed, Cut
  <2> QED BY Zenon, <2>1, <2>2, <2>4, SessionsKept DEF Written
<1>5. ASSUME NEW t \in Task, ResetWrite(t) PROVE Sessions'
  <2>1. /\ req'[t].pc = "idle" /\ \A u \in Task \ {t} : req'[u] = req[u]
        /\ held' = held /\ changed' = req[t].child
    BY Zenon, <1>5, Ends DEF ResetWrite, Types, tokens
  <2>2. req[t].child \in Time
    BY Zenon, <1>5 DEF ResetWrite, At, Types, Requests
  <2>3. Cut' = {d \in Device : held[d] # Never /\ ~(held[d] >= req[t].child)
                               /\ d \notin Underway}
    BY Zenon, <1>5 DEF ResetWrite, Cut
  <2>4. ASSUME NEW u \in Task, req'[u].pc \in Written PROVE req'[u].dev \notin Cut'
    <3>1. u # t /\ req'[u] = req[u]
      BY Zenon, <2>1, <2>4 DEF Written
    <3>2. req[u].dev \in Underway
      BY Zenon, <2>4, <3>1 DEF Underway, Written
    <3> QED BY Zenon, <2>3, <3>1, <3>2
  <2>5. ASSUME NEW d \in Cut' PROVE held'[d] < changed'
    <3>1. held[d] \in Time /\ ~(held[d] >= req[t].child)
      BY Zenon, <2>3 DEF Types, Typed
    <3> QED BY <2>1, <2>2, <3>1 DEF Time
  <2>6. ResetEndsSessions'
    BY Zenon, <2>5 DEF ResetEndsSessions, Cut
  <2> QED BY Zenon, <2>1, <2>2, <2>4, <2>6 DEF Sessions
<1> QED BY Zenon, <1>1, <1>2, <1>3, <1>4, <1>5

\* A password reset ends the sessions it finds (reset_password and the comparison with
\* password_changed_at in refresh, routes.rs), apart from the exceptions of the property.
THEOREM SessionsEnd == Spec => []ResetEndsSessions
<1>1. Init => Types /\ Sessions
  <2>1. Init => Sessions
    BY Zenon DEF Init, Idle, Sessions, Cut, ResetEndsSessions, Written
  <2> QED BY Zenon, <2>1, InitTyped DEF Types
<1>2. Types /\ Sessions /\ [Next]_vars => (Types /\ Sessions)'
  <2> SUFFICES ASSUME Types, Sessions, [Next]_vars PROVE (Types /\ Sessions)'
    OBVIOUS
  <2>1. Types'
    BY Zenon, TypesStep
  <2>2. CASE UNCHANGED vars
    <3>1. UNCHANGED <<changed, before, carried, held, req>>
      BY Zenon, <2>2 DEF vars, tokens, user
    <3>2. Cut' = Cut
      BY Zenon, <3>1 DEF Cut
    <3> QED BY Zenon, <2>1, <3>1, <3>2, SessionsKept
  <2>3. CASE Next
    BY Zenon, <2>1, <2>3, SessionsQuiet, SessionsMoves DEF Next, Step
  <2> QED BY Zenon, <2>1, <2>2, <2>3
<1>3. Sessions => ResetEndsSessions
  BY Zenon DEF Sessions
<1> QED BY <1>1, <1>2, <1>3, PTL DEF Spec

----------------------------------------------------------------------------
(* Reset tokens. *)

Resets == {"hash", "reset"}

\* The pending token is unspent; a request with a spent token, or two requests with one
\* token, come from a race.
Tokens ==
    /\ reset.hash # Never => reset.hash \notin spent
    /\ \A t \in Task : req[t].pc \in Resets /\ req[t].tok \in spent => req[t].tok \in raced
    /\ \A t, u \in Task :
           t # u /\ req[t].pc \in Resets /\ req[u].pc \in Resets /\ req[t].tok = req[u].tok
           => req[t].tok \in raced
    /\ ResetOnce

\* A step that spends no token and begins no reset.
LEMMA TokensKept ==
    ASSUME Tokens, UNCHANGED <<spent, raced, respent, reset>>,
           \A t \in Task : \/ req'[t].pc \notin Resets
                           \/ req[t].pc \in Resets /\ req'[t].tok = req[t].tok
    PROVE  Tokens'
BY Zenon DEF Tokens, ResetOnce

\* The other requests.
LEMMA TokensQuiet ==
    ASSUME Types, Tokens,
           \/ Tick \/ Cleanup \/ \E d \in Device : Logout(d)
           \/ \E t \in Task, d \in Device : LoginRead(t, d) \/ RefreshLock(t, d)
           \/ \E t \in Task : \/ LoginIssue(t) \/ RefreshCheck(t) \/ RefreshUser(t)
                              \/ RefreshRefused(t) \/ RefreshRevoke(t) \/ RefreshCommit(t)
                              \/ ResetStamp(t) \/ Drop(t) \/ LockLost(t)
    PROVE  Tokens'
<1>1. UNCHANGED <<spent, raced, respent, reset>>
  BY Zenon DEF Tick, Cleanup, Logout, LoginRead, RefreshLock, LoginIssue, RefreshCheck, RefreshUser,
         RefreshRefused, RefreshRevoke, RefreshCommit, ResetStamp, Drop, LockLost, user
<1>2. ASSUME NEW t \in Task, \A u \in Task \ {t} : req'[u] = req[u],
             req'[t].pc \notin Resets \/ (req[t].pc \in Resets /\ req'[t].tok = req[t].tok)
      PROVE  Tokens'
  BY Zenon, <1>1, <1>2, TokensKept
<1>3. CASE req' = req
  BY Zenon, <1>1, <1>3, TokensKept
<1>4. ASSUME NEW t \in Task, NEW d \in Device, LoginRead(t, d) \/ RefreshLock(t, d)
      PROVE  Tokens'
  <2>1. \/ Begin(t, "login", d, Never)
        \/ Begin(t, "check", d, held[d]) /\ held[d] \in Time
    BY Zenon, <1>4 DEF LoginRead, RefreshLock, Types, Typed
  <2>2. PICK label \in {"login", "check"}, x \in Time \cup {Never} : Begin(t, label, d, x)
    BY Zenon, <2>1
  <2>3. req' = [req EXCEPT ![t] = [pc |-> label, dev |-> d, tok |-> x,
                                    child |-> Never, saw |-> password]]
    BY <2>2, Begins DEF Types, Label
  <2>4. req'[t].pc = label /\ \A u \in Task \ {t} : req'[u] = req[u]
    BY Zenon, <2>3 DEF Types, Requests
  <2> QED BY Zenon, <1>2, <2>4 DEF Resets
<1>5. ASSUME NEW t \in Task, \/ End(t) \/ Goto(t, "user") \/ Goto(t, "commit")
      PROVE  Tokens'
  <2>1. req'[t].pc \in {"idle", "user", "commit"} /\ \A u \in Task \ {t} : req'[u] = req[u]
    BY Zenon, <1>5, Ends, Goes DEF Types, Label
  <2> QED BY Zenon, <1>2, <2>1 DEF Resets
<1>6. ASSUME NEW t \in Task, RefreshUser(t) PROVE Tokens'
  <2>1. req'[t].pc = "revoke" /\ \A u \in Task \ {t} : req'[u] = req[u]
    BY Zenon, <1>6 DEF RefreshUser, Types, Requests, Request
  <2> QED BY Zenon, <1>2, <2>1 DEF Resets
<1>7. ASSUME NEW t \in Task, ResetStamp(t) PROVE Tokens'
  <2>1. /\ req[t].pc = "hash" /\ req'[t].tok = req[t].tok
        /\ \A u \in Task \ {t} : req'[u] = req[u]
    BY Zenon, <1>7 DEF ResetStamp, At, Types, Requests, Request
  <2> QED BY Zenon, <1>2, <2>1 DEF Resets
<1>8. \/ req' = req
      \/ \E t \in Task : \/ \E d \in Device : LoginRead(t, d) \/ RefreshLock(t, d)
                         \/ End(t) \/ Goto(t, "user") \/ Goto(t, "commit")
                         \/ RefreshUser(t) \/ ResetStamp(t)
  BY Zenon DEF Tick, Cleanup, Logout, LockLost, LoginIssue, RefreshCheck, RefreshRefused,
         RefreshRevoke, RefreshCommit, Drop
<1> QED BY Zenon, <1>3, <1>4, <1>5, <1>6, <1>7, <1>8

\* The steps that issue, read and spend a token.
LEMMA TokensMoves ==
    ASSUME Types, Tokens, ForgotPassword \/ \E t \in Task : ResetRead(t) \/ ResetWrite(t)
    PROVE  Tokens'
<1>1. CASE ForgotPassword
  <2>1. /\ UNCHANGED <<raced, respent, req>> /\ spent' = spent \ {clock}
        /\ reset'.hash = clock
    BY Zenon, <1>1 DEF ForgotPassword
  <2> QED BY Zenon, <2>1 DEF Tokens, ResetOnce
<1>2. ASSUME NEW t \in Task, ResetRead(t) PROVE Tokens'
  <2>0. reset.hash \in Time /\ reset.hash # Never /\ reset.hash \notin spent
    BY Zenon, <1>2 DEF ResetRead, Types, Typed, Tokens
  <2>1. UNCHANGED <<spent, respent, reset>> /\ raced \subseteq raced'
    BY Zenon, <1>2 DEF ResetRead
  <2>2. /\ \A u \in Task \ {t} : req'[u] = req[u]
        /\ req'[t].pc = "hash" /\ req'[t].tok = reset.hash
    <3>1. Begin(t, "hash", NoDevice, reset.hash)
      BY Zenon, <1>2 DEF ResetRead
    <3>2. req' = [req EXCEPT ![t] = [pc |-> "hash", dev |-> NoDevice, tok |-> reset.hash,
                                      child |-> Never, saw |-> password]]
      BY <2>0, <3>1, Begins DEF Types, Label
    <3> QED BY Zenon, <3>2 DEF Types, Requests
  <2>3. \A u \in Task : req[u].pc \in Resets /\ req[u].tok = reset.hash => reset.hash \in raced'
    BY Zenon, <1>2 DEF ResetRead, Resetting, Resets
  <2> QED BY Zenon, <2>0, <2>1, <2>2, <2>3 DEF Tokens, ResetOnce
<1>3. ASSUME NEW t \in Task, ResetWrite(t) PROVE Tokens'
  <2>1. /\ raced' = raced /\ spent' = spent \cup {req[t].tok} /\ reset'.hash = Never
        /\ respent' = respent \cup ({req[t].tok} \cap spent) /\ req[t].pc \in Resets
    BY Zenon, <1>3 DEF ResetWrite, NoReset, At, Resets
  <2>2. req'[t].pc \notin Resets /\ \A u \in Task \ {t} : req'[u] = req[u]
    BY Zenon, <1>3, Ends DEF ResetWrite, Types, Resets
  <2> QED BY Zenon, <2>1, <2>2 DEF Tokens, ResetOnce
<1> QED BY Zenon, <1>1, <1>2, <1>3

\* A reset token sets one password unless two requests had read it before the first
\* write (forgot_password and reset_password of routes.rs).
THEOREM ResetUsedOnce == Spec => []ResetOnce
<1>1. Init => Types /\ Tokens
  <2>1. Init => Tokens
    BY DEF Init, Idle, NoReset, Tokens, ResetOnce, Resets
  <2> QED BY Zenon, <2>1, InitTyped DEF Types
<1>2. Types /\ Tokens /\ [Next]_vars => (Types /\ Tokens)'
  <2> SUFFICES ASSUME Types, Tokens, [Next]_vars PROVE (Types /\ Tokens)'
    OBVIOUS
  <2>1. Types'
    BY Zenon, TypesStep
  <2>2. CASE UNCHANGED vars
    <3>1. UNCHANGED <<spent, raced, respent, reset, req>>
      BY Zenon, <2>2 DEF vars, user
    <3> QED BY Zenon, <2>1, <3>1, TokensKept
  <2>3. CASE Next
    BY Zenon, <2>1, <2>3, TokensQuiet, TokensMoves DEF Next, Step
  <2> QED BY Zenon, <2>1, <2>2, <2>3
<1>3. Tokens => ResetOnce
  BY Zenon DEF Tokens
<1> QED BY <1>1, <1>2, <1>3, PTL DEF Spec

\* The two promises of reset_password: the sessions it finds end, except those that a step
\* in progress carried over, and its token sets one password unless two requests raced.
THEOREM Reset == Spec => []ResetHolds
  <1>1. ResetEndsSessions /\ ResetOnce => ResetHolds
    BY Zenon DEF ResetHolds
  <1> QED  BY <1>1, SessionsEnd, ResetUsedOnce, PTL

----------------------------------------------------------------------------
(* Nobody is stranded. *)

\* A refresh that exchanges token x, and one that made x.
Uses(t, x) == req[t].pc \in Refreshing /\ req[t].tok = x
Makes(t, x) == req[t].pc \in Written /\ req[t].child = x

\* A token that was issued once is with one device, or with the request that made it; it
\* is exchanged only for the device that has it.
Single(x) == issues[x] # 2 =>
    /\ \A d, e \in Device : held[d] = x /\ held[e] = x => d = e
    /\ \A t, u \in Task : Makes(t, x) /\ Makes(u, x) => t = u
    /\ \A t \in Task : Makes(t, x) =>
        revoked[x] = Never /\ (\A d \in Device : held[d] # x) /\ (\A u \in Task : ~Uses(u, x))
    /\ \A t \in Task, d \in Device : Uses(t, x) /\ held[d] = x => req[t].dev = d

Unissued(x) == issues[x] = 0 =>
    /\ revoked[x] = Never /\ (\A d \in Device : held[d] # x)
    /\ \A t \in Task : ~Uses(t, x) /\ ~Makes(t, x)

\* A revoked token that a device still has is about to be replaced.
Excused(d) ==
    held[d] # Never /\ d \notin failed /\ issues[held[d]] # 2 /\ IsRevoked(held[d]) =>
        \E t \in Task : req[t].pc = "commit" /\ req[t].dev = d /\ req[t].tok = held[d]

Stands ==
    /\ issues \in [Time -> {0, 1, 2}]
    /\ \A x \in Time : Single(x) /\ Unissued(x)
    /\ \A d \in Device : Excused(d)

LEMMA NeverRevoked == ASSUME Types, NEW x \in Time, revoked[x] = Never PROVE ~IsRevoked(x)
BY AccountsAssumption DEF Types, Typed, Time, Never, IsRevoked

\* A token that nobody gets hold of.
LEMMA SingleKept ==
    ASSUME NEW x \in Time, Single(x), Unissued(x), issues'[x] = issues[x],
           revoked'[x] \in {revoked[x], Never},
           \A d \in Device : held'[d] = x => held[d] = x,
           \A t \in Task : /\ Uses(t, x)' => Uses(t, x) /\ req'[t].dev = req[t].dev
                           /\ Makes(t, x)' => Makes(t, x)
    PROVE  Single(x)' /\ Unissued(x)'
<1>1. Single(x)'
  BY Zenon DEF Single
<1>2. Unissued(x)'
  BY Zenon DEF Unissued
<1> QED BY Zenon, <1>1, <1>2

\* Steps that issue and revoke nothing.
LEMMA StandsKept ==
    ASSUME Types, Stands, UNCHANGED <<held, issues>>, failed \subseteq failed',
           \A x \in Time : /\ revoked'[x] \in {revoked[x], Never}
                           /\ IsRevoked(x)' => IsRevoked(x),
           \A t \in Task :
               /\ req'[t].pc \in Refreshing =>
                      /\ req[t].pc \in Refreshing
                      /\ req'[t].tok = req[t].tok /\ req'[t].dev = req[t].dev
               /\ req'[t].pc \in Written => req[t].pc \in Written /\ req'[t].child = req[t].child
               /\ req[t].pc = "commit" /\ req[t].dev \notin failed' =>
                      req'[t] = req[t] \/ held[req[t].dev] # req[t].tok
    PROVE  Stands'
<1>1. ASSUME NEW x \in Time PROVE Single(x)' /\ Unissued(x)'
  <2>1. Single(x) /\ Unissued(x)
    BY Zenon DEF Stands
  <2>2. ASSUME NEW t \in Task
        PROVE  /\ Uses(t, x)' => Uses(t, x) /\ req'[t].dev = req[t].dev
               /\ Makes(t, x)' => Makes(t, x)
    BY Zenon DEF Uses, Makes
  <2> QED BY Zenon, <2>1, <2>2, SingleKept
<1>2. ASSUME NEW d \in Device PROVE Excused(d)'
  <2> SUFFICES ASSUME held[d] # Never, d \notin failed', issues[held[d]] # 2, IsRevoked(held[d])'
               PROVE  \E t \in Task : req'[t].pc = "commit" /\ req'[t].dev = d /\ req'[t].tok = held[d]
    BY Zenon DEF Excused, IsRevoked
  <2>0. held[d] \in Time \cup {Never}
    BY Zenon DEF Types, Typed
  <2>1. held[d] \in Time
    BY Zenon, <2>0
  <2>2. PICK t \in Task : req[t].pc = "commit" /\ req[t].dev = d /\ req[t].tok = held[d]
    BY Zenon, <2>1 DEF Stands, Excused
  <2> QED BY Zenon, <2>2
<1> QED BY Zenon, <1>1, <1>2 DEF Stands

\* The clock, the cleanup, the requests for a reset and the logout.
LEMMA StandsQuiet ==
    ASSUME Types, Types', Stands, Tick \/ Cleanup \/ ForgotPassword
    PROVE  Stands'
<1>1. UNCHANGED <<held, issues, failed, req>>
  BY Zenon DEF Tick, Cleanup, ForgotPassword, tokens, history
<1>2. ASSUME NEW x \in Time PROVE revoked'[x] \in {revoked[x], Never} /\ (IsRevoked(x)' => IsRevoked(x))
  <2>1. CASE Tick
    <3>1. revoked' = revoked /\ clock' = clock + 1
      BY Zenon, <2>1 DEF Tick, tokens
    <3>2. clock \in Nat /\ revoked[x] \in Int
      BY AccountsAssumption DEF Types, Typed, Time, Never
    <3> QED BY <3>1, <3>2 DEF IsRevoked
  <2>2. CASE Cleanup
    BY <2>2, AccountsAssumption DEF Cleanup, Types, Typed, Time, Never, IsRevoked
  <2>3. CASE ForgotPassword
    BY Zenon, <2>3 DEF ForgotPassword, tokens, IsRevoked
  <2> QED BY Zenon, <2>1, <2>2, <2>3
<1> QED BY Zenon, <1>1, <1>2, StandsKept

LEMMA StandsLogout ==
    ASSUME Types, Types', Stands, NEW d \in Device, Logout(d)
    PROVE  Stands'
<1> DEFINE y == held[d]
<1>1. /\ y \in Time /\ y # Never /\ UNCHANGED <<clock, issues, failed, req>>
      /\ revoked' = [revoked EXCEPT ![y] = clock + TTL] /\ held' = [held EXCEPT ![d] = Never]
  BY Zenon DEF Logout, Types, Typed, history
<1>2. /\ held'[d] = Never /\ \A e \in Device \ {d} : held'[e] = held[e]
      /\ \A x \in Time \ {y} : revoked'[x] = revoked[x]
  BY Zenon, <1>1 DEF Types, Typed
<1>3. ASSUME NEW x \in Time PROVE Single(x)' /\ Unissued(x)'
  <2>0. Single(x) /\ Unissued(x)
    BY Zenon DEF Stands
  <2>1. Never \notin Time
    BY DEF Never, Time
  <2>2. CASE x # y
    BY Zenon, <1>1, <1>2, <2>0, <2>1, <2>2, SingleKept DEF Uses, Makes
  <2>3. CASE x = y
    <3>1. issues[x] # 0 /\ (issues[x] # 2 => \A t \in Task : ~Makes(t, x))
      BY Zenon, <2>0, <2>3 DEF Single, Unissued
    <3>2. /\ \A e \in Device : held'[e] = x => held[e] = x
          /\ \A t \in Task : (Uses(t, x)' <=> Uses(t, x)) /\ (Makes(t, x)' <=> Makes(t, x))
      BY Zenon, <1>1, <1>2, <2>1 DEF Uses, Makes
    <3>3. Single(x)'
      BY Zenon, <1>1, <2>0, <3>1, <3>2 DEF Single
    <3>4. Unissued(x)'
      BY Zenon, <1>1, <3>1 DEF Unissued
    <3> QED BY Zenon, <3>3, <3>4
  <2> QED BY Zenon, <2>2, <2>3
<1>4. ASSUME NEW e \in Device PROVE Excused(e)'
  <2>1. CASE e = d
    BY Zenon, <1>2, <2>1 DEF Excused
  <2>2. CASE e # d
    <3>0. Single(y) /\ Excused(e)
      BY Zenon, <1>1 DEF Stands
    <3>1. held'[e] = held[e] /\ (held[e] = y => issues[y] = 2)
      BY Zenon, <1>1, <1>2, <2>2, <3>0 DEF Single
    <3>2. held[e] # Never => held[e] \in Time
      BY Zenon DEF Types, Typed
    <3> QED BY Zenon, <1>1, <1>2, <3>0, <3>1, <3>2 DEF Excused, IsRevoked
  <2> QED BY Zenon, <2>1, <2>2
<1>5. issues' \in [Time -> {0, 1, 2}]
  BY Zenon, <1>1 DEF Stands
<1> QED BY Zenon, <1>3, <1>4, <1>5 DEF Stands

\* Steps of a request that only move it, and its end.
LEMMA StandsMoves ==
    ASSUME Types, Types', Stands, NEW t \in Task,
           \/ \E d \in Device : LoginRead(t, d)
           \/ RefreshCheck(t) \/ RefreshRefused(t) \/ ResetRead(t) \/ ResetStamp(t) \/ ResetWrite(t)
           \/ Drop(t) \/ LockLost(t)
    PROVE  Stands'
<1>0. Requests /\ Requests'
  BY Zenon DEF Types
<1>1. UNCHANGED <<clock, revoked, held, issues>>
  BY Zenon DEF LoginRead, RefreshCheck, RefreshRefused, ResetRead, ResetStamp, ResetWrite, Drop, LockLost,
               tokens, history
<1>2. failed \subseteq failed'
  BY Zenon DEF LoginRead, RefreshCheck, RefreshRefused, ResetRead, ResetStamp, ResetWrite, Drop, LockLost,
               tokens, history
<1>3. /\ \A u \in Task \ {t} : req'[u] = req[u]
      /\ req'[t].pc \in Refreshing =>
             req[t].pc \in Refreshing /\ req'[t].tok = req[t].tok /\ req'[t].dev = req[t].dev
      /\ req'[t].pc \in Written => req[t].pc \in Written /\ req'[t].child = req[t].child
      /\ req[t].pc = "commit" /\ req[t].dev \notin failed' => req'[t] = req[t]
  <2>1. CASE (\E d \in Device : LoginRead(t, d)) \/ ResetRead(t)
    <3>1. PICK l \in {"login", "hash"}, d \in Device \cup {NoDevice}, x \in Time \cup {Never} : Begin(t, l, d, x)
      BY Zenon, <2>1 DEF LoginRead, ResetRead, Types, Typed
    <3>2. /\ req' = [req EXCEPT ![t] = [pc |-> l, dev |-> d, tok |-> x, child |-> Never, saw |-> password]]
          /\ req[t].pc = "idle"
      BY <3>1, Begins DEF Types, Label
    <3>3. req'[t].pc = l /\ \A u \in Task \ {t} : req'[u] = req[u]
      BY Zenon, <1>0, <3>2 DEF Requests
    <3>4. l \notin Refreshing /\ l \notin Written
      BY DEF Refreshing, Written
    <3> QED BY Zenon, <3>2, <3>3, <3>4
  <2>2. CASE RefreshCheck(t) /\ Goto(t, "user")
    <3>1. "user" \in Label /\ "user" \in Refreshing /\ "user" \notin Written /\ "check" \in Refreshing
      BY DEF Label, Refreshing, Written
    <3>2. req[t].pc = "check"
      BY Zenon, <2>2 DEF RefreshCheck, At
    <3>3. /\ \A u \in Task \ {t} : req'[u] = req[u]
          /\ req'[t].pc = "user" /\ req'[t].tok = req[t].tok /\ req'[t].dev = req[t].dev
      BY Zenon, <1>0, <2>2, <3>1, Goes
    <3> QED BY Zenon, <3>1, <3>2, <3>3
  <2>3. CASE End(t) /\ (req[t].pc = "commit" => req[t].dev \in failed')
    <3>1. "idle" \notin Refreshing /\ "idle" \notin Written
      BY DEF Refreshing, Written
    <3> QED BY Zenon, <1>0, <2>3, <3>1, Ends
  <2>4. CASE ResetStamp(t)
    <3>1. req[t].pc = "hash" /\ req' = [req EXCEPT ![t].pc = "reset", ![t].child = clock]
      BY Zenon, <2>4 DEF ResetStamp, At
    <3>2. req'[t].pc = "reset" /\ \A u \in Task \ {t} : req'[u] = req[u]
      BY <1>0, <3>1 DEF Requests, Request
    <3>3. "reset" \notin Refreshing /\ "reset" \notin Written
      BY DEF Refreshing, Written
    <3> QED BY Zenon, <3>1, <3>2, <3>3
  <2>5. CASE LockLost(t)
    BY Zenon, <2>5 DEF LockLost
  <2>6. RefreshCheck(t) \/ RefreshRefused(t) \/ ResetWrite(t) => req[t].pc \in {"check", "user", "reset"}
    BY Zenon DEF RefreshCheck, RefreshRefused, ResetWrite, At
  <2>7. Drop(t) => End(t) /\ (req[t].pc = "commit" => req[t].dev \in failed')
    BY Zenon DEF Drop, At
  <2> QED BY Zenon, <2>1, <2>2, <2>3, <2>4, <2>5, <2>6, <2>7 DEF RefreshCheck, RefreshRefused, ResetWrite
<1>4. \A x \in Time : revoked'[x] \in {revoked[x], Never} /\ (IsRevoked(x)' => IsRevoked(x))
  BY Zenon, <1>1 DEF IsRevoked
<1> QED BY Zenon, <1>1, <1>2, <1>3, <1>4, StandsKept

\* A device hands in the token it has.
LEMMA StandsLock ==
    ASSUME Types, Types', Stands, NEW t \in Task, NEW d \in Device, RefreshLock(t, d)
    PROVE  Stands'
<1> DEFINE y == held[d]
<1>0. Requests /\ Requests' /\ y \in Time /\ UNCHANGED <<clock, revoked, held, issues, failed>>
  BY Zenon DEF Types, Typed, RefreshLock, history
<1>1. /\ req' = [req EXCEPT ![t] = [pc |-> "check", dev |-> d, tok |-> y, child |-> Never, saw |-> password]]
      /\ req[t].pc = "idle"
  BY Zenon DEF RefreshLock, Begin, At
<1>2. /\ \A u \in Task \ {t} : req'[u] = req[u]
      /\ req'[t].pc = "check" /\ req'[t].dev = d /\ req'[t].tok = y
  BY <1>0, <1>1 DEF Requests
<1>3. "check" \notin Written /\ "check" # "commit"
  BY DEF Written
<1>4. \A u \in Task, x \in Time : Makes(u, x)' => Makes(u, x)
  BY Zenon, <1>2, <1>3 DEF Makes
<1>5. \A u \in Task, x \in Time : Uses(u, x)' => (u = t /\ x = y) \/ (Uses(u, x) /\ req'[u] = req[u])
  <2> SUFFICES ASSUME NEW u \in Task, NEW x \in Time, Uses(u, x)', u # t
               PROVE  Uses(u, x) /\ req'[u] = req[u]
    BY Zenon, <1>2 DEF Uses
  <2> QED BY Zenon, <1>2 DEF Uses
<1>6. ASSUME NEW x \in Time PROVE Single(x)' /\ Unissued(x)'
  <2>0. Single(x) /\ Unissued(x)
    BY Zenon DEF Stands
  <2>1. CASE x # y
    BY Zenon, <1>0, <1>4, <1>5, <2>0, <2>1, SingleKept
  <2>2. CASE x = y
    <3>1. issues[x] # 0 /\ (issues[x] # 2 => \A u \in Task : ~Makes(u, x))
      BY Zenon, <2>0, <2>2 DEF Single, Unissued
    <3>2. Single(x)'
      <4>1. \A u \in Task, e \in Device : issues[x] # 2 /\ Uses(u, x)' /\ held[e] = x => req'[u].dev = e
        <5>1. \A e \in Device : issues[x] # 2 /\ held[e] = x => d = e
          BY Zenon, <2>0, <2>2 DEF Single
        <5>2. \A u \in Task, e \in Device : issues[x] # 2 /\ Uses(u, x) /\ held[e] = x => req[u].dev = e
          BY Zenon, <2>0 DEF Single
        <5>3. SUFFICES ASSUME NEW u \in Task, NEW e \in Device, issues[x] # 2, Uses(u, x)', held[e] = x
                       PROVE  req'[u].dev = e
          OBVIOUS
        <5>4. CASE u = t
          BY Zenon, <1>2, <5>1, <5>3, <5>4
        <5>5. CASE u # t
          BY Zenon, <1>5, <5>2, <5>3, <5>5
        <5> QED BY Zenon, <5>4, <5>5
      <4> QED BY Zenon, <1>0, <1>4, <2>0, <3>1, <4>1 DEF Single
    <3>3. Unissued(x)'
      BY Zenon, <1>0, <3>1 DEF Unissued
    <3> QED BY Zenon, <3>2, <3>3
  <2> QED BY Zenon, <2>1, <2>2
<1>7. ASSUME NEW e \in Device PROVE Excused(e)'
  <2>1. Excused(e)
    BY Zenon DEF Stands
  <2>2. \A u \in Task : req[u].pc = "commit" => req'[u] = req[u]
    BY Zenon, <1>1, <1>2
  <2> QED BY Zenon, <1>0, <2>1, <2>2 DEF Excused, IsRevoked
<1>8. issues' \in [Time -> {0, 1, 2}]
  BY Zenon, <1>0 DEF Stands
<1> QED BY Zenon, <1>6, <1>7, <1>8 DEF Stands

\* The issue of a token of the present second.
LEMMA Issued ==
    ASSUME Types, Stands, Issue(clock)
    PROVE  /\ issues' \in [Time -> {0, 1, 2}]
           /\ \A x \in Time \ {clock} : issues'[x] = issues[x]
           /\ issues'[clock] # 0 /\ (issues'[clock] # 2 => issues[clock] = 0)
<1>1. clock \in Time /\ issues \in [Time -> {0, 1, 2}]
  BY Zenon DEF Types, Typed, Stands
<1>2. issues' = [issues EXCEPT ![clock] = IF @ = 2 THEN 2 ELSE @ + 1]
  BY Zenon DEF Issue
<1> QED BY <1>1, <1>2

LEMMA StandsLogin ==
    ASSUME Types, Types', Stands, NEW t \in Task, LoginIssue(t)
    PROVE  Stands'
<1> DEFINE d == req[t].dev
<1>0. /\ Requests /\ Requests' /\ clock \in Time /\ d \in Device /\ req[t].pc = "login"
      /\ End(t) /\ UNCHANGED <<clock, revoked>>
      /\ held' = [held EXCEPT ![d] = clock] /\ failed' = failed \ {d}
  BY Zenon DEF Types, Typed, Requests, LoginIssue, At
<1>1. /\ held'[d] = clock /\ \A e \in Device \ {d} : held'[e] = held[e]
  BY Zenon, <1>0 DEF Types, Typed
<1>2. /\ \A u \in Task \ {t} : req'[u] = req[u]
      /\ req'[t].pc = "idle"
  BY Zenon, <1>0, Ends
<1>3. "idle" \notin Refreshing /\ "idle" \notin Written
  BY DEF Refreshing, Written
<1>4. \A u \in Task, x \in Time :
          /\ Makes(u, x)' => Makes(u, x)
          /\ Uses(u, x)' => Uses(u, x) /\ req'[u].dev = req[u].dev
  BY Zenon, <1>2, <1>3 DEF Makes, Uses
<1>5. /\ issues' \in [Time -> {0, 1, 2}]
      /\ \A x \in Time \ {clock} : issues'[x] = issues[x]
      /\ issues'[clock] # 0 /\ (issues'[clock] # 2 => issues[clock] = 0)
  BY Zenon, Issued DEF LoginIssue
<1>6. Single(clock) /\ Unissued(clock)
  BY Zenon, <1>0 DEF Stands
<1>7. issues'[clock] # 2 =>
        /\ revoked[clock] = Never /\ (\A e \in Device : held[e] # clock)
        /\ \A u \in Task, x \in Time : x = clock => ~Uses(u, x)' /\ ~Makes(u, x)'
  BY Zenon, <1>0, <1>4, <1>5, <1>6 DEF Unissued
<1>8. ASSUME NEW x \in Time PROVE Single(x)' /\ Unissued(x)'
  <2>0. Single(x) /\ Unissued(x)
    BY Zenon DEF Stands
  <2>1. CASE x # clock
    BY Zenon, <1>0, <1>1, <1>4, <1>5, <2>0, <2>1, SingleKept
  <2>2. CASE x = clock
    <3>1. \A e \in Device : issues'[x] # 2 /\ held'[e] = x => e = d
      BY Zenon, <1>1, <1>7, <2>2
    <3>2. issues'[x] # 2 => \A u \in Task : ~Uses(u, x)' /\ ~Makes(u, x)'
      BY Zenon, <1>7, <2>2
    <3>3. Single(x)'
      BY Zenon, <3>1, <3>2 DEF Single
    <3>4. Unissued(x)'
      BY Zenon, <1>5, <2>2 DEF Unissued
    <3> QED BY Zenon, <3>3, <3>4
  <2> QED BY Zenon, <2>1, <2>2
<1>9. ASSUME NEW e \in Device PROVE Excused(e)'
  <2>1. CASE e = d
    <3>1. issues'[clock] # 2 => ~IsRevoked(clock)
      BY Zenon, <1>0, <1>7, NeverRevoked
    <3> QED BY Zenon, <1>0, <1>1, <2>1, <3>1 DEF Excused, IsRevoked
  <2>2. CASE e # d
    <3>1. Excused(e) /\ held'[e] = held[e] /\ (e \notin failed' => e \notin failed)
      BY Zenon, <1>0, <1>1, <2>2 DEF Stands
    <3>2. held[e] \in Time => held[e] = clock \/ issues'[held[e]] = issues[held[e]]
      BY Zenon, <1>5
    <3>3. held[e] \in Time \cup {Never}
      BY Zenon DEF Types, Typed
    <3>4. \A u \in Task : req[u].pc = "commit" => req'[u] = req[u]
      BY Zenon, <1>0, <1>2
    <3>5. issues'[clock] # 2 => held[e] # clock
      BY Zenon, <1>7
    <3> QED BY Zenon, <1>0, <3>1, <3>2, <3>3, <3>4, <3>5 DEF Excused, IsRevoked
  <2> QED BY Zenon, <2>1, <2>2
<1> QED BY Zenon, <1>5, <1>8, <1>9 DEF Stands

LEMMA StandsUser ==
    ASSUME Types, Types', Stands, NEW t \in Task, RefreshUser(t)
    PROVE  Stands'
<1>0. /\ Requests /\ clock \in Time /\ req[t].pc = "user"
      /\ req' = [req EXCEPT ![t].pc = "revoke", ![t].child = clock, ![t].saw = password]
      /\ UNCHANGED <<clock, revoked, held, failed>>
  BY Zenon DEF Types, Typed, RefreshUser, At
<1>1. /\ \A u \in Task \ {t} : req'[u] = req[u]
      /\ req'[t].pc = "revoke" /\ req'[t].tok = req[t].tok /\ req'[t].dev = req[t].dev
      /\ req'[t].child = clock
  BY <1>0 DEF Requests, Request
<1>2. "user" \in Refreshing /\ "user" # "commit"
  BY DEF Refreshing
<1>3. \A u \in Task, x \in Time : Uses(u, x)' => Uses(u, x) /\ req'[u].dev = req[u].dev
  BY Zenon, <1>0, <1>1, <1>2 DEF Uses
<1>4. \A u \in Task, x \in Time : Makes(u, x)' => (u = t /\ x = clock) \/ Makes(u, x)
  BY Zenon, <1>1 DEF Makes
<1>5. /\ issues' \in [Time -> {0, 1, 2}]
      /\ \A x \in Time \ {clock} : issues'[x] = issues[x]
      /\ issues'[clock] # 0 /\ (issues'[clock] # 2 => issues[clock] = 0)
  BY Zenon, Issued DEF RefreshUser
<1>6. ASSUME NEW x \in Time PROVE Single(x)' /\ Unissued(x)'
  <2>0. Single(x) /\ Unissued(x)
    BY Zenon DEF Stands
  <2>1. CASE x # clock
    BY Zenon, <1>0, <1>3, <1>4, <1>5, <2>0, <2>1, SingleKept
  <2>2. CASE x = clock
    <3>1. issues'[x] # 2 =>
            /\ revoked[x] = Never /\ (\A e \in Device : held[e] # x)
            /\ \A u \in Task : ~Uses(u, x) /\ ~Makes(u, x)
      BY Zenon, <1>5, <2>0, <2>2 DEF Unissued
    <3>2. issues'[x] # 2 => \A u \in Task : ~Uses(u, x)' /\ (Makes(u, x)' => u = t)
      BY Zenon, <1>3, <1>4, <3>1
    <3>3. Single(x)'
      BY Zenon, <1>0, <3>1, <3>2 DEF Single
    <3>4. Unissued(x)'
      BY Zenon, <1>5, <2>2 DEF Unissued
    <3> QED BY Zenon, <3>3, <3>4
  <2> QED BY Zenon, <2>1, <2>2
<1>7. ASSUME NEW e \in Device PROVE Excused(e)'
  <2>1. Excused(e) /\ (clock \in Time => Unissued(clock)) /\ held[e] \in Time \cup {Never}
    BY Zenon DEF Stands, Types, Typed
  <2>2. \A u \in Task : req[u].pc = "commit" => req'[u] = req[u]
    BY Zenon, <1>0, <1>1, <1>2
  <2>3. held[e] = clock => issues'[held[e]] = 2
    BY Zenon, <1>0, <1>5, <2>1 DEF Unissued
  <2>4. held[e] # Never => issues'[held[e]] = 2 \/ issues'[held[e]] = issues[held[e]]
    BY Zenon, <1>5, <2>1, <2>3
  <2> QED BY Zenon, <1>0, <2>1, <2>2, <2>4 DEF Excused, IsRevoked
<1> QED BY Zenon, <1>5, <1>6, <1>7 DEF Stands

LEMMA StandsRevoke ==
    ASSUME Types, Types', Stands, NEW t \in Task, RefreshRevoke(t)
    PROVE  Stands'
<1> DEFINE y == req[t].tok
<1>0. /\ Requests /\ req[t].pc = "revoke" /\ Goto(t, "commit")
      /\ revoked' = [revoked EXCEPT ![y] = clock + TTL]
      /\ UNCHANGED <<clock, held, issues, failed>>
  BY Zenon DEF Types, RefreshRevoke, At, history
<1>1. /\ "revoke" \in Refreshing /\ "revoke" \in Written /\ "commit" \in Label /\ "revoke" # "commit"
  BY DEF Refreshing, Written, Label
<1>2. /\ \A u \in Task \ {t} : req'[u] = req[u]
      /\ req'[t].pc = "commit" /\ req'[t].tok = y /\ req'[t].dev = req[t].dev
      /\ req'[t].child = req[t].child
  BY Zenon, <1>0, <1>1, Goes
<1>3. y \in Time /\ req[t].dev \in Device /\ Uses(t, y)
  BY Zenon, <1>0, <1>1 DEF Requests, Uses
<1>4. \A x \in Time \ {y} : revoked'[x] = revoked[x]
  BY Zenon, <1>0, <1>3 DEF Types, Typed
<1>5. \A u \in Task, x \in Time :
          /\ Makes(u, x)' => Makes(u, x)
          /\ Uses(u, x)' => Uses(u, x) /\ req'[u].dev = req[u].dev
  BY Zenon, <1>0, <1>1, <1>2 DEF Makes, Uses
<1>6. Single(y) /\ Unissued(y)
  BY Zenon, <1>3 DEF Stands
<1>7. ASSUME NEW x \in Time PROVE Single(x)' /\ Unissued(x)'
  <2>0. Single(x) /\ Unissued(x)
    BY Zenon DEF Stands
  <2>1. CASE x # y
    BY Zenon, <1>0, <1>4, <1>5, <2>0, <2>1, SingleKept
  <2>2. CASE x = y
    <3>1. issues[x] # 0 /\ (issues[x] # 2 => \A u \in Task : ~Makes(u, x))
      BY Zenon, <1>3, <2>0, <2>2 DEF Single, Unissued
    <3>2. Single(x)'
      BY Zenon, <1>0, <1>5, <2>0, <3>1 DEF Single
    <3>3. Unissued(x)'
      BY Zenon, <1>0, <3>1 DEF Unissued
    <3> QED BY Zenon, <3>2, <3>3
  <2> QED BY Zenon, <2>1, <2>2
<1>8. ASSUME NEW e \in Device PROVE Excused(e)'
  <2>1. Excused(e) /\ held[e] \in Time \cup {Never}
    BY Zenon DEF Stands, Types, Typed
  <2>2. CASE held[e] = y
    <3>1. issues[y] # 2 => req[t].dev = e
      BY Zenon, <1>3, <1>6, <2>2 DEF Single
    <3> QED BY Zenon, <1>0, <1>2, <2>2, <3>1 DEF Excused
  <2>3. CASE held[e] # y
    <3>1. \A u \in Task : req[u].pc = "commit" => req'[u] = req[u]
      BY Zenon, <1>0, <1>1, <1>2
    <3>2. held[e] # Never => revoked'[held[e]] = revoked[held[e]]
      BY Zenon, <1>4, <2>1, <2>3
    <3> QED BY Zenon, <1>0, <2>1, <3>1, <3>2 DEF Excused, IsRevoked
  <2> QED BY Zenon, <2>2, <2>3
<1>9. issues' \in [Time -> {0, 1, 2}]
  BY Zenon, <1>0 DEF Stands
<1> QED BY Zenon, <1>7, <1>8, <1>9 DEF Stands

LEMMA StandsCommit ==
    ASSUME Types, Types', Stands, NEW t \in Task, RefreshCommit(t)
    PROVE  Stands'
<1> DEFINE y == req[t].tok
           c == req[t].child
           d == req[t].dev
<1>0. /\ Requests /\ req[t].pc = "commit" /\ End(t) /\ UNCHANGED <<clock, revoked, issues>>
  BY Zenon DEF Types, RefreshCommit, At
<1>1. /\ "idle" \notin Refreshing /\ "idle" \notin Written
      /\ "commit" \in Refreshing /\ "commit" \in Written
  BY DEF Refreshing, Written
<1>2. /\ \A u \in Task \ {t} : req'[u] = req[u]
      /\ req'[t].pc = "idle"
  BY Zenon, <1>0, Ends
<1>3. c \in Time /\ d \in Device /\ Makes(t, c)
  BY Zenon, <1>0, <1>1 DEF Requests, Makes
<1>4. \A u \in Task, x \in Time :
          /\ Makes(u, x)' => Makes(u, x) /\ u # t
          /\ Uses(u, x)' => Uses(u, x) /\ req'[u].dev = req[u].dev
  BY Zenon, <1>1, <1>2 DEF Makes, Uses
<1>5. CASE held' = held /\ failed \subseteq failed' /\ (d \in failed' \/ held[d] # y)
  <2>1. \A x \in Time : revoked'[x] \in {revoked[x], Never} /\ (IsRevoked(x)' => IsRevoked(x))
    BY Zenon, <1>0 DEF IsRevoked
  <2>2. ASSUME NEW u \in Task
        PROVE  /\ req'[u].pc \in Refreshing =>
                      /\ req[u].pc \in Refreshing
                      /\ req'[u].tok = req[u].tok /\ req'[u].dev = req[u].dev
               /\ req'[u].pc \in Written => req[u].pc \in Written /\ req'[u].child = req[u].child
               /\ req[u].pc = "commit" /\ req[u].dev \notin failed' =>
                      req'[u] = req[u] \/ held[req[u].dev] # req[u].tok
    BY Zenon, <1>1, <1>2, <1>5
  <2> QED BY Zenon, <1>0, <1>5, <2>1, <2>2, StandsKept
<1>6. CASE held' = [held EXCEPT ![d] = c] /\ failed' = failed
  <2>1. held'[d] = c /\ \A e \in Device \ {d} : held'[e] = held[e]
    BY Zenon, <1>3, <1>6 DEF Types, Typed
  <2>2. Single(c) /\ Unissued(c)
    BY Zenon, <1>3 DEF Stands
  <2>3. /\ issues[c] # 0
        /\ issues[c] # 2 => /\ revoked[c] = Never /\ (\A e \in Device : held[e] # c)
                            /\ \A u \in Task : ~Uses(u, c) /\ (Makes(u, c) => u = t)
    BY Zenon, <1>3, <2>2 DEF Single, Unissued
  <2>4. ASSUME NEW x \in Time PROVE Single(x)' /\ Unissued(x)'
    <3>0. Single(x) /\ Unissued(x)
      BY Zenon DEF Stands
    <3>1. CASE x # c
      BY Zenon, <1>0, <1>4, <2>1, <3>0, <3>1, SingleKept
    <3>2. CASE x = c
      <4>1. issues[x] # 2 => \A u \in Task : ~Uses(u, x)' /\ ~Makes(u, x)'
        BY Zenon, <1>4, <2>3, <3>2
      <4>2. issues[x] # 2 => \A e \in Device : held'[e] = x => e = d
        BY Zenon, <2>1, <2>3, <3>2
      <4>3. Single(x)'
        BY Zenon, <1>0, <4>1, <4>2 DEF Single
      <4>4. Unissued(x)'
        BY Zenon, <1>0, <2>3, <3>2 DEF Unissued
      <4> QED BY Zenon, <4>3, <4>4
    <3> QED BY Zenon, <3>1, <3>2
  <2>5. ASSUME NEW e \in Device PROVE Excused(e)'
    <3>1. CASE e = d
      <4>1. issues[c] # 2 => ~IsRevoked(c)
        BY Zenon, <1>3, <2>3, NeverRevoked
      <4> QED BY Zenon, <1>0, <2>1, <3>1, <4>1 DEF Excused, IsRevoked
    <3>2. CASE e # d
      <4>1. Excused(e) /\ held'[e] = held[e]
        BY Zenon, <2>1, <3>2 DEF Stands
      <4>2. \A u \in Task : req[u].dev = e => req'[u] = req[u]
        BY Zenon, <1>2, <3>2
      <4> QED BY Zenon, <1>0, <1>6, <4>1, <4>2 DEF Excused, IsRevoked
    <3> QED BY Zenon, <3>1, <3>2
  <2>6. issues' \in [Time -> {0, 1, 2}]
    BY Zenon, <1>0 DEF Stands
  <2> QED BY Zenon, <2>4, <2>5, <2>6 DEF Stands
<1>7. \/ held' = held /\ failed' = failed \cup {d}
      \/ held' = [held EXCEPT ![d] = IF @ = y THEN c ELSE @] /\ failed' = failed
  BY Zenon DEF RefreshCommit
<1>8. held[d] # y /\ held' = [held EXCEPT ![d] = IF @ = y THEN c ELSE @] => held' = held
  BY <1>3 DEF Types, Typed
<1>9. held[d] = y /\ held' = [held EXCEPT ![d] = IF @ = y THEN c ELSE @] => held' = [held EXCEPT ![d] = c]
  BY <1>3 DEF Types, Typed
<1> QED BY Zenon, <1>5, <1>6, <1>7, <1>8, <1>9

LEMMA StandsStep == Types /\ Types' /\ Stands /\ [Next]_vars => Stands'
<1> SUFFICES ASSUME Types, Types', Stands, [Next]_vars PROVE Stands'
  OBVIOUS
<1>1. CASE UNCHANGED vars
  <2>1. UNCHANGED <<clock, revoked, held, issues, failed, req>>
    BY Zenon, <1>1 DEF vars, tokens, history
  <2> QED BY Zenon, <2>1, StandsKept DEF IsRevoked
<1>2. CASE Next
  BY Zenon, <1>2, StandsQuiet, StandsLogout, StandsMoves, StandsLock, StandsLogin, StandsUser, StandsRevoke,
     StandsCommit DEF Next, Step
<1> QED BY Zenon, <1>1, <1>2

(***************************************************************************)
(* A device is never left with a revoked token (NotStranded), unless its   *)
(* refresh ended between revoke_token and the answer, or its token is also *)
(* somebody else's: handlers.rs writes the revocation of the old token     *)
(* before it answers with the new one, so that only the request under way  *)
(* stands between the two.                                                 *)
(***************************************************************************)
THEOREM NoneStranded == Spec => []NotStranded
<1>1. Init => Stands
  BY DEF Init, Stands, Single, Unissued, Excused, Uses, Makes, Idle, Refreshing, Written, Time, Never
<1>2. Stands => NotStranded
  BY Zenon DEF Stands, Excused, NotStranded, IsRevoked
<1>3. Init => Types
  BY Zenon, InitTyped DEF Types
<1> QED BY <1>1, <1>2, <1>3, TypesStep, StandsStep, PTL DEF Spec
=============================================================================
