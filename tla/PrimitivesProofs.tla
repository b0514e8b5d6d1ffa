-------------------------- MODULE PrimitivesProofs ---------------------------
(***************************************************************************)
(* Proofs about the mechanisms of Primitives: a Stripe event is handled    *)
(* once (for any set of events, any number of request tasks, faults and    *)
(* cleanups), two processes do not run the same job (for any number of     *)
(* processes, any TTL and any lag), and a read-compare-write loop changes  *)
(* the stock once (for any products, restores, quantities and writers):    *)
(* StockCas implements StockLedger.                                        *)
(***************************************************************************)
EXTENDS Primitives, TLAPS

-----------------------------------------------------------------------------
(* WebhookDelivery. *)

\* The record of an event that no cleanup has purged is there while a handler
\* runs and after one has succeeded, and then no handler runs.
RecordHeld ==
    \A e \in Event \ purged :
        /\ \A w \in Worker : D!Runs(w, e) => e \in recorded /\ applied[e] = 0
        /\ applied[e] > 0 => e \in recorded

DeliveryInv ==
    /\ D!TypeOK
    /\ D!OneHandler
    /\ D!AppliedAtMostOnce
    /\ RecordHeld

USE DeliveryAssumption

LEMMA DeliveryInit == D!Init => DeliveryInv
  BY DEF D!Init, DeliveryInv, D!TypeOK, D!OneHandler, D!AppliedAtMostOnce, RecordHeld,
         D!Runs, D!Running

\* A step that starts no handler, and touches neither records nor effects of
\* an event that is not purged, keeps the three conjuncts.
LEMMA DeliveryFrame ==
  ASSUME DeliveryInv, D!TypeOK',
         purged \subseteq purged',
         \A e \in Event \ purged' :
             (e \in recorded => e \in recorded') /\ applied'[e] = applied[e],
         \A e \in Event \ purged', w \in Worker : D!Runs(w, e)' => D!Runs(w, e)
  PROVE  DeliveryInv'
  <1>1. D!OneHandler'
    BY DEF DeliveryInv, D!OneHandler
  <1>2. D!AppliedAtMostOnce'
    BY DEF DeliveryInv, D!AppliedAtMostOnce
  <1>3. RecordHeld'
    BY DEF DeliveryInv, RecordHeld
  <1> QED  BY <1>1, <1>2, <1>3 DEF DeliveryInv

LEMMA DeliveryTypes == D!TypeOK /\ [D!Next]_D!vars => D!TypeOK'
  <1> SUFFICES ASSUME D!TypeOK, [D!Next]_D!vars  PROVE D!TypeOK'
    OBVIOUS
  <1> USE DEF D!TypeOK, D!Running, D!Finish, D!Fault, D!table, D!tasks, D!stripe, D!history
  <1>1. ASSUME NEW w \in Worker, NEW e \in Event, D!Deliver(w, e)  PROVE D!TypeOK'
    BY <1>1 DEF D!Deliver, D!Accept
  <1>2. ASSUME NEW w \in Worker, NEW e \in Event, D!Redeliver(w, e)  PROVE D!TypeOK'
    BY <1>2 DEF D!Redeliver, D!Accept
  <1>3. ASSUME NEW w \in Worker, D!Store(w)  PROVE D!TypeOK'
    BY <1>3 DEF D!Store
  <1>4. ASSUME NEW w \in Worker, D!HandleOk(w)  PROVE D!TypeOK'
    BY <1>4 DEF D!HandleOk
  <1>5. ASSUME NEW w \in Worker, D!HandleErr(w)  PROVE D!TypeOK'
    BY <1>5 DEF D!HandleErr
  <1>6. ASSUME NEW w \in Worker, D!Undo(w)  PROVE D!TypeOK'
    BY <1>6 DEF D!Undo
  <1>7. ASSUME NEW w \in Worker, D!StoreError(w)  PROVE D!TypeOK'
    BY <1>7 DEF D!StoreError
  <1>8. ASSUME NEW w \in Worker, D!HandleOkUnheard(w)  PROVE D!TypeOK'
    BY <1>8 DEF D!HandleOkUnheard
  <1>9. ASSUME NEW w \in Worker, D!UndoError(w)  PROVE D!TypeOK'
    BY <1>9 DEF D!UndoError
  <1>10. ASSUME NEW w \in Worker, D!Drop(w)  PROVE D!TypeOK'
    BY <1>10 DEF D!Drop
  <1>11. CASE D!CleanupSelect
    BY <1>11 DEF D!CleanupSelect, D!Purgeable
  <1>12. ASSUME NEW e \in Event, D!CleanupDelete(e)  PROVE D!TypeOK'
    BY <1>12 DEF D!CleanupDelete
  <1>13. ASSUME NEW e \in Event, D!Age(e)  PROVE D!TypeOK'
    BY <1>13 DEF D!Age
  <1>14. CASE UNCHANGED D!vars
    BY <1>14 DEF D!vars
  <1> HIDE DEF D!TypeOK, D!Running, D!Finish, D!Fault
  <1> QED
    BY <1>1, <1>2, <1>3, <1>4, <1>5, <1>6, <1>7, <1>8, <1>9, <1>10, <1>11,
       <1>12, <1>13, <1>14 DEF D!Next, D!Task

LEMMA DeliveryStep == DeliveryInv /\ [D!Next]_D!vars => DeliveryInv'
  <1> SUFFICES ASSUME DeliveryInv, [D!Next]_D!vars  PROVE DeliveryInv'
    OBVIOUS
  <1>0. D!TypeOK /\ D!TypeOK'
    BY DeliveryTypes DEF DeliveryInv
  <1> USE DEF D!Runs, D!Running, D!Finish, D!Fault, D!table, D!tasks, D!stripe, D!history
  <1>1. ASSUME NEW w \in Worker, NEW e \in Event, D!Accept(w, e)  PROVE DeliveryInv'
    BY <1>0, <1>1, DeliveryFrame DEF D!Accept, D!TypeOK
  <1>2. ASSUME NEW w \in Worker, D!Store(w)  PROVE DeliveryInv'
    <2>1. CASE ev[w] \in recorded
      BY <1>0, <1>2, <2>1, DeliveryFrame DEF D!Store, D!TypeOK
    <2>2. CASE ev[w] \notin recorded
      <3>1. \A v \in Worker : ev[w] \notin purged => ~D!Runs(v, ev[w])
        BY <1>0, <1>2, <2>2 DEF D!Store, D!TypeOK, DeliveryInv, RecordHeld
      <3>2. ev[w] \notin purged => applied[ev[w]] = 0
        BY <1>0, <1>2, <2>2 DEF D!Store, D!TypeOK, DeliveryInv, RecordHeld
      <3>3. D!OneHandler'
        BY <1>0, <1>2, <2>2, <3>1 DEF D!Store, D!TypeOK, DeliveryInv, D!OneHandler
      <3>4. D!AppliedAtMostOnce'
        BY <1>2, <2>2 DEF D!Store, DeliveryInv, D!AppliedAtMostOnce
      <3>5. RecordHeld'
        BY <1>0, <1>2, <2>2, <3>1, <3>2 DEF D!Store, D!TypeOK, DeliveryInv, RecordHeld
      <3> QED  BY <1>0, <3>3, <3>4, <3>5 DEF DeliveryInv
    <2> QED  BY <2>1, <2>2
  <1>3. ASSUME NEW w \in Worker, task[w] = "handle", D!Finish(w),
               applied' = [applied EXCEPT ![ev[w]] = applied[ev[w]] + 1],
               UNCHANGED <<recorded, purged>>
        PROVE  DeliveryInv'
    <2>1. ev[w] \notin purged => ev[w] \in recorded /\ applied[ev[w]] = 0
      BY <1>0, <1>3 DEF D!TypeOK, DeliveryInv, RecordHeld
    <2>2. \A v \in Worker : v # w /\ ev[w] \notin purged => ~D!Runs(v, ev[w])
      BY <1>0, <1>3 DEF D!TypeOK, DeliveryInv, D!OneHandler
    <2>3. D!OneHandler'
      BY <1>0, <1>3 DEF D!TypeOK, DeliveryInv, D!OneHandler
    <2>4. D!AppliedAtMostOnce'
      BY <1>0, <1>3, <2>1 DEF D!TypeOK, DeliveryInv, D!AppliedAtMostOnce
    <2>5. RecordHeld'
      BY <1>0, <1>3, <2>1, <2>2 DEF D!TypeOK, DeliveryInv, RecordHeld
    <2> QED  BY <1>0, <2>3, <2>4, <2>5 DEF DeliveryInv
  <1>4. ASSUME NEW w \in Worker, D!HandleErr(w)  PROVE DeliveryInv'
    BY <1>0, <1>4, DeliveryFrame DEF D!HandleErr, D!TypeOK
  <1>5. ASSUME NEW w \in Worker, D!Undo(w)  PROVE DeliveryInv'
    <2>1. ev[w] \notin purged => applied[ev[w]] = 0
      BY <1>0, <1>5 DEF D!Undo, D!TypeOK, DeliveryInv, RecordHeld
    <2>2. \A v \in Worker : v # w /\ ev[w] \notin purged => ~D!Runs(v, ev[w])
      BY <1>0, <1>5 DEF D!Undo, D!TypeOK, DeliveryInv, D!OneHandler
    <2>3. D!OneHandler'
      BY <1>0, <1>5 DEF D!Undo, D!TypeOK, DeliveryInv, D!OneHandler
    <2>4. D!AppliedAtMostOnce'
      BY <1>5 DEF D!Undo, DeliveryInv, D!AppliedAtMostOnce
    <2>5. RecordHeld'
      BY <1>0, <1>5, <2>1, <2>2 DEF D!Undo, D!TypeOK, DeliveryInv, RecordHeld
    <2> QED  BY <1>0, <2>3, <2>4, <2>5 DEF DeliveryInv
  <1>5a. ASSUME NEW w \in Worker, D!Finish(w), UNCHANGED <<D!table, applied, purged>>
         PROVE  DeliveryInv'
    BY <1>0, <1>5a, DeliveryFrame DEF D!TypeOK
  <1>6. CASE D!CleanupSelect
    BY <1>0, <1>6, DeliveryFrame DEF D!CleanupSelect
  <1>7. ASSUME NEW e \in Event, D!CleanupDelete(e)  PROVE DeliveryInv'
    BY <1>0, <1>7, DeliveryFrame DEF D!CleanupDelete
  <1>8. ASSUME NEW e \in Event, D!Age(e)  PROVE DeliveryInv'
    BY <1>0, <1>8, DeliveryFrame DEF D!Age
  <1>9. CASE UNCHANGED D!vars
    BY <1>0, <1>9, DeliveryFrame DEF D!vars
  <1>10. ASSUME NEW w \in Worker, D!Task(w)  PROVE DeliveryInv'
    BY <1>2, <1>3, <1>4, <1>5, <1>10 DEF D!Task, D!HandleOk
  <1>11. ASSUME NEW w \in Worker,
                D!StoreError(w) \/ D!HandleOkUnheard(w) \/ D!UndoError(w) \/ D!Drop(w)
         PROVE  DeliveryInv'
    BY <1>3, <1>5a, <1>11 DEF D!StoreError, D!HandleOkUnheard, D!UndoError, D!Drop
  <1> HIDE DEF D!Runs, D!Running, D!Finish, D!Fault
  <1> QED
    BY <1>1, <1>6, <1>7, <1>8, <1>9, <1>10, <1>11 DEF D!Next, D!Deliver, D!Redeliver

\* Every reachable state of the delivery protocol satisfies the invariant.
THEOREM DeliveryInvariance == D!Spec => []DeliveryInv
  BY DeliveryInit, DeliveryStep, PTL DEF D!Spec

\* The state of handle_stripe_webhook and of the table has its type.
THEOREM DeliveryTypeCorrect == D!Spec => []D!TypeOK
  <1>1. DeliveryInv => D!TypeOK
    BY DEF DeliveryInv
  <1> QED  BY <1>1, DeliveryInvariance, PTL

\* An event whose record no cleanup purged is in at most one handler at a time, and takes
\* effect at most once, under any overlap, loss, failure and drop.
THEOREM Once == D!Spec => []HandledOnce
  <1>1. DeliveryInv => HandledOnce
    BY DEF DeliveryInv, HandledOnce, D!HandledOnce
  <1> QED  BY <1>1, DeliveryInvariance, PTL

HIDE DeliveryAssumption

-----------------------------------------------------------------------------
(* CronLock. *)

\* A worker that passed the test on the current lock document saw no running lock
\* or one past the TTL, and time only makes it older.
FreshRead ==
    \A w \in Worker :
        place[w] = "write" /\ w \notin outdated /\ lock = "running" => age >= lag[w] + TTL

\* A job that runs is covered by the lock.
Guarded == \A w \in Worker : excused = 0 /\ place[w] = "job" => lock = "running"

\* At most one job runs.
Alone == \A u, v \in Worker : excused = 0 /\ place[u] = "job" /\ place[v] = "job" => u = v

LockInv == L!TypeOK /\ FreshRead /\ Guarded /\ Alone

\* The initial state satisfies LockInv.
LEMMA LockInit == L!Init => LockInv
BY LockAssumption DEF L!Init, LockInv, L!TypeOK, FreshRead, Guarded, Alone

\* Types are preserved by every step.
LEMMA LockTypes == L!TypeOK /\ [L!Next]_L!vars => L!TypeOK'
<1> SUFFICES ASSUME L!TypeOK, [L!Next]_L!vars PROVE L!TypeOK'
  OBVIOUS
<1> USE LockAssumption DEF L!TypeOK
<1>1. CASE L!Tick
  <2>1. age' \in 0..(TTL + MaxLag)
    BY <1>1 DEF L!Tick
  <2>2. lag' \in [Worker -> 0..MaxLag]
    BY <1>1 DEF L!Tick
  <2> QED BY <1>1, <2>1, <2>2 DEF L!Tick
<1>2. CASE \E w \in Worker : L!Begin(w)
  BY <1>2 DEF L!Begin, L!Goto
<1>3. CASE \E w \in Worker : L!Check(w)
  BY <1>3 DEF L!Check, L!Goto
<1>4. CASE \E w \in Worker : L!Write(w)
  <2> PICK w \in Worker : L!Write(w)
    BY <1>4
  <2>1. age' \in 0..(TTL + MaxLag)
    BY DEF L!Write
  <2>2. excused' \in {0, 1}
    BY DEF L!Write
  <2>3. outdated' \in SUBSET Worker
    BY DEF L!Write
  <2> QED BY <2>1, <2>2, <2>3 DEF L!Write, L!Goto
<1>5. CASE \E w \in Worker : L!Release(w)
  BY <1>5 DEF L!Release, L!Goto
<1>6. CASE \E w \in Worker : L!CheckFails(w)
  BY <1>6 DEF L!CheckFails, L!Goto, L!Fault
<1>7. CASE \E w \in Worker : L!WriteFails(w) \/ L!Crash(w)
  BY <1>7 DEF L!WriteFails, L!Crash, L!Goto, L!Fault
<1>8. CASE UNCHANGED L!vars
  BY <1>8 DEF L!vars
<1> QED BY <1>1, <1>2, <1>3, <1>4, <1>5, <1>6, <1>7, <1>8 DEF L!Next, L!Step

\* A worker that moves, but not to the write or the job, disturbs nothing as long
\* as the lock document stays as it is.
LEMMA Leaves ==
    ASSUME LockInv, NEW w \in Worker, NEW label \in {"idle", "check"},
           place' = [place EXCEPT ![w] = label],
           \A u \in Worker : u # w => lag'[u] = lag[u] /\ (u \in outdated' <=> u \in outdated),
           UNCHANGED <<lock, age, excused>>
    PROVE  FreshRead' /\ Guarded' /\ Alone'
BY DEF LockInv, L!TypeOK, FreshRead, Guarded, Alone

\* Time ages the lock as fast as the time a worker took.
LEMMA TickKeeps ==
    ASSUME LockInv, L!Tick PROVE FreshRead' /\ Guarded' /\ Alone'
<1>1. FreshRead'
  <2> SUFFICES ASSUME NEW w \in Worker, place'[w] = "write", w \notin outdated', lock' = "running"
               PROVE  age' >= lag'[w] + TTL
    BY DEF FreshRead
  <2>1. place[w] = "write" /\ age >= lag[w] + TTL /\ lag'[w] = lag[w] + 1 /\ lag[w] < MaxLag
    BY DEF LockInv, FreshRead, L!Tick, L!TypeOK
  <2> QED BY <2>1, LockAssumption DEF LockInv, L!TypeOK, L!Tick
<1> QED BY <1>1 DEF LockInv, L!Tick, Guarded, Alone

\* The test on the lock document: only a lock that is free or past the TTL lets the
\* worker write.
LEMMA CheckKeeps ==
    ASSUME LockInv, NEW w \in Worker, L!Check(w) PROVE FreshRead' /\ Guarded' /\ Alone'
<1>1. CASE L!Held(w)
  <2>1. place' = [place EXCEPT ![w] = "idle"]
    BY <1>1 DEF L!Check, L!Goto
  <2> QED BY Zenon, <2>1, Leaves DEF L!Check
<1>2. CASE ~L!Held(w)
  <2>1. place' = [place EXCEPT ![w] = "write"]
    BY <1>2 DEF L!Check, L!Goto
  <2>2. lock = "running" => age >= lag[w] + TTL
    BY <1>2, LockAssumption DEF L!Held, LockInv, L!TypeOK
  <2> QED BY <2>1, <2>2 DEF L!Check, LockInv, L!TypeOK, FreshRead, Guarded, Alone
<1> QED BY <1>1, <1>2

\* The write of the lock: if it is not excused, no job was running.
LEMMA WriteKeeps ==
    ASSUME LockInv, NEW w \in Worker, L!Write(w) PROVE FreshRead' /\ Guarded' /\ Alone'
<1>1. FreshRead' /\ Guarded'
  BY DEF L!Write, FreshRead, Guarded
<1>2. ASSUME excused' = 0, NEW u \in Worker, place[u] = "job" PROVE FALSE
  <2>1. u \in L!Running
    BY <1>2 DEF L!Running
  <2>2. excused = 0 /\ w \notin outdated /\ ~L!Overrun
    BY <1>2 DEF L!Write, LockInv, L!TypeOK
  <2>3. lock = "running"
    BY <1>2, <2>2 DEF LockInv, Guarded
  <2>4. age >= lag[w] + TTL
    BY <2>2, <2>3 DEF LockInv, FreshRead, L!Write
  <2>5. age >= TTL
    BY <2>4, LockAssumption DEF LockInv, L!TypeOK
  <2> QED BY <2>1, <2>2, <2>3, <2>5 DEF L!Overrun
<1>3. Alone'
  BY <1>2 DEF Alone, L!Write, L!Goto, LockInv, L!TypeOK
<1> QED BY <1>1, <1>3

\* The release: no job is left, or the lock had been excused.
LEMMA ReleaseKeeps ==
    ASSUME LockInv, NEW w \in Worker, L!Release(w) PROVE FreshRead' /\ Guarded' /\ Alone'
BY DEF L!Release, L!Goto, LockInv, L!TypeOK, FreshRead, Guarded, Alone

\* A failed read makes the worker outdated.
LEMMA CheckFailsKeeps ==
    ASSUME LockInv, NEW w \in Worker, L!CheckFails(w) PROVE FreshRead' /\ Guarded' /\ Alone'
BY DEF L!CheckFails, L!Goto, L!Fault, LockInv, L!TypeOK, FreshRead, Guarded, Alone

\* LockInv is preserved by every step.
LEMMA LockStep == LockInv /\ [L!Next]_L!vars => LockInv'
<1> SUFFICES ASSUME LockInv, [L!Next]_L!vars PROVE FreshRead' /\ Guarded' /\ Alone'
  BY LockTypes DEF LockInv
<1>1. CASE L!Tick
  BY <1>1, TickKeeps
<1>2. ASSUME NEW w \in Worker, L!Begin(w) PROVE FreshRead' /\ Guarded' /\ Alone'
  <2>1. \A u \in Worker : u # w => lag'[u] = lag[u]
    BY <1>2 DEF L!Begin, LockInv, L!TypeOK
  <2> QED BY Zenon, <1>2, <2>1, Leaves DEF L!Begin, L!Goto
<1>3. ASSUME NEW w \in Worker, L!Check(w) \/ L!Write(w) \/ L!Release(w) \/ L!CheckFails(w)
      PROVE  FreshRead' /\ Guarded' /\ Alone'
  BY <1>3, CheckKeeps, WriteKeeps, ReleaseKeeps, CheckFailsKeeps
<1>4. ASSUME NEW w \in Worker, L!WriteFails(w) \/ L!Crash(w)
      PROVE  FreshRead' /\ Guarded' /\ Alone'
  BY <1>4, Leaves DEF L!WriteFails, L!Crash, L!Goto
<1>5. CASE UNCHANGED L!vars
  BY <1>5 DEF L!vars, LockInv, FreshRead, Guarded, Alone
<1> QED BY <1>1, <1>2, <1>3, <1>4, <1>5 DEF L!Next, L!Step

\* LockInv holds throughout.
THEOREM LockInvariance == L!Spec => []LockInv
BY LockInit, LockStep, PTL DEF L!Spec

\* Types: the lock document, its age and the places of the workers.
THEOREM LockTypeCorrect == L!Spec => []L!TypeOK
<1>1. LockInv => L!TypeOK
  BY DEF LockInv
<1> QED BY <1>1, LockInvariance, PTL

\* acquire_cron_lock and release_cron_lock exclude two runs of a job unless the
\* lock was taken on a stale or failed read or from a job that outran the TTL.
THEOREM Exclusion == L!Spec => []Exclusive
<1>1. LockInv => Exclusive
  BY DEF LockInv, Alone, Exclusive, L!Exclusive, L!Running
<1> QED BY <1>1, LockInvariance, PTL

-----------------------------------------------------------------------------
(* StockCas. *)

\* What a restore that met no database error knows.  Every attempt it has
\* made was spoilt by a write of its own, and what it read is still the stock
\* unless somebody has written since.
Progress(r) ==
    r \notin erred =>
        /\ pc[r] = "read" => attempt[r] <= writes[ProductOf[r]] - base[r]
        /\ pc[r] = "cas" =>
            /\ attempt[r] <= readAt[r] - base[r]
            /\ readAt[r] <= writes[ProductOf[r]]
            /\ readAt[r] = writes[ProductOf[r]] => seen[r] = stock[ProductOf[r]]
        /\ pc[r] = "refused" => Attempts <= writes[ProductOf[r]] - base[r]

AttemptsLeft(r) ==
    /\ pc[r] = "idle" => attempt[r] = 0
    /\ pc[r] \in {"read", "cas"} => attempt[r] < Attempts

Kept(r) == Progress(r) /\ AttemptsLeft(r)

Inv ==
    /\ TypeOK
    /\ \A r \in Restorer : Kept(r)

USE RestorerAssumption, AmountAssumption, BoundAssumption DEF Attempts

LEMMA InitInv == Init => Inv
  <1> SUFFICES ASSUME Init  PROVE Inv
    OBVIOUS
  <1>1. stock \in [Product -> Nat]
    BY Zenon DEF Init
  <1>2. TypeOK
    BY <1>1 DEF Init, TypeOK
  <1>3. ASSUME NEW r \in Restorer  PROVE Kept(r)
    BY DEF Init, Kept, Progress, AttemptsLeft
  <1> QED  BY <1>2, <1>3 DEF Inv

\* A step of somebody else that only adds writes to products.
LEMMA OtherWrite ==
  ASSUME Inv, TypeOK', NEW r \in Restorer,
         NEW p \in Product, NEW n \in Nat, Write(p, n),
         pc'[r] = pc[r], seen'[r] = seen[r], attempt'[r] = attempt[r],
         base'[r] = base[r], readAt'[r] = readAt[r], erred' = erred
  PROVE  Kept(r)'
  <1>1. ProductOf[r] \in Product
    OBVIOUS
  <1>2. CASE ProductOf[r] = p
    BY <1>1, <1>2 DEF Inv, TypeOK, Kept, Progress, AttemptsLeft, Write
  <1>3. CASE ProductOf[r] # p
    BY <1>1, <1>3 DEF Inv, TypeOK, Kept, Progress, AttemptsLeft, Write
  <1> QED  BY <1>2, <1>3

LEMMA WriteType ==
  ASSUME TypeOK, NEW p \in Product, NEW n \in Nat, Write(p, n)
  PROVE  stock' \in [Product -> Nat] /\ writes' \in [Product -> Nat]
  BY DEF TypeOK, Write

LEMMA TypeStep == Inv /\ [Next]_vars => TypeOK'
  <1> SUFFICES ASSUME Inv, [Next]_vars  PROVE TypeOK'
    OBVIOUS
  <1>0. TypeOK
    BY DEF Inv
  <1>1. ASSUME NEW r \in Restorer, Begin(r)  PROVE TypeOK'
    BY <1>0, <1>1 DEF Begin, TypeOK
  <1>2. ASSUME NEW r \in Restorer, Read(r)  PROVE TypeOK'
    BY <1>0, <1>2 DEF Read, TypeOK
  <1>3. ASSUME NEW r \in Restorer, ReadError(r)  PROVE TypeOK'
    BY <1>0, <1>3 DEF ReadError, TypeOK
  <1>4. ASSUME NEW r \in Restorer, CasHit(r)  PROVE TypeOK'
    <2>1. seen[r] + Quantity[r] \in Nat /\ ProductOf[r] \in Product
      BY <1>0 DEF TypeOK
    <2> QED  BY <1>0, <1>4, <2>1, WriteType DEF CasHit, TypeOK
  <1>5. ASSUME NEW r \in Restorer, CasMiss(r)  PROVE TypeOK'
    <2>1. attempt[r] + 1 \in 0 .. Attempts
      BY <1>0, <1>5 DEF CasMiss, TypeOK, Inv, Kept, AttemptsLeft
    <2> QED  BY <1>0, <1>5, <2>1 DEF CasMiss, TypeOK
  <1>6. ASSUME NEW r \in Restorer, CasError(r)  PROVE TypeOK'
    BY <1>0, <1>6 DEF CasError, TypeOK
  <1>7. ASSUME NEW p \in Product, NEW n \in Amount, CheckoutTake(p, n)  PROVE TypeOK'
    <2>1. stock[p] - n \in Nat
      BY <1>0, <1>7 DEF CheckoutTake, TypeOK
    <2> QED  BY <1>0, <1>7, <2>1, WriteType DEF CheckoutTake, TypeOK
  <1>8. ASSUME NEW p \in Product, NEW n \in Amount, ExpiryAdd(p, n)  PROVE TypeOK'
    <2>1. stock[p] + n \in Nat
      BY <1>0 DEF TypeOK
    <2> QED  BY <1>0, <1>8, <2>1, WriteType DEF ExpiryAdd, TypeOK
  <1>9. ASSUME NEW p \in Product, NEW n \in Amount, SellerEdit(p, n)  PROVE TypeOK'
    BY <1>0, <1>9, WriteType DEF SellerEdit, TypeOK
  <1>10. CASE UNCHANGED vars
    BY <1>0, <1>10 DEF vars, TypeOK
  <1> QED
    BY <1>1, <1>2, <1>3, <1>4, <1>5, <1>6, <1>7, <1>8, <1>9, <1>10 DEF Next, Restore

LEMMA StepInv == Inv /\ [Next]_vars => Inv'
  <1> SUFFICES ASSUME Inv, [Next]_vars, NEW q \in Restorer
               PROVE  Kept(q)'
    BY TypeStep DEF Inv
  <1>0. TypeOK /\ TypeOK'
    BY TypeStep DEF Inv
  <1>00. /\ Kept(q)
         /\ ProductOf[q] \in Product
    BY DEF Inv
  <1>1. ASSUME NEW r \in Restorer, Begin(r)  PROVE Kept(q)'
    BY <1>0, <1>00, <1>1 DEF Begin, TypeOK, Kept, Progress, AttemptsLeft
  <1>2. ASSUME NEW r \in Restorer, Read(r)  PROVE Kept(q)'
    BY <1>0, <1>00, <1>2 DEF Read, TypeOK, Kept, Progress, AttemptsLeft
  <1>3. ASSUME NEW r \in Restorer, ReadError(r)  PROVE Kept(q)'
    BY <1>0, <1>00, <1>3 DEF ReadError, TypeOK, Kept, Progress, AttemptsLeft
  <1>4. ASSUME NEW r \in Restorer, CasHit(r)  PROVE Kept(q)'
    <2>1. CASE q = r
      BY <1>0, <1>4, <2>1 DEF CasHit, TypeOK, Kept, Progress, AttemptsLeft
    <2>2. CASE q # r
      <3>1. seen[r] + Quantity[r] \in Nat /\ ProductOf[r] \in Product
        BY <1>0 DEF TypeOK
      <3> QED  BY <1>0, <1>4, <2>2, <3>1, OtherWrite DEF CasHit, TypeOK
    <2> QED  BY <2>1, <2>2
  <1>5. ASSUME NEW r \in Restorer, CasMiss(r)  PROVE Kept(q)'
    BY <1>0, <1>00, <1>5 DEF CasMiss, TypeOK, Kept, Progress, AttemptsLeft
  <1>6. ASSUME NEW r \in Restorer, CasError(r)  PROVE Kept(q)'
    BY <1>0, <1>00, <1>6 DEF CasError, TypeOK, Kept, Progress, AttemptsLeft
  <1>7. ASSUME NEW p \in Product, NEW n \in Amount,
               CheckoutTake(p, n) \/ ExpiryAdd(p, n) \/ SellerEdit(p, n)
        PROVE  Kept(q)'
    <2>1. PICK m \in Nat : Write(p, m)
      <3>1. stock[p] + n \in Nat /\ n \in Nat
        BY <1>0 DEF TypeOK
      <3>2. stock[p] >= n => stock[p] - n \in Nat
        BY <1>0 DEF TypeOK
      <3> QED  BY <1>7, <3>1, <3>2 DEF CheckoutTake, ExpiryAdd, SellerEdit
    <2>2. UNCHANGED <<pc, seen, attempt, base, readAt, erred>>
      BY <1>7 DEF CheckoutTake, ExpiryAdd, SellerEdit
    <2> QED  BY <1>0, <2>1, <2>2, OtherWrite
  <1>8. CASE UNCHANGED vars
    BY <1>00, <1>8 DEF vars, Kept, Progress, AttemptsLeft
  <1> QED
    BY <1>1, <1>2, <1>3, <1>4, <1>5, <1>6, <1>7, <1>8 DEF Next, Restore

\* Every reachable state of the restore loops satisfies the invariant.
THEOREM Invariance == Spec => []Inv
  BY InitInv, StepInv, PTL DEF Spec

\* The stock of a product is a natural number in every reachable state: no
\* interleaving of checkouts, restores, expiries and edits makes it negative.
THEOREM TypeCorrect == Spec => []TypeOK
  <1>1. Inv => TypeOK
    BY DEF Inv
  <1> QED  BY <1>1, Invariance, PTL

\* The three attempts fail only if three other writers got in between.
THEOREM Contention == Spec => []RefusedOnlyUnderContention
  <1>1. Inv => RefusedOnlyUnderContention
    BY DEF Inv, RefusedOnlyUnderContention, Kept, Progress, TypeOK
  <1> QED  BY <1>1, Invariance, PTL

-----------------------------------------------------------------------------
(* Refinement. *)

outcomes == [r \in Restorer |-> Outcome(r)]

LEMMA LedgerInitial == Init => Ledger!LedgerInit
  <1> SUFFICES ASSUME Init  PROVE Ledger!LedgerInit
    OBVIOUS
  <1>1. stock \in [Product -> Nat]
    BY Zenon DEF Init
  <1>2. \A r \in Restorer : Outcome(r) = "none"
    BY DEF Init, Outcome
  <1> QED  BY <1>1, <1>2 DEF Ledger!LedgerInit

\* A step that leaves every restore where its caller sees it.
LEMMA SameOutcomes ==
  ASSUME \A r \in Restorer : Outcome(r)' = Outcome(r)
  PROVE  outcomes' = outcomes
  BY DEF outcomes

\* A step of one restore that changes what its caller sees.
LEMMA OneOutcome ==
  ASSUME TypeOK, NEW r \in Restorer, NEW c \in {"read", "cas", "done", "refused"},
         pc' = [pc EXCEPT ![r] = c]
  PROVE  outcomes' = [outcomes EXCEPT ![r] =
                          IF c \in {"read", "cas"} THEN "asked" ELSE c]
  <1>1. pc'[r] = c
    BY DEF TypeOK
  <1>2. Outcome(r)' = IF c \in {"read", "cas"} THEN "asked" ELSE c
    BY <1>1 DEF Outcome
  <1>3. \A q \in Restorer \ {r} : Outcome(q)' = Outcome(q)
    BY DEF Outcome, TypeOK
  <1> QED  BY Zenon, <1>2, <1>3 DEF outcomes

LEMMA LedgerStep == Inv /\ [Next]_vars => [Ledger!LedgerNext]_(Ledger!ledger)
  <1> SUFFICES ASSUME Inv, [Next]_vars
               PROVE  Ledger!LedgerNext \/ UNCHANGED <<stock, outcomes>>
    BY DEF Ledger!ledger, outcomes
  <1>0. TypeOK
    BY DEF Inv
  <1>1. ASSUME NEW r \in Restorer, Begin(r)  PROVE Ledger!Ask(r)
    <2>1. outcomes[r] = "none" /\ stock' = stock
      BY <1>1 DEF Begin, outcomes, Outcome
    <2>2. outcomes' = [outcomes EXCEPT ![r] = "asked"]
      BY Zenon, <1>0, <1>1, OneOutcome DEF Begin
    <2> QED  BY <2>1, <2>2 DEF Ledger!Ask, outcomes
  <1>2. ASSUME NEW r \in Restorer, Read(r) \/ ReadError(r)
        PROVE  UNCHANGED <<stock, outcomes>>
    <2>1. outcomes[r] = "asked" /\ stock' = stock
      BY <1>2 DEF Read, ReadError, outcomes, Outcome
    <2>2. outcomes' = [outcomes EXCEPT ![r] = "asked"]
      BY <1>0, <1>2, OneOutcome DEF Read, ReadError
    <2> QED  BY Zenon, <2>1, <2>2 DEF outcomes
  <1>3. ASSUME NEW r \in Restorer, CasHit(r)  PROVE Ledger!Give(r)
    <2>1. outcomes[r] = "asked"
      BY <1>3 DEF CasHit, outcomes, Outcome
    <2>2. outcomes' = [outcomes EXCEPT ![r] = "done"]
      BY Zenon, <1>0, <1>3, OneOutcome DEF CasHit
    <2>3. stock' = [stock EXCEPT ![ProductOf[r]] = stock[ProductOf[r]] + Quantity[r]]
      BY <1>3 DEF CasHit, Write
    <2> QED  BY <2>1, <2>2, <2>3 DEF Ledger!Give, outcomes
  <1>4. ASSUME NEW r \in Restorer, CasMiss(r) \/ CasError(r)
        PROVE  Ledger!GiveUp(r) \/ UNCHANGED <<stock, outcomes>>
    <2>1. outcomes[r] = "asked" /\ stock' = stock
      BY <1>4 DEF CasMiss, CasError, outcomes, Outcome
    <2>2. pc' = [pc EXCEPT ![r] = "read"] \/ pc' = [pc EXCEPT ![r] = "refused"]
      BY <1>4 DEF CasMiss, CasError
    <2>3. CASE pc' = [pc EXCEPT ![r] = "read"]
      <3>1. outcomes' = [outcomes EXCEPT ![r] = "asked"]
        BY Zenon, <1>0, <2>3, OneOutcome
      <3> QED  BY Zenon, <2>1, <3>1 DEF outcomes
    <2>4. CASE pc' = [pc EXCEPT ![r] = "refused"]
      <3>1. outcomes' = [outcomes EXCEPT ![r] = "refused"]
        BY Zenon, <1>0, <2>4, OneOutcome
      <3> QED  BY <2>1, <3>1 DEF Ledger!GiveUp, outcomes
    <2> QED  BY <2>2, <2>3, <2>4
  <1>5. ASSUME NEW p \in Product, NEW n \in Amount,
               CheckoutTake(p, n) \/ ExpiryAdd(p, n) \/ SellerEdit(p, n)
        PROVE  Ledger!Take(p, n) \/ Ledger!Add(p, n) \/ Ledger!Replace(p, n)
    <2>1. outcomes' = outcomes
      BY <1>5, SameOutcomes DEF CheckoutTake, ExpiryAdd, SellerEdit, Outcome
    <2> QED
      BY <1>5, <2>1 DEF CheckoutTake, ExpiryAdd, SellerEdit, Write,
                        Ledger!Take, Ledger!Add, Ledger!Replace, outcomes
  <1>6. CASE UNCHANGED vars
    BY <1>6, SameOutcomes DEF vars, Outcome
  <1> QED
    BY <1>1, <1>2, <1>3, <1>4, <1>5, <1>6 DEF Next, Restore, Ledger!LedgerNext

\* The loops around update_document_cas, together with the other writers of
\* stockQuantity, implement the ledger.
THEOREM Refinement == Spec => ImplementsLedger
  BY LedgerInitial, Invariance, LedgerStep, PTL DEF Spec, ImplementsLedger, Ledger!LedgerSpec
==============================================================================
