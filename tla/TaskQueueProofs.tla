--------------------------- MODULE TaskQueueProofs ---------------------------
(***************************************************************************)
(* Proofs about TaskQueue for any number of tasks, workers, queues, faults *)
(* and resets.  The invariants of the specification are not inductive: a   *)
(* worker that reports late can do so long after its claim, so the         *)
(* induction needs to know what a worker that is still about to report     *)
(* implies about the row (Reporting, Undisturbed).                         *)
(***************************************************************************)
EXTENDS TaskQueue, FiniteSetTheorems, TLAPS

\* Two workers that work on the same task hold different claims of it.
ClaimsAreExclusive ==
    \A v, w \in Worker : \A t \in Task :
        v # w /\ Holds(v, t) /\ Holds(w, t) => held[v] # held[w]

Limit(t) == IF max_retries[t] = 0 THEN 1 ELSE max_retries[t]

\* A row that was never inserted has its initial contents.
Fresh ==
    \A t \in Task : t \notin enqueued =>
        /\ status[t] = "absent"
        /\ retry_count[t] = 0
        /\ max_retries[t] = 0
        /\ \A w \in Worker : pc[w] # "loop" => task[w] # t

\* A worker inside an iteration works on a real task, and what it holds is one
\* of the claims made so far; it reports success only after one.
Reporting ==
    \A w \in Worker :
        /\ pc[w] # "loop" => task[w] \in Task
        /\ pc[w] \in Holding => held[w] \in 1 .. claims[task[w]]
        /\ pc[w] = "complete" => task[w] \in succeeded

\* While nobody reclaims or resets a task, a worker that holds it holds the
\* latest claim of a row that is running, and a row that can be claimed has
\* attempts left, as does one that a fail() is about to requeue.
Undisturbed ==
    \A t \in Task : disturbed[t] = 0 =>
        /\ \A w \in Worker : Holds(w, t) =>
              /\ status[t] = "running"
              /\ held[w] = claims[t]
              /\ pc[w] = "requeue" /\ verdict[w] = "retry" => retry_count[t] < Limit(t)
        /\ status[t] = "pending" => retry_count[t] < Limit(t)
        /\ retry_count[t] <= Limit(t)

Related == Fresh /\ Reporting /\ ClaimsAreExclusive /\ Undisturbed /\ CompletedRan

IInv == TypeOK /\ Related

USE TaskAssumption, QueueAssumption, RetriesAssumption, BoundAssumption
USE DEF Holding, NoTask, NoQueue, Status, Abandoned

\* The initial table is empty and every worker is at the top of its loop.
LEMMA InitIInv == Init => IInv
  <1> SUFFICES ASSUME Init PROVE IInv
    OBVIOUS
  <1> USE DEF Init
  <1>1. TypeOK
    BY DEF TypeOK
  <1>2. Fresh /\ Reporting
    BY DEF Fresh, Reporting
  <1>3. ClaimsAreExclusive
    BY DEF ClaimsAreExclusive, Holds
  <1>4. Undisturbed
    BY DEF Undisturbed, Holds, Limit
  <1>5. CompletedRan
    BY DEF CompletedRan
  <1> QED
    BY <1>1, <1>2, <1>3, <1>4, <1>5 DEF IInv, Related

\* Every statement of task_queue.rs keeps the columns, the workers' local state
\* and the history variables within their types.
LEMMA TypeStep == TypeOK /\ Reporting /\ [Next]_vars => TypeOK'
  <1> SUFFICES ASSUME TypeOK, Reporting, [Next]_vars PROVE TypeOK'
    OBVIOUS
  <1> USE DEF row, local, history
  <1>1. ASSUME NEW t \in Task, NEW q \in Queue, NEW m \in Retries, NEW b \in BOOLEAN,
               Enqueue(t, q, m, b)
        PROVE TypeOK'
    BY <1>1 DEF TypeOK, Enqueue
  <1>2. ASSUME NEW Q \in SUBSET Queue, Reclaim(Q) PROVE TypeOK'
    BY <1>2 DEF TypeOK, Reclaim
  <1>3. ASSUME NEW S \in SUBSET Task, PurgeCompleted(S) PROVE TypeOK'
    BY <1>3 DEF TypeOK, PurgeCompleted
  <1>4. ASSUME NEW q \in Queue, ListDeadLetter(q) PROVE TypeOK'
    BY <1>4 DEF TypeOK, ListDeadLetter
  <1>5. ASSUME NEW t \in Task, RetryDeadLetter(t) PROVE TypeOK'
    <2>1. CASE status[t] = "absent"
      <3>1. resets' \in Nat
        BY <1>5 DEF TypeOK, RetryDeadLetter
      <3> QED
        BY ZenonT(30), <1>5, <2>1, <3>1 DEF TypeOK, RetryDeadLetter
    <2>2. CASE status[t] # "absent"
      <3>1. resets' \in Nat /\ disturbed' \in [Task -> Nat] /\ retry_count' \in [Task -> Nat]
        BY <1>5, <2>2 DEF TypeOK, RetryDeadLetter
      <3>2. status' \in [Task -> Status] /\ lock' \in [Task -> {"null", "recent", "stale"}]
        BY <1>5, <2>2 DEF TypeOK, RetryDeadLetter
      <3>3. due' \subseteq Task
        <4>1. due \subseteq Task /\ due' = due \cup {t}
          BY <1>5, <2>2 DEF TypeOK, RetryDeadLetter
        <4> QED
          BY <4>1
      <3> QED
        BY <1>5, <3>1, <3>2, <3>3 DEF TypeOK, RetryDeadLetter
    <2> QED
      BY <2>1, <2>2
  <1>6. ASSUME NEW w \in Worker, WorkerStep(w) PROVE TypeOK'
    <2>1. CASE ClaimSelect(w)
      BY <2>1 DEF TypeOK, ClaimSelect, Eligible
    <2>2. CASE ClaimUpdate(w)
      <3>1. task[w] \in Task
        BY <2>2 DEF ClaimUpdate, Reporting
      <3>2. CASE Claimable(task[w])
        <4>1. claims' \in [Task -> Nat] /\ retry_count' \in [Task -> Nat]
          BY <2>2, <3>1, <3>2 DEF TypeOK, ClaimUpdate
        <4>3. claims[task[w]] + 1 \in Nat
          <5>1. claims \in [Task -> Nat]
            BY DEF TypeOK
          <5>2. claims[task[w]] \in Nat
            BY <3>1, <5>1, Zenon
          <5> QED
            BY <5>2
        <4>4. held' \in [Worker -> Nat]
          BY <2>2, <3>2, <4>3 DEF TypeOK, ClaimUpdate
        <4>2. status' \in [Task -> Status] /\ lock' \in [Task -> {"null", "recent", "stale"}]
              /\ pc' \in [Worker -> {"loop", "claim"} \cup Holding]
          BY <2>2, <3>1, <3>2 DEF TypeOK, ClaimUpdate
        <4> QED
          BY <2>2, <3>2, <4>1, <4>2, <4>4 DEF TypeOK, ClaimUpdate
      <3>3. CASE ~Claimable(task[w])
        BY <2>2, <3>3 DEF TypeOK, ClaimUpdate, NextIteration
      <3> QED
        BY <3>2, <3>3
    <2>3. ASSUME NEW ok \in BOOLEAN, HandlerReturns(w, ok) PROVE TypeOK'
      <3>1. task[w] \in Task /\ Report(ok) \in Holding
        BY <2>3 DEF HandlerReturns, Report, Reporting, Holding
      <3> QED
        BY ZenonT(30), <2>3, <3>1 DEF TypeOK, HandlerReturns
    <2>4. CASE Complete(w)
      BY <2>4 DEF TypeOK, Complete, NextIteration, Reporting
    <2>5. CASE FailSelect(w)
      BY <2>5 DEF TypeOK, FailSelect, NextIteration, Exhausted, Reporting
    <2>6. CASE FailUpdate(w)
      <3>1. task[w] \in Task
        BY <2>6 DEF FailUpdate, Reporting
      <3>2. status' \in [Task -> Status] /\ due' \subseteq Task
            /\ lock' \in [Task -> {"null", "recent", "stale"}]
        <4>1. /\ status \in [Task -> Status] /\ due \subseteq Task
              /\ lock \in [Task -> {"null", "recent", "stale"}]
          BY DEF TypeOK
        <4>2. \/ UNCHANGED <<status, due, lock>>
              \/ status' = [status EXCEPT ![task[w]] = "dead_letter"] /\ UNCHANGED <<due, lock>>
              \/ /\ status' = [status EXCEPT ![task[w]] = "pending"]
                 /\ due' = due \ {task[w]}
                 /\ lock' = [lock EXCEPT ![task[w]] = "null"]
          BY <2>6 DEF FailUpdate, Abandoned
        <4>3. CASE UNCHANGED <<status, due, lock>>
          BY <4>1, <4>3
        <4>4. CASE status' = [status EXCEPT ![task[w]] = "dead_letter"] /\ UNCHANGED <<due, lock>>
          BY <3>1, <4>1, <4>4 DEF Status
        <4>5. CASE /\ status' = [status EXCEPT ![task[w]] = "pending"]
                   /\ due' = due \ {task[w]}
                   /\ lock' = [lock EXCEPT ![task[w]] = "null"]
          BY Zenon, <3>1, <4>1, <4>5 DEF Status
        <4> QED
          BY <4>2, <4>3, <4>4, <4>5
      <3>3. NextIteration(w) /\ UNCHANGED <<queue, retry_count, max_retries, listed,
               enqueued, claims, disturbed, succeeded, faults, resets>>
        BY <2>6 DEF FailUpdate
      <3> QED
        BY <3>2, <3>3 DEF TypeOK, NextIteration
    <2> QED
      BY <1>6, <2>1, <2>2, <2>3, <2>4, <2>5, <2>6 DEF WorkerStep
  <1>7. ASSUME NEW w \in Worker, Fault(w) PROVE TypeOK'
    BY <1>7 DEF TypeOK, Fault, NextIteration
  <1>8. ASSUME NEW t \in Task, BecomeDue(t) PROVE TypeOK'
    BY <1>8 DEF TypeOK, BecomeDue
  <1>10. ASSUME NEW t \in Task, AbandonedGrowsStale(t) PROVE TypeOK'
    BY <1>10 DEF TypeOK, AbandonedGrowsStale, GrowStale
  <1>11. ASSUME NEW t \in Task, Overrun(t) PROVE TypeOK'
    BY <1>11 DEF TypeOK, Overrun, GrowStale
  <1>9. CASE UNCHANGED vars
    BY <1>9 DEF TypeOK, vars
  <1> QED
    BY ZenonT(30), <1>1, <1>2, <1>3, <1>4, <1>5, <1>6, <1>7, <1>8, <1>9, <1>10, <1>11
       DEF Next, ReclaimQueue, ReclaimStale

\* The rest of the induction: what every statement and every worker step does
\* to the parts of IInv that relate the workers to the rows.
LEMMA RelationStep == IInv /\ [Next]_vars => Related'
  <1> SUFFICES ASSUME IInv, [Next]_vars PROVE Related'
    OBVIOUS
  <1> USE DEF IInv, Related, TypeOK, row, local, history, Fresh, Reporting,
              ClaimsAreExclusive, Undisturbed, CompletedRan, Holds, Limit
  <1>1. ASSUME NEW t \in Task, NEW q \in Queue, NEW m \in Retries, NEW b \in BOOLEAN,
               Enqueue(t, q, m, b)
        PROVE Related'
    BY <1>1 DEF Enqueue
  <1>2. ASSUME NEW Q \in SUBSET Queue, Reclaim(Q) PROVE Related'
    BY <1>2 DEF Reclaim, Stale
  <1>3. ASSUME NEW S \in SUBSET Task, PurgeCompleted(S) PROVE Related'
    BY <1>3 DEF PurgeCompleted
  <1>4. ASSUME NEW q \in Queue, ListDeadLetter(q) PROVE Related'
    BY <1>4 DEF ListDeadLetter
  <1>5. ASSUME NEW t \in Task, RetryDeadLetter(t) PROVE Related'
    BY <1>5 DEF RetryDeadLetter
  <1>6. ASSUME NEW w \in Worker, WorkerStep(w) PROVE Related'
    <2>1. CASE ClaimSelect(w)
      BY <2>1 DEF ClaimSelect, Eligible
    <2>2. CASE ClaimUpdate(w)
      <3>1. task[w] \in Task
        BY <2>2 DEF ClaimUpdate
      <3>2. CASE Claimable(task[w])
        <4>1. Fresh' /\ CompletedRan'
          BY <2>2, <3>1, <3>2 DEF ClaimUpdate, Claimable
        <4>2. Reporting'
          <5> SUFFICES ASSUME NEW v \in Worker
                       PROVE /\ pc'[v] # "loop" => task'[v] \in Task
                             /\ pc'[v] \in Holding => held'[v] \in 1 .. claims'[task'[v]]
                             /\ pc'[v] = "complete" => task'[v] \in succeeded'
            OBVIOUS
          <5> DEFINE n == claims[task[w]]
          <5>1. n \in Nat
            BY <3>1, Zenon
          <5>2. CASE v = w
            <6>1. held'[v] = n + 1 /\ claims'[task'[v]] = n + 1 /\ pc'[v] = "handler"
                  /\ task'[v] = task[w]
              BY <2>2, <3>1, <3>2, <5>2 DEF ClaimUpdate
            <6> HIDE DEF n
            <6> QED
              BY <3>1, <5>1, <6>1
          <5>3. CASE v # w
            <6>1. held'[v] = held[v] /\ pc'[v] = pc[v] /\ task'[v] = task[v]
                  /\ succeeded' = succeeded
              BY <2>2, <3>1, <3>2, <5>3 DEF ClaimUpdate
            <6>2. ASSUME NEW u \in Task PROVE claims[u] \in Nat /\ claims[u] <= claims'[u]
                                              /\ claims'[u] \in Nat
              <7>1. claims[u] \in Nat
                BY Zenon
              <7>2. claims'[u] = IF u = task[w] THEN n + 1 ELSE claims[u]
                BY <2>2, <3>1, <3>2 DEF ClaimUpdate
              <7> HIDE DEF n
              <7> QED
                BY <5>1, <7>1, <7>2 DEF n
            <6>3. CASE pc[v] \in Holding
              <7>1. task[v] \in Task /\ held[v] \in 1 .. claims[task[v]]
                BY <6>3
              <7>2. claims[task[v]] \in Nat /\ claims'[task[v]] \in Nat
                    /\ claims[task[v]] <= claims'[task[v]]
                BY <6>2, <7>1, Zenon
              <7>3. held[v] \in 1 .. claims'[task[v]]
                BY ONLY <7>1, <7>2, SMT
              <7> QED
                BY <6>1, <7>1, <7>3
            <6> QED
              BY <6>1, <6>3
          <5> QED
            BY <5>2, <5>3
        <4>3. ClaimsAreExclusive'
          BY <2>2, <3>1, <3>2 DEF ClaimUpdate, Claimable
        <4>4. Undisturbed'
          BY <2>2, <3>1, <3>2 DEF ClaimUpdate, Claimable
        <4> QED
          BY ZenonT(30), <4>1, <4>2, <4>3, <4>4
      <3>3. CASE ~Claimable(task[w])
        BY SMTT(15), <2>2, <3>1, <3>3 DEF ClaimUpdate, Claimable, NextIteration
      <3> QED
        BY <3>2, <3>3
    <2>3. ASSUME NEW ok \in BOOLEAN, HandlerReturns(w, ok) PROVE Related'
      BY <2>3 DEF HandlerReturns, Report
    <2>4. CASE Complete(w)
      BY <2>4 DEF Complete, NextIteration
    <2>5. CASE FailSelect(w)
      <3>1. task[w] \in Task
        BY <2>5 DEF FailSelect
      <3>2. CASE status[task[w]] = "absent"
        BY <2>5, <3>1, <3>2 DEF FailSelect, NextIteration
      <3>3. CASE status[task[w]] # "absent"
        BY <2>5, <3>1, <3>3 DEF FailSelect, Exhausted
      <3> QED
        BY <3>2, <3>3
    <2>6. CASE FailUpdate(w)
      BY <2>6 DEF FailUpdate, NextIteration
    <2> HIDE DEF Related
    <2> QED
      BY <1>6, <2>1, <2>2, <2>3, <2>4, <2>5, <2>6 DEF WorkerStep
  <1>7. ASSUME NEW w \in Worker, Fault(w) PROVE Related'
    BY <1>7 DEF Fault, NextIteration
  <1>8. ASSUME NEW t \in Task, BecomeDue(t) \/ GrowStale(t) PROVE Related'
    BY <1>8 DEF BecomeDue, GrowStale
  <1>9. CASE UNCHANGED vars
    BY <1>9 DEF vars
  <1> HIDE DEF Related, IInv
  <1> QED
    BY ZenonT(30), <1>1, <1>2, <1>3, <1>4, <1>5, <1>6, <1>7, <1>8, <1>9
       DEF Next, ReclaimQueue, ReclaimStale, AbandonedGrowsStale, Overrun

\* IInv holds in every reachable state.
THEOREM Invariance == Spec => []IInv
  <1>1. Init => IInv
    BY InitIInv
  <1>2. IInv /\ [Next]_vars => IInv'
    BY TypeStep, RelationStep DEF IInv, Related
  <1> QED
    BY <1>1, <1>2, PTL DEF Spec

\* The statements of task_queue.rs keep every column and variable in its type.
THEOREM TypeCorrect == Spec => []TypeOK
  BY Invariance, PTL DEF IInv, Related

\* A task that nobody reclaimed or reset is executed by one worker at a time.
THEOREM UndisturbedExclusion == Spec => []UndisturbedIsExclusive
  <1>1. IInv => UndisturbedIsExclusive
    BY DEF IInv, Related, TypeOK, ClaimsAreExclusive, Undisturbed, UndisturbedIsExclusive
  <1> QED
    BY <1>1, Invariance, PTL

\* A task that nobody reclaimed or reset is never claimed more often than
\* max_retries allows.
THEOREM UndisturbedAttempts == Spec => []UndisturbedRetryBound
  <1>1. IInv => UndisturbedRetryBound
    BY DEF IInv, Related, Undisturbed, UndisturbedRetryBound, Limit
  <1> QED
    BY <1>1, Invariance, PTL

\* A completed row has a handler run that returned Ok behind it.
THEOREM CompletedHasRun == Spec => []CompletedRan
  BY Invariance, PTL DEF IInv, Related

\* A completed row of a task nobody reclaimed or reset is never changed again,
\* except by purge_completed.
THEOREM UndisturbedFinality == Spec => UndisturbedCompletedIsFinal
  <1> DEFINE Final == \A t \in Task : status[t] = "completed" /\ disturbed'[t] = 0
                         => status'[t] \in {"completed", "absent"}
  <1>1. IInv /\ [Next]_vars => [Final]_vars
    <2> SUFFICES ASSUME IInv, [Next]_vars, NEW t \in Task, status[t] = "completed",
                        disturbed'[t] = 0
                 PROVE  status'[t] \in {"completed", "absent"}
      OBVIOUS
    <2> USE DEF IInv, Related, TypeOK, row, local, history
    <2>1. ASSUME NEW u \in Task, NEW q \in Queue, NEW m \in Retries, NEW b \in BOOLEAN,
                 Enqueue(u, q, m, b)
          PROVE status'[t] \in {"completed", "absent"}
      BY <2>1 DEF Enqueue, Fresh
    <2>2. ASSUME NEW Q \in SUBSET Queue, Reclaim(Q)
          PROVE status'[t] \in {"completed", "absent"}
      BY <2>2 DEF Reclaim, Stale
    <2>3. ASSUME NEW S \in SUBSET Task, PurgeCompleted(S)
          PROVE status'[t] \in {"completed", "absent"}
      BY <2>3 DEF PurgeCompleted
    <2>4. ASSUME NEW u \in Task, RetryDeadLetter(u)
          PROVE status'[t] \in {"completed", "absent"}
      BY <2>4 DEF RetryDeadLetter
    <2>5. ASSUME NEW w \in Worker, WorkerStep(w)
          PROVE status'[t] \in {"completed", "absent"}
      <3>1. disturbed[t] = 0
        BY <2>5 DEF WorkerStep, ClaimSelect, ClaimUpdate, HandlerReturns, Complete,
                    FailSelect, FailUpdate
      <3>2. ~Holds(w, t)
        BY <3>1 DEF Undisturbed
      <3> QED
        BY <2>5, <3>2 DEF WorkerStep, ClaimSelect, ClaimUpdate, Claimable, HandlerReturns,
                          Complete, FailSelect, FailUpdate, Holds
    <2>6. CASE UNCHANGED status
      BY <2>6
    <2>7. ASSUME NEW w \in Worker, Fault(w) PROVE UNCHANGED status
      BY <2>7 DEF Fault
    <2>8. ASSUME NEW u \in Task, BecomeDue(u) \/ GrowStale(u) PROVE UNCHANGED status
      BY <2>8 DEF BecomeDue, GrowStale
    <2>9. ASSUME NEW q \in Queue, ListDeadLetter(q) PROVE UNCHANGED status
      BY <2>9 DEF ListDeadLetter
    <2>10. ASSUME UNCHANGED vars PROVE UNCHANGED status
      BY <2>10 DEF vars
    <2> HIDE DEF IInv
    <2> QED
      BY ZenonT(30), <2>1, <2>2, <2>3, <2>4, <2>5, <2>6, <2>7, <2>8, <2>9, <2>10
         DEF Next, ReclaimQueue, ReclaimStale, AbandonedGrowsStale, Overrun
  <1> QED
    BY <1>1, Invariance, PTL DEF Spec, UndisturbedCompletedIsFinal

-----------------------------------------------------------------------------
(* Attempts of a task that is reclaimed or reset: a count of who may still requeue it. *)

\* The workers that hold a claim of t, and those of them whose fail() will requeue it.
Holders(t) == {w \in Worker : Holds(w, t)}
Granted(t) == {w \in Worker : pc[w] = "requeue" /\ task[w] = t /\ verdict[w] = "retry"}

Waiting(t) == IF status[t] = "pending" THEN 1 ELSE 0

\* Each reclaim or reset adds one to those who may work on t, and one to the attempts
\* made or granted.
Balanced(t) ==
    /\ Cardinality(Holders(t)) + Waiting(t) <= 1 + disturbed[t]
    /\ retry_count[t] + Cardinality(Granted(t)) + Waiting(t) <= Limit(t) + disturbed[t]

\* Sets of workers and their sizes.
LEMMA Smaller ==
  ASSUME NEW S \in SUBSET Worker, NEW T \in SUBSET S
  PROVE  IsFiniteSet(S) /\ Cardinality(S) \in Nat /\ Cardinality(T) \in Nat
         /\ Cardinality(T) <= Cardinality(S)
  BY WorkerAssumption, FS_Subset, FS_CardinalityType

LEMMA OneLess ==
  ASSUME NEW S \in SUBSET Worker, NEW w \in S, NEW T \in SUBSET (S \ {w})
  PROVE  Cardinality(T) + 1 <= Cardinality(S)
  <1>1. IsFiniteSet(S) /\ Cardinality(S) \in Nat
    BY Smaller
  <1>2. Cardinality(S \ {w}) = Cardinality(S) - 1
    BY Zenon, <1>1, FS_RemoveElement
  <1>3. Cardinality(T) <= Cardinality(S \ {w}) /\ Cardinality(T) \in Nat
    BY Smaller
  <1> QED  BY <1>1, <1>2, <1>3

LEMMA OneMore ==
  ASSUME NEW S \in SUBSET Worker, NEW w \in Worker, NEW T \in SUBSET (S \cup {w})
  PROVE  Cardinality(T) <= Cardinality(S) + 1 /\ Cardinality(T) \in Nat
  <1>1. IsFiniteSet(S) /\ Cardinality(S) \in Nat
    BY Smaller
  <1>2. Cardinality(S \cup {w}) <= Cardinality(S) + 1
    BY <1>1, FS_AddElement
  <1>3. Cardinality(T) <= Cardinality(S \cup {w}) /\ Cardinality(T) \in Nat /\ Cardinality(S \cup {w}) \in Nat
    BY Smaller
  <1> QED  BY <1>1, <1>2, <1>3

\* The quantities of Balanced are numbers.
LEMMA Numbers ==
  ASSUME TypeOK, NEW t \in Task
  PROVE  /\ Holders(t) \in SUBSET Worker /\ Granted(t) \in SUBSET Holders(t)
         /\ Cardinality(Holders(t)) \in Nat /\ Cardinality(Granted(t)) \in Nat
         /\ Cardinality(Granted(t)) <= Cardinality(Holders(t))
         /\ Waiting(t) \in {0, 1} /\ retry_count[t] \in Nat /\ disturbed[t] \in Nat
         /\ Limit(t) \in Nat /\ Limit(t) >= 1 /\ max_retries[t] <= Limit(t)
  <1>1. Holders(t) \in SUBSET Worker /\ Granted(t) \in SUBSET Holders(t)
    BY DEF Holders, Granted, Holds
  <1>2. retry_count[t] \in Nat /\ disturbed[t] \in Nat /\ max_retries[t] \in Nat
    BY DEF TypeOK
  <1> QED  BY <1>1, <1>2, Smaller DEF Limit, Waiting

\* A step that hands out nothing.
LEMMA Quiet ==
  ASSUME TypeOK, TypeOK', NEW t \in Task, Balanced(t),
         Holders(t)' \subseteq Holders(t), Granted(t)' \subseteq Granted(t),
         Waiting(t)' <= Waiting(t), retry_count'[t] = retry_count[t],
         max_retries'[t] = max_retries[t], disturbed'[t] = disturbed[t]
  PROVE  Balanced(t)'
  <1>1. Limit(t)' = Limit(t)
    BY DEF Limit
  <1>2. /\ Cardinality(Holders(t)') <= Cardinality(Holders(t)) /\ Cardinality(Holders(t)') \in Nat
        /\ Cardinality(Granted(t)') <= Cardinality(Granted(t)) /\ Cardinality(Granted(t)') \in Nat
    <2>1. Granted(t) \in SUBSET Worker /\ Holders(t) \in SUBSET Worker
      BY Zenon, Numbers
    <2> QED  BY <2>1, Smaller
  <1>3. Waiting(t)' \in {0, 1}
    BY DEF Waiting
  <1> QED  BY <1>1, <1>2, <1>3, Numbers DEF Balanced

\* claim_next turns a waiting row into a claim and an attempt.
LEMMA Claims ==
  ASSUME TypeOK, TypeOK', NEW t \in Task, Balanced(t), NEW w \in Worker,
         Holders(t)' \subseteq Holders(t) \cup {w}, Granted(t)' \subseteq Granted(t),
         Waiting(t) = 1, Waiting(t)' = 0, retry_count'[t] = retry_count[t] + 1,
         max_retries'[t] = max_retries[t], disturbed'[t] = disturbed[t]
  PROVE  Balanced(t)'
  <1>1. Limit(t)' = Limit(t)
    BY DEF Limit
  <1>2. /\ Cardinality(Holders(t)') <= Cardinality(Holders(t)) + 1 /\ Cardinality(Holders(t)') \in Nat
        /\ Cardinality(Granted(t)') <= Cardinality(Granted(t)) /\ Cardinality(Granted(t)') \in Nat
    <2>1. Granted(t) \in SUBSET Worker /\ Holders(t) \in SUBSET Worker
      BY Zenon, Numbers
    <2> QED  BY <2>1, Smaller, OneMore
  <1> QED  BY <1>1, <1>2, Numbers DEF Balanced

\* fail() finds an attempt left: the grants are at most the claims held.
LEMMA Grants ==
  ASSUME TypeOK, TypeOK', NEW t \in Task, Balanced(t),
         Holders(t)' \subseteq Holders(t), Waiting(t)' = Waiting(t),
         retry_count[t] < max_retries[t], retry_count'[t] = retry_count[t],
         max_retries'[t] = max_retries[t], disturbed'[t] = disturbed[t]
  PROVE  Balanced(t)'
  <1>1. Limit(t)' = Limit(t)
    BY DEF Limit
  <1>2. /\ Cardinality(Holders(t)') <= Cardinality(Holders(t)) /\ Cardinality(Holders(t)') \in Nat
        /\ Cardinality(Granted(t)') <= Cardinality(Holders(t)) /\ Cardinality(Granted(t)') \in Nat
    <2>1. Holders(t) \in SUBSET Worker
      BY Zenon, Numbers
    <2>2. Granted(t)' \subseteq Holders(t)'
      BY DEF Granted, Holders, Holds
    <2> QED  BY <2>1, <2>2, Smaller
  <1> QED
    <2>1. max_retries[t] \in Nat
      BY DEF TypeOK
    <2> QED  BY <1>1, <1>2, <2>1, Numbers DEF Balanced

\* fail() requeues: its worker holds the claim no more.
LEMMA Requeues ==
  ASSUME TypeOK, TypeOK', NEW t \in Task, Balanced(t), NEW w \in Granted(t),
         Holders(t)' \subseteq Holders(t) \ {w}, Granted(t)' \subseteq Granted(t) \ {w},
         retry_count'[t] = retry_count[t],
         max_retries'[t] = max_retries[t], disturbed'[t] = disturbed[t]
  PROVE  Balanced(t)'
  <1>1. Limit(t)' = Limit(t)
    BY DEF Limit
  <1>2. /\ Cardinality(Holders(t)') + 1 <= Cardinality(Holders(t))
        /\ Cardinality(Granted(t)') + 1 <= Cardinality(Granted(t))
    <2>1. Granted(t) \in SUBSET Worker /\ Holders(t) \in SUBSET Worker /\ w \in Holders(t)
      BY Zenon, Numbers
    <2> QED  BY <2>1, OneLess
  <1>3. Cardinality(Holders(t)') \in Nat /\ Cardinality(Granted(t)') \in Nat
    <2>1. Granted(t)' \in SUBSET Worker /\ Holders(t)' \in SUBSET Worker
      BY DEF Granted, Holders
    <2> QED  BY <2>1, Smaller
  <1>4. Waiting(t)' \in {0, 1}
    BY DEF Waiting
  <1> QED  BY <1>1, <1>2, <1>3, <1>4, Numbers DEF Balanced

\* reclaim_stale and retry_dead_letter.
LEMMA Disturbs ==
  ASSUME TypeOK, TypeOK', NEW t \in Task, Balanced(t),
         Holders(t)' = Holders(t), Granted(t)' = Granted(t),
         \/ Waiting(t) = 0 /\ retry_count'[t] = retry_count[t]
         \/ retry_count'[t] = 0,
         max_retries'[t] = max_retries[t], disturbed'[t] = disturbed[t] + 1
  PROVE  Balanced(t)'
  <1>1. Limit(t)' = Limit(t)
    BY DEF Limit
  <1>2. Waiting(t)' \in {0, 1}
    BY DEF Waiting
  <1> QED  BY <1>1, <1>2, Numbers DEF Balanced

\* A worker that goes back to the top of its loop holds nothing.
LEMMA Leaves ==
  ASSUME TypeOK, NEW w \in Worker, NEW t \in Task, NextIteration(w)
  PROVE  Holders(t)' \subseteq Holders(t) \ {w} /\ Granted(t)' \subseteq Granted(t) \ {w}
  BY DEF TypeOK, NextIteration, Holders, Granted, Holds

LEMMA WorkerBalance ==
  ASSUME IInv, TypeOK', NEW w \in Worker, WorkerStep(w), NEW t \in Task, Balanced(t)
  PROVE  Balanced(t)'
  <1>0. TypeOK /\ Reporting
    BY Zenon DEF IInv, Related
  <1>1. CASE ClaimSelect(w)
    <2>1. UNCHANGED <<status, retry_count, max_retries, disturbed>>
      BY <1>1 DEF ClaimSelect, row, history
    <2>2. Holders(t)' = Holders(t) /\ Granted(t)' = Granted(t)
      BY <1>0, <1>1 DEF ClaimSelect, TypeOK, Holders, Granted, Holds
    <2> QED  BY <1>0, <2>1, <2>2, Quiet, Numbers DEF Waiting
  <1>2. CASE ClaimUpdate(w)
    <2>1. task[w] \in Task /\ pc[w] = "claim" /\ UNCHANGED <<max_retries, disturbed>>
      BY <1>0, <1>2 DEF ClaimUpdate, Reporting
    <2>2. CASE Claimable(task[w])
      <3>1. /\ task' = task /\ verdict' = verdict
            /\ pc' = [pc EXCEPT ![w] = "handler"]
            /\ status' = [status EXCEPT ![task[w]] = "running"]
            /\ retry_count' = [retry_count EXCEPT ![task[w]] = retry_count[task[w]] + 1]
        BY <1>2, <2>2 DEF ClaimUpdate
      <3>2. /\ Holders(t)' \subseteq Holders(t) \cup {w} /\ Granted(t)' \subseteq Granted(t)
            /\ t # task[w] => Holders(t)' \subseteq Holders(t)
        BY <1>0, <2>1, <3>1 DEF TypeOK, Holders, Granted, Holds
      <3>3. CASE t = task[w]
        <4>1. Waiting(t) = 1 /\ Waiting(t)' = 0 /\ retry_count'[t] = retry_count[t] + 1
          BY <1>0, <2>2, <3>1, <3>3 DEF TypeOK, Claimable, Waiting
        <4> QED  BY <1>0, <2>1, <3>2, <4>1, Claims
      <3>4. CASE t # task[w]
        <4>1. Waiting(t)' = Waiting(t) /\ retry_count'[t] = retry_count[t]
          BY <1>0, <2>1, <3>1, <3>4 DEF TypeOK, Waiting
        <4> QED  BY <1>0, <2>1, <3>2, <3>4, <4>1, Quiet, Numbers
      <3> QED  BY <3>3, <3>4
    <2>3. CASE ~Claimable(task[w])
      <3>1. NextIteration(w) /\ UNCHANGED <<status, retry_count>>
        BY <1>2, <2>3 DEF ClaimUpdate
      <3> QED  BY <1>0, <2>1, <3>1, Leaves, Quiet, Numbers DEF Waiting
    <2> QED  BY <2>2, <2>3
  <1>3. ASSUME NEW ok \in BOOLEAN, HandlerReturns(w, ok)  PROVE Balanced(t)'
    <2>1. UNCHANGED <<status, retry_count, max_retries, disturbed>>
      BY <1>3 DEF HandlerReturns, row
    <2>2. Holders(t)' = Holders(t) /\ Granted(t)' = Granted(t)
      <3>1. PICK l \in {"complete", "fail"} : pc' = [pc EXCEPT ![w] = l]
        BY Zenon, <1>3 DEF HandlerReturns, Report
      <3>2. pc[w] = "handler" /\ task' = task /\ verdict' = verdict
        BY <1>3 DEF HandlerReturns
      <3> QED  BY <1>0, <3>1, <3>2 DEF TypeOK, Holders, Granted, Holds
    <2> QED  BY <1>0, <2>1, <2>2, Quiet, Numbers DEF Waiting
  <1>4. CASE Complete(w)
    <2>1. /\ task[w] \in Task /\ NextIteration(w) /\ UNCHANGED <<retry_count, max_retries, disturbed>>
          /\ status' = [status EXCEPT ![task[w]] = IF @ = "absent" THEN @ ELSE "completed"]
      BY <1>0, <1>4 DEF Complete, Reporting
    <2>2. Waiting(t)' <= Waiting(t)
      BY <1>0, <2>1 DEF TypeOK, Waiting
    <2> QED  BY <1>0, <2>1, <2>2, Leaves, Quiet
  <1>5. CASE FailSelect(w)
    <2>1. /\ task[w] \in Task /\ pc[w] = "fail"
          /\ UNCHANGED <<status, retry_count, max_retries, disturbed>>
      BY <1>0, <1>5 DEF FailSelect, Reporting, row
    <2>2. CASE NextIteration(w)
      BY <1>0, <2>1, <2>2, Leaves, Quiet, Numbers DEF Waiting
    <2>3. CASE /\ verdict' = [verdict EXCEPT ![w] = IF Exhausted(task[w]) THEN "dead_letter" ELSE "retry"]
               /\ pc' = [pc EXCEPT ![w] = "requeue"] /\ task' = task
      <3>1. Holders(t)' \subseteq Holders(t)
        BY <1>0, <2>1, <2>3 DEF TypeOK, Holders, Holds
      <3>2. CASE t = task[w] /\ ~Exhausted(t)
        <4>1. retry_count[t] < max_retries[t]
          BY <1>0, <3>2 DEF TypeOK, Exhausted
        <4> QED  BY <1>0, <2>1, <3>1, <4>1, Grants DEF Waiting
      <3>3. CASE ~(t = task[w] /\ ~Exhausted(t))
        <4>1. Granted(t)' \subseteq Granted(t)
          BY <1>0, <2>1, <2>3, <3>3 DEF TypeOK, Granted
        <4> QED  BY <1>0, <2>1, <3>1, <4>1, Quiet, Numbers DEF Waiting
      <3> QED  BY <3>2, <3>3
    <2> QED  BY <1>5, <2>2, <2>3 DEF FailSelect
  <1>6. CASE FailUpdate(w)
    <2>1. /\ task[w] \in Task /\ pc[w] = "requeue" /\ NextIteration(w)
          /\ UNCHANGED <<retry_count, max_retries, disturbed>>
      BY <1>0, <1>6 DEF FailUpdate, Reporting
    <2>2. CASE w \in Granted(t)
      BY Zenon, <1>0, <2>1, <2>2, Leaves, Requeues
    <2>3. CASE w \notin Granted(t)
      <3>1. Waiting(t)' <= Waiting(t)
        BY <1>0, <1>6, <2>1, <2>3 DEF FailUpdate, TypeOK, Waiting, Granted
      <3> QED  BY <1>0, <2>1, <3>1, Leaves, Quiet
    <2> QED  BY <2>2, <2>3
  <1> QED  BY Zenon, <1>1, <1>2, <1>3, <1>4, <1>5, <1>6 DEF WorkerStep

LEMMA BalanceStep ==
  ASSUME IInv, TypeOK', [Next]_vars, NEW t \in Task, Balanced(t)
  PROVE  Balanced(t)'
  <1>0. TypeOK /\ Fresh
    BY Zenon DEF IInv, Related
  <1>1. ASSUME UNCHANGED <<status, retry_count, max_retries, disturbed, pc, task, verdict>>
        PROVE  Balanced(t)'
    BY Zenon, <1>1 DEF Balanced, Holders, Granted, Holds, Waiting, Limit
  <1>2. ASSUME NEW u \in Task, NEW q \in Queue, NEW m \in Retries, NEW b \in BOOLEAN, Enqueue(u, q, m, b)
        PROVE  Balanced(t)'
    <2>1. /\ UNCHANGED <<pc, task, verdict, retry_count, disturbed>> /\ u \notin enqueued
          /\ status' = [status EXCEPT ![u] = "pending"]
          /\ max_retries' = [max_retries EXCEPT ![u] = m]
      BY <1>2 DEF Enqueue, local
    <2>2. Holders(t)' = Holders(t) /\ Granted(t)' = Granted(t)
      BY <2>1 DEF Holders, Granted, Holds
    <2>3. CASE t = u
      <3>1. Holders(t) = {} /\ Granted(t) = {} /\ retry_count[t] = 0
        BY Zenon, <1>0, <2>1, <2>3 DEF Fresh, Holders, Granted, Holds
      <3>2. Cardinality(Holders(t)') = 0 /\ Cardinality(Granted(t)') = 0
        BY <2>2, <3>1, FS_EmptySet
      <3>3. Waiting(t)' \in {0, 1}
        BY DEF Waiting
      <3>4. Limit(t)' \in Nat /\ Limit(t)' >= 1 /\ disturbed'[t] \in Nat
        BY DEF TypeOK, Limit
      <3> QED  BY <2>1, <3>1, <3>2, <3>3, <3>4 DEF Balanced
    <2>4. CASE t # u
      BY SMTT(15), <1>0, <2>1, <2>2, <2>4, Quiet, Numbers DEF TypeOK, Waiting
    <2> QED  BY <2>3, <2>4
  <1>3. ASSUME NEW Q \in SUBSET Queue, Reclaim(Q)  PROVE Balanced(t)'
    <2>1. UNCHANGED <<pc, task, verdict, retry_count, max_retries>>
      BY <1>3 DEF Reclaim, local
    <2>2. Holders(t)' = Holders(t) /\ Granted(t)' = Granted(t)
      BY <2>1 DEF Holders, Granted, Holds
    <2>3. CASE t \in Stale(Q)
      <3>1. disturbed'[t] = disturbed[t] + 1 /\ Waiting(t) = 0
        BY <1>0, <1>3, <2>3 DEF Reclaim, Stale, Waiting, TypeOK
      <3> QED  BY <1>0, <2>1, <2>2, <3>1, Disturbs
    <2>4. CASE t \notin Stale(Q)
      <3>1. disturbed'[t] = disturbed[t] /\ Waiting(t)' = Waiting(t)
        BY <1>0, <1>3, <2>4 DEF Reclaim, Waiting, TypeOK
      <3> QED  BY <1>0, <2>1, <2>2, <3>1, Quiet, Numbers
    <2> QED  BY <2>3, <2>4
  <1>4. ASSUME NEW S \in SUBSET Task, PurgeCompleted(S)  PROVE Balanced(t)'
    <2>1. UNCHANGED <<pc, task, verdict, retry_count, max_retries, disturbed>>
      BY <1>4 DEF PurgeCompleted, local, history
    <2>2. Holders(t)' = Holders(t) /\ Granted(t)' = Granted(t)
      BY <2>1 DEF Holders, Granted, Holds
    <2>3. Waiting(t)' <= Waiting(t)
      BY <1>0, <1>4 DEF PurgeCompleted, Waiting, TypeOK
    <2> QED  BY <1>0, <2>1, <2>2, <2>3, Quiet
  <1>5. ASSUME NEW u \in Task, RetryDeadLetter(u)  PROVE Balanced(t)'
    <2>1. UNCHANGED <<pc, task, verdict, max_retries>>
      BY <1>5 DEF RetryDeadLetter, local
    <2>2. Holders(t)' = Holders(t) /\ Granted(t)' = Granted(t)
      BY <2>1 DEF Holders, Granted, Holds
    <2>3. CASE t = u /\ status[u] # "absent"
      <3>1. disturbed'[t] = disturbed[t] + 1 /\ retry_count'[t] = 0
        BY <1>0, <1>5, <2>3 DEF RetryDeadLetter, TypeOK
      <3> QED  BY <1>0, <2>1, <2>2, <3>1, Disturbs
    <2>4. CASE ~(t = u /\ status[u] # "absent")
      <3>1. disturbed'[t] = disturbed[t] /\ retry_count'[t] = retry_count[t] /\ Waiting(t)' = Waiting(t)
        BY <1>0, <1>5, <2>4 DEF RetryDeadLetter, TypeOK, Waiting
      <3> QED  BY <1>0, <2>1, <2>2, <3>1, Quiet, Numbers
    <2> QED  BY <2>3, <2>4
  <1>6. ASSUME NEW w \in Worker, WorkerStep(w)  PROVE Balanced(t)'
    BY <1>6, WorkerBalance
  <1>7. ASSUME NEW w \in Worker, Fault(w)  PROVE Balanced(t)'
    <2>1. NextIteration(w) /\ UNCHANGED <<status, retry_count, max_retries, disturbed>>
      BY <1>7 DEF Fault, row
    <2> QED  BY <1>0, <2>1, Leaves, Quiet, Numbers DEF Waiting
  <1>8. ASSUME NEW u \in Task, BecomeDue(u) \/ GrowStale(u)  PROVE Balanced(t)'
    BY <1>1, <1>8 DEF BecomeDue, GrowStale, local, history
  <1>9. ASSUME NEW q \in Queue, ListDeadLetter(q)  PROVE Balanced(t)'
    BY <1>1, <1>9 DEF ListDeadLetter, row, local, history
  <1>10. CASE UNCHANGED vars
    BY <1>1, <1>10 DEF vars, row, local, history
  <1> QED
    BY ZenonT(30), <1>2, <1>3, <1>4, <1>5, <1>6, <1>7, <1>8, <1>9, <1>10
       DEF Next, ReclaimQueue, ReclaimStale, AbandonedGrowsStale, Overrun

\* A task is claimed at most max_retries times, and once more for each time it was
\* reclaimed or reset, however many workers report late.
THEOREM Attempts == Spec => []RetryBound
  <1> DEFINE AllBalanced == \A t \in Task : Balanced(t)
  <1>1. Init => AllBalanced
    <2> SUFFICES ASSUME Init, NEW t \in Task  PROVE Balanced(t)
      OBVIOUS
    <2>1. Holders(t) = {} /\ Granted(t) = {}
      BY DEF Init, Holders, Granted, Holds
    <2>2. Waiting(t) = 0 /\ retry_count[t] = 0 /\ disturbed[t] = 0 /\ Limit(t) = 1
      BY DEF Init, Waiting, Limit
    <2> QED  BY <2>1, <2>2, FS_EmptySet DEF Balanced
  <1>2. IInv /\ IInv' /\ AllBalanced /\ [Next]_vars => AllBalanced'
    BY Zenon, BalanceStep DEF IInv
  <1>3. IInv /\ AllBalanced => RetryBound
    <2> SUFFICES ASSUME IInv, AllBalanced, NEW t \in Task
                 PROVE  retry_count[t] <= Limit(t) + disturbed[t]
      BY Zenon DEF RetryBound, Limit
    <2>1. TypeOK
      BY Zenon DEF IInv
    <2>2. Balanced(t)
      BY Zenon
    <2> HIDE DEF AllBalanced
    <2> QED  BY <2>1, <2>2, Numbers DEF Balanced
  <1> HIDE DEF AllBalanced
  <1> QED  BY <1>1, <1>2, <1>3, Invariance, PTL DEF Spec
=============================================================================
