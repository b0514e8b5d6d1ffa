------------------------------ MODULE TaskQueue ------------------------------
(***************************************************************************)
(* The PostgreSQL task queue of crates/ob-database/src/task_queue.rs: the  *)
(* table _task_queue, the operations of TaskQueue and the loop run_worker  *)
(* executes in every server process.                                       *)
(*                                                                         *)
(* Each SQL statement is one atomic step, so claim_next and fail, which    *)
(* issue two statements, are two steps that interleave with everybody      *)
(* else's.  Instants are abstracted to what the SQL compares them with:    *)
(* due holds the tasks with scheduled_at NULL or past, and lock[t]         *)
(* says whether locked_at is NULL, recent, or older than the 300 s after   *)
(* which run_worker reclaims.  Task ids are numbered in created_at order.  *)
(***************************************************************************)
EXTENDS Integers, FiniteSets

CONSTANTS
    Task,        \* task ids, in the order of created_at
    Worker,      \* processes that execute run_worker
    Queue,       \* queue names
    QueueOf,     \* the queue_name argument of each worker's run_worker
    Retries,     \* values of max_retries in an EnqueueRequest
    MaxFaults,   \* bound: crashes, statement errors and handler overruns
    MaxResets    \* bound: calls of retry_dead_letter

ASSUME TaskAssumption == Task \subseteq Nat \ {0}
ASSUME WorkerAssumption == IsFiniteSet(Worker)
ASSUME QueueAssumption == QueueOf \in [Worker -> Queue]
ASSUME RetriesAssumption == Retries \subseteq Nat
ASSUME BoundAssumption == MaxFaults \in Nat /\ MaxResets \in Nat

VARIABLES
    status,      \* column status; "absent": no such row
    queue,       \* column queue
    due,         \* column scheduled_at, compared with the current time
    lock,        \* column locked_at, compared with the current time
    retry_count, \* column retry_count
    max_retries, \* column max_retries
    pc,          \* where each worker is in the loop of run_worker
    task,        \* the task_id the worker's current iteration is about
    verdict,     \* the branch that fail() chose from the row it selected
    listed,      \* ids the operator got from list_dead_letter
    enqueued,    \* history: ids ever inserted
    claims,      \* history: successful claims of each task
    held,        \* history: the number of the claim a worker holds
    disturbed,   \* history: reclaims and resets of each task
    succeeded,   \* history: tasks some handler run returned Ok for
    faults,      \* history: crashes, errors and overruns so far
    resets       \* history: calls of retry_dead_letter so far

row == <<status, queue, due, lock, retry_count, max_retries>>
local == <<pc, task, verdict>>
history == <<enqueued, claims, held, disturbed, succeeded, faults, resets>>
vars == <<row, local, listed, history>>

NoTask == 0
NoQueue == "no_queue"

Status == {"absent", "pending", "running", "completed", "dead_letter"}

\* Between the claim and the last statement of complete() or fail().
Holding == {"handler", "complete", "fail", "requeue"}

Holds(w, t) == pc[w] \in Holding /\ task[w] = t

TypeOK ==
    /\ status \in [Task -> Status]
    /\ queue \in [Task -> Queue \cup {NoQueue}]
    /\ due \subseteq Task
    /\ lock \in [Task -> {"null", "recent", "stale"}]
    /\ retry_count \in [Task -> Nat]
    /\ max_retries \in [Task -> Nat]
    /\ pc \in [Worker -> {"loop", "claim"} \cup Holding]
    /\ task \in [Worker -> Task \cup {NoTask}]
    /\ verdict \in [Worker -> {"dead_letter", "retry"}]
    /\ listed \subseteq Task
    /\ enqueued \subseteq Task
    /\ claims \in [Task -> Nat]
    /\ held \in [Worker -> Nat]
    /\ disturbed \in [Task -> Nat]
    /\ succeeded \subseteq Task
    /\ faults \in Nat
    /\ resets \in Nat

Init ==
    /\ status = [t \in Task |-> "absent"]
    /\ queue = [t \in Task |-> NoQueue]
    /\ due = {}
    /\ lock = [t \in Task |-> "null"]
    /\ retry_count = [t \in Task |-> 0]
    /\ max_retries = [t \in Task |-> 0]
    /\ pc = [w \in Worker |-> "loop"]
    /\ task = [w \in Worker |-> NoTask]
    /\ verdict = [w \in Worker |-> "retry"]
    /\ listed = {}
    /\ enqueued = {}
    /\ claims = [t \in Task |-> 0]
    /\ held = [w \in Worker |-> 0]
    /\ disturbed = [t \in Task |-> 0]
    /\ succeeded = {}
    /\ faults = 0
    /\ resets = 0

-----------------------------------------------------------------------------
(* Operations of TaskQueue that one statement implements. *)

\* enqueue, and each round of enqueue_batch, which stops at the first error
\* and leaves the tasks inserted so far.  A delay makes the task not due yet.
Enqueue(t, q, m, immediate) ==
    /\ t \notin enqueued
    /\ \A u \in Task : u < t => u \in enqueued
    /\ enqueued' = enqueued \cup {t}
    /\ status' = [status EXCEPT ![t] = "pending"]
    /\ queue' = [queue EXCEPT ![t] = q]
    /\ due' = IF immediate THEN due \cup {t} ELSE due \ {t}
    /\ max_retries' = [max_retries EXCEPT ![t] = m]
    /\ UNCHANGED <<lock, retry_count, local, listed, claims, held, disturbed,
                   succeeded, faults, resets>>

\* MUTANT: the lock is expected to be gone already.
StaleWhenUnlocked(queues) ==
    {t \in Task : status[t] = "running" /\ lock[t] = "null" /\ queue[t] \in queues}

\* The tasks reclaim_stale updates when called for the given queues.
Stale(queues) ==
    {t \in Task : status[t] = "running" /\ lock[t] = "stale" /\ queue[t] \in queues}

\* The UPDATE of reclaim_stale and reclaim_stale_for_queue: retry_count is left
\* alone and max_retries is not looked at.
Reclaim(queues) ==
    /\ Stale(queues) # {}
    /\ status' = [t \in Task |-> IF t \in Stale(queues) THEN "pending" ELSE status[t]]
    /\ lock' = [t \in Task |-> IF t \in Stale(queues) THEN "null" ELSE lock[t]]
    /\ disturbed' = [t \in Task |->
          IF t \in Stale(queues) THEN disturbed[t] + 1 ELSE disturbed[t]]
    /\ UNCHANGED <<queue, due, retry_count, max_retries, local, listed, enqueued,
                   claims, held, succeeded, faults, resets>>

\* reclaim_stale_for_queue, called on its own.
ReclaimQueue(q) == Reclaim({q})

\* purge_completed: the cutoff selects some of the completed rows.
PurgeCompleted(S) ==
    /\ S # {}
    /\ \A t \in S : status[t] = "completed"
    /\ status' = [t \in Task |-> IF t \in S THEN "absent" ELSE status[t]]
    /\ UNCHANGED <<queue, due, lock, retry_count, max_retries, local, listed, history>>

\* list_dead_letter: the ids an operator may pass to retry_dead_letter later.
ListDeadLetter(q) ==
    /\ listed' = {t \in Task : status[t] = "dead_letter" /\ queue[t] = q}
    /\ listed' # listed
    /\ UNCHANGED <<row, local, history>>

\* retry_dead_letter: the UPDATE has no condition on status, so an id that was
\* listed a while ago is reset whatever has happened to the task since.
RetryDeadLetter(t) ==
    /\ t \in listed
    /\ resets < MaxResets
    /\ resets' = resets + 1
    /\ IF status[t] = "absent"
       THEN UNCHANGED <<status, due, lock, retry_count, disturbed>>
       ELSE /\ status' = [status EXCEPT ![t] = "pending"]
            /\ due' = due \cup {t}
            /\ lock' = [lock EXCEPT ![t] = "null"]
            /\ retry_count' = [retry_count EXCEPT ![t] = 0]
            /\ disturbed' = [disturbed EXCEPT ![t] = disturbed[t] + 1]
    /\ UNCHANGED <<queue, max_retries, local, listed, enqueued, claims, held,
                   succeeded, faults>>

-----------------------------------------------------------------------------
(* The loop of run_worker. *)

\* Sleep, then start the next iteration.
NextIteration(w) ==
    /\ pc' = [pc EXCEPT ![w] = "loop"]
    /\ task' = [task EXCEPT ![w] = NoTask]
    /\ held' = [held EXCEPT ![w] = 0]
    /\ verdict' = [verdict EXCEPT ![w] = "retry"]

\* The periodic reclaim_stale(300) at the top of the loop, over every queue.
ReclaimStale(w) ==
    /\ pc[w] = "loop"
    /\ Reclaim(Queue)

\* What the first statement of claim_next selects from.
Eligible(q) == {t \in Task : status[t] = "pending" /\ queue[t] = q /\ t \in due}

\* claim_next, step 1: SELECT ... ORDER BY created_at LIMIT 1.
ClaimSelect(w) ==
    /\ pc[w] = "loop"
    /\ \E t \in Eligible(QueueOf[w]) :
          /\ \A u \in Eligible(QueueOf[w]) : t <= u
          /\ task' = [task EXCEPT ![w] = t]
    /\ pc' = [pc EXCEPT ![w] = "claim"]
    /\ UNCHANGED <<row, verdict, listed, history>>

\* MUTANT: the claiming UPDATE without AND status = 'pending'.
ClaimableById(t) == status[t] # "absent"

\* The WHERE clause of the claiming UPDATE.
Claimable(t) == status[t] = "pending"

\* claim_next, step 2: the UPDATE that claims the row if it is still pending.
ClaimUpdate(w) ==
    LET t == task[w] IN
    /\ pc[w] = "claim"
    /\ IF Claimable(t)
       THEN /\ status' = [status EXCEPT ![t] = "running"]
            /\ lock' = [lock EXCEPT ![t] = "recent"]
            /\ retry_count' = [retry_count EXCEPT ![t] = retry_count[t] + 1]
            /\ claims' = [claims EXCEPT ![t] = claims[t] + 1]
            /\ held' = [held EXCEPT ![w] = claims[t] + 1]
            /\ pc' = [pc EXCEPT ![w] = "handler"]
            /\ UNCHANGED <<task, verdict>>
       ELSE /\ NextIteration(w)
            /\ UNCHANGED <<status, lock, retry_count, claims>>
    /\ UNCHANGED <<queue, due, max_retries, listed, enqueued, disturbed, succeeded,
                   faults, resets>>

\* MUTANT: both results of the handler go to complete.
ReportAlwaysOk(ok) == "complete"

\* What the worker reports for the handler's result.
Report(ok) == IF ok THEN "complete" ELSE "fail"

\* handler(task).await returns.
HandlerReturns(w, ok) ==
    /\ pc[w] = "handler"
    /\ pc' = [pc EXCEPT ![w] = Report(ok)]
    /\ succeeded' = IF ok THEN succeeded \cup {task[w]} ELSE succeeded
    /\ UNCHANGED <<row, task, verdict, listed, enqueued, claims, held, disturbed,
                   faults, resets>>

\* complete: an UPDATE by id, whatever the row has become.
Complete(w) ==
    LET t == task[w] IN
    /\ pc[w] = "complete"
    /\ status' = [status EXCEPT ![t] = IF @ = "absent" THEN @ ELSE "completed"]
    /\ NextIteration(w)
    /\ UNCHANGED <<queue, due, lock, retry_count, max_retries, listed, enqueued,
                   claims, disturbed, succeeded, faults, resets>>

\* MUTANT: one attempt too many.
ExhaustedLate(t) == retry_count[t] > max_retries[t]

\* The test that makes fail() dead-letter.
Exhausted(t) == retry_count[t] >= max_retries[t]

\* fail, first statement: read retry_count and max_retries and choose.
FailSelect(w) ==
    LET t == task[w] IN
    /\ pc[w] = "fail"
    /\ IF status[t] = "absent"
       THEN NextIteration(w)
       ELSE /\ verdict' = [verdict EXCEPT ![w] =
                  IF Exhausted(t) THEN "dead_letter" ELSE "retry"]
            /\ pc' = [pc EXCEPT ![w] = "requeue"]
            /\ UNCHANGED <<task, held>>
    /\ UNCHANGED <<row, listed, enqueued, claims, disturbed, succeeded, faults, resets>>

\* The status fail() writes when no attempts are left.
Abandoned == "dead_letter"

\* fail, second statement: dead-letter, or requeue with a backoff.
FailUpdate(w) ==
    LET t == task[w] IN
    /\ pc[w] = "requeue"
    /\ IF status[t] = "absent"
       THEN UNCHANGED <<status, due, lock>>
       ELSE IF verdict[w] = "dead_letter"
       THEN /\ status' = [status EXCEPT ![t] = Abandoned]
            /\ UNCHANGED <<due, lock>>
       ELSE /\ status' = [status EXCEPT ![t] = "pending"]
            /\ due' = due \ {t}
            /\ lock' = [lock EXCEPT ![t] = "null"]
    /\ NextIteration(w)
    /\ UNCHANGED <<queue, retry_count, max_retries, listed, enqueued, claims,
                   disturbed, succeeded, faults, resets>>

\* The process crashes and restarts, or a statement returns an error, which
\* the loop only logs: the iteration ends and the row stays as it is.
Fault(w) ==
    /\ pc[w] # "loop"
    /\ faults < MaxFaults
    /\ faults' = faults + 1
    /\ NextIteration(w)
    /\ UNCHANGED <<row, listed, enqueued, claims, disturbed, succeeded, resets>>

-----------------------------------------------------------------------------
(* Time. *)

\* scheduled_at passes.
BecomeDue(t) ==
    /\ status[t] = "pending"
    /\ t \notin due
    /\ due' = due \cup {t}
    /\ UNCHANGED <<status, queue, lock, retry_count, max_retries, local, listed, history>>

\* Some worker still works on the claim that locked the row.
Attended(t) == \E w \in Worker : Holds(w, t) /\ held[w] = claims[t]

GrowStale(t) ==
    /\ status[t] = "running"
    /\ lock[t] = "recent"
    /\ lock' = [lock EXCEPT ![t] = "stale"]
    /\ UNCHANGED <<status, queue, due, retry_count, max_retries, local, listed,
                   enqueued, claims, held, disturbed, succeeded, resets>>

\* 300 s pass on a row whose worker is gone.
AbandonedGrowsStale(t) == ~Attended(t) /\ GrowStale(t) /\ UNCHANGED faults

\* A handler runs for more than 300 s; nothing renews locked_at meanwhile.
Overrun(t) ==
    /\ Attended(t)
    /\ faults < MaxFaults
    /\ faults' = faults + 1
    /\ GrowStale(t)

-----------------------------------------------------------------------------

WorkerStep(w) ==
    \/ ClaimSelect(w)
    \/ ClaimUpdate(w)
    \/ \E ok \in BOOLEAN : HandlerReturns(w, ok)
    \/ Complete(w)
    \/ FailSelect(w)
    \/ FailUpdate(w)

Next ==
    \/ \E t \in Task, q \in Queue, m \in Retries, b \in BOOLEAN : Enqueue(t, q, m, b)
    \/ \E q \in Queue : ReclaimQueue(q)
    \/ \E S \in SUBSET Task : PurgeCompleted(S)
    \/ \E q \in Queue : ListDeadLetter(q)
    \/ \E t \in Task : RetryDeadLetter(t)
    \/ \E w \in Worker : ReclaimStale(w) \/ WorkerStep(w) \/ Fault(w)
    \/ \E t \in Task : BecomeDue(t) \/ AbandonedGrowsStale(t) \/ Overrun(t)

Spec == Init /\ [][Next]_vars

\* run_worker never returns and each of its awaits does, so every worker keeps
\* taking steps and keeps making its periodic check; time passes.
Fairness ==
    /\ \A w \in Worker : WF_vars(WorkerStep(w)) /\ WF_vars(ReclaimStale(w))
    /\ \A t \in Task : WF_vars(BecomeDue(t)) /\ WF_vars(AbandonedGrowsStale(t))

FairSpec == Spec /\ Fairness

-----------------------------------------------------------------------------
(* Properties. *)

\* As long as nobody reclaims or resets a task, run_worker executes its handler
\* in at most one worker at a time.
UndisturbedIsExclusive ==
    \A v, w \in Worker : \A t \in Task :
        disturbed[t] = 0 /\ Holds(v, t) /\ Holds(w, t) => v = w

\* As long as nobody reclaims or resets a task, it is claimed at most
\* max_retries times (once when max_retries is 0): the comparison in fail()
\* bounds the increments of claim_next.
UndisturbedRetryBound ==
    \A t \in Task : disturbed[t] = 0 =>
        retry_count[t] <= (IF max_retries[t] = 0 THEN 1 ELSE max_retries[t])

\* In general every reclaim or reset costs at most one attempt more: what it hands out
\* itself and what the fail() of a worker it overtook hands out come to no more than that.
RetryBound ==
    \A t \in Task : retry_count[t] <=
        (IF max_retries[t] = 0 THEN 1 ELSE max_retries[t]) + disturbed[t]

\* The row says completed only if a handler run returned Ok for the task.
CompletedRan == \A t \in Task : status[t] = "completed" => t \in succeeded

\* A completed row never changes again, except that it may be purged, while
\* nobody reclaims or resets the task.
UndisturbedCompletedIsFinal ==
    [][\A t \in Task : status[t] = "completed" /\ disturbed'[t] = 0
            => status'[t] \in {"completed", "absent"}]_vars

\* Every task that was enqueued is settled for good in the end: completed,
\* dead-lettered, or purged, whatever workers crashed on the way.
EveryTaskSettles ==
    \A t \in Task : t \in enqueued ~>
        [](status[t] \in {"completed", "dead_letter", "absent"})
=============================================================================
