---------------------------- MODULE MCPrimitives -----------------------------
(***************************************************************************)
(* StockCas and CronLock for TLC: two restores, of different quantities,   *)
(* of the same product (products do not interact, so one is enough), or    *)
(* the processes that run a job.  The initial state chooses which of them  *)
(* runs, and the fairness of CronLock is assumed for the lock.             *)
(***************************************************************************)
EXTENDS Primitives

CONSTANTS p1, r1, r2

VARIABLE part

MCProductOf == [r \in Restorer |-> p1]
MCQuantity == [r \in Restorer |-> IF r = r2 THEN 2 ELSE 1]

MCInit ==
    /\ Init /\ L!Init /\ D!Init
    /\ \/ part = "stock"
       \/ part = "lock" /\ stock = [p \in Product |-> 0]

MCNext ==
    \/ part = "stock" /\ Next /\ UNCHANGED <<part, lockVars, deliveryVars>>
    \/ part = "lock" /\ L!Next /\ UNCHANGED <<part, vars, deliveryVars>>

\* The scheduler starts the job again and again, statements return, jobs end.
LockFairness ==
    /\ WF_lockVars(part = "lock" /\ L!Tick)
    /\ \A w \in Worker : /\ WF_lockVars(part = "lock" /\ L!Begin(w))
                         /\ WF_lockVars(part = "lock" /\ L!Step(w))

MCSpec == MCInit /\ [][MCNext]_<<part, vars, lockVars, deliveryVars>> /\ LockFairness

-----------------------------------------------------------------------------
\* A lock left behind by a worker that stopped or could not release it does not
\* stop the job for good: after the TTL another run takes it over.
LockIsNotStuck == L!LockIsNotStuck
=============================================================================
