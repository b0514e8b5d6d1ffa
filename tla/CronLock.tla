------------------------------- MODULE CronLock -------------------------------
(***************************************************************************)
(* The lock around every job of cron/mod.rs: acquire_cron_lock reads the   *)
(* lock document and writes it in two statements, the job runs,            *)
(* release_cron_lock writes it again.  The holder is not identified.       *)
(*                                                                         *)
(* Time is kept as ages: how long ago lockedAt is, and how long ago a      *)
(* worker took the time it will write as lockedAt.                         *)
(***************************************************************************)
EXTENDS Naturals

CONSTANTS
    Worker,   \* server processes that run the same job
    TTL,      \* ttl_minutes
    MaxLag,   \* bound: ticks from reading the clock to writing the lock
    MaxFaults \* bound: failed statements and crashes

VARIABLES
    lock,     \* status of the lock document; "none" if there is none
    age,      \* age of its lockedAt, at most TTL + MaxLag
    pc,       \* where each worker is
    lag,      \* age of the time it took
    faults,   \* history: faults so far
    outdated, \* history: workers whose read of the lock is older than its last write
    excused   \* history: the lock was taken in one of the ways that break it

vars == <<lock, age, pc, lag, faults, outdated, excused>>

TypeOK ==
    /\ lock \in {"none", "running", "completed"}
    /\ age \in 0..(TTL + MaxLag)
    /\ pc \in [Worker -> {"idle", "check", "write", "job"}]
    /\ lag \in [Worker -> 0..MaxLag]
    /\ faults \in 0..MaxFaults
    /\ outdated \in SUBSET Worker
    /\ excused \in {0, 1}

Init ==
    /\ lock = "none"
    /\ age = 0
    /\ pc = [w \in Worker |-> "idle"]
    /\ lag = [w \in Worker |-> 0]
    /\ faults = 0
    /\ outdated = {}
    /\ excused = 0

Goto(w, label) == pc' = [pc EXCEPT ![w] = label]

Fault ==
    /\ faults < MaxFaults
    /\ faults' = faults + 1

Running == {w \in Worker : pc[w] = "job"}

\* ts > now - ttl_minutes, with now as the worker took it.
Held(w) == lock = "running" /\ age < lag[w] + TTL

\* A job has run for the TTL of its lock and still runs.
Overrun == lock = "running" /\ age >= TTL /\ Running # {}

\* Time passes; a worker that is about to write does not lag more than MaxLag.
Tick ==
    /\ \A w \in Worker : pc[w] \in {"check", "write"} => lag[w] < MaxLag
    /\ age' = IF age < TTL + MaxLag THEN age + 1 ELSE age
    /\ lag' = [w \in Worker |-> IF pc[w] \in {"check", "write"} THEN lag[w] + 1 ELSE 0]
    /\ UNCHANGED <<lock, pc, faults, outdated, excused>>

\* A job is due: the worker takes the time.
Begin(w) ==
    /\ pc[w] = "idle"
    /\ Goto(w, "check")
    /\ lag' = [lag EXCEPT ![w] = 0]
    /\ UNCHANGED <<lock, age, faults, outdated, excused>>

\* MUTANT: a running lock is respected however old it is.
CheckNoTTL(w) ==
    /\ pc[w] = "check"
    /\ Goto(w, IF lock = "running" THEN "idle" ELSE "write")
    /\ outdated' = outdated \ {w}
    /\ UNCHANGED <<lock, age, lag, faults, excused>>

\* MUTANT: the status of the lock is not looked at.
CheckIgnoresStatus(w) ==
    /\ pc[w] = "check"
    /\ Goto(w, "write")
    /\ outdated' = outdated \ {w}
    /\ UNCHANGED <<lock, age, lag, faults, excused>>

\* get_document and the test of what it returns.
Check(w) ==
    /\ pc[w] = "check"
    /\ Goto(w, IF Held(w) THEN "idle" ELSE "write")
    /\ outdated' = outdated \ {w}
    /\ UNCHANGED <<lock, age, lag, faults, excused>>

\* get_document fails, which counts as no lock.
CheckFails(w) ==
    /\ pc[w] = "check"
    /\ Fault
    /\ Goto(w, "write")
    /\ outdated' = outdated \cup {w}
    /\ UNCHANGED <<lock, age, lag, excused>>

\* upsert_document.  Other runs are not excluded if the lock was written since it was
\* read, if the read had failed, or if the job it is taken from runs past the TTL.
Write(w) ==
    /\ pc[w] = "write"
    /\ lock' = "running"
    /\ age' = lag[w]
    /\ Goto(w, "job")
    /\ outdated' = Worker
    /\ excused' = IF w \in outdated \/ Overrun THEN 1 ELSE excused
    /\ UNCHANGED <<lag, faults>>

\* upsert_document fails, and acquire_cron_lock returns false.
WriteFails(w) ==
    /\ pc[w] = "write"
    /\ Fault
    /\ Goto(w, "idle")
    /\ UNCHANGED <<lock, age, lag, outdated, excused>>

\* The job ends; release_cron_lock.
Release(w) ==
    /\ pc[w] = "job"
    /\ lock' = "completed"
    /\ Goto(w, "idle")
    /\ outdated' = Worker
    /\ UNCHANGED <<age, lag, faults, excused>>

\* update_document fails, or the process stops.
Crash(w) ==
    /\ pc[w] # "idle"
    /\ Fault
    /\ Goto(w, "idle")
    /\ UNCHANGED <<lock, age, lag, outdated, excused>>

Step(w) == Check(w) \/ Write(w) \/ Release(w)

Next ==
    \/ Tick
    \/ \E w \in Worker : Begin(w) \/ Step(w) \/ CheckFails(w) \/ WriteFails(w) \/ Crash(w)

Spec == Init /\ [][Next]_vars

-----------------------------------------------------------------------------
(* Properties. *)

\* Two workers run a job of cron/mod.rs together only if one of them wrote the
\* lock over a write it had not seen, after a failed read of it, or over the lock
\* of a job that had run for the TTL.  Without these, the lock excludes, whatever
\* crashes and failed releases there are.
Exclusive ==
    excused = 0 => \A u, v \in Running : u = v

\* A lock left behind by a worker that stopped or could not release it does not
\* stop the job for good: after the TTL another run takes it over.
LockIsNotStuck == (lock = "running" /\ Running = {}) ~> (Running # {})
=============================================================================
