----------------------------- MODULE MCTaskQueue -----------------------------
(* A small instance of TaskQueue: two workers that poll the same queue. *)
EXTENDS TaskQueue

CONSTANTS w1, w2, q1

MCWorker == {w1, w2}
MCQueue == {q1}
MCQueueOf == [w \in MCWorker |-> q1]
=============================================================================
