------------------------------ MODULE MCSched ------------------------------
(***************************************************************************)
(* The scheduler for model checking: three threads, one wait queue that    *)
(* threads sleep on cancellably and one that an interrupt handler wakes.   *)
(***************************************************************************)
EXTENDS Sched

CONSTANTS t1, t2, t3, q1, q2

MCThreads == {t1, t2, t3}
MCWaitQueues == {q1, q2}

=============================================================================
