\* The read queue of a terminal, which threads sleep on cancellably and the
\* keyboard interrupt wakes at any time, and a second queue only threads
\* wake: safety under every interleaving and liveness under cooperative
\* fairness.
SPECIFICATION SchedSpec
CONSTANTS
    t1 = t1
    t2 = t2
    t3 = t3
    q1 = q1
    q2 = q2
    kt_runq = kt_runq
    NULL = NULL
    Threads <- MCThreads
    WaitQueues <- MCWaitQueues
    IrqQueues = {q1}
    CancellableQueues = {q1}
INVARIANTS
    SchedTypeOK
    NoPanic
    ConsistentButForCancelRace
    NoCancelledSleeper
PROPERTIES
    ImplementsFifoSched
    RunnableEventuallyRuns
    CancelledSleeperReturns
