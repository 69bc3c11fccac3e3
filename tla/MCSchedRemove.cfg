\* The same scheduler: an interrupt wakes a cancellable sleeper after
\* sched_cancel has read its kt_wchan and before ktqueue_remove, and the
\* counts of two queues go wrong.
SPECIFICATION SchedSpec
CONSTANTS
    t1 = t1
    t2 = t2
    t3 = t3
    q1 = q1
    q2 = q2
    kt_runq = kt_runq
    NULL = NULL
    Threads <- MCThreads
    WaitQueues <- MCWaitQueues
    IrqQueues = {q1}
    CancellableQueues = {q1}
INVARIANT
    QueueStateConsistent
