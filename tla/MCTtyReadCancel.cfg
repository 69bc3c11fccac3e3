\* Two threads read a terminal of two characters while keys arrive, and one
\* is cancelled in its sleep as a key wakes it: the counts of the read queue
\* and of the run queue go wrong.
SPECIFICATION TtySpec
CONSTANTS
    t1 = t1
    t2 = t2
    rq = rq
    NULL = NULL
    kt_runq = kt_runq
    Threads <- TwoThreads
    WaitQueues <- ReadQueue
    IrqQueues <- ReadQueue
    CancellableQueues <- ReadQueue
    ldisc_read_queue = rq
    LDISC_BUFFER_SIZE = 2
    Letters <- OneLetter
    Counts <- OneOrTwoBytes
INVARIANT
    QueueStateConsistent
