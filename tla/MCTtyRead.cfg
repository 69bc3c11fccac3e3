\* Two threads read a terminal of two characters while keys arrive.
SPECIFICATION TtySpec
CONSTANTS
    t1 = t1
    t2 = t2
    rq = rq
    NULL = NULL
    kt_runq = kt_runq
    Threads <- TwoThreads
    WaitQueues <- ReadQueue
    IrqQueues <- ReadQueue
    CancellableQueues <- ReadQueue
    ldisc_read_queue = rq
    LDISC_BUFFER_SIZE = 2
    Letters <- OneLetter
    Counts <- OneOrTwoBytes
INVARIANTS
    NoSleepBesideInput
PROPERTIES
    ReaderGetsLine
