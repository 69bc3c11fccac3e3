\* initproc_run with more terminals than the process table has room for:
\* the loop does not look at what proc_create returns.
SPECIFICATION ProcSpec
CONSTANTS
    p1 = p1
    p2 = p2
    p3 = p3
    p4 = p4
    tty = tty
    f1 = f1
    f2 = f2
    root = root
    dir = dir
    kt_runq = kt_runq
    NULL = NULL
    idleproc = idleproc
    Threads <- Procs3
    WaitQueues <- WaitQueues3
    IrqQueues = {tty}
    CancellableQueues = {tty}
    PROC_MAX_COUNT = 4
    NFILES = 1
    Files = {f1}
    Vnodes = {root}
    vfs_root = root
    NTERMS = 3
    slab_obj_alloc <- OneObject
    PageAllocFails = FALSE
    CleanupBlocks = FALSE
    Calls = {"initproc_run", "do_exit", "sched_yield"}
INVARIANTS
    NoPanic
