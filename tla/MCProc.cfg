\* The whole supervisor but the descriptor calls: three process slots, three
\* pids, and a terminal queue that processes sleep on and the keyboard wakes.
SPECIFICATION ProcSpec
CONSTANTS
    p1 = p1
    p2 = p2
    p3 = p3
    p4 = p4
    tty = tty
    f1 = f1
    f2 = f2
    root = root
    dir = dir
    kt_runq = kt_runq
    NULL = NULL
    idleproc = idleproc
    Threads <- Procs3
    WaitQueues <- WaitQueues3
    IrqQueues = {tty}
    CancellableQueues = {tty}
    PROC_MAX_COUNT = 4
    NFILES = 1
    Files = {f1}
    Vnodes = {root}
    vfs_root = root
    NTERMS = 1
    slab_obj_alloc <- AnyObject
    PageAllocFails = TRUE
    CleanupBlocks = TRUE
    Calls = {"proc_create", "proc_kill", "proc_kill_all", "do_waitpid", "do_exit", "sched_yield", "sched_cancellable_sleep_on"}
SYMMETRY ProcSymmetry3
INVARIANTS
    ProcTypeOK
    StopsOnlyInCleanup
    ProcGetIdFirstFree
    PidsUnique
    ProcTreeConsistent
