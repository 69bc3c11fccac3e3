\* Four process slots: the init process, a child, a grandchild and its child.
SPECIFICATION ProcSpec
CONSTANTS
    p1 = p1
    p2 = p2
    p3 = p3
    p4 = p4
    tty = tty
    f1 = f1
    f2 = f2
    root = root
    dir = dir
    kt_runq = kt_runq
    NULL = NULL
    idleproc = idleproc
    Threads <- Procs4
    WaitQueues <- WaitQueues4
    IrqQueues = {tty}
    CancellableQueues = {tty}
    PROC_MAX_COUNT = 5
    NFILES = 1
    Files = {f1}
    Vnodes = {root}
    vfs_root = root
    NTERMS = 1
    slab_obj_alloc <- AnyObject
    PageAllocFails = FALSE
    CleanupBlocks = FALSE
    Calls = {"proc_create", "do_waitpid", "do_exit", "sched_yield"}
INVARIANTS
    NoSleepBesideDeadChild
