\* From boot to shutdown: the init process starts one kshell and waits for
\* every child, the other processes create, wait, yield and exit, and a
\* proc_cleanup may sleep in fput or vput.  Three process slots, no symmetry.
SPECIFICATION ProcSpec
CONSTANTS
    p1 = p1
    p2 = p2
    p3 = p3
    p4 = p4
    tty = tty
    f1 = f1
    f2 = f2
    root = root
    dir = dir
    kt_runq = kt_runq
    NULL = NULL
    idleproc = idleproc
    Threads <- Procs3
    WaitQueues <- WaitQueues3
    IrqQueues = {tty}
    CancellableQueues = {tty}
    PROC_MAX_COUNT = 4
    NFILES = 1
    Files = {f1}
    Vnodes = {root}
    vfs_root = root
    NTERMS = 1
    slab_obj_alloc <- OneObject
    PageAllocFails = FALSE
    CleanupBlocks = TRUE
    Calls = {"initproc_run", "proc_create", "do_waitpid", "do_exit", "sched_yield"}
PROPERTIES
    WaitReturns
    InitShutsDown
