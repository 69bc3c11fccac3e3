\* A process that exits while it holds a file or a directory, with an fput or
\* a vput that sleeps: proc_cleanup has marked the process DEAD before it, and
\* the thread is EXITED only after it.
SPECIFICATION ProcSpec
CONSTANTS
    p1 = p1
    p2 = p2
    p3 = p3
    p4 = p4
    tty = tty
    f1 = f1
    f2 = f2
    root = root
    dir = dir
    kt_runq = kt_runq
    NULL = NULL
    idleproc = idleproc
    Threads <- Procs2
    WaitQueues <- WaitQueues2
    IrqQueues = {tty}
    CancellableQueues = {tty}
    PROC_MAX_COUNT = 4
    NFILES = 2
    Files = {f1, f2}
    Vnodes = {root, dir}
    vfs_root = root
    NTERMS = 1
    slab_obj_alloc <- AnyObject
    PageAllocFails = FALSE
    CleanupBlocks = TRUE
    Calls = {"proc_create", "do_waitpid", "do_exit", "sched_yield"}
SYMMETRY ProcSymmetry2
INVARIANTS
    ReapedThreadsHaveExited
