\* Descriptors and working directories: two process slots, two descriptors,
\* two file objects and two directories.
SPECIFICATION ProcSpec
CONSTANTS
    p1 = p1
    p2 = p2
    p3 = p3
    p4 = p4
    tty = tty
    f1 = f1
    f2 = f2
    root = root
    dir = dir
    kt_runq = kt_runq
    NULL = NULL
    idleproc = idleproc
    Threads <- Procs2
    WaitQueues <- WaitQueues2
    IrqQueues = {tty}
    CancellableQueues = {tty}
    PROC_MAX_COUNT = 4
    NFILES = 2
    Files = {f1, f2}
    Vnodes = {root, dir}
    vfs_root = root
    NTERMS = 1
    slab_obj_alloc <- AnyObject
    PageAllocFails = FALSE
    CleanupBlocks = TRUE
    Calls = {"proc_create", "do_waitpid", "do_exit", "sched_yield", "do_open", "do_close", "do_dup", "do_dup2", "do_chdir"}
SYMMETRY ProcSymmetry2
INVARIANTS
    RefcountsMatch
