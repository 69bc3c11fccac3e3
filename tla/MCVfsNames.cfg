\* The calls of the name space by three threads over two directories and a
\* regular file: references, locks and the order of locks.
SPECIFICATION VfsSpec
CONSTANTS
    Threads = {t1, t2, t3}
    Vnodes = {1, 2, 3}
    VnMode <- Modes
    Inherited = NULL
    InheritedFlags <- AppendFlags
    NFILES = 1
    MAXFILES = 1
    MaxLen = 1
    MaxPos = 2
    Lens = {1}
    Offsets <- Seeks
    OpenFlags <- Flags
    Blocking <- MaySleep
    Calls = {"do_stat", "do_mknod", "do_mkdir", "do_rmdir", "do_unlink", "do_link", "do_rename"}
    NULL = NULL
SYMMETRY ThreadSymmetry
INVARIANTS
    ReferencesBalanced
    LocksAreHeldByCalls
    NoWaitCycle
