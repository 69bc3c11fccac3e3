\* The calls on descriptors by two threads that share the console and open
\* a directory and a regular file: positions, file references and appends.
SPECIFICATION VfsSpec
CONSTANTS
    Threads = {t1, t2, t3}
    Vnodes = {1, 3, 4}
    VnMode <- Modes
    Inherited = 3
    InheritedFlags <- AppendFlags
    NFILES = 1
    MAXFILES = 1
    MaxLen = 2
    MaxPos = 3
    Lens = {1}
    Offsets <- Seeks
    OpenFlags <- Flags
    Blocking <- MaySleep
    Calls = {"do_open", "do_close", "do_read", "do_write", "do_getdent", "do_lseek"}
    NULL = NULL
SYMMETRY ThreadSymmetry
INVARIANTS
    VfsTypeOK
    ReferencesBalanced
    LocksAreHeldByCalls
PROPERTIES
    AppendsNeverOverwrite
