\* Two processes that share the terminal's file object: one reads, the other
\* seeks while the reader sleeps.
SPECIFICATION VfsSpec
CONSTANTS
    Threads = {t1, t2}
    Vnodes = {4}
    VnMode <- Modes
    Inherited = 4
    InheritedFlags <- TerminalFlags
    NFILES = 1
    MAXFILES = 1
    MaxLen = 2
    MaxPos = 3
    Lens = {1}
    Offsets <- Seeks
    OpenFlags <- Flags
    Blocking <- MaySleep
    Calls = {"do_read", "do_lseek"}
    NULL = NULL
PROPERTIES
    ReadsAreContiguous
