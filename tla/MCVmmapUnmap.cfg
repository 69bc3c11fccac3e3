\* An unmap at the low end of a mapping of three pages.
SPECIFICATION VmSpec
CONSTANTS
    PAGE_SIZE = 2
    USER_MEM_LOW = 4
    USER_MEM_HIGH = 14
    WORD = 64
    VMAREAS = 3
    AnonObjs <- ThreeObjs
    NFILES = 4
    p_files <- OpenFiles
    NULL = NULL
    SIZEOF_ARGSTR = 1
    o1 = o1
    o2 = o2
    o3 = o3
    fo = fo
    Calls = {"do_mmap", "do_munmap"}
    MapCalls <- ThreePages
    MapPages = {}
    Lens = {1}
    Addrs = {8, 10, 12}
    GetPframeYields = {"frame"}
INVARIANTS
    RemoveUnmapsRange
