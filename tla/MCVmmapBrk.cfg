\* The heap under do_brk, with the mappings do_mmap places from the top.
SPECIFICATION VmSpec
CONSTANTS
    PAGE_SIZE = 2
    USER_MEM_LOW = 4
    USER_MEM_HIGH = 14
    WORD = 64
    VMAREAS = 3
    AnonObjs <- ThreeObjs
    NFILES = 4
    p_files <- OpenFiles
    NULL = NULL
    SIZEOF_ARGSTR = 1
    o1 = o1
    o2 = o2
    o3 = o3
    fo = fo
    Calls = {"do_brk", "do_mmap", "vmmap_destroy"}
    MapCalls <- SomeMapCalls
    MapPages = {0, 1, 2}
    Lens = {0, 1, 4}
    Addrs = {2, 4, 5, 8, 9, 12, 14, 16}
    GetPframeYields = {"frame"}
INVARIANTS
    BreakIsBacked
