\* do_mmap alone: two mappings, the second longer than the first.
SPECIFICATION VmSpec
CONSTANTS
    PAGE_SIZE = 2
    USER_MEM_LOW = 4
    USER_MEM_HIGH = 14
    WORD = 64
    VMAREAS = 3
    AnonObjs <- ThreeObjs
    NFILES = 4
    p_files <- OpenFiles
    NULL = NULL
    SIZEOF_ARGSTR = 1
    o1 = o1
    o2 = o2
    o3 = o3
    fo = fo
    Calls = {"do_mmap"}
    MapCalls <- SomeMapCalls
    MapPages = {}
    Lens = {}
    Addrs = {}
    GetPframeYields = {"frame"}
INVARIANTS
    AreasSortedDisjoint
