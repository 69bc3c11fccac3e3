\* do_brk back to the start of the heap.
SPECIFICATION VmSpec
CONSTANTS
    PAGE_SIZE = 2
    USER_MEM_LOW = 4
    USER_MEM_HIGH = 14
    WORD = 64
    VMAREAS = 3
    AnonObjs <- ThreeObjs
    NFILES = 4
    p_files <- OpenFiles
    NULL = NULL
    SIZEOF_ARGSTR = 1
    o1 = o1
    o2 = o2
    o3 = o3
    fo = fo
    Calls = {"do_brk"}
    MapCalls <- NoMapCalls
    MapPages = {}
    Lens = {}
    Addrs = {4, 5, 8, 9, 12}
    GetPframeYields = {"frame"}
INVARIANTS
    NoStaleArea
