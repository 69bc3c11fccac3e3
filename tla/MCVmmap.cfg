\* The areas of an address space under vmmap_map from the bottom and
\* do_munmap, with areas of at most two pages.
SPECIFICATION VmSpec
CONSTANTS
    PAGE_SIZE = 2
    USER_MEM_LOW = 4
    USER_MEM_HIGH = 14
    WORD = 64
    VMAREAS = 3
    AnonObjs <- ThreeObjs
    NFILES = 4
    p_files <- OpenFiles
    NULL = NULL
    SIZEOF_ARGSTR = 1
    o1 = o1
    o2 = o2
    o3 = o3
    fo = fo
    Calls = {"vmmap_map", "do_munmap", "vmmap_destroy"}
    MapCalls <- NoMapCalls
    MapPages = {0, 1, 2}
    Lens = {0, 1, 4}
    Addrs = {2, 4, 5, 6, 8, 10, 12, 14}
    GetPframeYields = {"frame", "zero", "error", "fault"}
INVARIANTS
    VmTypeOK
    AreasSortedDisjoint
    MobjRefsMatch
    FindRangeLowest
    RangePermChecksEveryPage
    CopyMovesTheRange
