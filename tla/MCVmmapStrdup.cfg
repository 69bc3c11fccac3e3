\* user_strdup of a string the process can read.
SPECIFICATION VmSpec
CONSTANTS
    PAGE_SIZE = 2
    USER_MEM_LOW = 4
    USER_MEM_HIGH = 14
    WORD = 64
    VMAREAS = 3
    AnonObjs <- ThreeObjs
    NFILES = 4
    p_files <- OpenFiles
    NULL = NULL
    SIZEOF_ARGSTR = 1
    o1 = o1
    o2 = o2
    o3 = o3
    fo = fo
    Calls = {"vmmap_map"}
    MapCalls <- NoMapCalls
    MapPages = {1}
    Lens = {1}
    Addrs = {4, 5}
    GetPframeYields = {"frame"}
INVARIANTS
    StrdupDuplicates
