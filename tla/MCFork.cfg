\* fork, exit, page faults and writes of three processes over a private
\* and a shared page.
SPECIFICATION ForkSpec
CONSTANTS
    NULL = NULL
    NPROCS = 3
    ANONS = 2
    SHADOWS = 2
    VMAREAS = 6
    PageNums = {0}
    PAGE_BYTES = 1
    Vfns = {2, 3, 4}
    Values = {1}
    InitMap <- PrivateAndShared
    KthreadClones = TRUE
    GetPframeYields = {"frame", "zero", "error", "fault"}
    PtUnmapTakesLength = TRUE
    FailPoints <- AnyAllocation
    Causes <- ReadWriteExec
    Calls = {"do_fork", "do_exit", "handle_pagefault", "write", "copy_to_user", "vmmap_collapse"}
INVARIANTS
    ForkTypeOK
    ShadowChainsWellFormed
    NoDanglingReferences
    SharedMemoryIsShared
PROPERTIES
    ExclusiveWritesArePrivate
    FirstTouchIsInvisible
