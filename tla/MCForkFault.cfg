\* The calls as they are written: kthread_clone returns NULL, and a caller
\* of mobj_get_pframe holds its status for the frame.  Every access is to a
\* page the process may read and write.
SPECIFICATION ForkSpec
CONSTANTS
    NULL = NULL
    NPROCS = 2
    ANONS = 2
    SHADOWS = 2
    VMAREAS = 6
    PageNums = {0}
    PAGE_BYTES = 1
    Vfns = {2, 3}
    Values = {1}
    InitMap <- PrivateAndShared
    KthreadClones = FALSE
    GetPframeYields = {"zero", "fault"}
    PtUnmapTakesLength = TRUE
    FailPoints <- AnyAllocation
    Causes <- ReadWrite
    Calls = {"do_fork", "handle_pagefault", "write", "copy_to_user", "vmmap_collapse"}
PROPERTIES
    FaultsAreResolved
