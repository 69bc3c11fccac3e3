\* Does do_fork leave every process reading what it read, and give the child
\* the memory of its parent?  Four process slots and three shadow objects:
\* a child of a child forks.
SPECIFICATION ForkSpec
CONSTANTS
    NULL = NULL
    NPROCS = 4
    ANONS = 2
    SHADOWS = 3
    VMAREAS = 8
    PageNums = {0}
    PAGE_BYTES = 1
    Vfns = {2, 3, 4}
    Values = {1}
    InitMap <- PrivateAndShared
    KthreadClones = TRUE
    GetPframeYields = {"frame", "error"}
    PtUnmapTakesLength = TRUE
    FailPoints = {}
    Causes <- ReadWriteExec
    Calls = {"do_fork", "do_exit", "handle_pagefault", "write"}
PROPERTIES
    ForkCopiesMemory
