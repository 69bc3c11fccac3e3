------------------------------- MODULE MCFork -------------------------------
(***************************************************************************)
(* fork for model checking: three process slots, so that a child forks a child of its *)
(* own and chains of two shadow objects arise; a first process with a      *)
(* private page (2) and a shared page (3) and no memory at page 4; pages   *)
(* of one byte and one value to write, which is what tells a page that was *)
(* written from one that was not.                                          *)
(***************************************************************************)
EXTENDS Fork, TLC

Area(vfn, flags, o) ==
    [vma_start |-> vfn, vma_end |-> vfn + 1, vma_off |-> 0,
     vma_prot |-> {"PROT_READ", "PROT_WRITE"}, vma_flags |-> flags, vma_obj |-> o]

PrivateAndShared == <<Area(2, {"MAP_PRIVATE"}, 1), Area(3, {"MAP_SHARED"}, 2)>>

ReadWriteExec == {{}, {"FAULT_WRITE"}, {"FAULT_EXEC"}}

ReadWrite == {{}, {"FAULT_WRITE"}}

\* The second vmarea_alloc of vmmap_clone, the call of shadow_create and
\* the allocations of proc_create and kthread_clone may each fail.
AnyAllocation ==
    {<<"proc_create", 1>>, <<"kthread_clone", 1>>, <<"vmarea_alloc", 2>>, <<"shadow_create", 1>>}

=============================================================================
