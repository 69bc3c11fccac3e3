-------------------------------- MODULE Fork --------------------------------
(***************************************************************************)
(* fork and copy-on-write: do_fork, vmmap_clone and vmmap_collapse of      *)
(* kernel/vm/vmmap.c, handle_pagefault, and the accesses processes make to *)
(* their memory, over the memory objects of module Shadow.                 *)
(*                                                                         *)
(* A process is its address space p_vmmap (NULL when the slot holds no     *)
(* process) and its page table p_pml4, which maps a page number to a page  *)
(* frame and says whether the page may be written.  Every process has one  *)
(* thread, named like the process.  A kernel call is one step: the kernel  *)
(* is not preempted, and the calls modelled here do not sleep.  A process  *)
(* that exits is reaped in the same step, which is when proc_destroy gives *)
(* up its address space.                                                   *)
(*                                                                         *)
(* handle_pagefault and vmmap_write call mobj_get_pframe with a null       *)
(* out-pointer and take the long it returns for the frame (access.c 262,   *)
(* vmmap.c 621).  GetPframeYields says what such a caller may hold         *)
(* afterwards: "zero", the call did its work and returned 0, which reads   *)
(* as no frame; "fault", the store through the null pointer or the use of  *)
(* a negative status as a frame stops the kernel; and, as the callers mean *)
(* the call, "frame", the frame itself, and "error", NULL for a frame that *)
(* could not be had.  kthread_clone returns NULL (kthread.c 112-116);      *)
(* KthreadClones lets it return a thread as its comment specifies.         *)
(***************************************************************************)
EXTENDS Shadow, Sequences, SequencesExt

CONSTANTS
    NPROCS,         \* process slots
    VMAREAS,        \* areas the slab of vmarea_t can hold
    Vfns,           \* the page numbers processes touch
    Values,         \* the bytes processes write
    InitMap,        \* the address space of the first process
    KthreadClones,  \* kthread_clone returns a thread, as its comment specifies
    GetPframeYields,\* what a caller of mobj_get_pframe may hold for the frame
    PtUnmapTakesLength, \* the third argument of pt_unmap_range is a length, not an end
    FailPoints,     \* allocations that may fail: <<function, which call>>
    Causes,         \* the causes page faults are raised with
    Calls           \* the calls processes make in this configuration

ASSUME
    /\ KthreadClones \in BOOLEAN /\ PtUnmapTakesLength \in BOOLEAN
    /\ GetPframeYields \subseteq {"frame", "zero", "error", "fault"}

ENOMEM == 12
EFAULT == 14

Procs == 1 .. NPROCS

VARIABLES
    p_vmmap,        \* process -> the areas of its map in list order, or NULL
    p_pml4,         \* process -> page number -> mapped frame, or NULL
    fk_ret          \* what the last do_fork returned

fkVars == <<mobj, panic, p_vmmap, p_pml4, fk_ret>>

pt_create == [vfn \in Vfns |-> NULL]

Alive(p) == p_vmmap[p] # NULL

-----------------------------------------------------------------------------
(* vmmap.c *)

\* vmmap_lookup: the first area of the list that holds the page, or NULL.
vmmap_lookup(list, vfn) ==
    LET found == SelectSeq(list, LAMBDA vma : vfn >= vma.vma_start /\ vfn < vma.vma_end)
    IN  IF found = <<>> THEN NULL ELSE found[1]

\* vmarea_free gives up the area's reference to its object.
vmarea_free(K, vma) == mobj_put(K, vma.vma_obj)

vmmap_destroy(K, list) == FoldLeft(vmarea_free, K, list)

\* Areas in use by all processes; vmarea_alloc fails when the slab is full.
AreasInUse == FoldLeft(LAMBDA n, p : IF Alive(p) THEN n + Len(p_vmmap[p]) ELSE n,
                       0, SetToSeq(Procs))

\* A fault of vmmap_clone: the copies take no reference to their objects.
vmmap_clone_noref(K, list, fails) ==
    LET copied == Min({Len(list), VMAREAS - AreasInUse}
                      \cup (IF fails > 0 THEN {fails - 1} ELSE {}))
    IN  IF copied < Len(list)
        THEN [K |-> vmmap_destroy(K, SubSeq(list, 1, copied)), map |-> NULL]
        ELSE [K |-> K, map |-> list]

\* vmmap_clone(map): a list with a copy of each area, each holding a further
\* reference to the area's object; NULL, with the references given back,
\* when the `fails`-th vmarea_alloc or the slab fails.
vmmap_clone(K, list, fails) ==
    LET room   == VMAREAS - AreasInUse
        copied == Min({Len(list), room} \cup (IF fails > 0 THEN {fails - 1} ELSE {}))
        part   == SubSeq(list, 1, copied)
        refd   == FoldLeft(LAMBDA J, vma : mobj_ref(J, vma.vma_obj), K, part)
    IN  IF copied < Len(list)
        THEN [K |-> vmmap_destroy(refd, part), map |-> NULL]
        ELSE [K |-> refd, map |-> list]

\* One round of the loop of vmmap_collapse.
CollapseArea(K, vma, thr) ==
    IF K.obj[vma.vma_obj].mo_type = MOBJ_SHADOW
    THEN mobj_unlock(shadow_collapse(mobj_lock(K, vma.vma_obj, thr), vma.vma_obj, thr),
                     vma.vma_obj, thr)
    ELSE K

vmmap_collapse(K, list, thr) ==
    FoldLeft(LAMBDA J, vma : CollapseArea(J, vma, thr), K, list)

-----------------------------------------------------------------------------
(* do_fork *)

IsPrivate(vma) == "MAP_SHARED" \notin vma.vma_flags

\* A fault of IsShadowed: shared areas get a shadow object too.
IsShadowed_all(vma) == TRUE

\* The areas do_fork gives a shadow object.
IsShadowed(vma) == IsPrivate(vma)

\* One round of the loop of do_fork over the child's areas.  C is the state,
\* the child's list and whether shadow_create has failed; `fails` tells
\* which call of shadow_create finds no memory.
ShadowArea(C, i, fails) ==
    LET vma  == C.list[i]
        made == IF C.made + 1 = fails THEN [K |-> C.K, obj |-> NULL]
                ELSE shadow_create(C.K, vma.vma_obj)
    IN  CASE C.failed \/ ~IsShadowed(vma) -> C
          [] ~C.failed /\ IsShadowed(vma) /\ made.obj = NULL ->
                [C EXCEPT !.K = vmmap_destroy(C.K, C.list), !.failed = TRUE]
          [] OTHER ->
                [K |-> mobj_ref(made.K, made.obj),
                 list |-> [C.list EXCEPT ![i].vma_obj = made.obj],
                 made |-> C.made + 1, failed |-> FALSE]

ShadowAreas(K, list, fails) ==
    FoldLeft(LAMBDA C, i : ShadowArea(C, i, fails),
             [K |-> K, list |-> list, made |-> 0, failed |-> FALSE],
             [i \in 1 .. Len(list) |-> i])

\* pt_unmap_range(pml4, vaddr, x), in pages: the entries from vaddr up to
\* the end x stands for are cleared, none when that end is not above vaddr.
pt_unmap_range(pml4, vaddr, x) ==
    LET vmax == IF PtUnmapTakesLength THEN vaddr + x ELSE x
    IN  [vfn \in Vfns |-> IF vaddr <= vfn /\ vfn < vmax THEN NULL ELSE pml4[vfn]]

\* The last loop of do_fork: pt_unmap_range for every private area of the
\* parent, with the start of the area and its length as arguments.
UnmapPrivate(pml4, list) ==
    FoldLeft(LAMBDA pt, vma : IF IsPrivate(vma)
                              THEN pt_unmap_range(pt, vma.vma_start,
                                                  vma.vma_end - vma.vma_start)
                              ELSE pt,
             pml4, list)

Fails(fail, what) == IF fail # NULL /\ fail[1] = what THEN fail[2] ELSE 0

FreeProcs == {c \in Procs : ~Alive(c)}

\* kthread_destroy of the thread kthread_clone made: it has not exited.
KthreadDestroyFault == "kthread_destroy: thread has not exited"

\* A fault of ForkFailed: the error is returned without its sign.
ForkFailed_positive(K) == [K |-> K, child |-> NULL, map |-> NULL, ret |-> ENOMEM]

\* do_fork gives up: no child, -ENOMEM.
ForkFailed(K) == [K |-> K, child |-> NULL, map |-> NULL, ret |-> -ENOMEM]

\* do_fork: what it leaves, as [K, child, map, ret]; `child` is NULL when no
\* process was made.
do_fork(K, p, fail) ==
    LET c       == CHOOSE c \in FreeProcs : \A f \in FreeProcs : c <= f
        cloned  == vmmap_clone(K, p_vmmap[p], Fails(fail, "vmarea_alloc"))
        shadows == ShadowAreas(cloned.K, cloned.map, Fails(fail, "shadow_create"))
    IN  CASE FreeProcs = {} \/ Fails(fail, "proc_create") = 1 -> ForkFailed(K)
          [] FreeProcs # {} /\ Fails(fail, "proc_create") # 1
               /\ (~KthreadClones \/ Fails(fail, "kthread_clone") = 1) -> ForkFailed(K)
          [] OTHER ->
                IF cloned.map = NULL THEN ForkFailed(Fault(cloned.K, KthreadDestroyFault))
                ELSE IF shadows.failed THEN ForkFailed(Fault(shadows.K, KthreadDestroyFault))
                ELSE [K |-> shadows.K, child |-> c, map |-> shadows.list, ret |-> c]

-----------------------------------------------------------------------------
(* handle_pagefault *)

\* The page of the area's object that backs page vfn.
ObjOffset(vma, vfn) == vfn - vma.vma_start + vma.vma_off

required_prot(cause) ==
    CASE "FAULT_WRITE" \in cause -> "PROT_WRITE"
      [] "FAULT_WRITE" \notin cause /\ "FAULT_EXEC" \in cause -> "PROT_EXEC"
      [] OTHER -> "PROT_READ"

\* A fault of PtWrite: the page is writable whenever the area is.
PtWrite_area(vma, cause) == "PROT_WRITE" \in vma.vma_prot

\* PT_WRITE of the flags handle_pagefault maps the page with.
PtWrite(vma, cause) == "PROT_WRITE" \in vma.vma_prot /\ "FAULT_WRITE" \in cause

\* The kernel stops in or after a mobj_get_pframe called with a null
\* out-pointer.
GetPframeFault == "mobj_get_pframe: null out-pointer"

\* handle_pagefault: [K, entry]; entry is the new entry of the page table,
\* NULL when the process is to exit with EFAULT.  `yield` is what
\* mobj_get_pframe leaves the handler with.
handle_pagefault(K, list, vfn, cause, yield) ==
    LET vma == vmmap_lookup(list, vfn)
        pf  == mobj_get_pframe(K, vma.vma_obj, ObjOffset(vma, vfn), "FAULT_WRITE" \in cause)
    IN  CASE vma = NULL \/ required_prot(cause) \notin vma.vma_prot \/ yield = "error" ->
                [K |-> K, entry |-> NULL]
          [] vma # NULL /\ required_prot(cause) \in vma.vma_prot /\ yield = "zero" ->
                [K |-> pf.K, entry |-> NULL]
          [] vma # NULL /\ required_prot(cause) \in vma.vma_prot /\ yield = "fault" ->
                [K |-> Fault(K, GetPframeFault), entry |-> NULL]
          [] OTHER -> [K |-> pf.K, entry |-> [pf |-> pf.pf, write |-> PtWrite(vma, cause)]]

-----------------------------------------------------------------------------
(* What a process sees *)

\* The bytes a frame holds; NULL for a frame that has been freed.
FrameBytes(pf) == mobj[pf[1]].mo_pframes[pf[2]]

\* The bytes process p reads at page vfn: those of the mapped frame, or
\* those of the frame a read fault would map.  NULL where p has no memory.
View(p, vfn) ==
    LET vma    == vmmap_lookup(p_vmmap[p], vfn)
        holder == ChainFind(Km, vma.vma_obj, ObjOffset(vma, vfn))
    IN  CASE ~Alive(p) -> NULL
          [] Alive(p) /\ vma = NULL -> NULL
          [] Alive(p) /\ vma # NULL /\ p_pml4[p][vfn] # NULL -> FrameBytes(p_pml4[p][vfn].pf)
          [] OTHER -> IF holder = NULL THEN ZeroPage
                      ELSE FrameBytes(<<holder, ObjOffset(vma, vfn)>>)

Views == [p \in Procs |-> [vfn \in Vfns |-> View(p, vfn)]]

-----------------------------------------------------------------------------
(* The steps of the system *)

Called(p, call) == panic = NULL /\ Alive(p) /\ call \in Calls

Leaves(K) ==
    /\ mobj' = K.obj
    /\ panic' = K.panic

\* proc_destroy of an exited process: vmmap_destroy and pt_destroy.
Exits(K, p) ==
    /\ Leaves(vmmap_destroy(K, p_vmmap[p]))
    /\ p_vmmap' = [p_vmmap EXCEPT ![p] = NULL]
    /\ p_pml4' = [p_pml4 EXCEPT ![p] = pt_create]

DoFork(p, fail) ==
    /\ Called(p, "do_fork")
    /\ LET forked == do_fork(Km, p, fail)
           c == forked.child
       IN  /\ Leaves(forked.K)
           /\ fk_ret' = forked.ret
           /\ IF c = NULL THEN UNCHANGED <<p_vmmap, p_pml4>>
              ELSE /\ p_vmmap' = [p_vmmap EXCEPT ![c] = forked.map]
                   /\ p_pml4' = [p_pml4 EXCEPT ![c] = pt_create,
                                               ![p] = UnmapPrivate(@, p_vmmap[p])]

DoExit(p) ==
    /\ Called(p, "do_exit")
    /\ Exits(Km, p)
    /\ UNCHANGED fk_ret

\* The processor raises a fault for a page that is not mapped, and for a
\* write to a page mapped read-only.
Faults(p, vfn, cause) ==
    p_pml4[p][vfn] # NULL => "FAULT_WRITE" \in cause /\ ~p_pml4[p][vfn].write

PageFault(p, vfn, cause, yield) ==
    /\ Called(p, "handle_pagefault")
    /\ Faults(p, vfn, cause)
    /\ LET handled == handle_pagefault(Km, p_vmmap[p], vfn, cause, yield)
       IN  \/ /\ handled.entry = NULL /\ handled.K.panic = NULL
              /\ Exits(handled.K, p)
           \/ /\ handled.entry = NULL /\ handled.K.panic # NULL
              /\ Leaves(handled.K)
              /\ UNCHANGED <<p_vmmap, p_pml4>>
           \/ /\ handled.entry # NULL
              /\ Leaves(handled.K)
              /\ p_pml4' = [p_pml4 EXCEPT ![p][vfn] = handled.entry]
              /\ UNCHANGED p_vmmap
    /\ UNCHANGED fk_ret

\* A store of user code to a page mapped for writing.
UserWrite(p, vfn, b, v) ==
    /\ Called(p, "write")
    /\ p_pml4[p][vfn] # NULL /\ p_pml4[p][vfn].write
    /\ LET pf == p_pml4[p][vfn].pf
       IN  /\ FrameBytes(pf) # NULL /\ FrameBytes(pf)[b] # v
           /\ mobj' = [mobj EXCEPT ![pf[1]].mo_pframes[pf[2]][b] = v]
    /\ UNCHANGED <<panic, p_vmmap, p_pml4, fk_ret>>

\* copy_to_user of one byte where range_perm allows it: vmmap_write asks
\* for the frame with forwrite clear and writes to what it is given, or
\* returns -EFAULT when it is given none.
CopyToUser(p, vfn, b, v, yield) ==
    /\ Called(p, "copy_to_user")
    /\ LET vma == vmmap_lookup(p_vmmap[p], vfn)
           got == mobj_get_pframe(Km, vma.vma_obj, ObjOffset(vma, vfn), FALSE)
       IN  /\ vma # NULL /\ "PROT_WRITE" \in vma.vma_prot
           /\ \/ yield = "frame"
                 /\ Leaves([got.K EXCEPT !.obj[got.pf[1]].mo_pframes[got.pf[2]][b] = v])
              \/ yield = "zero" /\ Leaves(got.K)
              \/ yield = "error" /\ Leaves(Km)
              \/ yield = "fault" /\ Leaves(Fault(Km, GetPframeFault))
    /\ UNCHANGED <<p_vmmap, p_pml4, fk_ret>>

VmmapCollapse(p) ==
    /\ Called(p, "vmmap_collapse")
    /\ Leaves(vmmap_collapse(Km, p_vmmap[p], p))
    /\ UNCHANGED <<p_vmmap, p_pml4, fk_ret>>

\* After a fault of the kernel, or when the last process has gone, nothing
\* happens any more.
Stopped ==
    /\ panic # NULL \/ \A p \in Procs : ~Alive(p)
    /\ UNCHANGED fkVars

-----------------------------------------------------------------------------
(* The specification *)

ObjsOf(list) == {list[i].vma_obj : i \in DOMAIN list}

\* One process, its areas backed by the anonymous objects anon_create left
\* locked, and nothing mapped yet.
ForkInit ==
    /\ mobj = [o \in Objs |->
                 IF o \in ObjsOf(InitMap)
                 THEN [FreeObj EXCEPT !.mo_type = MOBJ_ANON, !.mo_refcount = 1, !.mo_mutex = 1]
                 ELSE FreeObj]
    /\ panic = NULL
    /\ p_vmmap = [p \in Procs |-> IF p = 1 THEN InitMap ELSE NULL]
    /\ p_pml4 = [p \in Procs |-> pt_create]
    /\ fk_ret = 0

ForkNext ==
    \/ \E p \in Procs, fail \in FailPoints \cup {NULL} : DoFork(p, fail)
    \/ \E p \in Procs : DoExit(p)
    \/ \E p \in Procs, vfn \in Vfns, cause \in Causes, yield \in GetPframeYields :
            PageFault(p, vfn, cause, yield)
    \/ \E p \in Procs, vfn \in Vfns, b \in Bytes, v \in Values : UserWrite(p, vfn, b, v)
    \/ \E p \in Procs, vfn \in Vfns, b \in Bytes, v \in Values, yield \in GetPframeYields :
            CopyToUser(p, vfn, b, v, yield)
    \/ \E p \in Procs : VmmapCollapse(p)
    \/ Stopped

ForkSpec == ForkInit /\ [][ForkNext]_fkVars

-----------------------------------------------------------------------------
(* Properties *)

Areas == [vma_start : Vfns, vma_end : Vfns \cup {n + 1 : n \in Vfns}, vma_off : PageNums,
          vma_prot : SUBSET {"PROT_READ", "PROT_WRITE", "PROT_EXEC"},
          vma_flags : SUBSET {"MAP_PRIVATE", "MAP_SHARED"}, vma_obj : Objs]

Pages == [Bytes -> {0} \cup Values]

\* The variables hold values of their types: reference counts are never
\* negative, areas and page table entries name objects of the slabs, and
\* do_fork returns a process or -ENOMEM.
ForkTypeOK ==
    /\ mobj \in [Objs -> [mo_type : {MOBJ_FREE, MOBJ_ANON, MOBJ_SHADOW},
                          mo_refcount : Nat, mo_mutex : Procs \cup {NULL},
                          mo_pframes : [PageNums -> Pages \cup {NULL}],
                          shadowed : Objs \cup {NULL}, bottom_mobj : Objs \cup {NULL}]]
    /\ panic \in STRING \cup {NULL}
    /\ \A p \in Procs : Alive(p) => p_vmmap[p] \in Seq(Areas)
    /\ p_pml4 \in [Procs -> [Vfns -> [pf : Objs \X PageNums, write : BOOLEAN] \cup {NULL}]]
    /\ fk_ret \in Procs \cup {0, -ENOMEM}

\* The object `fuel` links down the chain of shadowed objects from o.
RECURSIVE ChainEnd(_, _)
ChainEnd(o, fuel) ==
    IF mobj[o].mo_type # MOBJ_SHADOW \/ fuel = 0 THEN o
    ELSE ChainEnd(mobj[o].shadowed, fuel - 1)

\* The comment on bottom_mobj in shadow.c: the bottom of a shadow object is
\* never a shadow object.  It is the object in which the chain of shadowed
\* objects ends, after shadow_create on top of a shadow object as well.
ShadowChainsWellFormed ==
    \A o \in Objs : mobj[o].mo_type = MOBJ_SHADOW =>
        /\ mobj[mobj[o].bottom_mobj].mo_type = MOBJ_ANON
        /\ ChainEnd(o, SHADOWS) = mobj[o].bottom_mobj

\* Nothing in use names what has been destroyed: the object of an area of
\* a live process is an object, and a mapped page is a page frame its object
\* still caches.  vmmap_clone, do_fork and proc_destroy keep this by their
\* reference counts, when children and parents exit in any order.
NoDanglingReferences ==
    \A p \in Procs : Alive(p) =>
        /\ \A o \in ObjsOf(p_vmmap[p]) : mobj[o].mo_type # MOBJ_FREE
        /\ \A vfn \in Vfns : p_pml4[p][vfn] # NULL => FrameBytes(p_pml4[p][vfn].pf) # NULL

\* The references an object is held by: the areas on it, and the shadow
\* objects it is the shadowed object or the bottom of.
Holders(o) ==
    LET areas   == {<<p, i>> \in Procs \X (1 .. VMAREAS) :
                       Alive(p) /\ i \in DOMAIN p_vmmap[p] /\ p_vmmap[p][i].vma_obj = o}
        above   == {s \in Objs : mobj[s].mo_type = MOBJ_SHADOW /\ mobj[s].shadowed = o}
        bottoms == {s \in Objs : mobj[s].mo_type = MOBJ_SHADOW /\ mobj[s].bottom_mobj = o}
    IN  Cardinality(areas) + Cardinality(above) + Cardinality(bottoms)

\* The ownership rule of memory objects: an area holds one reference to its
\* object, a shadow object one to the object it shadows and one to its
\* bottom, and nothing else holds any; an object without holders is freed.
RefsMatchHolders ==
    panic = NULL => \A o \in Objs : mobj[o].mo_refcount = Holders(o)

SharedAt(p, vfn) ==
    /\ Alive(p)
    /\ vmmap_lookup(p_vmmap[p], vfn) # NULL
    /\ ~IsPrivate(vmmap_lookup(p_vmmap[p], vfn))

\* do_fork leaves MAP_SHARED areas on their object: processes that share a
\* page read the same bytes from it, whoever wrote them and whenever each
\* of them mapped the page.
SharedMemoryIsShared ==
    \A p, q \in Procs, vfn \in Vfns :
        SharedAt(p, vfn) /\ SharedAt(q, vfn) => View(p, vfn) = View(q, vfn)

WriteStep(p, vfn) == \E b \in Bytes, v \in Values : UserWrite(p, vfn, b, v)

PrivateAt(p, vfn) ==
    /\ vmmap_lookup(p_vmmap[p], vfn) # NULL
    /\ IsPrivate(vmmap_lookup(p_vmmap[p], vfn))

\* No other process has an area on the object of p's area, and no shadow
\* object shadows it: a process is in this state from its birth in do_fork
\* until it forks.
Exclusive(p, vfn) ==
    LET o == vmmap_lookup(p_vmmap[p], vfn).vma_obj
    IN  /\ PrivateAt(p, vfn)
        /\ \A q \in Procs \ {p} : Alive(q) => o \notin ObjsOf(p_vmmap[q])
        /\ \A s \in Objs : mobj[s].mo_type = MOBJ_SHADOW => mobj[s].shadowed # o

OthersSeeNoChange(p) == \A q \in Procs \ {p} : Views'[q] = Views[q]

\* Copy-on-write for a process that has not forked: what it writes to a
\* private page is seen by no other process.  handle_pagefault maps a page
\* for writing only after shadow_get_pframe gave the process a frame of its
\* own shadow object.
ExclusiveWritesArePrivate ==
    [][\A p \in Procs, vfn \in Vfns :
          WriteStep(p, vfn) /\ Exclusive(p, vfn) => OthersSeeNoChange(p)]_fkVars

\* The boundary behaviour of fork: no write to a private page appears in
\* another process, whether the parent or the child writes.
WritesArePrivate ==
    [][\A p \in Procs, vfn \in Vfns :
          WriteStep(p, vfn) /\ PrivateAt(p, vfn) => OthersSeeNoChange(p)]_fkVars

\* Only handle_pagefault gives a page table an entry or changes one.
Mapped(p, vfn) == p_pml4'[p][vfn] # NULL /\ p_pml4'[p][vfn] # p_pml4[p][vfn]

\* The first touch of a page changes what no process reads: the frame
\* handle_pagefault maps, and the copy shadow_fill_pframe makes for a write,
\* hold the bytes the process would have read.
FirstTouchIsInvisible ==
    [][\A p \in Procs, vfn \in Vfns :
          p_pml4[p][vfn] = NULL /\ Mapped(p, vfn) => Views' = Views]_fkVars

KernelWriteStep(p, vfn) ==
    \E b \in Bytes, v \in Values, yield \in GetPframeYields : CopyToUser(p, vfn, b, v, yield)

\* What the kernel stores for a process, the buffer of a read call, must be
\* as private as what the process stores itself.
KernelWritesArePrivate ==
    [][\A p \in Procs, vfn \in Vfns :
          KernelWriteStep(p, vfn) /\ Exclusive(p, vfn) => OthersSeeNoChange(p)]_fkVars

\* The same of every fault, the write to a page mapped for reading included.
FaultsAreInvisible ==
    [][\A p \in Procs, vfn \in Vfns : Mapped(p, vfn) => Views' = Views]_fkVars

\* "Any failure - no vmarea, permission mismatch, pframe acquisition error -
\* kills the faulting process", and only a failure does: while every access
\* is one its area allows and a frame can be had, handle_pagefault costs no
\* process its life and does not stop the kernel.
FaultsAreResolved ==
    [][panic' = NULL /\ \A p \in Procs : Alive(p) => Alive(p)']_fkVars

\* do_fork leaves no private page of the parent mapped (step d of its
\* comment: pt_unmap_range and tlb_flush_all on the parent), so that the
\* next write of the parent to such a page faults: when do_fork by p returns
\* a child, the page table of p has no entry for a page of a private area.
ForkUnmapsParent ==
    [][\A p \in Procs :
          (\E fail \in FailPoints \cup {NULL} : DoFork(p, fail)) /\ fk_ret' > 0 =>
              \A vfn \in Vfns : PrivateAt(p, vfn) => p_pml4'[p][vfn] = NULL]_fkVars

\* do_fork hands the child the memory of its parent: when it returns a
\* child, the child reads in every page what the parent read when it called,
\* and no process that was there reads anything else than before; when it
\* returns -ENOMEM no process does.  vmmap_clone, the shadow objects of the
\* child and pt_unmap_range on the parent together have to keep this, for a
\* parent that is itself a child and has pages mapped from its own chain.
ForkCopiesMemory ==
    [][\A c \in Procs :
          ~Alive(c) /\ p_vmmap'[c] # NULL /\ panic' = NULL =>
              /\ \E p \in Procs \ {c} : Alive(p) /\ Views'[c] = Views[p]
              /\ \A q \in Procs \ {c} : Views'[q] = Views[q]]_fkVars

=============================================================================
