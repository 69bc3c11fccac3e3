-------------------------------- MODULE Vmmap --------------------------------
(***************************************************************************)
(* The address space of a process: kernel/vm/vmmap.c with the system calls *)
(* of kernel/vm/mmap.c and kernel/vm/brk.c and the permission checks of    *)
(* kernel/api/access.c.                                                    *)
(*                                                                         *)
(* vmm_list is the list of areas in the order the list links give, which   *)
(* is what every scan of the code follows; whether that order is the order *)
(* of the addresses is a property, not an assumption.  Addresses are       *)
(* bytes, pages hold PAGE_SIZE of them, and size_t arithmetic wraps at     *)
(* WORD.  A memory object is a reference count; the pages it holds are the *)
(* concern of module Fork.                                                 *)
(*                                                                         *)
(* The functions of the code are operators on a record V of the list, the  *)
(* reference counts and the first failed assertion; the actions are the    *)
(* calls a process makes.                                                  *)
(***************************************************************************)
EXTENDS Integers, Sequences, FiniteSets, SequencesExt

CONSTANTS
    PAGE_SIZE,          \* bytes in a page
    USER_MEM_LOW,       \* first byte of user memory
    USER_MEM_HIGH,      \* first byte above user memory
    WORD,               \* size_t values are 0 .. WORD - 1
    VMAREAS,            \* areas the slab of vmarea_t can hold
    AnonObjs,           \* the slab of anonymous memory objects
    NFILES,             \* size of the descriptor table
    p_files,            \* the open files: descriptor -> file or NULL
    NULL,
    SIZEOF_ARGSTR,      \* sizeof(argstr_t), in the bytes of this model
    Calls,              \* the calls the process makes in this configuration
    MapCalls,           \* arguments do_mmap is called with
    MapPages,           \* page counts vmmap_map is called with directly
    Lens,               \* byte lengths do_munmap is called with
    Addrs,              \* addresses do_munmap and do_brk are called with
    GetPframeYields     \* what a caller of mobj_get_pframe may hold for the frame

EINVAL == 22
ENOMEM == 12
EBADF  == 9
EACCES == 13
ENODEV == 19
EFAULT == 14

VMMAP_DIR_LOHI == 1
VMMAP_DIR_HILO == 2

Fds      == 0 .. NFILES - 1
Files    == {p_files[fd] : fd \in Fds} \ {NULL}
FileObjs == {f.f_vnode.mobj : f \in Files}
Objs     == AnonObjs \cup FileObjs

ASSUME
    /\ PAGE_SIZE \in Nat \ {0}
    /\ USER_MEM_LOW % PAGE_SIZE = 0 /\ USER_MEM_HIGH % PAGE_SIZE = 0
    /\ 0 < USER_MEM_LOW /\ USER_MEM_LOW < USER_MEM_HIGH /\ USER_MEM_HIGH < WORD \div 2
    /\ AnonObjs \cap FileObjs = {}
    /\ GetPframeYields \subseteq {"frame", "zero", "error", "fault"}

VARIABLES
    vmm_list,       \* the areas of curproc->p_vmmap, in list order
    mo_refcount,    \* mo_refcount of every memory object, 0 in the slab
    p_brk,          \* curproc->p_brk, 0 for NULL
    p_start_brk,    \* curproc->p_start_brk, 0 for NULL
    vm_panic,       \* the first assertion that failed, or NULL
    vm_stale,       \* do_brk has written to an area after vmarea_free
    vm_ret          \* what the last call returned

vmVars == <<vmm_list, mo_refcount, p_brk, p_start_brk, vm_panic, vm_stale, vm_ret>>

-----------------------------------------------------------------------------
(* Pages and words *)

ADDR_TO_PN(a)    == a \div PAGE_SIZE
PN_TO_ADDR(n)    == n * PAGE_SIZE
PAGE_ALIGNED(a)  == a % PAGE_SIZE = 0
PAGE_ALIGN_UP(a) == ((a + PAGE_SIZE - 1) \div PAGE_SIZE) * PAGE_SIZE
PAGE_ALIGN_DOWN(a) == (a \div PAGE_SIZE) * PAGE_SIZE

LowPage  == ADDR_TO_PN(USER_MEM_LOW)
HighPage == ADDR_TO_PN(USER_MEM_HIGH)

\* A fault of Wrap: the arithmetic is done in a wider, signed type.
Wrap_wide(x) == x

\* A size_t, and the ssize_t with the same bits.
Wrap(x)   == x % WORD
Signed(x) == IF x >= WORD \div 2 THEN x - WORD ELSE x

\* The state the functions work on.
Vm == [list |-> vmm_list, ref |-> mo_refcount, panic |-> vm_panic]

\* KASSERT(cond) before the code that leaves T.
VmAssert(V, cond, what, T) ==
    CASE V.panic # NULL -> V
      [] V.panic = NULL /\ ~cond -> [V EXCEPT !.panic = what]
      [] OTHER -> T

-----------------------------------------------------------------------------
(* Memory objects *)

mobj_ref(V, o) == [V EXCEPT !.ref[o] = @ + 1]

mobj_put(V, o) == VmAssert(V, V.ref[o] > 0, "mobj_put", [V EXCEPT !.ref[o] = @ - 1])

\* anon_create: an object from the slab with one reference, or NULL.
anon_create(V) ==
    LET free == {o \in AnonObjs : V.ref[o] = 0}
        o    == CHOOSE o \in free : TRUE
    IN  IF free = {} THEN [V |-> V, obj |-> NULL]
        ELSE [V |-> [V EXCEPT !.ref[o] = 1], obj |-> o]

\* vmarea_alloc succeeds while the slab has room.
vmarea_alloc(V) == Len(V.list) < VMAREAS

\* vmarea_free of an area with an object; the caller's list loses the area.
vmarea_free(V, vma) == mobj_put(V, vma.vma_obj)

vmmap_create == <<>>

\* vmmap_destroy frees every area of the list.
vmmap_destroy(V) ==
    LET freed == FoldLeft(vmarea_free, V, V.list)
    IN  IF freed.panic # NULL THEN freed ELSE [freed EXCEPT !.list = vmmap_create]

-----------------------------------------------------------------------------
(* vmmap.c *)

Overlaps(vma, lopage, hipage) == ~(hipage <= vma.vma_start \/ lopage >= vma.vma_end)

\* A fault of vmmap_insert: the new area always goes to the tail of the list.
vmmap_insert_tail(V, vma) ==
    VmAssert(V, /\ vma.vma_start < vma.vma_end
                /\ vma.vma_start >= LowPage
                /\ vma.vma_end <= HighPage,
             "vmmap_insert", [V EXCEPT !.list = Append(@, vma)])

\* vmmap_insert: before the first area that starts above the new one.
vmmap_insert(V, vma) ==
    LET above == {i \in DOMAIN V.list : vma.vma_start < V.list[i].vma_start}
        at    == IF above = {} THEN Len(V.list) + 1 ELSE Min(above)
    IN  VmAssert(V, /\ vma.vma_start < vma.vma_end
                    /\ vma.vma_start >= LowPage
                    /\ vma.vma_end <= HighPage,
                 "vmmap_insert", [V EXCEPT !.list = InsertAt(@, at, vma)])

\* The gaps the scans of vmmap_find_range look at, in their order: between
\* neighbours of the list, then above the last area.
Gaps(list) ==
    [i \in DOMAIN list |->
        [lo |-> list[i].vma_end,
         hi |-> IF i < Len(list) THEN list[i + 1].vma_start ELSE HighPage]]

\* The gaps of at least npages, the first of them first.
FirstFit(list, npages) ==
    SelectSeq(Gaps(list), LAMBDA g : Wrap(g.hi - g.lo) >= npages)

find_range_hilo(list, npages) ==
    LET high_start == Wrap(HighPage - npages)
        fit        == FirstFit(list, npages)
    IN  CASE list = <<>> -> high_start
          [] list # <<>> /\ list[1].vma_start > high_start -> high_start
          [] list # <<>> /\ list[1].vma_start <= high_start
                         /\ list[1].vma_start >= npages -> list[1].vma_start - npages
          [] OTHER -> IF fit = <<>> THEN -1 ELSE Wrap(fit[1].hi - npages)

\* A fault of find_range_lohi: a gap below the first area of exactly npages
\* is passed over.
find_range_lohi_strict(list, npages) ==
    LET fit == FirstFit(list, npages)
    IN  CASE list = <<>> -> LowPage
          [] list # <<>> /\ list[1].vma_start > LowPage + npages -> LowPage
          [] OTHER -> IF fit = <<>> THEN -1 ELSE fit[1].lo

find_range_lohi(list, npages) ==
    LET fit == FirstFit(list, npages)
    IN  CASE list = <<>> -> LowPage
          [] list # <<>> /\ list[1].vma_start >= LowPage + npages -> LowPage
          [] OTHER -> IF fit = <<>> THEN -1 ELSE fit[1].lo

\* vmmap_find_range: the ssize_t it returns.
vmmap_find_range(list, npages, dir) ==
    CASE npages = 0 -> -1
      [] npages # 0 /\ dir = VMMAP_DIR_HILO -> Signed(find_range_hilo(list, npages))
      [] OTHER -> Signed(find_range_lohi(list, npages))

\* vmmap_lookup: the first area of the list that holds the page, or NULL.
vmmap_lookup(list, vfn) ==
    LET found == SelectSeq(list, LAMBDA vma : vfn >= vma.vma_start /\ vfn < vma.vma_end)
    IN  IF found = <<>> THEN NULL ELSE found[1]

vmmap_is_range_empty(list, startvfn, npages) ==
    IF npages # 0 /\ \E i \in DOMAIN list : Overlaps(list[i], startvfn, startvfn + npages)
    THEN -1 ELSE 0

\* The area vmmap_map and do_brk fill in.
vmarea(start, npages, off, prot, flags, obj) ==
    [vma_start |-> start, vma_end |-> start + npages, vma_off |-> off,
     vma_prot |-> prot, vma_flags |-> flags, vma_obj |-> obj]

\* vmmap_map: the state it leaves and what it returns.  `file` is the vnode
\* or NULL; the lopage argument is never read.
vmmap_map(V, file, npages, prot, flags, off, dir) ==
    LET start  == vmmap_find_range(V.list, npages, dir)
        A      == anon_create(V)
        new(o) == vmarea(start, npages, ADDR_TO_PN(off), prot, flags, o)
        fail(e) == [V |-> V, ret |-> -e]
    IN  CASE npages = 0 -> fail(EINVAL)
          [] npages # 0 /\ (start < 0 \/ ~vmarea_alloc(V)) -> fail(ENOMEM)
          [] npages # 0 /\ start >= 0 /\ vmarea_alloc(V) /\ "MAP_ANON" \in flags ->
                IF A.obj = NULL THEN fail(ENOMEM)
                ELSE [V |-> vmmap_insert(A.V, new(A.obj)), ret |-> 0]
          [] npages # 0 /\ start >= 0 /\ vmarea_alloc(V) /\ "MAP_ANON" \notin flags
                        /\ file # NULL ->
                IF ~file.mmap THEN fail(ENODEV)
                ELSE [V |-> vmmap_insert(mobj_ref(V, file.mobj), new(file.mobj)), ret |-> 0]
          [] OTHER -> fail(EINVAL)

\* What vmmap_remove makes of one area: the area it links in before it, the
\* area itself unless it is freed.
Cut(vma, lopage, hipage) ==
    LET keep(before, self) == [before |-> before, self |-> self]
        high == [vma EXCEPT !.vma_start = hipage,
                            !.vma_off = Wrap(@ + hipage - vma.vma_start)]
    IN  CASE ~Overlaps(vma, lopage, hipage) -> keep(<<>>, <<vma>>)
          [] vma.vma_start < lopage /\ vma.vma_end > hipage ->
                keep(<<high>>, <<[vma EXCEPT !.vma_end = lopage]>>)
          [] Overlaps(vma, lopage, hipage) /\ vma.vma_start < lopage
                                           /\ vma.vma_end <= hipage ->
                keep(<<>>, <<[vma EXCEPT !.vma_end = lopage]>>)
          [] vma.vma_start >= lopage /\ vma.vma_end > hipage
                                     /\ Overlaps(vma, lopage, hipage) ->
                keep(<<>>, <<[vma EXCEPT !.vma_off = Wrap(@ + lopage - vma.vma_start),
                                         !.vma_start = lopage,
                                         !.vma_end = hipage]>>)
          [] OTHER -> keep(<<>>, <<>>)

Cuts(list, lopage, npages) ==
    [i \in DOMAIN list |-> Cut(list[i], lopage, lopage + npages)]

\* The list the cuts leave.
Relinked(cuts) == FlattenSeq([i \in DOMAIN cuts |-> cuts[i].before \o cuts[i].self])

\* The areas in the slab when the loop of vmmap_remove reaches area i.
AreasAt(cuts, i) ==
    Len(cuts) + Cardinality({j \in 1 .. i - 1 : cuts[j].before # <<>>})
              - Cardinality({j \in 1 .. i - 1 : cuts[j].self = <<>>})

\* A fault of vmmap_remove: an area is unlinked and its object is not put.
vmmap_remove_noput(V, lopage, npages) ==
    IF npages = 0 THEN V ELSE [V EXCEPT !.list = Relinked(Cuts(V.list, lopage, npages))]

\* vmmap_remove: the areas inside the range are freed, the others cut.
vmmap_remove(V, lopage, npages) ==
    LET cuts  == Cuts(V.list, lopage, npages)
        freed == SelectSeq(V.list, LAMBDA vma : Cut(vma, lopage, lopage + npages).self = <<>>)
        put   == FoldLeft(vmarea_free, V, freed)
    IN  IF npages = 0 THEN V
        ELSE VmAssert(V, \A i \in DOMAIN cuts :
                            cuts[i].before # <<>> => AreasAt(cuts, i) < VMAREAS,
                      "vmmap_remove: high_vma",
                      IF put.panic # NULL THEN put
                      ELSE [put EXCEPT !.list = Relinked(cuts)])

\* A fault of bytes_in_page: the copy always runs to the end of the page.
bytes_in_page_whole(current_addr, end_addr) ==
    PAGE_ALIGN_UP(current_addr + 1) - current_addr

\* How much of the page of current_addr a copy up to end_addr takes.
bytes_in_page(current_addr, end_addr) ==
    Min({PAGE_ALIGN_UP(current_addr + 1) - current_addr, end_addr - current_addr})

\* vmmap_read and vmmap_write call mobj_get_pframe(obj, pagenum, 0, 0) and
\* take the long it returns for the frame: the out-pointer is null and the
\* status stands for the pointer.  mobj_get_pframe is no code of this
\* directory; what its caller holds afterwards is one of
\*   "zero"   the call did its work and returned 0, a null frame to the caller;
\*   "fault"  the store through the null out-pointer, or the use of a
\*            negative status as a frame, stops the kernel;
\*   "frame"  the frame, as the callers mean the call;
\*   "error"  no frame and NULL, as the callers mean a call that fails.
\* The first two are what the call as written can do.  `yields` gives the
\* outcome for every page.
RECURSIVE CopyLoop(_, _, _, _, _)
CopyLoop(list, current_addr, end_addr, copied, yields) ==
    LET vfn   == ADDR_TO_PN(current_addr)
        vma   == vmmap_lookup(list, vfn)
        bytes == bytes_in_page(current_addr, end_addr)
        piece == [obj |-> vma.vma_obj,
                  pagenum |-> Wrap(vfn - vma.vma_start + vma.vma_off),
                  page_offset |-> current_addr - PAGE_ALIGN_DOWN(current_addr),
                  bytes |-> bytes]
        stops(fault, panic) == [copied |-> copied, fault |-> fault, panic |-> panic]
    IN  CASE current_addr >= end_addr -> stops(FALSE, FALSE)
          [] current_addr < end_addr /\ vma = NULL -> stops(TRUE, FALSE)
          [] current_addr < end_addr /\ vma # NULL /\ yields[vfn] = "fault" -> stops(FALSE, TRUE)
          [] current_addr < end_addr /\ vma # NULL /\ yields[vfn] \in {"zero", "error"} ->
                stops(TRUE, FALSE)
          [] OTHER -> CopyLoop(list, current_addr + bytes, end_addr, Append(copied, piece), yields)

\* vmmap_read: what it copied, the count or error it returns, and whether it
\* stopped the kernel.
vmmap_read(list, vaddr, count, yields) ==
    LET R == CopyLoop(list, vaddr, Wrap(vaddr + count), <<>>, yields)
    IN  CASE count = 0 -> [copied |-> <<>>, ret |-> 0, panic |-> FALSE]
          [] count # 0 /\ R.fault -> [copied |-> R.copied, ret |-> -EFAULT, panic |-> FALSE]
          [] OTHER -> [copied |-> R.copied,
                       ret |-> FoldLeft(LAMBDA n, p : n + p.bytes, 0, R.copied),
                       panic |-> R.panic]

\* vmmap_write is the same loop with the copy turned round and every page
\* frame marked dirty.
vmmap_write(list, vaddr, count, yields) ==
    LET R == vmmap_read(list, vaddr, count, yields)
    IN  [R EXCEPT !.copied = [i \in DOMAIN @ |-> [pf_dirty |-> TRUE] @@ @[i]]]

-----------------------------------------------------------------------------
(* access.c *)

addr_perm(list, vaddr, perm) ==
    LET vma == vmmap_lookup(list, ADDR_TO_PN(vaddr))
    IN  vma # NULL /\ perm \subseteq vma.vma_prot

\* The loop of range_perm from current_addr on.
RECURSIVE RangePermFrom(_, _, _, _)
RangePermFrom(list, current_addr, end_addr, perm) ==
    LET page_end == PAGE_ALIGN_UP(current_addr + 1)
    IN  CASE current_addr >= end_addr -> TRUE
          [] current_addr < end_addr /\ ~addr_perm(list, current_addr, perm) -> FALSE
          [] OTHER -> RangePermFrom(list, IF page_end > end_addr THEN end_addr ELSE page_end,
                                    end_addr, perm)

\* A fault of range_perm: only the first and the last byte are looked up.
range_perm_ends(list, vaddr, len, perm) ==
    len = 0 \/ (addr_perm(list, vaddr, perm) /\ addr_perm(list, vaddr + len - 1, perm))

\* range_perm: end_addr is a uintptr_t.
range_perm(list, vaddr, len, perm) ==
    len = 0 \/ RangePermFrom(list, vaddr, Wrap(vaddr + len), perm)

userland_address(addr) == addr >= USER_MEM_LOW /\ addr < USER_MEM_HIGH

\* The two copies: the permission check, the KASSERT on the address, and
\* what vmmap_read or vmmap_write returns.
UserCopy(list, uaddr, nbytes, perm, R) ==
    CASE ~range_perm(list, uaddr, nbytes, perm) ->
            [copied |-> <<>>, ret |-> -EFAULT, panic |-> FALSE]
      [] range_perm(list, uaddr, nbytes, perm) /\ ~userland_address(uaddr) ->
            [copied |-> <<>>, ret |-> 0, panic |-> TRUE]
      [] OTHER -> R

copy_from_user(list, uaddr, nbytes, yields) ==
    UserCopy(list, uaddr, nbytes, {"PROT_READ"}, vmmap_read(list, uaddr, nbytes, yields))

copy_to_user(list, uaddr, nbytes, yields) ==
    UserCopy(list, uaddr, nbytes, {"PROT_WRITE"}, vmmap_write(list, uaddr, nbytes, yields))

\* user_strdup of a string of as_len characters at a user address as_str:
\* what it returns and what it leaves in *kstrp - nothing, the copy, or
\* freed memory.
user_strdup(list, as_str, as_len, kmalloc_ok, yields) ==
    LET read == copy_from_user(list, as_str, Wrap(as_len + 1), yields)
    IN  CASE ~kmalloc_ok -> [ret |-> -ENOMEM, kstr |-> NULL, panic |-> FALSE]
          [] kmalloc_ok /\ read.panic -> [ret |-> 0, kstr |-> NULL, panic |-> TRUE]
          [] kmalloc_ok /\ ~read.panic /\ read.ret # 0 ->
                [ret |-> read.ret, kstr |-> "freed", panic |-> FALSE]
          [] OTHER -> [ret |-> 0, kstr |-> "copy", panic |-> FALSE]

\* kfree of what a pointer of the vector points to.
Kfree(kstr) == IF kstr = "copy" THEN "freed" ELSE "freed twice"

\* One pass of the first loop of user_vecdup: the argstr_t it works on, which
\* is element i of the user's vector, or what the stack held (junk) when
\* copy_from_user refused and its result was not looked at, and what
\* user_strdup makes of it.
VecdupPass(list, uvec, i, junk, nomem, yields) ==
    LET read == copy_from_user(list, uvec.av_vec + i * SIZEOF_ARGSTR, SIZEOF_ARGSTR, yields)
        argstr == IF read.ret = -EFAULT THEN junk ELSE uvec.strs[i + 1]
    IN  IF read.panic \/ ~userland_address(argstr.as_str)
        THEN [ret |-> 0, kstr |-> NULL, panic |-> TRUE]
        ELSE user_strdup(list, argstr.as_str, argstr.as_len, i \notin nomem, yields)

\* user_vecdup of the vector uvec = [av_vec, av_len, strs], strs being the
\* argstr_t values in the user's memory: what it returns, what it leaves in
\* *kvecp and what has become of the memory each pointer of the vector was
\* given.  vec_ok says whether kmalloc has memory for the vector, nomem for
\* which strings it has none.
user_vecdup(list, uvec, vec_ok, junk, nomem, yields) ==
    LET zeroed == [ret |-> 0, kvec |-> [i \in 1 .. uvec.av_len |-> NULL], panic |-> FALSE]
        pass(acc, i) ==
            IF acc.ret # 0 \/ acc.panic THEN acc
            ELSE LET r == VecdupPass(list, uvec, i, junk, nomem, yields)
                 IN  [ret |-> r.ret, kvec |-> [acc.kvec EXCEPT ![i + 1] = r.kstr],
                      panic |-> r.panic]
        looped == FoldLeft(pass, zeroed, [i \in 1 .. uvec.av_len |-> i - 1])
        freed == [i \in 1 .. uvec.av_len |->
                     IF looped.kvec[i] = NULL THEN NULL ELSE Kfree(looped.kvec[i])]
    IN  CASE ~userland_address(uvec.av_vec) ->
                [ret |-> 0, kvecp |-> NULL, kvec |-> zeroed.kvec, panic |-> TRUE]
          [] userland_address(uvec.av_vec) /\ ~vec_ok ->
                [ret |-> -ENOMEM, kvecp |-> NULL, kvec |-> zeroed.kvec, panic |-> FALSE]
          [] OTHER ->
                IF looped.ret = 0 \/ looped.panic
                THEN [kvecp |-> "vector"] @@ looped
                ELSE [kvecp |-> NULL, kvec |-> freed] @@ looped

-----------------------------------------------------------------------------
(* mmap.c *)

\* The checks of do_mmap in their order: what is wrong, and the errno.
MmapChecks(a, file) ==
    LET anon == "MAP_ANON" \in a.flags
    IN  << <<a.len <= 0 \/ a.off < 0, EINVAL>>,
           <<a.flags \cap {"MAP_PRIVATE", "MAP_SHARED"} = {}, EINVAL>>,
           <<"MAP_FIXED" \in a.flags /\ (\/ ~PAGE_ALIGNED(a.addr)
                                        \/ a.addr < USER_MEM_LOW
                                        \/ a.addr >= USER_MEM_HIGH), EINVAL>>,
           <<~PAGE_ALIGNED(a.off), EINVAL>>,
           <<anon /\ a.fd # -1, EINVAL>>,
           <<~anon /\ file = NULL, EBADF>>,
           <<~anon /\ file # NULL /\ "PROT_READ" \in a.prot
                   /\ "FMODE_READ" \notin file.f_mode, EACCES>>,
           <<~anon /\ file # NULL /\ "PROT_WRITE" \in a.prot
                   /\ \/ "MAP_SHARED" \in a.flags /\ "FMODE_WRITE" \notin file.f_mode
                      \/ "FMODE_APPEND" \in file.f_mode, EACCES>>,
           <<~anon /\ file # NULL /\ ~file.f_vnode.mmap, ENODEV>> >>

\* do_mmap: the mapping always goes where vmmap_find_range puts it, from the
\* top; fget and fput leave the file's count as it was.
do_mmap(V, a) ==
    LET file   == IF a.fd \in Fds THEN p_files[a.fd] ELSE NULL
        failed == SelectSeq(MmapChecks(a, file), LAMBDA c : c[1])
        vnode  == IF "MAP_ANON" \in a.flags THEN NULL ELSE file.f_vnode
    IN  IF failed # <<>> THEN [V |-> V, ret |-> -failed[1][2]]
        ELSE vmmap_map(V, vnode, ADDR_TO_PN(PAGE_ALIGN_UP(a.len)),
                       a.prot, a.flags, a.off, VMMAP_DIR_HILO)

do_munmap(V, addr, len) ==
    IF len = 0 \/ ~PAGE_ALIGNED(addr) \/ addr < USER_MEM_LOW \/ addr >= USER_MEM_HIGH
    THEN [V |-> V, ret |-> -EINVAL]
    ELSE [V |-> vmmap_remove(V, ADDR_TO_PN(addr), ADDR_TO_PN(PAGE_ALIGN_UP(len))),
          ret |-> 0]

-----------------------------------------------------------------------------
(* brk.c *)

\* Where the area at index h of the list is after the cuts, 0 if it was freed.
Survivor(cuts, h) ==
    IF cuts[h].self = <<>> THEN 0 ELSE Len(Relinked(SubSeq(cuts, 1, h)))

\* A fault of BrkGrow: the area that is there is left as it is.
BrkGrow_nostretch(V, h, start_page, new_page) ==
    LET A == anon_create(V)
        heap == vmarea(start_page, new_page - start_page, 0, {"PROT_READ", "PROT_WRITE"},
                       {"MAP_PRIVATE", "MAP_ANON"}, A.obj)
    IN  CASE h # 0 -> [V |-> V, ret |-> 0]
          [] h = 0 /\ (~vmarea_alloc(V) \/ A.obj = NULL) -> [V |-> V, ret |-> -ENOMEM]
          [] OTHER -> [V |-> vmmap_insert(A.V, heap), ret |-> 0]

\* The heap grows by pages: the area found at start_page is stretched, or a
\* new one is made.
BrkGrow(V, h, start_page, new_page) ==
    LET A == anon_create(V)
        heap == vmarea(start_page, new_page - start_page, 0, {"PROT_READ", "PROT_WRITE"},
                       {"MAP_PRIVATE", "MAP_ANON"}, A.obj)
    IN  CASE h # 0 -> [V |-> [V EXCEPT !.list[h].vma_end = new_page], ret |-> 0]
          [] h = 0 /\ (~vmarea_alloc(V) \/ A.obj = NULL) -> [V |-> V, ret |-> -ENOMEM]
          [] OTHER -> [V |-> vmmap_insert(A.V, heap), ret |-> 0]

\* The heap shrinks by pages: vmmap_remove, then the end of the area found
\* before it is set, wherever that area is now.
BrkShrink(V, h, lopage, npages, new_page) ==
    LET R    == vmmap_remove(V, lopage, npages)
        at   == Survivor(Cuts(V.list, lopage, npages), h)
    IN  CASE R.panic # NULL -> [V |-> R, stale |-> FALSE]
          [] R.panic = NULL /\ at = 0 -> [V |-> R, stale |-> TRUE]
          [] OTHER -> [V |-> [R EXCEPT !.list[at].vma_end = new_page], stale |-> FALSE]

\* do_brk: the state, the two fields of the process, whether a freed area
\* was written, and the return value.
do_brk(V, brk, start, addr) ==
    LET start_brk    == IF start = 0 THEN USER_MEM_LOW ELSE start
        current_brk  == IF brk = 0 THEN start_brk ELSE brk
        start_page   == ADDR_TO_PN(PAGE_ALIGN_UP(start_brk))
        current_page == ADDR_TO_PN(PAGE_ALIGN_UP(current_brk))
        new_page     == ADDR_TO_PN(PAGE_ALIGN_UP(addr))
        heaps        == {i \in DOMAIN V.list : V.list[i].vma_start = start_page}
        h            == IF heaps = {} THEN 0 ELSE Min(heaps)
        out(W, b, s, r, stale) == [V |-> W, brk |-> b, start |-> s, ret |-> r, stale |-> stale]
        keep(r)      == out(V, current_brk, start_brk, r, FALSE)
        G            == BrkGrow(V, h, start_page, new_page)
        S            == BrkShrink(V, h, new_page, current_page - new_page, new_page)
    IN  CASE addr = 0 ->
                IF brk = 0 THEN out(V, USER_MEM_LOW, USER_MEM_LOW, 0, FALSE)
                ELSE out(V, brk, start, 0, FALSE)
          [] addr # 0 /\ (addr < start_brk \/ addr > USER_MEM_HIGH) -> keep(-ENOMEM)
          [] addr # 0 /\ addr >= start_brk /\ addr <= USER_MEM_HIGH /\ addr > current_brk ->
                CASE new_page = current_page -> out(V, addr, start_brk, 0, FALSE)
                  [] new_page # current_page
                     /\ vmmap_is_range_empty(V.list, current_page, new_page - current_page) # 0
                        -> keep(-ENOMEM)
                  [] OTHER -> IF G.ret # 0 THEN keep(G.ret)
                              ELSE out(G.V, addr, start_brk, 0, FALSE)
          [] addr # 0 /\ addr >= start_brk /\ addr < current_brk
                      /\ h # 0 /\ new_page < current_page ->
                out(S.V, addr, start_brk, 0, S.stale)
          [] OTHER -> out(V, addr, start_brk, 0, FALSE)

-----------------------------------------------------------------------------
(* The calls of a process *)

VmInit ==
    /\ vmm_list = vmmap_create
    /\ mo_refcount = [o \in Objs |-> IF o \in FileObjs THEN 1 ELSE 0]
    /\ p_brk = 0 /\ p_start_brk = 0
    /\ vm_panic = NULL /\ vm_stale = FALSE
    /\ vm_ret = 0

\* The kernel is followed up to the first failed assertion and up to the
\* first write to freed memory: what the slab holds after that write, and
\* what the next vmarea_alloc hands out, the code does not determine.
Called(call) == vm_panic = NULL /\ ~vm_stale /\ call \in Calls

Leaves(V, ret) ==
    /\ vmm_list' = V.list
    /\ mo_refcount' = V.ref
    /\ vm_panic' = V.panic
    /\ vm_ret' = ret

\* The kernel maps private anonymous memory from the bottom.
VmmapMap(npages) ==
    LET R == vmmap_map(Vm, NULL, npages, {"PROT_READ", "PROT_WRITE"},
                       {"MAP_PRIVATE", "MAP_ANON"}, 0, VMMAP_DIR_LOHI)
    IN  /\ Called("vmmap_map")
        /\ Leaves(R.V, R.ret)
        /\ UNCHANGED <<p_brk, p_start_brk, vm_stale>>

DoMmap(a) ==
    LET R == do_mmap(Vm, a)
    IN  /\ Called("do_mmap")
        /\ Leaves(R.V, R.ret)
        /\ UNCHANGED <<p_brk, p_start_brk, vm_stale>>

DoMunmap(addr, len) ==
    LET R == do_munmap(Vm, addr, len)
    IN  /\ Called("do_munmap")
        /\ Leaves(R.V, R.ret)
        /\ UNCHANGED <<p_brk, p_start_brk, vm_stale>>

DoBrk(addr) ==
    LET R == do_brk(Vm, p_brk, p_start_brk, addr)
    IN  /\ Called("do_brk")
        /\ Leaves(R.V, R.ret)
        /\ p_brk' = R.brk /\ p_start_brk' = R.start
        /\ vm_stale' = (vm_stale \/ R.stale)

\* The process is reaped and proc_destroy destroys its map; the next process
\* starts with the map and the break proc_create gives it.
VmmapDestroy ==
    /\ Called("vmmap_destroy")
    /\ Leaves(vmmap_destroy(Vm), 0)
    /\ p_brk' = 0 /\ p_start_brk' = 0
    /\ UNCHANGED vm_stale

\* A failed KASSERT stops the kernel; after a write to freed memory the
\* model follows it no further.
VmPanicked == (vm_panic # NULL \/ vm_stale) /\ UNCHANGED vmVars

VmNext ==
    \/ \E npages \in MapPages : VmmapMap(npages)
    \/ \E a \in MapCalls : DoMmap(a)
    \/ \E addr \in Addrs, len \in Lens : DoMunmap(addr, len)
    \/ \E addr \in Addrs \cup {0} : DoBrk(addr)
    \/ VmmapDestroy
    \/ VmPanicked

VmSpec == VmInit /\ [][VmNext]_vmVars

-----------------------------------------------------------------------------
(* Properties *)

UserPages == LowPage .. HighPage - 1

Areas == {vmm_list[i] : i \in DOMAIN vmm_list}

VmTypeOK ==
    /\ vmm_list \in Seq([vma_start : 0 .. WORD - 1, vma_end : 0 .. WORD - 1,
                         vma_off : 0 .. WORD - 1,
                         vma_prot : SUBSET {"PROT_READ", "PROT_WRITE", "PROT_EXEC"},
                         vma_flags : SUBSET {"MAP_PRIVATE", "MAP_SHARED", "MAP_FIXED", "MAP_ANON"},
                         vma_obj : Objs])
    /\ mo_refcount \in [Objs -> Nat]
    /\ p_brk \in 0 .. USER_MEM_HIGH /\ p_start_brk \in {0, USER_MEM_LOW}
    /\ vm_stale \in BOOLEAN
    /\ vm_ret \in Int


\* The object page behind a virtual page, as handle_pagefault and vmmap_read
\* work it out, or NULL where nothing is mapped.
Backing(list, vfn) ==
    LET vma == vmmap_lookup(list, vfn)
    IN  IF vma = NULL THEN NULL
        ELSE [obj |-> vma.vma_obj, pagenum |-> Wrap(vfn - vma.vma_start + vma.vma_off)]

\* npages from `start` on lie in user memory and in no area.
FreeRun(list, start, npages) ==
    /\ LowPage <= start /\ start + npages <= HighPage
    /\ \A i \in DOMAIN list : ~Overlaps(list[i], start, start + npages)

FreeRuns(list, npages) == {start \in UserPages : FreeRun(list, start, npages)}

\* The invariant of an address space (the areas "are disjoint and kept
\* sorted by start", each with USER_LOW <= start < end <= USER_HIGH), which
\* vmmap_insert, vmmap_remove and do_brk have to keep between them: every
\* scan of the list relies on it.
AreasSortedDisjoint ==
    vm_panic = NULL =>
        /\ \A i \in DOMAIN vmm_list :
              /\ LowPage <= vmm_list[i].vma_start
              /\ vmm_list[i].vma_start < vmm_list[i].vma_end
              /\ vmm_list[i].vma_end <= HighPage
        /\ \A i \in 1 .. Len(vmm_list) - 1 :
              vmm_list[i].vma_end <= vmm_list[i + 1].vma_start

\* An area holds one reference on its memory object: the count of an object
\* is the number of areas that name it (and the reference its vnode keeps),
\* through vmmap_map, the cuts of vmmap_remove, the failures of vmmap_map
\* after anon_create, and do_brk.
MobjRefsMatch ==
    vm_panic = NULL =>
        \A o \in Objs :
            mo_refcount[o] = Cardinality({i \in DOMAIN vmm_list : vmm_list[i].vma_obj = o})
                             + (IF o \in FileObjs THEN 1 ELSE 0)

\* vmmap_find_range from the bottom is first fit: it returns the lowest
\* start of a free run of npages inside user memory, and -1 only when there
\* is none - at the gap below the first area, between two areas, above the
\* last one, and for a request of exactly the size of a gap.
FindRangeLowest ==
    vm_panic = NULL =>
        \A npages \in 1 .. HighPage - LowPage :
            vmmap_find_range(vmm_list, npages, VMMAP_DIR_LOHI)
                = IF FreeRuns(vmm_list, npages) = {} THEN -1
                  ELSE Min(FreeRuns(vmm_list, npages))

\* vmmap_remove unmaps the range and nothing else ("splits or truncates
\* overlapping vmareas"): afterwards no page of the range is backed, and
\* every other page is backed by the object page it was backed by before,
\* whichever of the four overlap cases each area falls in.
RemoveUnmapsRange ==
    vm_panic = NULL =>
        \A lopage \in UserPages, npages \in 1 .. HighPage - LowPage :
            LET W == vmmap_remove(Vm, lopage, npages)
            IN  W.panic = NULL =>
                  \A vfn \in UserPages :
                      Backing(W.list, vfn) =
                          IF lopage <= vfn /\ vfn < lopage + npages THEN NULL
                          ELSE Backing(vmm_list, vfn)

\* The heap is there up to the break (do_brk keeps "a per-process dynamic
\* region [start_brk, brk)"): after any sequence of calls that grow and
\* shrink it, every page below the break is mapped.
BreakIsBacked ==
    vm_panic = NULL /\ p_brk # 0 =>
        \A vfn \in ADDR_TO_PN(p_start_brk) .. ADDR_TO_PN(PAGE_ALIGN_UP(p_brk)) - 1 :
            vmmap_lookup(vmm_list, vfn) # NULL

\* do_brk writes to no area that vmmap_remove has freed: the heap_vma it
\* looked up before the call is still an area of the map when it sets
\* vma_end.
NoStaleArea == ~vm_stale

\* range_perm answers for the whole range: it is true exactly when every
\* page with a byte in [vaddr, vaddr + len) lies in an area that allows the
\* access, from whatever byte of a page the range starts and ends at.
RangePermChecksEveryPage ==
    \A vaddr \in Addrs, len \in Lens, perm \in {{"PROT_READ"}, {"PROT_WRITE"}} :
        range_perm(vmm_list, vaddr, len, perm)
            = \A vfn \in ADDR_TO_PN(vaddr) .. ADDR_TO_PN(vaddr + len - 1) :
                  len # 0 => addr_perm(vmm_list, PN_TO_ADDR(vfn), perm)

\* The bytes a copy touched, in the order it touched them.
BytesOf(copied) ==
    FlattenSeq([i \in DOMAIN copied |->
        [k \in 1 .. copied[i].bytes |->
            [obj |-> copied[i].obj, pagenum |-> copied[i].pagenum,
             byte |-> copied[i].page_offset + k - 1]]])

\* What mobj_get_pframe yields page by page during one call: one outcome
\* for a page and one for all the others.
PframeYields ==
    {[vfn \in UserPages |-> IF vfn = page THEN one ELSE other] :
        page \in UserPages, one \in GetPframeYields, other \in GetPframeYields}

\* The bytes of [uaddr, uaddr + nbytes), each in the object page that backs
\* its address.
RangeBytes(uaddr, nbytes) ==
    [k \in 1 .. nbytes |->
        LET B == Backing(vmm_list, ADDR_TO_PN(uaddr + k - 1))
        IN  [obj |-> B.obj, pagenum |-> B.pagenum, byte |-> (uaddr + k - 1) % PAGE_SIZE]]

\* copy_to_user writes inside the range it was given and nowhere else,
\* whatever mobj_get_pframe does on the way: when range_perm refuses the
\* call nothing is touched; otherwise the loop of vmmap_write touches the
\* bytes of [uaddr, uaddr + nbytes) from the first on, once and in order,
\* each in the object page that backs its address, however the range lies
\* across pages and areas; it has touched them all when it returns the
\* count, and the pages before the one it could get no frame for when it
\* returns -EFAULT or stops the kernel.
CopyMovesTheRange ==
    \A uaddr \in Addrs, nbytes \in Lens, yields \in PframeYields :
        LET R       == copy_to_user(vmm_list, uaddr, nbytes, yields)
            touched == BytesOf(R.copied)
        IN  /\ \A i \in DOMAIN R.copied : R.copied[i].pf_dirty
            /\ ~range_perm(vmm_list, uaddr, nbytes, {"PROT_WRITE"}) => touched = <<>>
            /\ Len(touched) <= nbytes
            /\ touched # <<>> => touched = SubSeq(RangeBytes(uaddr, nbytes), 1, Len(touched))
            /\ (R.ret >= 0 /\ ~R.panic) => R.ret = nbytes /\ Len(touched) = nbytes

\* copy_to_user "copies nbytes from kernel address kaddr to userland address
\* uaddr": a call on a range the process may write returns having written
\* all of it.
CopyReachesTheUser ==
    \A uaddr \in Addrs, nbytes \in Lens \ {0}, yields \in PframeYields :
        (userland_address(uaddr) /\ range_perm(vmm_list, uaddr, nbytes, {"PROT_WRITE"}))
            => LET R == copy_to_user(vmm_list, uaddr, nbytes, yields)
               IN  ~R.panic /\ Len(BytesOf(R.copied)) = nbytes

\* user_strdup duplicates "the string identified by ustr into kernel
\* memory": for a string the process can read, and memory to hold it, it
\* returns 0 and leaves the copy in *kstrp.
StrdupDuplicates ==
    \A as_str \in Addrs, as_len \in Lens, yields \in PframeYields :
        userland_address(as_str) /\ range_perm(vmm_list, as_str, as_len + 1, {"PROT_READ"})
            => user_strdup(vmm_list, as_str, as_len, TRUE, yields)
                    = [ret |-> 0, kstr |-> "copy", panic |-> FALSE]

\* user_vecdup leaves nothing half done: when it returns 0 every pointer of
\* the vector has its copy, and when it fails every string it allocated has
\* been freed, once - user_strdup frees the string it could not fill, and
\* the loop that cleans up frees what the pointers of the vector still
\* point to.
VecdupFreesOnce ==
    \A av_vec \in Addrs, av_len \in 1 .. 2, junk \in [as_str : Addrs, as_len : Lens] :
        \A strs \in [1 .. av_len -> [as_str : Addrs, as_len : Lens]],
           nomem \in SUBSET (0 .. av_len - 1), yields \in PframeYields :
            LET r == user_vecdup(vmm_list, [av_vec |-> av_vec, av_len |-> av_len,
                                            strs |-> strs], TRUE, junk, nomem, yields)
            IN  ~r.panic =>
                    IF r.ret = 0 THEN \A i \in DOMAIN r.kvec : r.kvec[i] = "copy"
                    ELSE \A i \in DOMAIN r.kvec : r.kvec[i] \in {NULL, "freed"}

=============================================================================
