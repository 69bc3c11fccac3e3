------------------------------- MODULE Shadow -------------------------------
(***************************************************************************)
(* Memory objects and their pages: the shadow objects of                   *)
(* kernel/vm/shadow.c and the anonymous objects they end in.               *)
(*                                                                         *)
(* An object is a slot of the slab: its type, its reference count, the     *)
(* thread that holds its mutex, the page frames it caches and, for a       *)
(* shadow object, the object it shadows and the bottom of its chain.  A    *)
(* page frame is named by its object and page number and holds PAGE_BYTES  *)
(* bytes.                                                                  *)
(*                                                                         *)
(* The functions of the code are operators on a record K of the objects    *)
(* and the first fault of the kernel.  The object layer itself (mobj_ref,  *)
(* mobj_put, mobj_lock, mobj_find_pframe, mobj_default_get_pframe) is not  *)
(* part of the sources and is modelled from its specification.             *)
(***************************************************************************)
EXTENDS Integers, FiniteSets

CONSTANTS
    ANONS,          \* slots of the slab of anonymous objects
    SHADOWS,        \* slots of the slab of shadow objects
    PageNums,       \* page numbers of an object
    PAGE_BYTES,     \* bytes of a page the model tells apart
    NULL

MOBJ_FREE   == "FREE"
MOBJ_ANON   == "MOBJ_ANON"
MOBJ_SHADOW == "MOBJ_SHADOW"

AnonObjs   == 1 .. ANONS
ShadowObjs == ANONS + 1 .. ANONS + SHADOWS
Objs       == AnonObjs \cup ShadowObjs
Bytes    == 0 .. PAGE_BYTES - 1
ZeroPage == [b \in Bytes |-> 0]

VARIABLES
    mobj,           \* the memory objects
    panic           \* the first fault of the kernel, or NULL

\* A slot of the slab that holds no object.
FreeObj == [mo_type |-> MOBJ_FREE, mo_refcount |-> 0, mo_mutex |-> NULL,
            mo_pframes |-> [n \in PageNums |-> NULL],
            shadowed |-> NULL, bottom_mobj |-> NULL]

\* The state the functions work on.
Km == [obj |-> mobj, panic |-> panic]

Fault(K, what) == IF K.panic = NULL THEN [K EXCEPT !.panic = what] ELSE K

\* slab_obj_alloc(shadow_allocator): the first free slot, or NULL.
slab_obj_alloc(K) ==
    LET free == {o \in ShadowObjs : K.obj[o].mo_type = MOBJ_FREE}
    IN  IF free = {} THEN NULL ELSE CHOOSE o \in free : \A f \in free : o <= f

-----------------------------------------------------------------------------
(* The object layer *)

mobj_ref(K, o) == [K EXCEPT !.obj[o].mo_refcount = @ + 1]

\* A thread that locks a mutex it holds never returns from the call.
mobj_lock(K, o, thr) ==
    CASE K.panic # NULL -> K
      [] K.panic = NULL /\ K.obj[o].mo_mutex = NULL -> [K EXCEPT !.obj[o].mo_mutex = thr]
      [] OTHER -> Fault(K, "mobj_lock: the mutex is held")

\* Unlocking a destroyed object is a use of freed memory.
mobj_unlock(K, o, thr) ==
    CASE K.panic # NULL -> K
      [] K.panic = NULL /\ K.obj[o].mo_type # MOBJ_FREE /\ K.obj[o].mo_mutex = thr ->
            [K EXCEPT !.obj[o].mo_mutex = NULL]
      [] OTHER -> Fault(K, "mobj_unlock: not a locked object")

mobj_find_pframe(K, o, pagenum) == K.obj[o].mo_pframes[pagenum] # NULL

\* The nearest object from `current` down the chain that caches the page,
\* or NULL: the loop of shadow_get_pframe and of shadow_fill_pframe.
RECURSIVE ChainFind(_, _, _)
ChainFind(K, current, pagenum) ==
    CASE current = NULL -> NULL
      [] current # NULL /\ mobj_find_pframe(K, current, pagenum) -> current
      [] OTHER -> IF K.obj[current].mo_type = MOBJ_SHADOW
                  THEN ChainFind(K, K.obj[current].shadowed, pagenum)
                  ELSE NULL

\* mobj_default_destructor and slab_obj_free: the frames go with the object.
anon_destructor(K, o) == [K EXCEPT !.obj[o] = FreeObj]

RECURSIVE mobj_put(_, _)
\* shadow_destructor gives up the references of the chain, then the slot.
shadow_destructor(K, o) ==
    LET unshadowed == mobj_put(K, K.obj[o].shadowed)
        unbottomed == mobj_put(unshadowed, K.obj[o].bottom_mobj)
    IN  [unbottomed EXCEPT !.obj[o] = FreeObj]

\* mobj_put: the last reference destroys the object.
mobj_put(K, o) ==
    LET put == [K EXCEPT !.obj[o].mo_refcount = @ - 1]
    IN  CASE put.obj[o].mo_refcount > 0 -> put
          [] put.obj[o].mo_refcount <= 0 /\ K.obj[o].mo_type = MOBJ_SHADOW ->
                shadow_destructor(put, o)
          [] OTHER -> anon_destructor(put, o)

-----------------------------------------------------------------------------
(* shadow.c *)

\* A fault of shadow_create: the bottom of the chain is the object shadowed.
shadow_create_flat(K, shadowed) ==
    LET o == slab_obj_alloc(K)
        shadow == [FreeObj EXCEPT !.mo_type = MOBJ_SHADOW, !.mo_refcount = 1,
                                  !.shadowed = shadowed, !.bottom_mobj = shadowed]
    IN  IF o = NULL THEN [K |-> K, obj |-> NULL]
        ELSE [K |-> mobj_ref(mobj_ref([K EXCEPT !.obj[o] = shadow], shadowed), shadowed),
              obj |-> o]

\* shadow_create: an unlocked shadow object with one reference, holding a
\* reference to the object it shadows and one to the bottom of the chain.
shadow_create(K, shadowed) ==
    LET o == slab_obj_alloc(K)
        bottom == IF K.obj[shadowed].mo_type = MOBJ_SHADOW
                  THEN K.obj[shadowed].bottom_mobj ELSE shadowed
        shadow == [FreeObj EXCEPT !.mo_type = MOBJ_SHADOW, !.mo_refcount = 1,
                                  !.shadowed = shadowed, !.bottom_mobj = bottom]
    IN  IF o = NULL THEN [K |-> K, obj |-> NULL]
        ELSE [K |-> mobj_ref(mobj_ref([K EXCEPT !.obj[o] = shadow], shadowed), bottom),
              obj |-> o]

\* anon_fill_pframe: a page of zeros.
anon_fill_pframe == ZeroPage

\* A fault of shadow_fill_pframe: the copy is taken from the bottom object.
shadow_fill_pframe_bottom(K, o, pagenum) ==
    LET bottom == K.obj[o].bottom_mobj
    IN  IF mobj_find_pframe(K, bottom, pagenum)
        THEN [K |-> K, page |-> K.obj[bottom].mo_pframes[pagenum]]
        ELSE [K |-> [K EXCEPT !.obj[bottom].mo_pframes[pagenum] = anon_fill_pframe],
              page |-> anon_fill_pframe]

\* shadow_fill_pframe: the bytes of the nearest copy below o; when the chain
\* has none, the bottom object brings its page in and that is copied.
shadow_fill_pframe(K, o, pagenum) ==
    LET source == ChainFind(K, K.obj[o].shadowed, pagenum)
        bottom == K.obj[o].bottom_mobj
    IN  IF source # NULL
        THEN [K |-> K, page |-> K.obj[source].mo_pframes[pagenum]]
        ELSE [K |-> [K EXCEPT !.obj[bottom].mo_pframes[pagenum] = anon_fill_pframe],
              page |-> anon_fill_pframe]

\* mobj_default_get_pframe: the frame of o itself, created and filled by the
\* object's fill_pframe when o does not cache the page.
mobj_default_get_pframe(K, o, pagenum) ==
    LET filled == shadow_fill_pframe(K, o, pagenum)
    IN  CASE mobj_find_pframe(K, o, pagenum) -> [K |-> K, pf |-> <<o, pagenum>>]
          [] ~mobj_find_pframe(K, o, pagenum) /\ K.obj[o].mo_type = MOBJ_SHADOW ->
                [K |-> [filled.K EXCEPT !.obj[o].mo_pframes[pagenum] = filled.page],
                 pf |-> <<o, pagenum>>]
          [] OTHER ->
                [K |-> [K EXCEPT !.obj[o].mo_pframes[pagenum] = anon_fill_pframe],
                 pf |-> <<o, pagenum>>]

\* shadow_get_pframe: a frame of o for writing; for reading the nearest frame
\* of the chain, the bottom object's when no shadow object has one.
shadow_get_pframe(K, o, pagenum, forwrite) ==
    LET holder == ChainFind(K, o, pagenum)
    IN  CASE forwrite -> mobj_default_get_pframe(K, o, pagenum)
          [] ~forwrite /\ holder # NULL -> [K |-> K, pf |-> <<holder, pagenum>>]
          [] OTHER -> mobj_default_get_pframe(K, K.obj[o].bottom_mobj, pagenum)

\* mobj_get_pframe: the get_pframe of the object's type; anonymous objects
\* have none and take the default.
mobj_get_pframe(K, o, pagenum, forwrite) ==
    IF K.obj[o].mo_type = MOBJ_SHADOW
    THEN shadow_get_pframe(K, o, pagenum, forwrite)
    ELSE mobj_default_get_pframe(K, o, pagenum)

\* shadow_collapse: when the object o shadows is a shadow object with a
\* single reference, o takes over what that object shadows.  The frames of
\* the object given up are not moved, and it is unlocked after the put that
\* destroys it.
shadow_collapse(K, o, thr) ==
    LET shadowed == K.obj[o].shadowed
        locked   == mobj_lock(mobj_lock(K, o, thr), shadowed, thr)
        skipped  == mobj_unlock(mobj_unlock(locked, shadowed, thr), o, thr)
        below    == K.obj[shadowed].shadowed
        relinked == mobj_ref([locked EXCEPT !.obj[o].shadowed = below], below)
        put      == mobj_put(relinked, shadowed)
    IN  CASE K.obj[shadowed].mo_type # MOBJ_SHADOW -> K
          [] K.obj[shadowed].mo_type = MOBJ_SHADOW /\ locked.panic # NULL -> locked
          [] OTHER -> IF K.obj[shadowed].mo_refcount > 1 THEN skipped
                      ELSE mobj_unlock(mobj_unlock(put, shadowed, thr), o, thr)

=============================================================================
