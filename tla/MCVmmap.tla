------------------------------- MODULE MCVmmap -------------------------------
(***************************************************************************)
(* The address space for TLC: pages of two bytes, user memory of five      *)
(* pages starting at page 2, so that an address below user memory exists   *)
(* and a page count can be larger than the first page number.              *)
(***************************************************************************)
EXTENDS Vmmap, TLC

CONSTANTS o1, o2, o3, fo

ThreeObjs == {o1, o2, o3}

\* Descriptor 0 is a file opened for reading and writing, 1 is closed, 2 is
\* opened for appending, 3 is a device that cannot be mapped.
OpenFiles ==
    0 :> [f_mode |-> {"FMODE_READ", "FMODE_WRITE"}, f_vnode |-> [mmap |-> TRUE, mobj |-> fo]]
 @@ 1 :> NULL
 @@ 2 :> [f_mode |-> {"FMODE_WRITE", "FMODE_APPEND"}, f_vnode |-> [mmap |-> TRUE, mobj |-> fo]]
 @@ 3 :> [f_mode |-> {"FMODE_READ"}, f_vnode |-> [mmap |-> FALSE, mobj |-> fo]]

Anon(len) ==
    [addr |-> 0, len |-> len, prot |-> {"PROT_READ", "PROT_WRITE"},
     flags |-> {"MAP_PRIVATE", "MAP_ANON"}, fd |-> -1, off |-> 0]

File(fd, prot, flags) ==
    [addr |-> 0, len |-> 2, prot |-> prot, flags |-> flags, fd |-> fd, off |-> 2]

\* Mappings of one, two and three pages, and one call for every check of
\* do_mmap.
SomeMapCalls ==
    {Anon(1), Anon(3), Anon(6), Anon(0),
     [Anon(2) EXCEPT !.flags = {"MAP_ANON"}],
     [Anon(2) EXCEPT !.flags = {"MAP_PRIVATE", "MAP_ANON", "MAP_FIXED"}, !.addr = 5],
     [Anon(2) EXCEPT !.flags = {"MAP_PRIVATE", "MAP_ANON", "MAP_FIXED"}, !.addr = 6],
     [Anon(2) EXCEPT !.off = 1],
     [Anon(2) EXCEPT !.off = -2],
     [Anon(2) EXCEPT !.fd = 0],
     File(0, {"PROT_READ", "PROT_WRITE"}, {"MAP_SHARED"}),
     File(1, {"PROT_READ"}, {"MAP_PRIVATE"}),
     File(4, {"PROT_READ"}, {"MAP_PRIVATE"}),
     File(2, {"PROT_READ"}, {"MAP_PRIVATE"}),
     File(2, {"PROT_WRITE"}, {"MAP_PRIVATE"}),
     File(3, {"PROT_WRITE"}, {"MAP_SHARED"}),
     File(3, {"PROT_READ"}, {"MAP_SHARED"})}

NoMapCalls == {}

\* One anonymous mapping of three pages.
ThreePages == {Anon(3 * PAGE_SIZE)}

=============================================================================
