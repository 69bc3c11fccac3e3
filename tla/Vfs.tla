-------------------------------- MODULE Vfs ---------------------------------
(***************************************************************************)
(* The file system calls of kernel/fs/open.c over vnodes, open files and   *)
(* the vnode mutex: do_open, do_close, do_read, do_write, do_getdent,      *)
(* do_lseek, do_stat, do_mknod, do_mkdir, do_rmdir, do_unlink, do_link and *)
(* do_rename.                                                              *)
(*                                                                         *)
(* The kernel is not preempted: a call runs from its entry to its return   *)
(* in one step unless it blocks.  It blocks in vlock, when another thread  *)
(* holds the mutex, and inside a vnode operation whose device sleeps; the  *)
(* frame of a thread says where it stopped and what it holds.  A thread    *)
(* that sleeps in an operation keeps the vnode locked, and that is when    *)
(* other threads run.                                                      *)
(*                                                                         *)
(* Path resolution, the vnode operations, the file objects and the mutex   *)
(* are outside the sources.  What a path resolves to is an input of the    *)
(* call, as are the status and the byte count of an operation on a device; *)
(* names and directory contents are not kept.  An operation whose presence *)
(* the code tests is taken to exist for the vnodes the test is reached     *)
(* with, except write, which directories lack.                             *)
(***************************************************************************)
EXTENDS Integers, Sequences, FiniteSets, SequencesExt, Relation

CONSTANTS
    Threads,        \* the threads, one to a process
    Vnodes,         \* the inode numbers of the vnodes
    VnMode,         \* vnode -> its type
    Inherited,      \* the vnode every process has open at descriptor 0, or NULL
    InheritedFlags, \* the flags it was opened with
    NFILES,         \* descriptors of a process
    MAXFILES,       \* file objects the slab holds
    MaxLen,         \* bytes a regular file holds
    MaxPos,         \* greatest f_pos the model follows
    Lens,           \* the lengths read and write are called with
    Offsets,        \* the offsets do_lseek is called with
    OpenFlags,      \* the flag sets do_open is called with
    Blocking,       \* <<operation, vnode type>>: the operations that may sleep
    Calls,          \* the calls threads make in this configuration
    NULL

ASSUME MaxPos >= MaxLen + 1

S_IFDIR == "S_IFDIR"
S_IFREG == "S_IFREG"
S_IFCHR == "S_IFCHR"

E == [PERM |-> 1, NOENT |-> 2, NXIO |-> 6, BADF |-> 9, NOMEM |-> 12, EXIST |-> 17,
      NOTDIR |-> 20, ISDIR |-> 21, INVAL |-> 22, MFILE |-> 24, NOSPC |-> 28,
      NAMETOOLONG |-> 36, NOTEMPTY |-> 39]

NDIRENTS == 1       \* entries readdir finds in a directory
RAW_DIRENT == 1     \* what readdir returns for an entry
SIZEOF_DIRENT == 2  \* sizeof(dirent_t), what do_getdent returns for one

Files == 1 .. MAXFILES
Fds   == 0 .. NFILES - 1

VARIABLES
    vn,             \* vnode -> reference count, mutex, its wait queue, length
    file,           \* file object -> vnode, mode, position, reference count
    p_files,        \* thread -> descriptor -> file object or NULL
    frame,          \* thread -> the call it is blocked in, or NULL
    ret             \* what the last call returned

vfsVars == <<vn, file, p_files, frame, ret>>

\* The state the functions work on.
Kv == [vn |-> vn, file |-> file, p_files |-> p_files, frame |-> frame, ret |-> ret]

NoFile == [f_vnode |-> NULL, f_mode |-> {}, f_pos |-> 0, f_refcount |-> 0]

\* The frame of a call: the mutexes it still wants, in the order it takes
\* them, and holds; the vnodes its operation works on; the vnode references
\* and the file reference it has to give back; its arguments.
NewFrame(call, want, refs, fobj, a) ==
    [call |-> call, state |-> "running", want |-> want, held |-> <<>>,
     on |-> ToSet(want), refs |-> refs, file |-> fobj, pos |-> 0, a |-> a]

Return(S, t, val) == [S EXCEPT !.frame[t] = NULL, !.ret = val]

-----------------------------------------------------------------------------
(* References, file objects and the vnode mutex *)

vref(S, v) == [S EXCEPT !.vn[v].vn_refcount = @ + 1]
vput(S, v) == [S EXCEPT !.vn[v].vn_refcount = @ - 1]

fref(S, f) == [S EXCEPT !.file[f].f_refcount = @ + 1]

\* fput: the last reference frees the file object and puts its vnode.
fput(S, f) ==
    IF S.file[f].f_refcount > 1 THEN [S EXCEPT !.file[f].f_refcount = @ - 1]
    ELSE vput([S EXCEPT !.file[f] = NoFile], S.file[f].f_vnode)

\* fcreate: a file object on v at descriptor fd, or the state unchanged when
\* the slab is empty.
fcreate(S, t, fd, v, fmode) ==
    LET free == {f \in Files : S.file[f].f_refcount = 0}
        f    == CHOOSE f \in free : \A g \in free : f <= g
    IN  IF free = {} THEN S
        ELSE vref([S EXCEPT !.p_files[t][fd] = f,
                            !.file[f] = [f_vnode |-> v, f_mode |-> fmode,
                                         f_pos |-> 0, f_refcount |-> 1]], v)

\* kmutex_unlock hands the mutex to the thread that waited longest.
vunlock(S, v) ==
    LET q == S.vn[v].vn_waitq
    IN  IF q = <<>> THEN [S EXCEPT !.vn[v].vn_mutex = NULL]
        ELSE [S EXCEPT !.vn[v].vn_mutex = Head(q), !.vn[v].vn_waitq = Tail(q),
                       !.frame[Head(q)].state = "runnable",
                       !.frame[Head(q)].want = Tail(@),
                       !.frame[Head(q)].held = Append(@, v)]

\* vlock_in_order: the lower inode number first, a single vnode once.
vlock_in_order(a, b) == IF a = b THEN <<a>> ELSE IF a < b THEN <<a, b>> ELSE <<b, a>>

vunlock_in_order(S, a, b) == IF a = b THEN vunlock(S, a) ELSE vunlock(vunlock(S, a), b)

\* vlock of the mutexes the frame of t wants: each is taken when it is free;
\* at the first that is held t joins its queue.
RECURSIVE Acquire(_, _)
Acquire(S, t) ==
    LET want == S.frame[t].want
        v    == Head(want)
    IN  IF want = <<>> THEN [S EXCEPT !.frame[t].state = "locked"]
        ELSE IF S.vn[v].vn_mutex = NULL
             THEN Acquire([S EXCEPT !.vn[v].vn_mutex = t, !.frame[t].want = Tail(want),
                                    !.frame[t].held = Append(@, v)], t)
             ELSE [S EXCEPT !.vn[v].vn_waitq = Append(@, t), !.frame[t].state = "blocked"]

\* The operation of the call sleeps when the device of a vnode it works on
\* can and does.
OpSleeps(S, t, in) ==
    in.sleeps /\ \E v \in S.frame[t].on : <<in.op, VnMode[v]>> \in Blocking

Asleep(S, t) == [S EXCEPT !.frame[t].state = "sleeping"]

-----------------------------------------------------------------------------
(* Descriptors: do_open, do_close *)

get_empty_fd(S, t) ==
    LET free == {fd \in Fds : S.p_files[t][fd] = NULL}
    IN  IF free = {} THEN NULL ELSE CHOOSE fd \in free : \A g \in free : fd <= g

FileMode(oflags) ==
    (IF "O_RDWR" \in oflags THEN {"FMODE_READ", "FMODE_WRITE"}
     ELSE IF "O_WRONLY" \in oflags THEN {"FMODE_WRITE"} ELSE {"FMODE_READ"})
    \cup (IF "O_APPEND" \in oflags THEN {"FMODE_APPEND"} ELSE {})

Truncates(oflags, v) ==
    "O_TRUNC" \in oflags /\ VnMode[v] = S_IFREG /\ "FMODE_WRITE" \in FileMode(oflags)

\* do_open up to the lock of the truncation.  `found` is what namev_open
\* resolved the path to, `nodev` says that a device vnode has no device.
do_open(S, t, oflags, found, nodev) ==
    LET fd  == get_empty_fd(S, t)
        got == vref(S, found)
    IN  IF {"O_WRONLY", "O_RDWR"} \subseteq oflags THEN Return(S, t, -E.INVAL)
        ELSE IF fd = NULL THEN Return(S, t, -E.MFILE)
        ELSE IF found = NULL THEN Return(S, t, -E.NOENT)
        ELSE IF VnMode[found] = S_IFDIR /\ oflags \cap {"O_WRONLY", "O_RDWR"} # {}
             THEN Return(vput(got, found), t, -E.ISDIR)
        ELSE IF VnMode[found] = S_IFCHR /\ nodev THEN Return(vput(got, found), t, -E.NXIO)
        ELSE [got EXCEPT !.frame[t] =
                 NewFrame("do_open", IF Truncates(oflags, found) THEN <<found>> ELSE <<>>,
                          <<found>>, NULL, [fd |-> fd, v |-> found, oflags |-> oflags])]

\* A fault of open_fcreate: the path of an empty slab keeps the reference
\* of namev_open.
open_fcreate_noput(S, t) ==
    LET a       == S.frame[t].a
        created == fcreate(S, t, a.fd, a.v, FileMode(a.oflags))
    IN  IF created = S THEN Return(S, t, -E.NOMEM)
        ELSE Return(vput(created, a.v), t, a.fd)

\* fcreate and the return of do_open.
open_fcreate(S, t) ==
    LET a       == S.frame[t].a
        created == fcreate(S, t, a.fd, a.v, FileMode(a.oflags))
    IN  IF created = S THEN Return(vput(S, a.v), t, -E.NOMEM)
        ELSE Return(vput(created, a.v), t, a.fd)

\* A fault of open_truncated: the vnode stays locked.
open_truncated_locked(S, t) ==
    open_fcreate([S EXCEPT !.vn[S.frame[t].a.v].vn_len = 0], t)

\* truncate_file has returned.
open_truncated(S, t) ==
    LET v == S.frame[t].a.v
    IN  open_fcreate(vunlock([S EXCEPT !.vn[v].vn_len = 0], v), t)

do_close(S, t, fd) ==
    IF fd \notin Fds \/ S.p_files[t][fd] = NULL THEN Return(S, t, -E.BADF)
    ELSE Return(fput([S EXCEPT !.p_files[t][fd] = NULL], S.p_files[t][fd]), t, 0)

-----------------------------------------------------------------------------
(* do_read, do_write, do_getdent, do_lseek *)

\* do_read and do_write up to vlock: the descriptor, the mode of the file
\* and the type of the vnode; `isdir` is what a directory is refused with.
Transfer(S, t, call, fd, len, fmode, isdir) ==
    LET f == S.p_files[t][fd]
        v == S.file[f].f_vnode
        got == fref(S, f)
    IN  IF fd \notin Fds \/ f = NULL THEN Return(S, t, -E.BADF)
        ELSE IF fmode \notin S.file[f].f_mode THEN Return(fput(got, f), t, -E.BADF)
        ELSE IF VnMode[v] = S_IFDIR THEN Return(fput(got, f), t, isdir)
        ELSE [got EXCEPT !.frame[t] =
                 NewFrame(call, <<v>>, <<>>, f, [len |-> len, len0 |-> S.vn[v].vn_len])]

do_read(S, t, fd, len) == Transfer(S, t, "do_read", fd, len, "FMODE_READ", -E.ISDIR)

\* A directory has no write operation.
do_write(S, t, fd, len) == Transfer(S, t, "do_write", fd, len, "FMODE_WRITE", -E.BADF)

\* What a device transfers of len bytes: n of them, and no more than the
\* model follows the position for.
DeviceCount(S, f, len, n) == Min({n, len, MaxPos - S.file[f].f_pos})

\* The read operation of a vnode: the bytes between pos and the end of a
\* regular file, what there is of a device.
ReadCount(S, f, pos, len, n) ==
    LET v == S.file[f].f_vnode
    IN  IF VnMode[v] = S_IFCHR THEN DeviceCount(S, f, len, n)
        ELSE IF pos < S.vn[v].vn_len THEN Min({len, S.vn[v].vn_len - pos}) ELSE 0

\* The read operation has returned; f_pos moves on from where it is now.
read_done(S, t, in) ==
    LET f == S.frame[t].file
        result == ReadCount(S, f, S.frame[t].pos, S.frame[t].a.len, in.n)
        moved  == [S EXCEPT !.file[f].f_pos = @ + result]
    IN  Return(fput(vunlock(moved, S.file[f].f_vnode), f), t, result)

\* A fault of write_position: the position is where the file ended when the
\* call was made.
write_position_early(S, t) ==
    LET f == S.frame[t].file
    IN  IF "FMODE_APPEND" \in S.file[f].f_mode THEN S.frame[t].a.len0 ELSE S.file[f].f_pos

\* Where do_write writes, read under the lock.
write_position(S, t) ==
    LET f == S.frame[t].file
    IN  IF "FMODE_APPEND" \in S.file[f].f_mode THEN S.vn[S.file[f].f_vnode].vn_len
        ELSE S.file[f].f_pos

\* The write operation of a vnode: all of len or, when the file is full,
\* -ENOSPC.
WriteCount(S, f, pos, len, n) ==
    IF VnMode[S.file[f].f_vnode] = S_IFCHR THEN DeviceCount(S, f, len, n)
    ELSE IF pos + len <= MaxLen THEN len ELSE -E.NOSPC

\* The write operation has returned.
write_done(S, t, in) ==
    LET f == S.frame[t].file
        v == S.file[f].f_vnode
        pos == S.frame[t].pos
        result  == WriteCount(S, f, pos, S.frame[t].a.len, in.n)
        written == IF result > 0 /\ VnMode[v] = S_IFREG /\ pos + result > S.vn[v].vn_len
                   THEN [S EXCEPT !.vn[v].vn_len = pos + result] ELSE S
        moved   == IF result <= 0 THEN written
                   ELSE IF "FMODE_APPEND" \in S.file[f].f_mode
                        THEN [written EXCEPT !.file[f].f_pos = pos + result]
                        ELSE [written EXCEPT !.file[f].f_pos = @ + result]
    IN  Return(fput(vunlock(moved, v), f), t, result)

\* do_getdent up to vlock; it takes no reference to the file object.
do_getdent(S, t, fd) ==
    LET f == S.p_files[t][fd]
        v == S.file[f].f_vnode
    IN  IF fd \notin Fds \/ f = NULL THEN Return(S, t, -E.BADF)
        ELSE IF VnMode[v] # S_IFDIR THEN Return(S, t, -E.NOTDIR)
        ELSE [S EXCEPT !.frame[t] = NewFrame("do_getdent", <<v>>, <<>>, NULL, [f |-> f])]

\* readdir has returned: the position moves by what it returned, and the
\* caller is told the size of an entry.
getdent_done(S, t) ==
    LET f == S.frame[t].a.f
        result == IF S.frame[t].pos < NDIRENTS * RAW_DIRENT THEN RAW_DIRENT ELSE 0
        moved  == [S EXCEPT !.file[f].f_pos = @ + result]
    IN  Return(vunlock(moved, S.file[f].f_vnode), t,
               IF result > 0 THEN SIZEOF_DIRENT ELSE result)

\* do_lseek up to the lock SEEK_END takes to read vn_len.
do_lseek(S, t, fd, offset, whence) ==
    LET f == S.p_files[t][fd]
        a == [f |-> f, offset |-> offset, whence |-> whence]
    IN  IF fd \notin Fds \/ f = NULL THEN Return(S, t, -E.BADF)
        ELSE [S EXCEPT !.frame[t] =
                 NewFrame("do_lseek", IF whence = "SEEK_END" THEN <<S.file[f].f_vnode>> ELSE <<>>,
                          <<>>, NULL, a)]

\* The switch of do_lseek: the position asked for, NULL for a whence that
\* is none of the three.
new_position(S, a) ==
    CASE a.whence = "SEEK_SET" -> a.offset
      [] a.whence = "SEEK_CUR" -> S.file[a.f].f_pos + a.offset
      [] a.whence = "SEEK_END" -> S.vn[S.file[a.f].f_vnode].vn_len + a.offset
      [] OTHER -> NULL

\* A fault of lseek_done: a negative position is taken.
lseek_done_negative(S, t) ==
    LET a == S.frame[t].a
        unlocked == IF a.whence = "SEEK_END" THEN vunlock(S, S.file[a.f].f_vnode) ELSE S
    IN  IF new_position(S, a) = NULL THEN Return(S, t, -E.INVAL)
        ELSE Return([unlocked EXCEPT !.file[a.f].f_pos = new_position(S, a)], t, new_position(S, a))

\* do_lseek from the switch on; SEEK_END has read vn_len under the lock.
lseek_done(S, t) ==
    LET a == S.frame[t].a
        unlocked == IF a.whence = "SEEK_END" THEN vunlock(S, S.file[a.f].f_vnode) ELSE S
    IN  IF new_position(S, a) = NULL THEN Return(S, t, -E.INVAL)
        ELSE IF new_position(S, a) < 0 THEN Return(unlocked, t, -E.INVAL)
        ELSE Return([unlocked EXCEPT !.file[a.f].f_pos = new_position(S, a)], t, new_position(S, a))

-----------------------------------------------------------------------------
(* The name space: do_stat, do_mknod, do_mkdir, do_rmdir, do_unlink,       *)
(* do_link, do_rename.  `dir` is the directory namev_dir resolved the path *)
(* to, NULL when it failed, and `name` the kind of the last component.     *)

do_stat(S, t, found) ==
    IF found = NULL THEN Return(S, t, -E.NOENT)
    ELSE [vref(S, found) EXCEPT !.frame[t] =
             NewFrame("do_stat", <<found>>, <<found>>, NULL, [v |-> found])]

stat_done(S, t, in) ==
    LET v == S.frame[t].a.v
    IN  Return(vput(vunlock(S, v), v), t, in.status)

do_mknod(S, t, badmode, found) ==
    IF badmode THEN Return(S, t, -E.INVAL)
    ELSE IF found = NULL THEN Return(S, t, -E.NOENT)
    ELSE Return(vput(vref(S, found), found), t, 0)

\* The checks of the directory and the name that four calls share, in the
\* order of do_rmdir; do_mkdir tests the name for being empty before it
\* tests the directory.  The result is an error, or 0.
DirChecks(call, dir, name) ==
    IF name = "long" THEN -E.NAMETOOLONG
    ELSE IF call = "do_mkdir" /\ name = "" THEN -E.EXIST
    ELSE IF VnMode[dir] # S_IFDIR THEN -E.NOTDIR
    ELSE IF call = "do_rmdir" /\ name = "." THEN -E.INVAL
    ELSE IF call = "do_rmdir" /\ name = ".." THEN -E.NOTEMPTY
    ELSE 0

\* A fault of InDirectory: a name or directory that is refused keeps the
\* reference of namev_dir.
InDirectory_noput(S, t, call, dir, name) ==
    LET got == vref(S, dir)
    IN  IF dir = NULL THEN Return(S, t, -E.NOENT)
        ELSE IF DirChecks(call, dir, name) # 0 THEN Return(got, t, DirChecks(call, dir, name))
        ELSE [got EXCEPT !.frame[t] = NewFrame(call, <<dir>>, <<dir>>, NULL, [dir |-> dir])]

\* The three calls that work on one directory, up to vlock.
InDirectory(S, t, call, dir, name) ==
    LET got == vref(S, dir)
    IN  IF dir = NULL THEN Return(S, t, -E.NOENT)
        ELSE IF DirChecks(call, dir, name) # 0
             THEN Return(vput(got, dir), t, DirChecks(call, dir, name))
        ELSE [got EXCEPT !.frame[t] = NewFrame(call, <<dir>>, <<dir>>, NULL, [dir |-> dir])]

do_mkdir(S, t, dir, name) == InDirectory(S, t, "do_mkdir", dir, name)
do_rmdir(S, t, dir, name) == InDirectory(S, t, "do_rmdir", dir, name)
do_unlink(S, t, dir, name) == InDirectory(S, t, "do_unlink", dir, name)

\* A fault of mkdir_locked: the path of a name that exists leaves the
\* directory locked.
mkdir_locked_nounlock(S, t, in) ==
    LET dir == S.frame[t].a.dir
    IN  IF in.lookup = NULL THEN S
        ELSE IF in.lookup \notin Vnodes THEN Return(vput(vunlock(S, dir), dir), t, in.lookup)
        ELSE Return(vput(vput(vref(S, in.lookup), in.lookup), dir), t, -E.EXIST)

\* do_mkdir under the lock: the name must not exist, which is a lookup that
\* fails with -ENOENT (NULL here) and with nothing else.  The state is left
\* as it is when the mkdir operation is to be called.
mkdir_locked(S, t, in) ==
    LET dir == S.frame[t].a.dir
    IN  IF in.lookup = NULL THEN S
        ELSE IF in.lookup \notin Vnodes THEN Return(vput(vunlock(S, dir), dir), t, in.lookup)
        ELSE Return(vput(vunlock(vput(vref(S, in.lookup), in.lookup), dir), dir), t, -E.EXIST)

\* do_unlink under the lock: a directory is not unlinked.
unlink_locked(S, t, in) ==
    LET dir == S.frame[t].a.dir
        target == vref(S, in.lookup)
    IN  IF in.lookup = NULL THEN S
        ELSE IF VnMode[in.lookup] = S_IFDIR
             THEN Return(vput(vunlock(vput(target, in.lookup), dir), dir), t, -E.PERM)
        ELSE vput(target, in.lookup)

\* The operation of the directory has returned: mkdir, rmdir or unlink.  The
\* directory mkdir made comes with a reference that is put at once.
directory_done(S, t, in) ==
    LET dir == S.frame[t].a.dir
    IN  Return(vput(vunlock(S, dir), dir), t, in.status)

\* do_link up to the locks: `target` is what the old path resolved to.
do_link(S, t, target, dir, name) ==
    LET got == vref(vref(S, target), dir)
    IN  IF target = NULL THEN Return(S, t, -E.NOENT)
        ELSE IF VnMode[target] = S_IFDIR THEN Return(vput(vref(S, target), target), t, -E.PERM)
        ELSE IF dir = NULL THEN Return(vput(vref(S, target), target), t, -E.NOENT)
        ELSE IF name = "long" THEN Return(vput(vput(got, target), dir), t, -E.NAMETOOLONG)
        ELSE IF VnMode[dir] # S_IFDIR THEN Return(vput(vput(got, target), dir), t, -E.NOTDIR)
        ELSE [got EXCEPT !.frame[t] =
                 NewFrame("do_link", vlock_in_order(dir, target), <<target, dir>>, NULL,
                          [a |-> dir, b |-> target])]

\* A fault of RenameLocks: the old directory first, whatever the numbers.
RenameLocks_unordered(old, new) == IF old = new THEN <<old>> ELSE <<old, new>>

\* The mutexes do_rename takes.
RenameLocks(old, new) == vlock_in_order(old, new)

\* do_rename up to the locks.
do_rename(S, t, old, oldname, new, newname) ==
    LET first == vref(S, old)
        both  == vref(first, new)
    IN  IF old = NULL THEN Return(S, t, -E.NOENT)
        ELSE IF oldname = "long" THEN Return(vput(first, old), t, -E.NAMETOOLONG)
        ELSE IF VnMode[old] # S_IFDIR THEN Return(vput(first, old), t, -E.NOTDIR)
        ELSE IF new = NULL THEN Return(vput(first, old), t, -E.NOENT)
        ELSE IF newname = "long" THEN Return(vput(vput(both, old), new), t, -E.NAMETOOLONG)
        ELSE IF VnMode[new] # S_IFDIR THEN Return(vput(vput(both, old), new), t, -E.NOTDIR)
        ELSE [both EXCEPT !.frame[t] =
                 [NewFrame("do_rename", RenameLocks(old, new), <<old, new>>, NULL,
                           [a |-> old, b |-> new]) EXCEPT !.on = {old, new}]]

\* The link or rename operation has returned.
pair_done(S, t, in) ==
    LET a == S.frame[t].a
    IN  Return(vput(vput(vunlock_in_order(S, a.a, a.b), a.a), a.b), t, in.status)

-----------------------------------------------------------------------------
(* A call from its locks to its return *)

\* The vnode operation each call makes under its locks.
OpOf == [do_open |-> "truncate", do_read |-> "read", do_write |-> "write",
         do_getdent |-> "readdir", do_lseek |-> "none", do_stat |-> "stat",
         do_mkdir |-> "mkdir", do_rmdir |-> "rmdir", do_unlink |-> "unlink",
         do_link |-> "link", do_rename |-> "rename"]

\* What the operations of the name space return.
OpStatus == [o \in {"stat", "mkdir", "rmdir", "unlink", "link", "rename"} |->
                CASE o = "stat" -> {0}
                  [] o \in {"mkdir", "link"} -> {0, -E.EXIST}
                  [] o = "rmdir" -> {0, -E.NOTEMPTY}
                  [] OTHER -> {0, -E.NOENT}]

\* What a call cannot know in advance: whether its operation sleeps, how
\* many bytes a device transfers, the status of the operation, and what the
\* lookup under the lock of do_mkdir and do_unlink finds.
Inputs(call) ==
    [op     : {OpOf[call]},
     sleeps : IF \E m \in {S_IFDIR, S_IFREG, S_IFCHR} : <<OpOf[call], m>> \in Blocking
              THEN BOOLEAN ELSE {FALSE},
     n      : IF call \in {"do_read", "do_write"} THEN 0 .. 1 ELSE {0},
     status : IF OpOf[call] \in DOMAIN OpStatus THEN OpStatus[OpOf[call]] ELSE {0},
     lookup : CASE call = "do_mkdir"  -> Vnodes \cup {NULL, -E.NOTDIR}
                [] call = "do_unlink" -> Vnodes \cup {NULL}
                [] OTHER -> {NULL}]

\* The code between the last vlock and the vnode operation.  A call that
\* returns there has no frame afterwards.
BeforeOp(S, t, in) ==
    LET call == S.frame[t].call
    IN  CASE call \in {"do_read", "do_getdent"} ->
                [S EXCEPT !.frame[t].pos =
                    S.file[IF call = "do_read" THEN S.frame[t].file ELSE S.frame[t].a.f].f_pos]
          [] call = "do_write"  -> [S EXCEPT !.frame[t].pos = write_position(S, t)]
          [] call = "do_mkdir"  -> mkdir_locked(S, t, in)
          [] call = "do_unlink" -> unlink_locked(S, t, in)
          [] call = "do_lseek"  -> lseek_done(S, t)
          [] call = "do_open" /\ S.frame[t].held = <<>> -> open_fcreate(S, t)
          [] OTHER -> S

\* The code from the return of the vnode operation to the return of the call.
AfterOp(S, t, in) ==
    LET call == S.frame[t].call
    IN  CASE call = "do_open"    -> open_truncated(S, t)
          [] call = "do_read"    -> read_done(S, t, in)
          [] call = "do_write"   -> write_done(S, t, in)
          [] call = "do_getdent" -> getdent_done(S, t)
          [] call = "do_stat"    -> stat_done(S, t, in)
          [] call \in {"do_mkdir", "do_rmdir", "do_unlink"} -> directory_done(S, t, in)
          [] call \in {"do_link", "do_rename"} -> pair_done(S, t, in)

\* A call whose frame is set up runs on: it takes its locks or blocks at
\* one, makes its operation, and returns unless the operation sleeps.
Enter(S, t, in) ==
    LET locked == Acquire(S, t)
        ready  == BeforeOp(locked, t, in)
    IN  IF S.frame[t] = NULL THEN S
        ELSE IF locked.frame[t].state = "blocked" THEN locked
        ELSE IF ready.frame[t] = NULL THEN ready
        ELSE IF OpSleeps(ready, t, in) THEN Asleep(ready, t)
        ELSE AfterOp(ready, t, in)

-----------------------------------------------------------------------------
(* The steps *)

Becomes(S) ==
    /\ vn' = S.vn
    /\ file' = S.file
    /\ p_files' = S.p_files
    /\ frame' = S.frame
    /\ ret' = S.ret

\* Thread t makes the call: it is in no call, and the configuration has it.
Makes(t, call) == call \in Calls /\ frame[t] = NULL

\* The kinds of last component the checks of a call tell apart.
NameKinds(call) ==
    {"name", "long"} \cup (IF call = "do_mkdir" THEN {""} ELSE {})
                     \cup (IF call = "do_rmdir" THEN {".", ".."} ELSE {})

DoOpen(t) ==
    /\ Makes(t, "do_open")
    /\ \E oflags \in OpenFlags, found \in Vnodes \cup {NULL}, nodev \in BOOLEAN,
          in \in Inputs("do_open") :
            Becomes(Enter(do_open(Kv, t, oflags, found, nodev), t, in))

DoClose(t) ==
    /\ Makes(t, "do_close")
    /\ \E fd \in Fds : Becomes(do_close(Kv, t, fd))

DoRead(t) ==
    /\ Makes(t, "do_read")
    /\ \E fd \in Fds, len \in Lens, in \in Inputs("do_read") :
            Becomes(Enter(do_read(Kv, t, fd, len), t, in))

DoWrite(t) ==
    /\ Makes(t, "do_write")
    /\ \E fd \in Fds, len \in Lens, in \in Inputs("do_write") :
            Becomes(Enter(do_write(Kv, t, fd, len), t, in))

DoGetdent(t) ==
    /\ Makes(t, "do_getdent")
    /\ \E fd \in Fds, in \in Inputs("do_getdent") :
            Becomes(Enter(do_getdent(Kv, t, fd), t, in))

\* The positions the model follows end at MaxPos.
DoLseek(t) ==
    /\ Makes(t, "do_lseek")
    /\ \E fd \in Fds, offset \in Offsets,
          whence \in {"SEEK_SET", "SEEK_CUR", "SEEK_END", "other"}, in \in Inputs("do_lseek") :
            /\ Becomes(Enter(do_lseek(Kv, t, fd, offset, whence), t, in))
            /\ \A f \in Files : file'[f].f_pos <= MaxPos

DoStat(t) ==
    /\ Makes(t, "do_stat")
    /\ \E found \in Vnodes \cup {NULL}, in \in Inputs("do_stat") :
            Becomes(Enter(do_stat(Kv, t, found), t, in))

DoMknod(t) ==
    /\ Makes(t, "do_mknod")
    /\ \E badmode \in BOOLEAN, found \in Vnodes \cup {NULL} :
            Becomes(do_mknod(Kv, t, badmode, found))

DoMkdir(t) ==
    /\ Makes(t, "do_mkdir")
    /\ \E dir \in Vnodes \cup {NULL}, name \in NameKinds("do_mkdir"), in \in Inputs("do_mkdir") :
            Becomes(Enter(do_mkdir(Kv, t, dir, name), t, in))

DoRmdir(t) ==
    /\ Makes(t, "do_rmdir")
    /\ \E dir \in Vnodes \cup {NULL}, name \in NameKinds("do_rmdir"), in \in Inputs("do_rmdir") :
            Becomes(Enter(do_rmdir(Kv, t, dir, name), t, in))

DoUnlink(t) ==
    /\ Makes(t, "do_unlink")
    /\ \E dir \in Vnodes \cup {NULL}, name \in NameKinds("do_unlink"), in \in Inputs("do_unlink") :
            Becomes(Enter(do_unlink(Kv, t, dir, name), t, in))

DoLink(t) ==
    /\ Makes(t, "do_link")
    /\ \E target, dir \in Vnodes \cup {NULL}, name \in NameKinds("do_link"), in \in Inputs("do_link") :
            Becomes(Enter(do_link(Kv, t, target, dir, name), t, in))

DoRename(t) ==
    /\ Makes(t, "do_rename")
    /\ \E old, new \in Vnodes \cup {NULL}, oldname, newname \in NameKinds("do_rename"),
          in \in Inputs("do_rename") :
            Becomes(Enter(do_rename(Kv, t, old, oldname, new, newname), t, in))

\* A thread that was handed the mutex it waited for runs on.
Resume(t) ==
    /\ frame[t] # NULL
    /\ frame[t].state = "runnable"
    /\ \E in \in Inputs(frame[t].call) : Becomes(Enter(Kv, t, in))

\* The operation a thread sleeps in returns.
OpReturns(t) ==
    /\ frame[t] # NULL
    /\ frame[t].state = "sleeping"
    /\ \E in \in Inputs(frame[t].call) : Becomes(AfterOp(Kv, t, in))

\* Every process starts with the file its parent had open at descriptor 0:
\* one file object, shared by all of them as do_fork leaves it.
VfsInit ==
    LET shared == Inherited # NULL
    IN  /\ vn = [v \in Vnodes |-> [vn_refcount |-> IF shared /\ v = Inherited THEN 1 ELSE 0,
                                   vn_mutex |-> NULL, vn_waitq |-> <<>>, vn_len |-> 0]]
        /\ file = [f \in Files |->
                     IF shared /\ f = 1
                     THEN [f_vnode |-> Inherited, f_mode |-> FileMode(InheritedFlags),
                           f_pos |-> 0, f_refcount |-> Cardinality(Threads)]
                     ELSE NoFile]
        /\ p_files = [t \in Threads |-> [fd \in Fds |-> IF shared /\ fd = 0 THEN 1 ELSE NULL]]
        /\ frame = [t \in Threads |-> NULL]
        /\ ret = 0

VfsNext ==
    \E t \in Threads :
        \/ DoOpen(t) \/ DoClose(t) \/ DoRead(t) \/ DoWrite(t) \/ DoGetdent(t) \/ DoLseek(t)
        \/ DoStat(t) \/ DoMknod(t) \/ DoMkdir(t) \/ DoRmdir(t) \/ DoUnlink(t)
        \/ DoLink(t) \/ DoRename(t)
        \/ Resume(t) \/ OpReturns(t)

VfsSpec == VfsInit /\ [][VfsNext]_vfsVars

-----------------------------------------------------------------------------
(* Properties *)

FrameTypeOK(fr) ==
    /\ fr.call \in DOMAIN OpOf
    /\ fr.state \in {"blocked", "runnable", "sleeping"}
    /\ fr.want \in Seq(Vnodes) /\ fr.held \in Seq(Vnodes) /\ fr.refs \in Seq(Vnodes)
    /\ fr.on \subseteq Vnodes
    /\ fr.file \in Files \cup {NULL}
    /\ fr.pos \in 0 .. MaxPos + MaxLen

\* The state has its type: in particular reference counts never fall below
\* zero and no position is negative, which is what the test of new_position
\* in do_lseek is for.
VfsTypeOK ==
    /\ \A v \in Vnodes :
         /\ vn[v].vn_refcount \in Nat
         /\ vn[v].vn_mutex \in Threads \cup {NULL}
         /\ vn[v].vn_waitq \in Seq(Threads)
         /\ vn[v].vn_len \in 0 .. MaxLen
    /\ \A f \in Files :
         /\ file[f].f_vnode \in Vnodes \cup {NULL}
         /\ file[f].f_mode \subseteq {"FMODE_READ", "FMODE_WRITE", "FMODE_APPEND"}
         /\ file[f].f_pos \in 0 .. MaxPos + MaxLen
         /\ file[f].f_refcount \in Nat
    /\ p_files \in [Threads -> [Fds -> Files \cup {NULL}]]
    /\ \A t \in Threads : frame[t] # NULL => FrameTypeOK(frame[t])
    /\ ret \in Int

Occurrences(s, x) == Cardinality({i \in DOMAIN s : s[i] = x})

HeldRefs(v) ==
    FoldSet(LAMBDA t, sum : sum + IF frame[t] = NULL THEN 0 ELSE Occurrences(frame[t].refs, v),
            0, Threads)

VnodeRefs(v) == Cardinality({f \in Files : file[f].f_vnode = v}) + HeldRefs(v)

FileRefs(f) ==
    Cardinality({x \in Threads \X Fds : p_files[x[1]][x[2]] = f})
    + Cardinality({t \in Threads : frame[t] # NULL /\ frame[t].file = f})

\* Every reference is one somebody will give back.  vn_refcount is the
\* number of file objects on the vnode plus the references the calls in
\* progress took from namev_dir, namev_resolve and namev_open: each early
\* return of do_open, do_mkdir, do_rmdir, do_unlink, do_link and do_rename
\* has to vput exactly what the call holds at that point.  f_refcount is the
\* number of descriptors that name the file object plus the calls that hold
\* it from fget: every path of do_read and do_write ends in fput, and a file
\* object goes when its last descriptor is closed and not while a call
\* sleeps on it.
ReferencesBalanced ==
    /\ \A v \in Vnodes : vn[v].vn_refcount = VnodeRefs(v)
    /\ \A f \in Files : file[f].f_refcount = FileRefs(f)

\* The mutex of a vnode is held by a call in progress and by nobody else: a
\* call that has returned holds no lock, whichever of its paths it took, a
\* thread is in the queue of a mutex exactly when it is blocked at it, and a
\* vnode operation that sleeps holds the mutex of every vnode it works on.
LocksAreHeldByCalls ==
    /\ \A v \in Vnodes, t \in Threads :
         /\ vn[v].vn_mutex = t <=> frame[t] # NULL /\ v \in ToSet(frame[t].held)
         /\ t \in ToSet(vn[v].vn_waitq) <=>
               frame[t] # NULL /\ frame[t].state = "blocked" /\ Head(frame[t].want) = v
    /\ \A t \in Threads :
         frame[t] # NULL /\ frame[t].state = "sleeping" => frame[t].on \subseteq ToSet(frame[t].held)

\* t waits for u: t is blocked at a mutex u holds.
WaitsFor == [x \in Threads \X Threads |->
                /\ frame[x[1]] # NULL
                /\ frame[x[1]].state = "blocked"
                /\ vn[Head(frame[x[1]].want)].vn_mutex = x[2]]

\* No threads wait for each other in a circle: do_link and do_rename take
\* their two mutexes with vlock_in_order, lower inode number first, so that
\* two renames of the same directories in opposite directions, each resumed
\* with one mutex in hand, cannot hold what the other wants.
NoWaitCycle == IsIrreflexive(TransitiveClosure(WaitsFor, Threads), Threads)

\* A write to a file opened with O_APPEND never overwrites: when do_write
\* returns n > 0 for a regular file, the file is n bytes longer than it was
\* when the write operation was made, because write_position reads vn_len
\* under the lock and not before do_write waited for it.
AppendsNeverOverwrite ==
    [][\A t \in Threads :
          LET f == frame[t].file
              v == file[f].f_vnode
          IN  (/\ frame[t] # NULL
               /\ frame'[t] = NULL
               /\ frame[t].call = "do_write"
               /\ "FMODE_APPEND" \in file[f].f_mode
               /\ VnMode[v] = S_IFREG
               /\ ret' > 0)
              => vn'[v].vn_len = vn[v].vn_len + ret']_vfsVars

\* A read continues where the file was when it began: when do_read returns
\* n > 0 the position is n past the one it gave the read operation.  The
\* code adds n to f_pos as it is when the operation returns, and do_lseek
\* of a process that shares the file object sets f_pos without the lock.
ReadsAreContiguous ==
    [][\A t \in Threads :
          (/\ frame[t] # NULL
           /\ frame'[t] = NULL
           /\ frame[t].call = "do_read"
           /\ ret' > 0)
          => file'[frame[t].file].f_pos = frame[t].pos + ret']_vfsVars

=============================================================================
