-------------------------------- MODULE Proc --------------------------------
(***************************************************************************)
(* The process supervisor: kernel/proc/proc.c (lines 1-558 of              *)
(* src/kernel/proc/proc.c), the start of the init process in               *)
(* src/kernel/main/kmain.c, and the descriptor-table calls of              *)
(* src/kernel/fs/open.c through which a process comes to hold the file     *)
(* and vnode references that proc_create, proc_cleanup and proc_destroy    *)
(* copy and release.                                                       *)
(*                                                                         *)
(* Every process has one thread.  Process slot p of the slab has thread p  *)
(* and its wait queue p_wait is wait queue p, so the scheduler of module   *)
(* Sched runs the threads of the processes modelled here.                  *)
(***************************************************************************)
EXTENDS Sched

CONSTANTS
    idleproc,        \* the statically allocated idle process
    PROC_MAX_COUNT,  \* config.h: pids are 1 .. PROC_MAX_COUNT - 1
    NFILES,          \* config.h: the length of p_files
    Files,           \* the file_t objects of the file slab
    Vnodes,          \* the directories a process can have as its cwd
    vfs_root,        \* the root directory
    NTERMS,          \* config.mk: the terminals initproc_run starts a kshell on
    slab_obj_alloc(_), \* the objects the slab may hand out, from the free ones
    PageAllocFails,  \* whether pt_create may find no page for a page table
    CleanupBlocks,   \* whether the fput and vput of proc_cleanup may sleep
    Calls            \* the kernel calls the threads of this kernel make

Procs == Threads
AllProcs == Procs \cup {idleproc}
Fds == 0 .. NFILES - 1
Pids == 1 .. PROC_MAX_COUNT - 1

ASSUME ProcConstantsOK ==
    /\ Procs \subseteq WaitQueues
    /\ idleproc \notin Procs \cup {NULL}
    /\ PROC_MAX_COUNT \in Nat /\ PROC_MAX_COUNT >= 3
    /\ NFILES \in Nat /\ NTERMS \in Nat
    /\ PageAllocFails \in BOOLEAN /\ CleanupBlocks \in BOOLEAN
    /\ \A S \in SUBSET Procs : slab_obj_alloc(S) \subseteq S /\ (S # {} => slab_obj_alloc(S) # {})
    /\ vfs_root \in Vnodes
    /\ Calls \subseteq {"proc_create", "proc_kill", "proc_kill_all", "do_waitpid", "do_exit",
                        "sched_yield", "sched_cancellable_sleep_on",
                        "do_open", "do_close", "do_dup", "do_dup2", "do_chdir",
                        "initproc_run"}

VARIABLES
    proc,          \* proc[p]: the fields of process p
    proc_list,     \* the list of all processes but the idle process, in list order
    next_pid,      \* where _proc_getid starts looking
    proc_initproc, \* the init process, or NULL
    child,         \* child[p]: the child do_waitpid(pid > 0) of p waits for
    kill_iter,     \* proc_kill_all: the position of its loop in proc_list, 0 outside it
    f_refcount,    \* f_refcount[f]: the references to file f
    vn_refcount    \* vn_refcount[v]: the references processes hold on vnode v

procVars == <<proc, proc_list, next_pid, proc_initproc, child, kill_iter, f_refcount,
              vn_refcount>>
vars == <<kthread, tq, tq_size, curthr, kc_queue, core, pc, ret, panic, raced,
          proc, proc_list, next_pid, proc_initproc, child, kill_iter, f_refcount,
          vn_refcount>>

PID_IDLE == 0
PID_INIT == 1
EBADF == 9
ECHILD == 10
ENOMEM == 12
ENOTDIR == 20
EINVAL == 22
EMFILE == 24
ENOENT == 2
ENOTSUP == 95

PROC_FREE == "FREE"       \* an object in the slab
PROC_RUNNING == "RUNNING"
PROC_DEAD == "DEAD"

NoFiles == [fd \in Fds |-> NULL]
FreeProc == [p_pid |-> NULL, p_state |-> PROC_FREE, p_pproc |-> NULL,
             p_children |-> <<>>, p_files |-> NoFiles, p_cwd |-> NULL]

\* curproc: core_switch sets it with curthr.
CurProc == IF curthr = NULL THEN idleproc ELSE curthr
ThreadOf(p) == p
p_wait(p) == p

\* A call returns v and changes nothing else.
Return(t, v) ==
    /\ ret' = v
    /\ UNCHANGED <<kthread, tq, tq_size, curthr, kc_queue, core, pc, panic, raced, procVars>>

\* A step of the scheduler leaves the processes as they are.
Kernel(A) == A /\ UNCHANGED procVars

-----------------------------------------------------------------------------
(* Process identifiers *)

PidInUse(pid) == \E p \in ToSet(proc_list) : proc[p].p_pid = pid

\* proc_lookup: the idle process for pid 0, else the first process of the list
\* with that pid, NULL when there is none.
proc_lookup(pid) ==
    LET found == SelectSeq(proc_list, LAMBDA p : proc[p].p_pid = pid)
    IN  IF pid = 0 THEN idleproc
        ELSE IF found = <<>> THEN NULL ELSE Head(found)

\* A fault of NextPid: the wrap to 1 comes one pid late.
NextPid_late(pid) == IF pid = PROC_MAX_COUNT THEN 1 ELSE pid + 1

NextPid(pid) == IF pid + 1 = PROC_MAX_COUNT THEN 1 ELSE pid + 1

\* A fault of ProcGetIdFrom: the list is not scanned again for the next pid.
ProcGetIdFrom_norestart(pid) ==
    IF ~PidInUse(pid) THEN pid
    ELSE IF NextPid(pid) = next_pid THEN -1 ELSE NextPid(pid)

\* _proc_getid from the label restart on, with its local variable pid.
RECURSIVE ProcGetIdFrom(_)
ProcGetIdFrom(pid) ==
    IF ~PidInUse(pid) THEN pid
    ELSE IF NextPid(pid) = next_pid THEN -1 ELSE ProcGetIdFrom(NextPid(pid))

proc_getid == ProcGetIdFrom(next_pid)

\* A fault of NewPid: next_pid is handed out without a look at the list.
NewPid_unchecked == next_pid

\* The pid proc_create gives the new process.
NewPid == proc_getid

-----------------------------------------------------------------------------
(* References to files and vnodes *)

\* The descriptors of a table that refer to file f.
RefsIn(files, f) == Cardinality({fd \in Fds : files[fd] = f})

\* A fault of Inherited: the files of the parent are copied without fref.
Inherited_noref(files, f) == 0

\* proc_create: one fref for every descriptor copied from the parent.
Inherited(files, f) == RefsIn(files, f)

\* fref and fput of the files of a table, vref and vput of a cwd.
FrefAll(files) == [f \in Files |-> f_refcount[f] + Inherited(files, f)]
FputAll(files) == [f \in Files |-> f_refcount[f] - RefsIn(files, f)]
Vref(v) == [w \in Vnodes |-> vn_refcount[w] + IF w = v THEN 1 ELSE 0]
Vput(v) == [w \in Vnodes |-> vn_refcount[w] - IF w = v THEN 1 ELSE 0]

\* get_empty_fd: the lowest free descriptor of the current process, or -EMFILE.
EmptyFds == {fd \in Fds : proc[CurProc].p_files[fd] = NULL}
get_empty_fd == IF EmptyFds = {} THEN -EMFILE ELSE Min(EmptyFds)

-----------------------------------------------------------------------------
(* Creation *)

\* proc_create with slot u of the slab, once _proc_getid has found a pid.
proc_create(u) ==
    LET pid == NewPid
        parent == proc[CurProc]
    IN  /\ proc' = [proc EXCEPT
                      ![u] = [p_pid |-> pid, p_state |-> PROC_RUNNING,
                              p_pproc |-> CurProc, p_children |-> <<>>,
                              p_files |-> parent.p_files, p_cwd |-> parent.p_cwd],
                      ![CurProc].p_children = Append(@, u)]
        /\ f_refcount' = FrefAll(parent.p_files)
        /\ vn_refcount' = Vref(parent.p_cwd)
        /\ proc_list' = Append(proc_list, u)
        /\ next_pid' = NextPid(pid)
        /\ proc_initproc' = IF pid = PID_INIT THEN u ELSE proc_initproc

\* proc_create, kthread_create and sched_make_runnable, as initproc_start,
\* initproc_run and the tests call them; the new thread starts at op.
Spawn(u, op) ==
    /\ proc_getid # -1
    /\ u \in slab_obj_alloc({v \in Procs : proc[v].p_state = PROC_FREE})
    /\ proc_create(u)
    /\ Commit(sched_make_runnable(kthread_create(sched_queue_init(Sch, p_wait(u)),
                                                 ThreadOf(u)), ThreadOf(u)))
    /\ pc' = [pc EXCEPT ![u] = At(op, NULL)]
    /\ UNCHANGED <<curthr, kc_queue, ret, child, kill_iter>>

\* initproc_start, in the context kmain booted in.
InitprocStart ==
    /\ KernelRuns /\ core = "boot"
    /\ \E u \in Procs : Spawn(u, "start")
    /\ core' = "switch"

\* With "initproc_run" among the calls the init process runs what kmain.c
\* has after the tests: a kshell for every terminal, then the loop that waits
\* for every child.  Without it the init process runs the tests, which make
\* the calls every other process makes.
InitProgram(t) == "initproc_run" \in Calls /\ t = proc_initproc

\* The first thing initproc_run does: vfs_init gives the init process its cwd.
InitprocRun(t) ==
    /\ KernelRuns /\ core = "thread" /\ curthr = t
    /\ pc[t].op = "start"
    /\ proc' = [proc EXCEPT ![t].p_cwd = vfs_root]
    /\ vn_refcount' = Vref(vfs_root)
    /\ pc' = [pc EXCEPT ![t] = IF InitProgram(t) THEN At("kshell", NULL) ELSE Run]
    /\ UNCHANGED <<kthread, tq, tq_size, curthr, kc_queue, core, ret, panic, raced, proc_list,
                   next_pid, proc_initproc, child, kill_iter, f_refcount>>

ProcSpawn(t, u) ==
    /\ OnCpu(t)
    /\ Spawn(u, "run")
    /\ UNCHANGED core

\* proc_create returns NULL: there is no pid left, or the pid is taken from
\* next_pid and then the slab has no object left, or it has one and pt_create
\* has no page, and the object goes back to the slab.
CreateFails ==
    \/ proc_getid = -1 /\ UNCHANGED next_pid
    \/ /\ proc_getid # -1
       /\ PageAllocFails \/ \A u \in Procs : proc[u].p_state # PROC_FREE
       /\ next_pid' = NextPid(proc_getid)

ProcSpawnFails(t) ==
    /\ OnCpu(t)
    /\ CreateFails
    /\ ret' = NULL
    /\ UNCHANGED <<kthread, tq, tq_size, curthr, kc_queue, core, pc, panic, raced, proc, proc_list,
                   proc_initproc, child, kill_iter, f_refcount, vn_refcount>>

\* One pass of initproc_run's loop over the terminals.  The kshells made so
\* far are the children of the init process, which has had the core since it
\* started.  The loop does not look at what proc_create returns: with no
\* process left, kthread_create follows a NULL pointer and the kernel stops.
\* Nor does it look at what kthread_create returns: with no page for a stack,
\* sched_make_runnable follows a NULL pointer, the new process already made.
InitprocKshell(t) ==
    /\ KernelRuns /\ core = "thread" /\ curthr = t
    /\ pc[t].op = "kshell"
    /\ \/ /\ Len(proc[t].p_children) < NTERMS
          /\ \E u \in Procs : Spawn(u, "run")
          /\ UNCHANGED core
       \/ /\ Len(proc[t].p_children) < NTERMS
          /\ CreateFails
          /\ panic' = "initproc_run: proc_create"
          /\ UNCHANGED <<kthread, tq, tq_size, curthr, kc_queue, core, pc, ret, raced, proc, proc_list,
                         proc_initproc, child, kill_iter, f_refcount, vn_refcount>>
       \/ /\ Len(proc[t].p_children) < NTERMS
          /\ PageAllocFails /\ proc_getid # -1
          /\ \E u \in slab_obj_alloc({v \in Procs : proc[v].p_state = PROC_FREE}) :
               /\ proc_create(u)
               /\ Commit([sched_queue_init(Sch, p_wait(u))
                             EXCEPT !.panic = "initproc_run: kthread_create"])
          /\ UNCHANGED <<curthr, kc_queue, core, pc, ret, child, kill_iter>>
       \/ /\ Len(proc[t].p_children) >= NTERMS
          /\ pc' = [pc EXCEPT ![t] = Run]
          /\ UNCHANGED <<kthread, tq, tq_size, curthr, kc_queue, core, ret, panic, raced, procVars>>

-----------------------------------------------------------------------------
(* Exit *)

\* A fault of Reparent: the children of the exiting process keep their parent.
Reparent_dropped(P, p) == P

\* proc_cleanup: the children of p become children of the init process.
Reparent(P, p) ==
    [q \in AllProcs |->
        IF q = p THEN [P[q] EXCEPT !.p_children = <<>>]
        ELSE IF Contains(P[p].p_children, q) THEN [P[q] EXCEPT !.p_pproc = proc_initproc]
        ELSE IF q = proc_initproc THEN [P[q] EXCEPT !.p_children = @ \o P[p].p_children]
        ELSE P[q]]

\* A fault of NotifyParent: the parent's wait queue is not woken.
NotifyParent_dropped(S, p) == S

\* proc_cleanup: every thread on the wait queue of the parent of p is woken.
NotifyParent(S, p) ==
    IF proc[p].p_pproc = NULL THEN S ELSE sched_broadcast_on(S, p_wait(proc[p].p_pproc))

\* proc_cleanup up to its test for the init process: the process is DEAD and
\* its descriptors and its cwd are released.
Released(p) == [proc EXCEPT ![p].p_state = PROC_DEAD, ![p].p_files = NoFiles,
                            ![p].p_cwd = NULL]

\* proc_thread_exiting by thread t, from the scheduler state S.  The init
\* process calls initproc_finish, which halts the core with interrupts off.
Exit(t, S) ==
    /\ f_refcount' = FputAll(proc[t].p_files)
    /\ vn_refcount' = Vput(proc[t].p_cwd)
    /\ UNCHANGED <<curthr, kc_queue, ret, proc_list, next_pid, proc_initproc, child>>
    /\ kill_iter' = 0
    /\ \/ /\ proc[t].p_pid = PID_INIT
          /\ proc' = Released(t)
          /\ Commit(S)
          /\ core' = "halt"
          /\ UNCHANGED pc
       \/ /\ proc[t].p_pid # PID_INIT
          /\ proc' = Reparent(Released(t), t)
          /\ Commit(SetState(NotifyParent(S, t), t, KT_EXITED))
          /\ pc' = [pc EXCEPT ![t] = At("exit", NULL)]
          /\ UNCHANGED core

\* proc_cleanup as far as an fput or a vput that sleeps on queue q: the
\* process is DEAD already, its thread is not yet EXITED.
CleanupSleeps(t, S, q) ==
    /\ CleanupBlocks
    /\ proc[t].p_files # NoFiles \/ proc[t].p_cwd # NULL
    /\ proc' = [proc EXCEPT ![t].p_state = PROC_DEAD]
    /\ kill_iter' = 0
    /\ Leave(t, SetState(S, t, KT_SLEEP), "cleanup", q)
    /\ UNCHANGED <<proc_list, next_pid, proc_initproc, child, f_refcount, vn_refcount>>

\* The rest of proc_thread_exiting once the thread is back on the core.
CleanupResume(t) ==
    /\ KernelRuns /\ core = "thread" /\ curthr = t
    /\ pc[t].op = "cleanup" /\ pc[t].switched
    /\ Exit(t, Sch)

\* What the fput or the vput of a proc_cleanup waits for arrives: the handler
\* wakes queue q, and the thread it wakes is inside proc_cleanup.
CleanupWoken(q) ==
    /\ tq[q] # <<>> /\ pc[Last(tq[q])].op = "cleanup"
    /\ Kernel(Irq(q))

\* proc_thread_exiting by the thread t that holds the core.
ProcThreadExiting(t) == Exit(t, Sch) \/ \E q \in IrqQueues : CleanupSleeps(t, Sch, q)

DoExit(t) ==
    /\ OnCpu(t)
    /\ ProcThreadExiting(t)

\* initproc_finish: the core executes cli; hlt for ever.
Halt ==
    /\ core = "halt"
    /\ UNCHANGED vars

\* A kernel that a failed assertion has stopped, or whose queues the model
\* has lost to the race of sched_cancel, takes no further step.
Stopped ==
    /\ panic # NULL \/ raced
    /\ UNCHANGED vars

-----------------------------------------------------------------------------
(* Waiting for children *)

\* The children of p with the given pid, and its dead children, in list order.
ChildrenWithPid(p, pid) == SelectSeq(proc[p].p_children, LAMBDA c : proc[c].p_pid = pid)
DeadChildren(p) == SelectSeq(proc[p].p_children, LAMBDA c : proc[c].p_state = PROC_DEAD)

\* do_waitpid from the end of its loop on, with proc_destroy: child c leaves
\* the lists, its thread and what is left of its references are freed.  The
\* kernel stops in kthread_destroy if the thread of c has not exited.
Reap(t, c) ==
    LET S == kthread_destroy(Sch, ThreadOf(c))
        freed == S.panic = NULL
    IN  /\ Commit(S)
        /\ proc' = [proc EXCEPT ![t].p_children = Remove(@, c),
                                ![c] = IF freed THEN FreeProc ELSE @]
        /\ proc_list' = Remove(proc_list, c)
        /\ f_refcount' = IF freed THEN FputAll(proc[c].p_files) ELSE f_refcount
        /\ vn_refcount' = IF freed THEN Vput(proc[c].p_cwd) ELSE vn_refcount
        /\ ret' = IF freed THEN proc[c].p_pid ELSE ret
        /\ child' = [child EXCEPT ![t] = NULL]
        /\ pc' = [pc EXCEPT ![t] = Run]
        /\ UNCHANGED <<curthr, kc_queue, core, next_pid, proc_initproc, kill_iter>>

\* A fault of StillAlive: the state of the child is tested once, before the
\* sleep, and not again after it.
StillAlive_once(c, woken) == ~woken /\ proc[c].p_state # PROC_DEAD

\* The condition of the loop of do_waitpid(pid > 0).
StillAlive(c, woken) == proc[c].p_state # PROC_DEAD

\* The children do_waitpid can reap now: c is the child it waits for, NULL for any.
Reapable(t, c, woken) ==
    IF c = NULL THEN DeadChildren(t)
    ELSE IF StillAlive(c, woken) THEN <<>> ELSE <<c>>

\* One pass of the loop of do_waitpid: reap, or sleep on the own wait queue.
WaitFor(t, c, woken) ==
    \/ /\ Reapable(t, c, woken) # <<>>
       /\ Reap(t, Head(Reapable(t, c, woken)))
    \/ /\ Reapable(t, c, woken) = <<>>
       /\ Leave(t, SetState(Sch, t, KT_SLEEP), "sleep", p_wait(t))
       /\ child' = [child EXCEPT ![t] = c]
       /\ UNCHANGED <<proc, proc_list, next_pid, proc_initproc, kill_iter, f_refcount,
                      vn_refcount>>

DoWaitpid(t, pid, options) ==
    /\ OnCpu(t)
    /\ \/ /\ options # 0 \/ pid = 0 \/ pid < -1
          /\ Return(t, -ENOTSUP)
       \/ /\ options = 0 /\ pid > 0 /\ ChildrenWithPid(t, pid) = <<>>
          /\ Return(t, -ECHILD)
       \/ /\ options = 0 /\ pid > 0 /\ ChildrenWithPid(t, pid) # <<>>
          /\ WaitFor(t, Head(ChildrenWithPid(t, pid)), FALSE)
       \/ /\ options = 0 /\ pid = -1 /\ proc[t].p_children = <<>>
          /\ Return(t, -ECHILD)
       \/ /\ options = 0 /\ pid = -1 /\ proc[t].p_children # <<>>
          /\ WaitFor(t, NULL, FALSE)

\* The last loop of initproc_run: do_waitpid(-1) until it says that no child
\* is left, and then the return that ends the init process.
InitprocWait(t) ==
    /\ InitProgram(t)
    /\ \/ ret # -ECHILD /\ DoWaitpid(t, -1, 0)
       \/ ret = -ECHILD /\ DoExit(t)

\* sched_sleep_on returned inside do_waitpid: the loop tests its condition again.
WaitpidResume(t) ==
    /\ KernelRuns /\ core = "thread" /\ curthr = t
    /\ pc[t].op = "sleep" /\ pc[t].switched
    /\ WaitFor(t, child[t], TRUE)

-----------------------------------------------------------------------------
(* Killing *)

\* proc_kill(p) by thread t, up to the test of sched_cancel; KthreadCancelWake
\* is the rest of it.
ProcKill(t, p) ==
    /\ Contains(proc_list, p)
    /\ Kernel(KthreadCancel(t, ThreadOf(p)))

\* The processes proc_kill_all spares: the caller and the children of idleproc.
Spared(p) == p = CurProc \/ (proc[p].p_pproc # NULL /\ proc[proc[p].p_pproc].p_pid = PID_IDLE)

\* The positions of proc_list after position i whose process is not spared.
Victims(i) == {j \in i + 1 .. Len(proc_list) : ~Spared(proc_list[j])}

\* proc_kill_all, one turn of its loop: the next process of the list that is
\* not spared is cancelled up to the test of sched_cancel (KthreadCancelLoad
\* and KthreadCancelWake are the rest, with interrupts enabled as in
\* proc_kill); after the last one the caller exits.
ProcKillAll(t) ==
    /\ OnCpu(t)
    /\ IF Victims(kill_iter) = {} THEN ProcThreadExiting(t)
       ELSE /\ KthreadCancel(t, ThreadOf(proc_list[Min(Victims(kill_iter))]))
            /\ kill_iter' = Min(Victims(kill_iter))
            /\ UNCHANGED <<proc, proc_list, next_pid, proc_initproc, child, f_refcount,
                           vn_refcount>>

-----------------------------------------------------------------------------
(* The descriptor table and the working directory *)

\* A call of the current process changes its descriptors to files, the
\* reference counts to refs, and returns v.
SetFiles(t, files, refs, v) ==
    /\ proc' = [proc EXCEPT ![t].p_files = files]
    /\ f_refcount' = refs
    /\ ret' = v
    /\ UNCHANGED <<kthread, tq, tq_size, curthr, kc_queue, core, pc, panic, raced, proc_list,
                   next_pid, proc_initproc, child, kill_iter, vn_refcount>>

\* do_open: flagsOK says whether the access flags are consistent, found whether
\* namev_open found a vnode that can be opened so; fcreate takes a file object
\* that nothing refers to.
DoOpen(t, flagsOK, found) ==
    /\ OnCpu(t)
    /\ \/ ~flagsOK /\ Return(t, -EINVAL)
       \/ flagsOK /\ get_empty_fd < 0 /\ Return(t, get_empty_fd)
       \/ flagsOK /\ get_empty_fd >= 0 /\ ~found /\ Return(t, -ENOENT)
       \/ /\ flagsOK /\ get_empty_fd >= 0 /\ found
          /\ \A f \in Files : f_refcount[f] # 0
          /\ Return(t, -ENOMEM)
       \/ /\ flagsOK /\ get_empty_fd >= 0 /\ found
          /\ \E f \in Files :
               /\ f_refcount[f] = 0
               /\ SetFiles(t, [proc[t].p_files EXCEPT ![get_empty_fd] = f],
                           [f_refcount EXCEPT ![f] = 1], get_empty_fd)

\* The descriptors a call can be given: those of the table and one on either side.
FdArgs == -1 .. NFILES

Open(t, fd) == fd \in Fds /\ proc[t].p_files[fd] # NULL

\* do_close of an open descriptor: the slot is emptied and the file is put.
Closed(files, refs, fd) ==
    [files |-> [files EXCEPT ![fd] = NULL],
     refs  |-> [refs EXCEPT ![files[fd]] = @ - 1]]

DoClose(t, fd) ==
    /\ OnCpu(t)
    /\ \/ ~Open(t, fd) /\ Return(t, -EBADF)
       \/ /\ Open(t, fd)
          /\ LET c == Closed(proc[t].p_files, f_refcount, fd)
             IN  SetFiles(t, c.files, c.refs, 0)

DoDup(t, fd) ==
    /\ OnCpu(t)
    /\ \/ ~Open(t, fd) /\ Return(t, -EBADF)
       \/ Open(t, fd) /\ get_empty_fd < 0 /\ Return(t, get_empty_fd)
       \/ /\ Open(t, fd) /\ get_empty_fd >= 0
          /\ SetFiles(t, [proc[t].p_files EXCEPT ![get_empty_fd] = proc[t].p_files[fd]],
                      [f_refcount EXCEPT ![proc[t].p_files[fd]] = @ + 1], get_empty_fd)

\* do_dup2: what do_close(nfd) leaves if nfd is open.
Dup2Target(files, refs, nfd) ==
    IF files[nfd] = NULL THEN [files |-> files, refs |-> refs] ELSE Closed(files, refs, nfd)

DoDup2(t, ofd, nfd) ==
    /\ OnCpu(t)
    /\ \/ (ofd \notin Fds \/ nfd \notin Fds \/ ~Open(t, ofd)) /\ Return(t, -EBADF)
       \/ Open(t, ofd) /\ nfd = ofd /\ Return(t, nfd)
       \/ /\ Open(t, ofd) /\ nfd \in Fds \ {ofd}
          /\ LET c == Dup2Target(proc[t].p_files, f_refcount, nfd)
                 f == proc[t].p_files[ofd]
             IN  SetFiles(t, [c.files EXCEPT ![nfd] = f], [c.refs EXCEPT ![f] = @ + 1], nfd)

\* do_chdir: found says whether namev_resolve found a vnode, isdir whether it
\* is directory v.  vput of the old cwd needs a vnode.
DoChdir(t, found, isdir, v) ==
    /\ OnCpu(t)
    /\ \/ ~found /\ Return(t, -ENOENT)
       \/ found /\ ~isdir /\ Return(t, -ENOTDIR)
       \/ /\ found /\ isdir
          /\ proc' = [proc EXCEPT ![t].p_cwd = v]
          /\ vn_refcount' = [w \in Vnodes |-> Vput(proc[t].p_cwd)[w] + IF w = v THEN 1 ELSE 0]
          /\ panic' = IF proc[t].p_cwd = NULL THEN "vput: NULL" ELSE panic
          /\ ret' = 0
          /\ UNCHANGED <<kthread, tq, tq_size, curthr, kc_queue, core, pc, raced, proc_list,
                         next_pid, proc_initproc, child, kill_iter, f_refcount>>

-----------------------------------------------------------------------------
(* The kernel *)

\* The state kmain has reached when it calls initproc_start: proc_idleproc_init
\* has run, no process but the idle process exists and no thread.
ProcInit ==
    /\ kthread = [t \in Threads |-> FreeThread]
    /\ tq = [q \in Queues |-> <<>>]
    /\ tq_size = [q \in Queues |-> 0]
    /\ curthr = NULL
    /\ kc_queue = NULL
    /\ core = "boot"
    /\ pc = [t \in Threads |-> Run]
    /\ ret = NULL
    /\ panic = NULL
    /\ raced = FALSE
    /\ proc = [p \in AllProcs |->
                 IF p = idleproc THEN [FreeProc EXCEPT !.p_pid = PID_IDLE,
                                                        !.p_state = PROC_RUNNING]
                 ELSE FreeProc]
    /\ proc_list = <<>>
    /\ next_pid = 1
    /\ proc_initproc = NULL
    /\ child = [p \in Procs |-> NULL]
    /\ kill_iter = 0
    /\ f_refcount = [f \in Files |-> 0]
    /\ vn_refcount = [v \in Vnodes |-> 0]

\* The calls by which a thread that holds the core gives it up.
GiveUp(t) ==
    /\ ~InitProgram(t) /\ kill_iter = 0
    /\ \/ "sched_yield" \in Calls /\ Kernel(SchedYield(t))
       \/ "do_exit" \in Calls /\ DoExit(t)

\* The calls thread t makes, from the code that runs in it.
ProcCall(t) ==
    /\ ~InitProgram(t) /\ kill_iter = 0
    /\ \/ "proc_create" \in Calls /\ (ProcSpawnFails(t) \/ \E u \in Procs : ProcSpawn(t, u))
       \/ "proc_kill" \in Calls /\ \E p \in Procs : ProcKill(t, p)
       \/ "proc_kill_all" \in Calls /\ ProcKillAll(t)
       \/ "do_waitpid" \in Calls /\ \E pid \in -2 .. PROC_MAX_COUNT - 1, options \in {0, 1} :
                                        DoWaitpid(t, pid, options)
       \/ "do_open" \in Calls /\ \E flagsOK, found \in BOOLEAN : DoOpen(t, flagsOK, found)
       \/ "do_close" \in Calls /\ \E fd \in FdArgs : DoClose(t, fd)
       \/ "do_dup" \in Calls /\ \E fd \in FdArgs : DoDup(t, fd)
       \/ "do_dup2" \in Calls /\ \E ofd, nfd \in FdArgs : DoDup2(t, ofd, nfd)
       \/ "do_chdir" \in Calls /\ \E found, isdir \in BOOLEAN, v \in Vnodes : DoChdir(t, found, isdir, v)
       \/ "sched_cancellable_sleep_on" \in Calls /\ \E q \in CancellableQueues :
                                        Kernel(SchedCancellableSleepOn(t, q))
       \/ GiveUp(t)

\* A step of thread t: a call, or the rest of the call it is in.
ProcStep(t) ==
    \/ InitprocRun(t)
    \/ InitprocKshell(t)
    \/ InitprocWait(t)
    \/ ProcCall(t)
    \/ kill_iter > 0 /\ ProcKillAll(t)
    \/ WaitpidResume(t)
    \/ CleanupResume(t)
    \/ Kernel(KthreadCancelLoad(t))
    \/ Kernel(KthreadCancelWake(t))
    \/ Kernel(SchedSwitch(t))
    \/ pc[t].op # "sleep" /\ Kernel(SchedReturn(t))

ProcNext ==
    \/ InitprocStart
    \/ \E t \in Threads : ProcStep(t)
    \/ Kernel(CoreSwitch)
    \/ Kernel(CoreIdle)
    \/ \E q \in IrqQueues : Kernel(Irq(q))
    \/ Halt
    \/ Stopped

\* The core always gets to run core_switch, a thread inside a call finishes
\* it, and a thread that holds the core reaches a call that gives it up.
\* The disk or the terminal that a proc_cleanup waits for answers in the end:
\* its interrupt stays raised while sched_switch keeps interrupts off
\* (intr_disable at proc.c:906) and is taken once they are on again, so it is
\* delivered if it can be taken again and again, which is strong fairness.
\* Nothing is assumed of any other interrupt.
ProcFairness ==
    /\ WF_vars(InitprocStart)
    /\ \A q \in IrqQueues : SF_vars(CleanupWoken(q))
    /\ WF_vars(Kernel(CoreSwitch))
    /\ WF_vars(Kernel(CoreIdle))
    /\ \A t \in Threads :
         /\ WF_vars(InitprocRun(t))
         /\ WF_vars(InitprocKshell(t))
         /\ WF_vars(InitprocWait(t))
         /\ WF_vars(Kernel(SchedSwitch(t)))
         /\ WF_vars(pc[t].op # "sleep" /\ Kernel(SchedReturn(t)))
         /\ WF_vars(WaitpidResume(t))
         /\ WF_vars(CleanupResume(t))
         /\ WF_vars(kill_iter > 0 /\ ProcKillAll(t))
         /\ WF_vars(Kernel(KthreadCancelLoad(t)))
         /\ WF_vars(Kernel(KthreadCancelWake(t)))
         /\ WF_vars(GiveUp(t))

ProcSpec == ProcInit /\ [][ProcNext]_vars /\ ProcFairness


-----------------------------------------------------------------------------
(* Properties *)

ProcTypeOK ==
    /\ proc \in [AllProcs -> [p_pid : Pids \cup {PID_IDLE, NULL},
                              p_state : {PROC_FREE, PROC_RUNNING, PROC_DEAD},
                              p_pproc : AllProcs \cup {NULL},
                              p_children : BoundedSeq(Procs, Cardinality(Procs)),
                              p_files : [Fds -> Files \cup {NULL}],
                              p_cwd : Vnodes \cup {NULL}]]
    /\ proc_list \in BoundedSeq(Procs, Cardinality(Procs))
    /\ next_pid \in Pids
    /\ proc_initproc \in Procs \cup {NULL}
    /\ child \in [Procs -> Procs \cup {NULL}]
    /\ kill_iter \in 0 .. Cardinality(Procs)
    /\ f_refcount \in [Files -> 0 .. NFILES * Cardinality(Procs)]
    /\ vn_refcount \in [Vnodes -> 0 .. Cardinality(Procs)]
    /\ ret \in ({NULL, -EINTR, -EBADF, -ECHILD, -ENOMEM, -ENOTDIR, -EINVAL,
                            -EMFILE, -ENOENT, -ENOTSUP} \cup 0 .. PROC_MAX_COUNT + NFILES)

Allocated(p) == proc[p].p_state # PROC_FREE

\* kthread_destroy asserts that the thread it frees has exited (kthread.c
\* 129), and do_waitpid, which calls it through proc_destroy, is to reap
\* children that have finished: the assertion never fails.
ReapedThreadsHaveExited == panic # "kthread_destroy: state"

\* The kernel stops in one place only (proc_cleanup, between PROC_DEAD at line
\* 279 and KT_EXITED at line 343): whatever processes create, kill, wait for
\* and wake, and whenever interrupts arrive, the only assertion that fails is
\* that of kthread_destroy, and only on the thread of a child that do_waitpid
\* found DEAD while it slept in the fput or vput of its proc_cleanup.  In
\* particular do_waitpid never takes a child that is still RUNNING, however
\* often it is woken for another.
StopsOnlyInCleanup ==
    panic # NULL =>
        /\ panic = "kthread_destroy: state"
        /\ \E c \in Procs : /\ pc[c].op = "cleanup"
                            /\ proc[c].p_state = PROC_DEAD
                            /\ ~Contains(proc_list, c)

\* The pids of _proc_getid's range that no process of the list has, in the
\* order in which a search from next_pid meets them.
FreePidsFrom(pid) ==
    SelectSeq([i \in 1 .. PROC_MAX_COUNT - 1 |-> ((pid - 1 + i - 1) % (PROC_MAX_COUNT - 1)) + 1],
              LAMBDA n : ~PidInUse(n))

\* _proc_getid returns the first pid at or after next_pid, wrapping from
\* PROC_MAX_COUNT - 1 to 1, that no process of the list has, and -1 exactly
\* when every pid is taken.
ProcGetIdFirstFree ==
    proc_getid = IF FreePidsFrom(next_pid) = <<>> THEN -1 ELSE Head(FreePidsFrom(next_pid))

\* A pid names one process (proc_create, across exits and the reuse of pids):
\* proc_lookup finds every process of the list by its pid, and what it finds
\* for PID_INIT is the init process.
PidsUnique ==
    /\ \A p \in ToSet(proc_list) : proc_lookup(proc[p].p_pid) = p
    /\ proc_initproc # NULL => proc_lookup(PID_INIT) = proc_initproc

\* The process tree is sound (proc_create, the reparenting of proc_cleanup,
\* the reaping of do_waitpid): every process of the list has a parent that
\* still exists and is once on that parent's list of children, every entry of
\* a list of children points back to its parent, and a process whose thread
\* has exited has handed its children over.  (A process is DEAD from line 279
\* on and keeps its children while its proc_cleanup sleeps.)
ProcTreeConsistent ==
    panic = NULL =>
    /\ \A p \in Procs : Allocated(p) <=> Contains(proc_list, p)
    /\ \A p \in ToSet(proc_list) :
         /\ proc[p].p_pproc \in AllProcs /\ Allocated(proc[p].p_pproc)
         /\ Len(SelectSeq(proc[proc[p].p_pproc].p_children, LAMBDA c : c = p)) = 1
         /\ kthread[ThreadOf(p)].kt_state = KT_EXITED => proc[p].p_children = <<>>
    /\ \A p \in AllProcs : \A c \in ToSet(proc[p].p_children) :
         Allocated(c) /\ proc[c].p_pproc = p

\* Reference counts are exact (fref in proc_create and do_dup, fput in
\* do_close, proc_cleanup and proc_destroy, vref and vput of the cwd): the
\* count of a file is the number of descriptors of all processes that refer
\* to it, the count of a vnode the number of processes it is the cwd of.
RefcountsMatch ==
    panic = NULL =>
    /\ \A f \in Files :
         f_refcount[f] = FoldSet(LAMBDA p, n : n + RefsIn(proc[p].p_files, f), 0, Procs)
    /\ \A v \in Vnodes :
         vn_refcount[v] = Cardinality({p \in Procs : proc[p].p_cwd = v})

\* A process in do_waitpid.
Waiting(p) == pc[p].op = "sleep"

\* do_waitpid returns once the child it waits for has exited (the broadcast
\* of proc_cleanup on the parent's wait queue, the loop of do_waitpid): a
\* process that waits for one child, or a process other than the init process
\* that waits for any, does not wait for ever beside a dead child, unless the
\* init process exits first and initproc_finish halts the core.
WaitReturns ==
    \A p \in Procs :
        (/\ Waiting(p)
         /\ IF child[p] # NULL THEN proc[child[p]].p_state = PROC_DEAD
            ELSE p # proc_initproc /\ DeadChildren(p) # <<>>)
            ~> (~Waiting(p) \/ core = "halt" \/ panic # NULL)

\* "The init process should wait on all of its children to finish before
\* returning from this function (at which point the system will shut down)":
\* when the init process runs initproc_run's last loop and every other
\* process has exited, it reaps every one of them, its own children and those
\* proc_cleanup handed over to it, and the core halts.  The init process is
\* not woken for a child handed over dead, and still the last process to exit
\* wakes it.
InitShutsDown ==
    (/\ proc_initproc # NULL
     /\ pc[proc_initproc].op \notin {"start", "kshell"}
     /\ \A p \in Procs \ {proc_initproc} : proc[p].p_state # PROC_RUNNING)
        ~> ((core = "halt" /\ proc_list = <<proc_initproc>>) \/ panic # NULL)

\* do_waitpid(-1) "cleans up any child process of curproc that exits": no
\* process sleeps in it while one of its children is dead.
NoSleepBesideDeadChild ==
    \A p \in Procs :
        (Waiting(p) /\ child[p] = NULL /\ kthread[p].kt_state = KT_SLEEP
            /\ Contains(tq[p_wait(p)], p))
        => DeadChildren(p) = <<>>

=============================================================================
