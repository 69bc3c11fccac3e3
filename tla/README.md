# TLA+ models of the Weenix kernel core

This directory holds a model-checking development for the kernel in this
repository: TLA+ modules translated from the C sources under `src/`, the TLC
configurations that check them, and `PROJECT.json`, which records for every
definition the source lines it models, for every run what it checks, and the
hazards of the code with the properties that watch them.

All modules are checked with TLC (`tlc -workers 2 -config X.cfg M`).

## 1. The system

Weenix is a single-core, cooperatively scheduled teaching kernel. The sources
in this repository are the parts a student implements:

| Part | Source | State | Operations |
|---|---|---|---|
| Scheduler | `kernel/proc/proc.c` 687-1085 | run queue `kt_runq`, wait queues, `curthr`, `curcore.kc_queue`, per thread `kt_state`, `kt_wchan`, `kt_cancelled` | `sched_yield`, `sched_sleep_on`, `sched_cancellable_sleep_on`, `sched_switch`, `sched_make_runnable`, `sched_wakeup_on`, `sched_broadcast_on`, `sched_cancel`, `core_switch` |
| Kernel threads | `kernel/proc/kthread.c` | the thread objects of the slab | `kthread_create`, `kthread_cancel`, `kthread_exit`, `kthread_destroy`, `kthread_clone` (unimplemented) |
| Process supervisor | `kernel/proc/proc.c` 1-558 | `proc_list`, `next_pid`, `proc_initproc`, per process `p_pid`, `p_state`, `p_pproc`, `p_children`, `p_wait`, `p_files`, `p_cwd` | `_proc_getid`, `proc_create`, `proc_cleanup`, `proc_thread_exiting`, `proc_kill`, `proc_kill_all`, `proc_destroy`, `do_waitpid`, `do_exit` |
| Boot | `kernel/main/kmain.c` | - | `initproc_start`, `initproc_run`, `initproc_finish` |
| File system calls | `kernel/fs/open.c` | the descriptor table `p_files`, `p_cwd`, file objects (`f_vnode`, `f_mode`, `f_pos`, `f_refcount`), vnodes (`vn_refcount`, `vn_len`, the vnode mutex) | `do_open`, `do_close`, `do_dup`, `do_dup2`, `do_chdir`, `do_read`, `do_write`, `do_getdent`, `do_lseek`, `do_stat`, `do_mknod`, `do_mkdir`, `do_rmdir`, `do_unlink`, `do_link`, `do_rename`; `do_mount` and `do_umount` return `-EINVAL` |
| Terminal line discipline | `kernel/drivers/tty/ldisc.c` | circular buffer with `head`, `tail`, `cooked`, `full`; the read queue | `ldisc_init`, `ldisc_wait_read`, `ldisc_read`, `ldisc_key_pressed` (interrupt context), `ldisc_get_current_line_raw` |
| Address space | `kernel/vm/vmmap.c` | list of areas (`vma_start`, `vma_end`, `vma_off`, `vma_prot`, `vma_flags`, `vma_obj`) | `vmmap_create`, `vmmap_destroy`, `vmmap_insert`, `vmmap_find_range`, `vmmap_lookup`, `vmmap_map`, `vmmap_remove`, `vmmap_is_range_empty`, `vmmap_clone`, `vmmap_collapse`, `vmmap_read`, `vmmap_write` |
| brk, mmap | `kernel/vm/brk.c`, `kernel/vm/mmap.c` | `p_brk`, `p_start_brk`, the areas | `do_brk`, `do_mmap`, `do_munmap` |
| Shadow and anonymous objects | `kernel/vm/shadow.c`, `unnamed/part_002` | chains of memory objects (`shadowed`, `bottom_mobj`), their page frames, reference counts and mutexes | `shadow_create`, `shadow_get_pframe`, `shadow_fill_pframe`, `shadow_collapse`, `shadow_destructor`, `anon_create`, `anon_fill_pframe` |
| Fork | `unnamed/part_001` | the address spaces and page tables of parent and child | `do_fork` |
| User memory access | `kernel/api/access.c` | - | `addr_perm`, `range_perm`, `copy_from_user`, `copy_to_user`, `user_strdup`, `user_vecdup`, `handle_pagefault` |
| Block devices | `unnamed/part_003` | list of registered devices | register, lookup, fill and flush of a page |
| Tests, build files | `kernel/test/proctest.c`, `Global.mk`, `preinit.gdb`, `unnamed/part_000` | - | - |

### How the parts interact

* Every process has one thread. A thread gives up the core only in
  `sched_yield`, `sched_sleep_on`, `sched_cancellable_sleep_on` and when it
  exits; all of them end in `sched_switch`, which hands over to `core_switch`
  on the core's own stack. `core_switch` puts the outgoing thread on the queue
  it named and takes the next thread from the run queue.
* Interrupt handlers run whenever interrupts are enabled, that is between any
  two statements of a thread outside `sched_switch`, and while the core idles.
  The keyboard handler `ldisc_key_pressed` calls `sched_wakeup_on`.
* `proc_create` copies the descriptors and the working directory of the
  current process and takes a reference on each. `proc_cleanup` (on exit)
  releases them, reparents the children to the init process and broadcasts on
  the parent's wait queue; `do_waitpid` sleeps on that queue and finally calls
  `proc_destroy`, which calls `kthread_destroy`.
* `proc_kill` and `proc_kill_all` cancel threads through `kthread_cancel` and
  `sched_cancel`; a cancelled thread notices in `sched_cancellable_sleep_on`.
* When the init process exits, `initproc_finish` halts the core.
* A thread that reads a terminal calls `ldisc_wait_read`, which sleeps
  cancellably on the read queue of the line discipline until
  `ldisc_key_pressed`, in the keyboard interrupt, has cooked a line and woken
  the queue; then it calls `ldisc_read`.
* `do_mmap`, `do_munmap` and `do_brk` change the list of areas of the current
  process through `vmmap_map`, `vmmap_remove` and `vmmap_insert`; each area
  holds a reference on a memory object. `proc_destroy` calls `vmmap_destroy`.
  `copy_from_user` and `copy_to_user` ask `range_perm` and then walk the same
  list page by page in `vmmap_read` and `vmmap_write`.
* `do_fork` copies the list of areas with `vmmap_clone`, puts a shadow object
  from `shadow_create` on the private areas of the child and unmaps the
  private pages of the parent, so that the next access of either process
  faults. `handle_pagefault` looks the area up, asks the object for a page
  frame with `mobj_get_pframe` and maps it (as it is meant: the call as it
  is written passes no place for the frame, see Fork below); for a shadow
  object that is
  `shadow_get_pframe`, which walks the chain of shadowed objects for a read
  and has `shadow_fill_pframe` copy the page into the object for a write.
  `vmmap_collapse` calls `shadow_collapse` on every area.
* The file calls of `open.c` work on file objects reached through the
  descriptor table and on vnodes reached through path resolution. They take
  the vnode mutex around every vnode operation; `do_link` and `do_rename`
  take two with `vlock_in_order`. A vnode operation may sleep (the terminal
  waits for a line, the disk for a block) and sleeps with the mutex held;
  that is when other threads run and block at the mutex. File objects are
  shared between processes after `do_fork`, their position included.

### What is hard about it

There is one core and no preemption, so the hard behaviours are of five kinds:
interrupts that run between two statements of a scheduler call or of a
terminal read; calls that block half way (a file call at a vnode mutex or
asleep in a device, holding locks and references, while other threads make
calls on the same vnodes and file objects); sequences of calls by several processes (create, fork, exit,
wait, kill in every order, with pids and slab objects reused; page faults
and writes of parents and children on chains of shadow objects) and by one process
on its address space (map, unmap, move the break in every order and at every
address); things that must eventually happen (a waiting parent returns, a
runnable thread runs, a cancelled sleeper wakes, a reader gets its line); and
numeric edges (the wrap of `next_pid`, the lowest free descriptor, the
indices of the circular buffer, page boundaries and `size_t` arithmetic in
the address space). The
`hazards` of `PROJECT.json` list each of them at its line.

### What each part has to guarantee

* Scheduler: no `KASSERT` fails; a thread is on at most one queue, the
  queue matches its state and `tq_size` counts its threads; only `curthr` is
  `ON_CPU`; an uninterruptible
  sleeper is woken only by a wakeup of its queue; a cancelled thread is not
  left asleep; the run queue and every wait queue are first in, first out,
  and nothing but a cancellation of a cancellable sleep takes a thread out
  of turn.
* Supervisor: live processes have distinct pids and `_proc_getid` finds the
  first free one; the parent pointers and child lists form one tree rooted at
  the idle process; `do_waitpid` destroys only processes whose thread has
  exited and returns when a child has died; once every other process has
  exited, the init process reaps them all and the kernel halts.
* Descriptors: the reference count of a file is the number of descriptors
  that name it, the count of a directory the number of processes it is the
  working directory of.
* Line discipline: readers get the cooked characters in the order they were
  typed, a read stops at a newline, and nothing is lost or invented through
  wrap-around and a full buffer; a reader with input is not left asleep.
* Address space: the areas are disjoint, sorted by start and inside user
  memory; an area holds one reference on its object; `vmmap_find_range`
  returns a free range; `vmmap_remove` unmaps its range and nothing else; the
  heap is mapped up to the break; the permission check covers exactly its
  range, and a copy writes its range from the front and reports success
  only for all of it.
* Fork and shadow objects: the chain of a shadow object ends in its
  `bottom_mobj`, which is never a shadow object; nothing in use is freed,
  whatever the order in which parents and children exit; pages of shared
  areas stay shared; a write to a private page is seen by no other process;
  bringing a page in changes what nobody reads; an access the area permits
  ends no process and stops no kernel.
* File calls: every path of every call gives back the references and the
  locks it took; threads that hold one mutex and wait for another never wait
  in a circle; a write to a file opened for appending lands at the end of the
  file; no position is negative.

## 2. Modules

| Module | Models | Lines of source mapped |
|---|---|---|
| `FifoSched` | what the scheduler promises: a running thread, a ready line and a line per wait queue | (abstract specification) |
| `Sched` | scheduler and kernel threads; implements `FifoSched` | `proc.c` 731-1085, `kthread.c` 67-155 |
| `MCSched` | constants for the runs of `Sched` | - |
| `Proc` | process supervisor, boot of the init process, descriptor table; extends `Sched` | `proc.c` 65-558, `kmain.c` 158-164, 245-313, `open.c` 22-148, 309-410, 921-953 |
| `MCProc` | constants and symmetry sets for the runs of `Proc` | - |
| `LineBuffer` | what a terminal promises: two sequences, the cooked characters and the raw line; `Spec` is the contract of the comments of `ldisc.c`, `OrderedSpec` the part of it the code keeps | (abstract specification) |
| `Ldisc` | the circular buffer of the line discipline; implements `OrderedSpec` of `LineBuffer` | `ldisc.c` 17-32, 77-108, 156-237 |
| `MCLdisc` | constants for the runs of `Ldisc` | - |
| `TtyRead` | a reading thread against the keyboard interrupt; extends `Sched` and `Ldisc` | `ldisc.c` 45-60, 77-108, 156-206 |
| `MCTtyRead` | constants for the run of `TtyRead` | - |
| `Vmmap` | the address space, `brk`, `mmap`, `munmap`, the permission checks and the user copies | `vmmap.c` 35-162, 179-301, 362-638, `mmap.c` 55-212, `brk.c` 54-170, `access.c` 14-109, 117-172, `unnamed/part_002` 42-56 |
| `MCVmmap` | constants for the runs of `Vmmap` | - |
| `Shadow` | memory objects: shadow chains, page frames, reference counts, mutexes | `shadow.c` 63-99, 120-159, 186-228, 251-292, 316-334, `unnamed/part_002` 62-90 |
| `Fork` | `do_fork`, `vmmap_clone`, `vmmap_collapse`, `handle_pagefault`, the writes of processes and of the kernel; extends `Shadow` | `unnamed/part_001` 58-129, `vmmap.c` 289-356, `access.c` 41-49, 220-285, `proc.c` 425-433, `kthread.c` 129-130 |
| `MCFork` | constants for the runs of `Fork` | - |
| `Vfs` | the file calls over file objects, vnodes and the vnode mutex | `open.c` 22-33, 68-148, 175-329, 429-907, 969-1105 |
| `MCVfs` | constants and the symmetry set for the runs of `Vfs` | - |

### Sched

Variables: `kthread[t]` (the fields `kt_state`, `kt_wchan`, `kt_cancelled`),
`tq[q]` (each queue as a sequence, head first: `ktqueue_enqueue` adds at the
head, `ktqueue_dequeue` takes from the tail), `tq_size[q]` (the count
`sched_queue_empty` looks at, kept apart from the list because the code
keeps it apart), `curthr`, `kc_queue`, `panic`
(the first assertion that failed, or `NULL`), `raced` (no field of the
kernel: a `ktqueue_remove` has named a queue the thread was not on, see
below), and three variables that stand
for control state the C program keeps on its stacks:

* `core`: whose code the core executes: `"boot"`, a `"thread"`, `core_switch`
  (`"switch"`), the idle loop inside `core_switch` (`"idle"`), or `"halt"`;
* `pc[t]`: the scheduler call thread `t` is inside, the argument of that call
  and whether `sched_switch` has already switched away;
* `ret`: the value the last call that returns one returned.

The C functions that run with no interrupt between their statements are
operators from a scheduler state (a record of `kthread`, `tq`, `tq_size`, `panic` and `raced`) to
a scheduler state, with the names of the functions: `ktqueue_enqueue`,
`sched_make_runnable`, `sched_broadcast_on` (recursive) and so on. A failing
`KASSERT` is `Kassert(S, cond, what, T)`: the state keeps its value and
`panic` names the assertion. Actions are the steps of threads, of the core and
of interrupt handlers:

| Action | Code |
|---|---|
| `SchedYield`, `SchedSleepOn`, `SchedCancellableSleepOn` | the call up to `sched_switch`: the state is set, interrupts are still on |
| `SchedSwitch` | `sched_switch` up to `context_switch` |
| `CoreSwitch`, `CoreIdle` | one pass of the loop of `core_switch`; the return of `intr_wait` |
| `SchedReturn` | the rest of `sched_switch` and the return value of the sleep |
| `SchedWakeupOn`, `SchedBroadcastOn`, `KthreadSpawn` | the whole call (see below) |
| `KthreadCancel`, `KthreadCancelLoad`, `KthreadCancelWake` | `kthread_cancel` in the three steps of `sched_cancel`: the mark and the test of `kt_state`; the `KASSERT` and the read of `thr->kt_wchan`; `ktqueue_remove` from the queue that was read and `sched_make_runnable` |
| `Irq` | the wakeup in `ldisc_key_pressed`, taken whenever a thread or the idle loop has the core: between any two actions of a thread but inside `sched_switch` |
| `KernelLost` | the model after a `ktqueue_remove` that an interrupt overtook: it follows the kernel no further |

The grain of atomicity follows the code: steps are split exactly where an
interrupt handler that touches scheduler state can run in between.
`sched_cancel` runs with interrupts enabled throughout, so an interrupt may
be taken after its test of `kt_state` and again after its read of
`thr->kt_wchan`, before the list operations of `ktqueue_remove`. In the
second case the thread has moved to the run queue when it is removed:
`list_remove` unlinks it from the list it is on and `tq_size` of the queue
that was read is decremented. From there on the counts of two queues are
wrong, and what the kernel does next (a sleeper never woken, a dequeue from
a list without a thread) is an accident of the list code. The model sets
`raced` at that `ktqueue_remove` and stops (`KernelLost`). The run
`sched_cancel_race` shows the state that is reached; the properties of the
passing runs are stated of every behaviour up to that point, with every
interrupt taken that can be taken.

`SchedWakeupOn` and `SchedBroadcastOn` are one step although a thread
calls them with interrupts on. Between `ktqueue_dequeue` and
`sched_make_runnable` the woken thread is on no list and in no variable but
a local one of the caller; a handler that runs there wakes its own queue
(`ldisc.c` 196) and enqueues on the run queue under `IPL_HIGH`. The threads
of this code base wake only queues no handler touches (`p_wait` at
`proc.c` 319, the queue of `proctest.c`), and the read queue of the line
discipline is woken by the handler alone: for those calls a handler in
between changes nothing the call reads, and the state it leaves is the one
of the handler running just before the call. The model also lets a thread
wake a queue that interrupts wake, which no caller does, and takes that
call as one step too.

`FifoSched` is the scheduler as its callers see it. Its variables are
`running`, `ready` (a sequence, the thread that waited longest first),
`waiting[q]` (likewise) and `light`, the threads whose sleep a cancellation
may end. Its actions are `Spawn`, `Wakeup`, `Broadcast`, `Cancel` and
`Switch`, in which the running thread joins the line it chose and the head
of the ready line gets the core in the same step. `Sched` implements it
under the mapping

| `FifoSched` | `Sched` |
|---|---|
| `running` | `curthr` |
| `ready` | `tq[kt_runq]` reversed (the code enqueues at the head) |
| `waiting[q]` | `tq[q]` reversed |
| `light` | the threads other than `curthr` that are inside `sched_cancellable_sleep_on` |

A thread that has set its state and called `sched_switch` is still `running`
in the abstract scheduler: the steps of a call before `core_switch` deposits
the thread are stuttering steps, and one pass of `core_switch` is the
abstract `Switch`. The abstract `Cancel` may move a thread that already
stands in the ready line to its end: that is the race of `sched_cancel`
with the interrupt, and the refinement fails without it. The refinement is
checked of `Sched`; the calls of `Proc` do several scheduler operations in
one step (`do_exit` broadcasts and switches, `proc_create` initialises a
queue and makes a thread runnable), which are several steps of `FifoSched`.

### Proc

`Proc` extends `Sched`: process slot `p` of the slab has thread `p` and wait
queue `p`, so the processes run on the modelled scheduler and every scheduler
action appears in `ProcNext` (wrapped by `Kernel`, which leaves the process
state unchanged). Variables: `proc[p]` (the fields of the table above, with
`p_state = "FREE"` for an object in the slab), `proc_list`, `next_pid`,
`proc_initproc`, `child[p]` (the local variable `child` of `do_waitpid` across
its sleep), `kill_iter` (the position of the loop of `proc_kill_all` in
`proc_list`, 0 outside the loop), `f_refcount`, `vn_refcount`.

| Action | Code |
|---|---|
| `InitprocStart`, `InitprocRun` | `initproc_start`; `vfs_init` giving the init process its cwd |
| `InitprocKshell` | one pass of the loop of `initproc_run` over the terminals: `proc_create`, `kthread_create`, `sched_make_runnable`, none of the results tested: a `NULL` from either stops the kernel |
| `InitprocWait` | the last loop of `initproc_run`: `do_waitpid(-1)` until it returns `-ECHILD`, then the return that exits the init process |
| `ProcSpawn`, `ProcSpawnFails` | `proc_create` + `kthread_create` + `sched_make_runnable`; `proc_create` returning `NULL` for want of a pid, of a slab object or of a page for the page table (`CreateFails`) |
| `DoExit` | `do_exit` → `kthread_exit` → `proc_thread_exiting` with `proc_cleanup` (`Exit`) |
| `CleanupSleeps`, `CleanupResume` | `proc_cleanup` as far as an `fput` or a `vput` that sleeps: the process is `PROC_DEAD`, its thread asleep; the rest of `proc_thread_exiting` once an interrupt has woken it (`CleanupWoken` is that interrupt, named for the fairness condition) |
| `DoWaitpid`, `WaitpidResume` | `do_waitpid` up to its sleep or its return; the loop after the sleep |
| `ProcKill` | `proc_kill` up to the test of `sched_cancel`; `KthreadCancelLoad` and `KthreadCancelWake` of `Sched` are the rest |
| `ProcKillAll` | one turn of the loop of `proc_kill_all`: the next process of `proc_list` that is not spared (`Victims`) is cancelled like `proc_kill` does, in the same steps; after the last one, `do_exit` |
| `DoOpen`, `DoClose`, `DoDup`, `DoDup2`, `DoChdir` | the calls on the descriptor table and the cwd |
| `Halt` | the `cli; hlt` loop of `initproc_finish` |
| `Stopped` | the kernel after a failed assertion, and the model after the race of `sched_cancel` |

The constant `Calls` names the kernel calls the threads of a configuration
make; a run leaves calls out to keep its state space small, and between them
the runs make every call. With `"initproc_run"` in `Calls` the init process
runs the program `initproc_run` has after its tests (a kshell on each of
`NTERMS` terminals, then the wait loop) and makes no other call; without it
the init process makes the calls of `Calls` like every other process, as it
does while `initproc_run` runs the tests. `InitprocWait` reads `ret`, the
result of the last call: between the return of the init process's
`do_waitpid` and its next step no other thread runs, so it is the init
process's own result.

The constant operator `slab_obj_alloc(S)` gives the free objects the slab may
hand out when those of `S` are free. The safety runs take any
(`AnyObject`) and reduce by symmetry; the liveness run, where symmetry is
unsound, takes one fixed object for each set (`OneObject`). The slots are
interchangeable, so the behaviours left out differ from one kept only in
which slot holds which process.

Abstractions, all of data: names, exit status and `kt_retval`, page tables and
address spaces are left out; a path lookup is a choice between "not found",
"not a directory" and a directory; a file object is a model value with a
reference count. `vfs_init`, `fput`, `vput`, `fref`, `vref`, `fcreate` and
`namev_*` are not in `src/`; they are modelled by their effect on the counts.
`proc_kill` is never called on the current process (its `KASSERT`), which is a
guard of `ProcKill`; it cancels in the steps of `Sched`, and so does each
turn of the loop of `proc_kill_all`: interrupts are enabled all through the
loop, so a handler may wake a victim before its `sched_cancel`, inside it,
or between the cancels of two victims. No other thread runs meanwhile (the
caller holds the core), so `proc_list` is the same in every turn and the
loop's position is an index into it. `proc_create` initialises the wait
queue of the new process (`sched_queue_init`). Memory runs out in two ways:
the process slots are all in use, or, where the constant `PageAllocFails`
is `TRUE`, `pt_create` (in `proc_create`) or `alloc_stack` (in
`kthread_create`) finds no page. `proc_create` then has taken a pid and
advanced `next_pid`, and gives its object back to the slab. At boot
(`initproc_start`) a failure of either is a failed `KASSERT`; the model
boots with memory. `proc_cleanup` marks the process `PROC_DEAD` first and
releases its files and its cwd next, and the comment above
`proc_thread_exiting` warns that it may block. `fput` and `vput` are not in
`src/`: a process that holds a file or a directory may sleep inside them,
on a queue an interrupt handler wakes, and the rest of
`proc_thread_exiting` (`Exit`) runs when it has the core again. The
constant `CleanupBlocks` turns the sleep off; every run has it `TRUE`,
and the only configuration without it is `MCProcLive4.cfg` (see Larger
instances).

### LineBuffer and Ldisc

`LineBuffer` is the abstract specification of a terminal: `cooked` and `raw`
are two sequences, `Key` edits the raw line or cooks it, and a read takes
cooked characters from the front. It has two next-state relations. In
`Spec` a read is `Read(count)`, the contract the comments of `ldisc.c`
state: at most `count` characters, no further than the first newline or
end of transmission (`ldisc.c` 66-67), and nothing but what is returned
leaves the buffer. In `OrderedSpec` a read is `Take(count)`: the reader
gets some of the first cooked characters, in order, and the buffer may
drop cooked characters behind them. `Ldisc` does not implement `Spec`: the
test that would stop a read at a newline is commented out (`ldisc.c`
89-91), and `ldisc_read` ends by clearing `ldisc_full` whatever it copied
(106), which empties a full buffer that was read in part or not at all.
It implements `OrderedSpec`. `Ldisc` is the circular buffer of `ldisc.c`: the
variable `ldisc` is the `ldisc_t` (`ldisc_head`, `ldisc_tail`,
`ldisc_cooked`, `ldisc_full`, `ldisc_buffer`), and `event` records what the
last operation handed to its caller (the bytes of a read, whether the key
woke the read queue). `ldisc_key_pressed`, `ldisc_read` (with its copy loop
`ReadLoop`) and `ldisc_get_current_line_raw` are operators on the record;
the actions `LdiscKeyPressed` and `LdiscRead` apply them. The refinement
mapping takes `cooked` to the characters from `ldisc_tail` to `ldisc_cooked`
and `raw` to those from `ldisc_cooked` to `ldisc_head`. What is echoed to the
virtual terminal is left out.

### TtyRead

`TtyRead` extends `Sched` and `Ldisc` and puts them together: a thread enters
the read operation (`TtyReadBegin`), runs the loop of `ldisc_wait_read`
(`LdiscWaitRead`: the test of the buffer and the call of
`sched_cancellable_sleep_on`; `LdiscWaitReadWoken`: its return) and then
`ldisc_read` (`TtyLdiscRead`); `KeyIrq` is `ldisc_key_pressed` with its
`sched_wakeup_on`, taken also between the steps of a `sched_cancel` of the
reader. The caller of these functions, the read operation of the
terminal driver, is not in `src/`. It is taken to admit one thread at a time
and to mask the keyboard interrupt while that thread holds the core
(`KeyboardMasked`); the interrupt is delivered whenever another thread or the
idle loop runs.

### Vmmap

Variables: `vmm_list` (the list of areas, head first, each a record of the
fields of `vmarea_t`, in pages), `mo_refcount[o]`, `p_brk`, `p_start_brk`,
`vm_panic` (the first `KASSERT` that failed), `vm_stale` (`do_brk` has
written to an area after `vmarea_free`; what that does to the kernel is
undefined, and no call is followed after it) and `vm_ret`. The functions of `vmmap.c`, `mmap.c`,
`brk.c` and `access.c` are operators with the names of the functions. Those
that change the map take and return a record of `list`, `ref` and `panic`;
`vmmap_read` and `vmmap_write` return the pieces they copied, each with its
object, page number, offset in the page and byte count, their status, and
whether the kernel stopped inside them. Arithmetic on
`size_t` is taken modulo `WORD` (`Wrap`, `Signed`).

| Action | Code |
|---|---|
| `VmmapMap` | `vmmap_map` called with `VMMAP_DIR_LOHI`, as the program loader does |
| `DoMmap` | `do_mmap`: its checks, `vmmap_map` with `VMMAP_DIR_HILO`, the return address |
| `DoMunmap` | `do_munmap`: its checks and `vmmap_remove` |
| `DoBrk` | `do_brk`: the first call, growing and shrinking the heap |
| `VmmapDestroy` | `vmmap_destroy` in `proc_destroy`, followed by the next process starting with an empty map |
| `VmPanicked` | the kernel after a failed `KASSERT` or a write to a freed area: nothing happens any more |

`mobj_ref`, `mobj_put` and the list macros are not in `src/`; they are
modelled by their effect on the reference count and on the sequence. An
anonymous object is one of a small set of model values, free when its count
is 0. Page contents are not modelled here: a copy is described by the object
pages and bytes it touches.

`mobj_get_pframe` is not in `src/` either; its signature is that of the
call in `shadow.c` 282, `long mobj_get_pframe(obj, pagenum, forwrite,
&pf)`. `vmmap_read`, `vmmap_write` and `handle_pagefault` call it as
`pframe_t *pf = mobj_get_pframe(obj, pagenum, forwrite, 0)`: they pass a
null pointer where the frame is to be stored and keep the status as the
frame. What such a caller holds afterwards is one of four outcomes, and
the constant `GetPframeYields` says which of them a configuration takes:

| Outcome | What happened | What the caller does |
|---|---|---|
| `"zero"` | the call did its work, stored nothing and returned 0 | `!pf`: the copy returns `-EFAULT` (`vmmap.c` 564-566, 622-624), the fault ends the process (`access.c` 263-266) |
| `"fault"` | the call stored through the null pointer, or returned a negative status that the caller used as a frame | the kernel stops |
| `"frame"` | the call as its callers mean it: the caller holds the frame | the copy goes on, the page is mapped |
| `"error"` | the call as its callers mean it, failing | as for `"zero"`, with nothing done |

The code as written has the first two. The runs take all four, so that the
loops are also checked as they are meant to run; the configurations
`MCVmmapCopy.cfg` and `MCForkFault.cfg` take the first two only. In
`CopyLoop` the outcome is chosen for each page of the range.

`user_strdup` and `user_vecdup` are operators on the list of areas as well.
A kernel string is what the properties tell apart of it: `NULL`, `"copy"`
(allocated and filled), `"freed"` or `"freed twice"`; `Kfree` moves it along.
A vector is a record of its user address, its length and the user strings it
points to, an `argstr_t` takes `SIZEOF_ARGSTR` bytes, and whether `kmalloc`
has memory for the vector and for each string is an argument the properties
range over. `VecdupPass` is one pass of the first loop of `user_vecdup`.

### Shadow and Fork

`Shadow` has the variables `mobj[o]` (a slot of the slab of anonymous or of
shadow objects: `mo_type`, `mo_refcount`, `mo_mutex`, the page frames
`mo_pframes` with their bytes, and for a shadow object `shadowed` and
`bottom_mobj`) and `panic`. The functions of `shadow.c` are operators on a
record of the two: `shadow_create`, `shadow_get_pframe` (the walk down the
chain is `ChainFind`), `shadow_fill_pframe`, `shadow_collapse` and
`shadow_destructor`, which `mobj_put` reaches with the last reference. The
object layer they stand on (`mobj_ref`, `mobj_put`, `mobj_lock`,
`mobj_unlock`, `mobj_find_pframe`, `mobj_default_get_pframe`) is outside
`src/` and is modelled from its specification; locking a mutex the thread
holds and unlocking a freed object are faults recorded in `panic`.

`Fork` extends `Shadow` with `p_vmmap[p]` (the areas of a process, `NULL`
for a free slot), `p_pml4[p]` (page number to page frame and write
permission) and `fk_ret`.

| Action | Code |
|---|---|
| `DoFork` | `do_fork`: `proc_create`, `kthread_clone`, `vmmap_clone`, a shadow object for every private area of the child, the second reference it takes, `pt_unmap_range` of the parent's private pages, and every error path with what it frees and the `kthread_destroy` it calls |
| `PageFault` | a fault and `handle_pagefault`: the lookup, the permission check against the cause, `mobj_get_pframe` with each of its outcomes, the mapping with write permission from the area; a fault that leaves the handler without a frame ends the process, also when the object has brought the page in |
| `UserWrite` | a store of user code to a page mapped for writing |
| `CopyToUser` | `copy_to_user` of one byte: `vmmap_write` asks for its frame with `forwrite = 0` and writes to it, or returns `-EFAULT` without a frame, or stops the kernel |
| `VmmapCollapse` | `vmmap_collapse`: lock, `shadow_collapse`, unlock for every area |
| `DoExit` | `do_exit` followed by the reaping of the process: `vmmap_destroy` puts the object of every area |
| `Stopped` | the kernel after a fault, or with no process left |

`View(p, vfn)` is what process `p` reads at a page: the bytes of the frame
its page table maps, or of the frame a read fault would map. The properties
about copy-on-write are stated on `Views`.

The source leaves `kthread_clone` unimplemented (it returns `NULL`), so in
the build every `do_fork` returns `-ENOMEM`. With `KthreadClones = TRUE` the
model also takes the path its comment and the specification describe;
that adds behaviours to those of the build and removes none. What is
stated of a process after a fork (the properties of the run `fork` about
parents and children, and every further configuration that starts with a
`do_fork`) is therefore stated of the program with a `kthread_clone` that
clones, not of the build. The same goes for the outcomes `"frame"` and
`"error"` of `mobj_get_pframe` (see Vmmap).
Allocation failures are inputs of `DoFork` (`FailPoints`). Registers,
stacks and the child entering the run queue are left out; exit and reaping
are one step because nothing of the address space changes between them.

`do_fork` calls `pt_unmap_range` with the start of each private area of the
parent and, as third argument, the length of the area
(`unnamed/part_001` 118-120). `pt_unmap_range` is outside `src/` and the
specification gives only its name; the page-table code Weenix ships takes
an end address. `UnmapPrivate` passes on what the code passes, and the
constant `PtUnmapTakesLength` says how `pt_unmap_range` reads it. The runs
take it for a length, which is the call its author wrote; read as an end
address the range is empty for every area that starts above its own
length, as every area does but one at the bottom of user memory that is
longer than the memory below it, and the parent keeps its pages mapped
(`MCForkUnmap.cfg`). The six properties
of the run `fork` hold, and `WritesArePrivate` fails, under both readings.

### Vfs

Variables: `vn[v]` (`vn_refcount`, `vn_len`, and the vnode mutex as its
holder `vn_mutex` and its queue `vn_waitq`), `file[f]` (`f_vnode`, `f_mode`,
`f_pos`, `f_refcount`), `p_files[t]`, `ret`, and `frame[t]`: the call thread
`t` is inside, or `NULL`. A frame stands for the C stack of a blocked call:
the locks it still wants and those it holds, the vnode references and the
file object it has to give back, the position it handed to the vnode
operation, and whether it is blocked at a mutex, was handed the mutex and can
run, or sleeps in an operation.

Every call is an operator from the state to the state, named as in the code,
that makes its checks in the order of the code and either returns (no
frame) or sets up its frame. `Enter` then runs the call on: it takes the
locks (`Acquire`), runs the code between the lock and the vnode operation
(`BeforeOp`), and either sleeps in the operation or runs the rest
(`AfterOp`) to the return. So a call that never blocks is one step, as it is
in a kernel without preemption, and one that blocks is cut exactly where it
blocks.

| Action | Code |
|---|---|
| `DoOpen` | `do_open`: flag checks, `get_empty_fd`, `namev_open`, the checks on the vnode, `fcreate`, truncation under the lock |
| `DoClose` | `do_close` |
| `DoRead`, `DoWrite`, `DoGetdent` | the call up to its return or to the point where it blocks: `fget`, mode and type checks, the lock, the position (for `O_APPEND` the length read under the lock), the operation, the update of `f_pos` and `vn_len`, unlock, `fput` |
| `DoLseek` | `do_lseek`; `SEEK_END` reads `vn_len` under the lock |
| `DoStat`, `DoMknod` | `do_stat`, `do_mknod` |
| `DoMkdir`, `DoRmdir`, `DoUnlink` | the checks on the name, the lock of the directory, the lookup under the lock, the operation |
| `DoLink`, `DoRename` | resolution of both paths, `vlock_in_order`, the operation, `vunlock_in_order` |
| `Resume` | a thread that was handed the mutex it waited for runs on |
| `OpReturns` | the vnode operation a thread sleeps in returns; the call runs to its return |

Path resolution (`namev_*`), the vnode operations, `fget`, `fput`,
`fcreate`, `vref`, `vput` and the mutex are outside `src/` and are modelled
from the specification. What a path resolves to, whether an operation
sleeps, the bytes a device transfers and the status an operation returns
are inputs of the call, chosen from `Inputs(call)`; names are one of the
kinds the checks tell apart (a name, one too long, an empty one, `.`,
`..`), and the contents of directories are not kept. A regular file is its
length: a read returns the bytes between the position and `vn_len`, a write
past `MaxLen` returns `-ENOSPC`. The mutex is handed to the longest waiter
on unlock. An operation whose presence the code tests is taken to be there,
except `write`, which directories lack. `VfsInit` gives every process the
same file object at descriptor 0, as `do_fork` leaves parent and child.

`Proc` keeps its own small model of `do_open`, `do_close`, `do_dup`,
`do_dup2` and `do_chdir`, in which they only move references, because there
they are interleaved with process creation and exit.

## 3. Runs

| Run | Module / cfg | Size | Checks |
|---|---|---|---|
| `sched` | `MCSched` / `MCSched.cfg` | 3 threads, 2 wait queues, one of them woken by interrupts and slept on cancellably, interrupts at every point of `sched_cancel`; about 116,000 states | `SchedTypeOK`, `NoPanic`, `ConsistentButForCancelRace`, `NoCancelledSleeper`, `ImplementsFifoSched`, `RunnableEventuallyRuns`, `CancelledSleeperReturns` |
| `sched_cancel_race` | `MCSched` / `MCSchedRemove.cfg` | the same | `QueueStateConsistent`, which TLC finds violated |
| `proc_kernel` | `MCProc` / `MCProc.cfg` | 3 process slots, 3 pids, terminal queue, all calls but the descriptor calls, `sched_yield` among them, a `proc_cleanup` that may sleep, `proc_create` also failing for want of a page; about 908,000 states up to symmetry | `ProcTypeOK`, `StopsOnlyInCleanup`, `ProcGetIdFirstFree`, `PidsUnique`, `ProcTreeConsistent` |
| `proc_files` | `MCProc` / `MCProcFiles.cfg` | 2 process slots, 3 pids, 2 descriptors, 2 files, 2 directories, the descriptor calls, `sched_yield`, a `proc_cleanup` that may sleep; about 1,388,000 states up to symmetry | `RefcountsMatch` |
| `proc_wait` | `MCProc` / `MCProcLive.cfg` | 3 process slots, 4 pids, the init process running `initproc_run` with one terminal, the others create, wait, exit, yield, a `proc_cleanup` that may sleep; about 1,800 states | `WaitReturns`, `InitShutsDown` |
| `ldisc_buffer` | `MCLdisc` / `MCLdisc.cfg` | buffer of 4 characters, 2 letters, reads of 0 to 5 bytes; about 13,400 states | `LdiscTypeOK`, `RawLineIsRaw`, `KeepsTypedOrder` |
| `tty_read` | `MCTtyRead` / `MCTtyRead.cfg` | 2 threads, the read queue, buffer of 2 characters, 1 letter, reads of 1 or 2 bytes; about 46,000 states | `NoSleepBesideInput`, `ReaderGetsLine` |
| `vm_areas` | `MCVmmap` / `MCVmmap.cfg` | 5 user pages of 2 bytes, 3 areas, mappings of up to 2 pages placed from the bottom, `do_munmap`, `vmmap_destroy`, the four outcomes of `mobj_get_pframe`; about 5,500 states, in each of which the operators are evaluated for every argument | `VmTypeOK`, `AreasSortedDisjoint`, `MobjRefsMatch`, `FindRangeLowest`, `RangePermChecksEveryPage`, `CopyMovesTheRange` |
| `vm_brk` | `MCVmmap` / `MCVmmapBrk.cfg` | the same memory, `do_brk` to 8 addresses, `do_mmap` with 17 argument records, `vmmap_destroy`; about 2,100 states, the calls after a write to a freed area not followed | `BreakIsBacked` |
| `fork` | `MCFork` / `MCFork.cfg` | 3 process slots, 2 anonymous and 2 shadow objects, 6 areas, a private page, a shared page and a page without memory, pages of one byte, every allocation of `do_fork` failing, the four outcomes of `mobj_get_pframe`; about 172,000 states | `ForkTypeOK`, `ShadowChainsWellFormed`, `NoDanglingReferences`, `SharedMemoryIsShared`, `ExclusiveWritesArePrivate`, `FirstTouchIsInvisible` |
| `vfs_files` | `MCVfs` / `MCVfs.cfg` | 3 threads that share one file object opened for appending on the regular file; a directory, the regular file and the terminal; 1 descriptor each, 1 file object, a file of up to 2 bytes; `do_open`, `do_close`, `do_read`, `do_write`, `do_getdent`, `do_lseek`; about 49,000 states up to symmetry | `VfsTypeOK`, `ReferencesBalanced`, `LocksAreHeldByCalls`, `AppendsNeverOverwrite` |
| `vfs_names` | `MCVfs` / `MCVfsNames.cfg` | 3 threads, 2 directories and a regular file; `do_stat`, `do_mknod`, `do_mkdir`, `do_rmdir`, `do_unlink`, `do_link`, `do_rename`, with a rename that sleeps in the disk; about 23,000 states up to symmetry | `ReferencesBalanced`, `LocksAreHeldByCalls`, `NoWaitCycle` |

### What the runs show

* **Finding, run `sched_cancel_race`: `sched_cancel` corrupts two queues
  when an interrupt overtakes it.** `sched_cancel` tests `kt_state` and
  reads `thr->kt_wchan` with interrupts on (`proc.c` 859-863). If the
  keyboard interrupt wakes the sleeper after the read, `ktqueue_remove`
  unlinks the thread from the run queue, where it now is, and decrements
  `tq_size` of the wait queue that was read (`proc.c` 789-791): the wait
  queue counts -1 and the run queue 2 with one thread on it
  (`QueueStateConsistent`, violated in a behaviour of ten states). The next
  `sched_wakeup_on` of the wait queue finds it not empty and takes a thread
  from a list without one; with a second sleeper on the wait queue its
  count is 0 and that sleeper is never woken. The comments of `sched.c` ask
  that queues are changed with interrupts masked; `sched_cancel` masks
  nothing.
* **Up to that race, threads are never lost or duplicated on queues**
  (`ConsistentButForCancelRace`, `NoPanic`, `NoCancelledSleeper`): in every
  behaviour in which no interrupt wakes a thread between the read of its
  `kt_wchan` and its `ktqueue_remove`, with interrupts at every other
  point, `tq_size` is the length of the list, a thread is on the queue its
  state names, and no assertion fails. That includes the window in which a
  thread has set its state to sleeping and `core_switch` has not yet
  enqueued it, and an interrupt that wakes the sleeper between the test of
  `kt_state` and the read: the thread is by then on the run queue with
  `kt_wchan` pointing there, and is moved to the back of the run queue.
* **`sched.c` implements a first-in-first-out scheduler**
  (`ImplementsFifoSched`): every step of every call, interrupt and pass of
  `core_switch` is a step of `FifoSched` or changes nothing a caller sees.
  Threads get the core in the order they became runnable, sleepers are woken
  in the order they slept, a killed thread in an uninterruptible sleep keeps
  its place, and the only thread ever moved out of turn is a cancellable
  sleeper that is cancelled - which, when the interrupt has just woken it,
  costs it its place in the run queue.
* **The run queue is fair and cancellation is not lost**
  (`RunnableEventuallyRuns`, `CancelledSleeperReturns`), in every behaviour
  the race above does not end.
* **Pids**: `_proc_getid` returns the first free pid in cyclic order from
  `next_pid` and `-1` exactly when all are taken (`ProcGetIdFirstFree`, stated
  against an independent definition); no two live processes share a pid
  through any sequence of exits, reaps and failed creations (`PidsUnique`).
* **The process tree** stays sound through reparenting to the init process,
  `proc_kill_all` and reaping (`ProcTreeConsistent`).
* **The supervisor stops the kernel in one place** (`StopsOnlyInCleanup`).
  `proc_cleanup` marks the process `PROC_DEAD` (`proc.c` 279) before the
  `fput` and `vput` that may sleep, and the thread is `KT_EXITED` only at
  line 343. A parent that runs while the child sleeps in between finds a
  dead child, and `proc_destroy` hands a sleeping thread to
  `kthread_destroy`, whose assertion fails (`ReapedThreadsHaveExited`,
  violated under `MCProcCleanup.cfg`). The run `proc_kernel` reaches that
  state and shows that it is the only way the supervisor stops: no other
  assertion fails, whatever is created, killed, waited for and woken, and
  `do_waitpid` never takes a child that is still running, however often it
  is woken for another.
* **Reference counts** of files and directories are exact
  (`RefcountsMatch`); in particular releasing them both in `proc_cleanup` and
  in `proc_destroy` does not put anything twice, also when `proc_cleanup`
  sleeps before it has released them and other processes run, open, close
  and exit meanwhile (the run has `sched_yield`, so a parent does run while
  its child sleeps there).
* **A waiting parent returns** once its own child is dead (`WaitReturns`),
  unless the init process exits first and halts the core, or the kernel
  has stopped in `kthread_destroy` as described above.
* **The kernel shuts down** (`InitShutsDown`): once the init process is in
  its wait loop and every other process has exited, the init process reaps
  every one of them, its `do_waitpid` returns `-ECHILD`, it exits and the
  core halts with the init process alone in the list, unless the kernel
  has stopped in `kthread_destroy` before. This holds although
  the next item's scenario occurs in this run: a dead child adopted while
  the init process sleeps is not announced, but the kshell it started is a
  child of its own, and the exit of a process's own child is always
  announced; when the wakeup comes, the loop of `do_waitpid` finds the
  adopted ones too. With reparenting left out TLC shows the init process
  returning `-ECHILD` with processes left in the list.
* **`initproc_run` does not survive a failed `proc_create`**
  (`MCProcKshell.cfg`, `NoPanic` violated): with three terminals and three
  process slots the third `proc_create` returns `NULL`, which
  `kthread_create` dereferences.
* **Dead children that are adopted are not announced** (`MCProcZombie.cfg`,
  property `NoSleepBesideDeadChild`, violated). `proc_cleanup` reparents the children of the
  exiting process to the init process but broadcasts only on the wait queue
  of the exiting process's own parent (`proc.c` 305-320). With four processes
  (init, a child Q, Q's child P, P's child C): C exits, then P exits without
  reaping C; C, already dead, becomes a child of the init process, which is
  asleep in `do_waitpid(-1)` and is not woken. It sleeps beside a dead child
  until a child of its own exits; if Q never exits, for ever. The
  specification of `waitpid` says the caller sleeps "until any child is
  DEAD". In configurations of three processes the property holds, because
  the exiting process's parent is then the init process itself.
* **Readers get what was typed, in order** (`KeepsTypedOrder`): through
  wrap-around, a full buffer, backspace at the start of the raw line,
  ctrl-c and the place kept for the end of a line, every key does to the
  cooked and the raw characters what the abstract terminal does, and every
  read, of any count from 0, hands out the first cooked characters in
  order and leaves in the buffer a suffix of what was there. Nothing is
  invented, repeated or reordered. The two `memcpy` calls of
  `ldisc_get_current_line_raw` copy the raw line when it wraps
  (`RawLineIsRaw`).
* **The line discipline does not keep the contract its comments state**
  (`MCLdiscContract.cfg`, property `ImplementsLineBuffer`, violated). The
  comment of `ldisc_read` says a read stops at a newline; the test is
  commented out (`ldisc.c` 89-91), and a read of two bytes from a buffer
  that holds two empty lines returns both newlines
  (`MCLdiscNewline.cfg`, property `ReadStopsAtNewline`, shows the same in
  isolation).
* **A read of no bytes empties a full buffer** (`MCLdiscZeroRead.cfg`,
  property `ReadTakesWhatItReturns`, violated). `ldisc_read` clears `ldisc_full` on
  every path past its first test (`ldisc.c` 106). Called with a count of 0 on
  a full buffer it copies nothing and clears the flag; tail, cooked and head
  are equal, so the buffer reads as empty and its characters are lost.
* **No wake-up is lost between the test and the sleep of `ldisc_wait_read`**
  as long as the caller masks the keyboard interrupt while the reader runs
  (`NoSleepBesideInput`), and a reader with input leaves the read operation
  with the bytes or with `-EINTR`, also when it is cancelled while a key
  wakes the queue (`ReaderGetsLine`). Without the mask the first
  property fails, which is how the assumption was found to be needed.
* **With mappings placed from the bottom, the list of areas stays sorted and
  disjoint** through maps, unmaps that shorten or free areas, and the exit of
  the process (`AreasSortedDisjoint`); `vmmap_find_range` from the bottom is
  first fit (`FindRangeLowest`, against a set-based definition); every area
  holds exactly one reference on its object, also on the failure paths of
  `vmmap_map` (`MobjRefsMatch`).
* **`range_perm` agrees with a byte-by-byte reading** for ranges that
  start and end anywhere in a page and cross areas
  (`RangePermChecksEveryPage`), for lengths that do not wrap the address.
* **A copy writes its range from the front** (`CopyMovesTheRange`):
  whatever `mobj_get_pframe` leaves `vmmap_write` with at each page,
  `copy_to_user` touches nothing without write permission on the whole
  range, every piece it writes is marked dirty, the bytes written are the
  first bytes of the range in order, and it returns success only when it
  has written them all. A copy that fails at a later page has written the
  pages before it.
* **As written, no copy reaches user memory** (`MCVmmapCopy.cfg`, property
  `CopyReachesTheUser`, violated). With the outcomes the call of
  `vmmap.c` 621 has as it is written, `copy_to_user` on a writable range
  returns `-EFAULT` or stops the kernel.
* **The heap is mapped up to the break** after every sequence of `do_brk`
  calls that `do_brk` accepts (`BreakIsBacked`), with mappings of `do_mmap`
  placed from the top in between.
* **`do_mmap` maps over an area** (`MCVmmapMmap.cfg`, property
  `AreasSortedDisjoint`, violated). Searching from the top,
  `vmmap_find_range` returns `USER_MEM_HIGH - npages` whenever the first area
  starts above that page (`vmmap.c` 211-213), a range the first area lies
  in: after a mapping of one page, a mapping of two pages is put over it.
  The next test (216-219) does not compare its result with `USER_MEM_LOW`,
  so `do_mmap` in a process with a heap fails the `KASSERT` of
  `vmmap_insert`, and the scan (223-235) returns the lowest gap, not the
  highest.
* **`vmmap_remove` keeps the wrong end** (`MCVmmapUnmap.cfg`, property
  `RemoveUnmapsRange`, violated). For an area that starts inside the range and
  ends above it, `vmmap_remove` sets `vma_start = lopage` and
  `vma_end = hipage` (`vmmap.c` 479-481): the area now covers the pages that
  were to go, and the pages that were to stay are unmapped.
* **Chains of shadow objects are well formed** (`ShadowChainsWellFormed`):
  after forks of parents and of children the chain of every shadow object
  ends in its `bottom_mobj`, an anonymous object, which is what lets
  `shadow_fill_pframe` go to the bottom when no shadow object has the page.
* **Nothing in use is freed** (`NoDanglingReferences`) when parents and
  children exit in any order, on the error paths of `do_fork` and after
  `vmmap_collapse`: every area names a live object and every mapped page a
  frame its object still caches.
* **Shared pages stay shared, and a process that has not forked writes in
  private** (`SharedMemoryIsShared`, `ExclusiveWritesArePrivate`): the frame
  `handle_pagefault` maps for writing is one of the process's own shadow
  object, so a child's writes never reach its parent or its siblings.
* **Bringing a page in is invisible** (`FirstTouchIsInvisible`): the frame
  mapped at the first touch of a page, and the copy `shadow_fill_pframe`
  makes for a first write, hold the bytes the process would have read.
* **As written, every page fault ends the process or the kernel**
  (`MCForkFault.cfg`, property `FaultsAreResolved`, violated).
  `handle_pagefault` passes 0 where `mobj_get_pframe` stores the frame and
  takes the status for the frame (`access.c` 262): when the call succeeds
  `pf` is null and the handler calls `do_exit(EFAULT)` (263-266). The
  specification ends a process only when the area is missing, the
  permission does not match or the frame cannot be had.
* **A parent's writes reach its child** (`MCForkCow.cfg`, property
  `WritesArePrivate`, violated, in a program whose `kthread_clone` clones
  and whose `mobj_get_pframe` hands over the frame). `do_fork` gives the
  private areas of the child a shadow object and leaves the areas of the
  parent on the object they had (`unnamed/part_001` 88-102), which is now
  the object the child's chain ends in. After `pt_unmap_range` a write of
  the parent faults, `handle_pagefault` gets the frame of that object and
  maps it for writing: the parent writes into the page the child reads.
  The specification has `do_fork` put a fresh shadow object in front of
  the object in the areas of both. The build does not get that far: its
  `kthread_clone` returns `NULL` (`kthread.c` 112-116) and `do_fork`
  returns `-ENOMEM` before line 88. `ExclusiveWritesArePrivate` is the part
  of the property the code keeps.
* **Every path of every file call gives back what it took**
  (`ReferencesBalanced`, `LocksAreHeldByCalls`): through each early return
  of the thirteen calls, through calls that block at a mutex with references
  in hand and are resumed by a hand-off, and through `do_close` of a
  descriptor while another process sleeps in a read of the same file
  object, `vn_refcount` and `f_refcount` are the number of their holders, a
  thread that is in no call holds no mutex, and an operation never sleeps
  without its lock. The failure of `fcreate` in `do_open` and the failed
  lookup in `do_mkdir` are among the paths.
* **Renames do not deadlock** (`NoWaitCycle`): with one rename asleep in the
  disk holding both directories and two more in opposite directions behind
  it, the hand-off of the mutexes never lets each hold what the other wants,
  because `vlock_in_order` orders them by inode number.
* **Appends do not overwrite** (`AppendsNeverOverwrite`): `do_write` reads
  `vn_len` for `O_APPEND` after it has the lock, so a writer that waited
  behind another appends after what the other wrote.
* **No position is negative** (`VfsTypeOK`): `do_lseek` tests the new
  position before it stores it, for every `whence` and for offsets below
  zero.

### Further configurations

These configurations state properties that TLC finds violated. They
reproduce what the hazards of `PROJECT.json` describe, and are kept beside
the runs, which hold one violation. Most are described above
(`MCProcZombie.cfg`, `MCProcCleanup.cfg`, `MCProcKshell.cfg`,
`MCLdiscContract.cfg`, `MCLdiscZeroRead.cfg`, `MCVmmapMmap.cfg`,
`MCVmmapUnmap.cfg`, `MCVmmapCopy.cfg`, `MCForkFault.cfg`,
`MCForkCow.cfg`). The configurations of `Fork` other than
`MCForkFault.cfg` start from a `do_fork` that succeeds and from page
faults that are resolved, that is from a `kthread_clone` that clones and a
`mobj_get_pframe` that hands over the frame (`KthreadClones = TRUE`,
`GetPframeYields = {"frame", "error"}`): they say what `do_fork`,
`handle_pagefault` and the shadow objects do once the two calls below them
work, not what the build does today.

| cfg | Property | What TLC shows |
|---|---|---|
| `MCTtyReadCancel.cfg` | `QueueStateConsistent` | the race of the run `sched_cancel_race` with the keyboard as the interrupt: a key cooks a line and wakes the reader between the read of its `kt_wchan` and `ktqueue_remove` (`proc.c` 862) |
| `MCLdiscContract.cfg` | `ImplementsLineBuffer` | described above: a read crosses a newline |
| `MCLdiscNewline.cfg` | `ReadStopsAtNewline` | `ldisc_read` stops at `ldisc_cooked` and at an end of transmission, not at a newline: with two cooked lines in the buffer one read returns both, against the comment of the function |
| `MCVmmapSplit.cfg` | `AreasSortedDisjoint` | the split of `vmmap_remove` links the high part before the low part (`vmmap.c` 469): the list is no longer sorted |
| `MCVmmapSplitRefs.cfg` | `MobjRefsMatch` | the split gives the high part the object of the area without `mobj_ref` (460): two areas, one reference |
| `MCVmmapBrkStale.cfg` | `NoStaleArea` | `do_brk` back to the start of the heap removes the whole area and then sets `vma_end` of the area it looked up before (`brk.c` 160) |
| `MCVmmapRangeWrap.cfg` | `RangePermChecksEveryPage` | `range_perm` adds `len` to the address unguarded (`access.c` 153): a length that wraps gives an end below the start and the loop checks nothing |
| `MCVmmapStrdup.cfg` | `StrdupDuplicates` | `user_strdup` takes the byte count `copy_from_user` hands on from `vmmap_read` for an error (`access.c` 63) and frees every copy |
| `MCVmmapVecdup.cfg` | `VecdupFreesOnce` | `user_strdup` frees the string it could not fill and leaves the pointer in the vector (`access.c` 66); the loop with which `user_vecdup` cleans up frees every pointer that is not `NULL` (103): the same memory is freed twice. The result of the `copy_from_user` that fetches an `argstr_t` (95) is not looked at |
| `MCProcKshell.cfg` | `NoPanic` | described above |
| `MCProcCleanup.cfg` | `ReapedThreadsHaveExited` | a parent that yields: the child sleeps inside `proc_cleanup`, `PROC_DEAD` already; the parent's `do_waitpid` finds it and `kthread_destroy` stops the kernel on a thread that has not exited (13 states) |
| `MCProcNoPage.cfg` | `NoPanic` | `PageAllocFails = TRUE` and one terminal: `proc_create` returns `NULL` when `pt_create` has no page, and `kthread_create` when `alloc_stack` has none; the loop of `initproc_run` (`kmain.c` 251-253) passes either on, to `kthread_create` or to `sched_make_runnable` |
| `MCVmmapCopy.cfg` | `CopyReachesTheUser` | described above: `GetPframeYields = {"zero", "fault"}` |
| `MCForkFault.cfg` | `FaultsAreResolved` | described above: `KthreadClones = FALSE`, `GetPframeYields = {"zero", "fault"}`; the first fault of the first process on a page it may read ends the process |
| `MCForkCow.cfg` | `WritesArePrivate` | described above |
| `MCForkUnmap.cfg` | `ForkUnmapsParent` | `PtUnmapTakesLength = FALSE`: a process reads or writes its private page and forks; `pt_unmap_range` is given the page number 2 as the start and the length 1 as the end, clears nothing, and the parent returns from `do_fork` with the page still mapped, for writing if it was. With the argument read as a length the property holds |
| `MCForkRefs.cfg` | `RefsMatchHolders` | `do_fork` takes a second reference to every shadow object it makes (`unnamed/part_001` 100) and `vmarea_free` puts one: shadow objects and the chains below them are never freed. In the run `fork` this shows as `do_fork` failing in `shadow_create` once two shadow objects were made |
| `MCForkCopy.cfg` | `KernelWritesArePrivate` | `vmmap_write` asks for its frame with `forwrite = 0` (`vmmap.c` 621): for a private page of a child `shadow_get_pframe` answers with the frame of an ancestor, and what the kernel copies for the child lands in the page its parent reads |
| `MCForkStale.cfg` | `FaultsAreInvisible` | a child of a child reads a page and maps the frame of the bottom object; its parent then writes, into a frame of the parent's shadow object, which lies in the child's chain; the child's write fault has `shadow_fill_pframe` copy the nearest frame of the chain as it is now, and the page the child had read changes under it |
| `MCForkCopies.cfg` | `ForkCopiesMemory` | four process slots and three shadow objects: a child of a child has read a page and holds the frame of the bottom object; its parent writes, into its own shadow object; the child then forks, `pt_unmap_range` (`unnamed/part_001` 118) drops the page from its page table, and at its next access it reads what its parent wrote. With the two shadow objects of the run `fork` no process in that state can fork, and the property holds there |
| `MCVfsSeek.cfg` | `ReadsAreContiguous` | `do_read` adds its result to `f_pos` as it is when the terminal's read operation returns (`open.c` 214); `do_lseek` of a process that shares the file object moves `f_pos` without the vnode lock while the reader sleeps, and the reader advances the new position |

### Bounds

* Three threads are the least that show a third party in every scheduler
  race: a sleeper, a canceller or waker, and a thread that competes for the
  run queue. Two wait queues let a thread be woken on one queue while another
  sleeps on the other.
* Three process slots give parent, child and grandchild, which is what
  reparenting needs; `PROC_MAX_COUNT = 4` gives three pids, so the pid space
  is exhausted and reused while all slots are in use. In `proc_files` there
  are more pids than slots, so `proc_create` also fails with a pid in hand.
* `proc_wait` has three slots: the init process, its kshell and a child of
  the kshell. That is enough for a child to die before and after its parent
  waits, for a process to sleep inside `proc_cleanup` while its parent runs,
  and for the init process to adopt a child of the kshell. With strong
  fairness of the interrupt a fourth slot takes the run from seconds to
  a quarter of an hour; `MCProcLive4.cfg` has the fourth slot, and with it a
  grandchild of the kshell, with a `proc_cleanup` that does not sleep
  (see Larger instances). `MCProcZombie.cfg` has four slots, which is what
  it takes for a dead process to be adopted while the init process sleeps.
  `NTERMS = 1` gives the init process one child of its own;
  `MCProcKshell.cfg` has as many terminals as slots.
* `NFILES = 2` with two file objects reaches a full table (`EMFILE`), no free
  file object (`ENOMEM`), two descriptors on one file and `do_dup2` onto an
  open descriptor.
* `LDISC_BUFFER_SIZE = 4` with reads of 0 to 5 bytes: the indices wrap after
  two short lines, a line of three letters fills the buffer, a read asks
  for more than the buffer holds, and a read of less than a full buffer
  holds, or of nothing, empties it. Two letters make a character out of order
  visible. In `tty_read` the buffer has 2 characters and there are 2 threads:
  one reads, the other yields, cancels and is what the core runs while the
  reader sleeps.
* `PAGE_SIZE = 2` is the least with a byte inside a page; user memory is pages
  2 to 6, so there is an address below user memory and a page count larger
  than the lowest page number. `WORD = 64` is the modulus of `size_t`: every
  address of memory is below it and `-1` is 63. `VMAREAS = 3` areas and three
  anonymous objects exhaust the slab and the objects while gaps are left
  below, between and above areas.
* `vm_areas` maps at most two pages at a time: an unmap inside an area of
  three pages reaches the split of `vmmap_remove`, which
  `MCVmmapSplit.cfg` shows to break the list. `vm_areas` and `vm_brk` use
  lengths of 0, 1 and 4 bytes for the checks and copies; the length that
  wraps is in `MCVmmapRangeWrap.cfg`. For a copy the outcome of
  `mobj_get_pframe` is one for one page and another for all other pages,
  for every page and every pair of outcomes: a copy of four bytes covers
  up to three pages, and fails at its first, a middle or its last page or
  at none. The bounds of `vm_areas` are chosen below two defects of the
  code, not above them: with mappings of three pages or from the top the
  list breaks (`MCVmmapSplit.cfg`, `MCVmmapMmap.cfg`), so what the run
  shows of `vmmap_remove` and `vmmap_find_range` is shown of the cases
  that shorten or free an area and of the search from the bottom.
* `fork`: three process slots let a child fork a child of its own, so that
  a shadow object is made on top of a shadow object and `bottom_mobj` differs
  from `shadowed`; `SHADOWS = 2` is what that takes, and with it the slab of
  shadow objects is exhausted. One private page, one shared page and one
  page without an area, with the four outcomes of `mobj_get_pframe`, give
  every path of `handle_pagefault`. A page is
  one byte and there is one value to write beside the zero a page starts
  with: the properties only tell a page that was written from one that was
  not. `VMAREAS = 6` holds the two areas of three processes;
  `vmarea_alloc` fails as an input of `do_fork`.
* `vfs_files`: one descriptor per process and one file object, both taken by
  the inherited file, so that `do_open` meets a full table, and after a
  `do_close` a free descriptor with no file object (`-ENOMEM` after
  `namev_open`), and then succeeds when the last process has closed the
  file. Three processes share the file object: one sleeps in an operation,
  one is blocked at the mutex, one closes or seeks. The file holds up to
  `MaxLen = 2` bytes (two appends of one byte, then `-ENOSPC`); positions
  are followed up to `MaxPos = 3`, one past the end of a full file, so
  `SEEK_END` and `SEEK_CUR` land before, at and past the end, and offsets
  of -1 and 1 reach a negative position.
* `vfs_names`: two directories are what `do_link` and `do_rename` need to
  take two locks in either order, and three threads what a wait cycle would
  need to arise: one rename sleeps in the disk with both directories locked,
  two more queue behind it at different mutexes and are resumed by the
  hand-off, each with one mutex in hand. With two threads the replacement of
  `vlock_in_order` by the order of the arguments goes unnoticed.
* The calls of `Vfs` are split between the two runs by the constant `Calls`;
  the two groups share only vnode reference counts and the mutex, which
  both runs exercise. Every error return of every call is reached in one of
  them.
* No counter of the model is unbounded: pids wrap at `PROC_MAX_COUNT`,
  reference counts are bounded by the number of descriptors, processes,
  areas and calls in progress, the break by `USER_MEM_HIGH`, the length of
  a file by `MaxLen` (the write operation returns `-ENOSPC`) and `f_pos` by
  `MaxPos` (a guard of `DoLseek`).

Symmetry over the process slots is used in the two safety runs of `Proc`,
symmetry over the threads in the two runs of `Vfs`; the liveness runs use
none.

### Larger instances

The runs are sized to finish in minutes. To see that what they show does
not rest on their bounds, the same specifications and properties were
checked once with one more thread, slot or object, or a larger buffer:

| Run | Instance | Result |
|---|---|---|
| `sched` | four threads (the four invariants and `ImplementsFifoSched`, symmetry over the threads) | hold; 214,143 states up to symmetry |
| `proc_kernel` | three process slots (as in the run), with `ConsistentButForCancelRace` and `NoCancelledSleeper` of `Sched` added | both hold of the supervisor's calls too; 907,699 states |
| `proc_wait` | four process slots and a `proc_cleanup` that does not sleep (`MCProcLive4.cfg`) | both properties hold; 203,685 states, 4 minutes. With the sleep and four slots: both hold; 1,071,745 states, 13 minutes with three workers |
| `ldisc_buffer` | `LDISC_BUFFER_SIZE = 8`, reads of 0, 1, 3, 8 and 9 bytes | holds; 15,737,627 states, 28 minutes |
| `tty_read` | three threads, buffer of 2 characters | both properties hold; 705,999 states, 3 minutes |
| `fork` | `SHADOWS = 3` | all six properties hold; 4,188,722 states, 32 minutes |

`ForkCopiesMemory` is the one property found to hold at the bounds of a run
and to fail beyond them (three shadow objects and four slots,
`MCForkCopies.cfg`); it is not among the properties of the run `fork`.

### Fairness

The kernel is cooperative, so progress rests on an assumption about threads:
a thread that holds the core eventually makes a call that gives it up. The
specifications assume weak fairness of

* `CoreSwitch` and `CoreIdle`: the core's own context runs whenever it is
  switched to, and `intr_wait` returns when the run queue is filled;
* `SchedSwitch`, `SchedReturn`, `KthreadCancelLoad`, `KthreadCancelWake`,
  `WaitpidResume`, `CleanupResume`, `InitprocRun`, `InitprocKshell`, `InitprocWait`, the
  turns of `ProcKillAll` after the first, and in
  `TtyRead` the steps of the reader (`LdiscWaitRead`,
  `LdiscWaitReadWoken`, `TtyLdiscRead`): a thread inside a kernel call
  executes its next statement, which straight-line code does;
* `Suspend` (in `Sched`), `GiveUp` (in `Proc`) and `SchedYield` of a thread
  outside the read operation (in `TtyRead`): the cooperative discipline
  itself.

Strong fairness is assumed of one action, `CleanupWoken` in `Proc`: the
interrupt that ends the sleep of a `proc_cleanup` in `fput` or `vput` (the
disk or the terminal answering). A device interrupt, once raised, stays
pending while `sched_switch` and `core_switch` run with interrupts off and
is taken when they are on again; in the model the action is disabled in
those states, so a thread that yields for ever switches it off again and
again and weak fairness would let the sleeper sleep for ever. Strong
fairness says what the hardware does: an interrupt that can be taken
infinitely often is taken.

No other interrupt is fair: no property relies on a key ever being pressed.
`LdiscSpec`, `VmSpec`, `ForkSpec` and `VfsSpec` have no fairness; only
safety is checked of them. For `Vfs` the property that matters for progress,
that no threads wait for each other in a circle, is the invariant
`NoWaitCycle`; that every call returns would in addition need the devices
to answer, which the code cannot promise of a terminal.
Deadlock is checked in every run; the halted core is the stuttering action
`Halt`, the kernel after a failed assertion in the address space the
stuttering action `VmPanicked`, the kernel after a fault in fork or with no
process left the stuttering action `Stopped`, and the model past the race
of `sched_cancel` the stuttering action `KernelLost`. The liveness
properties are stated up to these stops: a behaviour that ends in one of
them satisfies them, and the property that says the stop does not happen
is a property of its own (`QueueStateConsistent`,
`ReapedThreadsHaveExited`).

## 4. Not modelled

* The layers below the modelled functions (`namev`, the vnode operations of
  the file systems, file objects, `kmutex`, page frames, page tables, slab
  allocators, `mobj.c`, the list macros): outside `src/`; where a modelled
  function calls them they are modelled from the specification, and
  `PROJECT.json` marks those definitions.
* `do_mount` and `do_umount`: the source leaves them returning `-EINVAL`.
* `kthread_clone`: the source leaves it unimplemented; `Fork` takes its
  result as a constant.
* The failure of `kthread_create` anywhere but in the loop of
  `initproc_run`: no caller in `src/` tests its result, so every such
  failure is the same stop of the kernel at the caller's next line.
  `kt_retval` and the exit status: data no property tells apart.
* The tests and the `kernel_execve` calls of `initproc_run` as a sequence:
  the calls they make are the calls of `Calls`.
* The preemption counters of `proc.c` 698-722: nothing in `src/` calls them.
* Names and the contents of directories; the bytes of files (a file is its
  length); the contents of pages beyond one byte.
* The read operation of the terminal driver, the system call layer and the
  program loader: outside `src/`. `TtyRead` and `Vmmap` state what they
  assume of them.
* The subsystem initialisers of `kmain`, `make_devices` and
  `kernel_execve`; block devices, the test driver, build files: no protocol
  of their own.
* Interrupts between the pointer writes of one `list_remove` or
  `list_insert_head`: the list macros are outside `src/`, and a list
  operation is one step. What the kernel does after a `ktqueue_remove`
  that named the wrong queue, and after a write of `do_brk` to a freed
  area, is not followed: the model stops there.
* Where `fput` and `vput` sleep and what wakes them: `proc_cleanup` sleeps
  at most once, on a queue an interrupt wakes, before it has released
  anything.
* `mobj_get_pframe` and the page frames it brings in, as far as the callers
  in `access.c` and `vmmap.c` go: what the call leaves them with is an
  input (`GetPframeYields`).
* The processes of `Fork` and the threads of `Vfs` do not run on the
  scheduler of `Sched`: their calls do not sleep on its queues (`Fork`) or
  sleep in code outside `src/` (`Vfs`), and what they need of it, that a
  call runs until it blocks, is the grain of their actions.

## 5. Plan

1. **Scheduler and supervisor** (done): `Sched`, `Proc`.
2. **Terminal** (done): `LineBuffer`, `Ldisc`, `TtyRead`.
3. **Address space** (done): `Vmmap` with `do_brk`, `do_mmap`, `do_munmap`,
   the permission checks and the user copies.
4. **Shadow objects and fork** (done): `Shadow`, `Fork`.
5. **Files** (done): `Vfs`.
6. **Abstract scheduler and boot to shutdown** (done): `FifoSched` and the
   refinement, the program of the init process, `user_vecdup`.
7. **Interrupt windows and faults** (done): `proc_kill_all` as a loop of
   steps, `proc_create` and `kthread_create` without a page
   (`PageAllocFails`), `proc_cleanup` with a sleep inside (`CleanupBlocks`),
   the two readings of `pt_unmap_range` (`PtUnmapTakesLength`), and the
   larger instances of section 3.
8. **The code as written** (done): every interrupt window of
   `sched_cancel`, `proc_cleanup` asleep in every run, the contract of the
   line discipline against what it does, the callers of `mobj_get_pframe`
   with the argument they pass, and properties stated up to the first
   point where the kernel is lost.
9. **Open**: an abstract specification of copy on write, private copies
   taken at fork. `Fork` does not implement it in any configuration with a
   fork and a write (`WritesArePrivate`, `FaultsAreInvisible`,
   `ForkCopiesMemory`), so a refinement can be checked only once `do_fork`
   shadows the parent's areas too.
