------------------------------- MODULE Sched -------------------------------
(***************************************************************************)
(* The thread scheduler: kernel/proc/sched.c (stored as lines 670-1085 of  *)
(* src/kernel/proc/proc.c) and the thread objects of                       *)
(* src/kernel/proc/kthread.c.                                              *)
(*                                                                         *)
(* One core runs one thread at a time and threads give up the core only    *)
(* by calling sched_switch.  A thread that leaves the core names the queue *)
(* it wants to be put on in curcore.kc_queue; the core's own context,      *)
(* looping in core_switch, puts it there and picks the next thread.  The   *)
(* only other actor is an interrupt handler, which calls sched_wakeup_on   *)
(* and runs wherever the code has not raised the interrupt level: that is  *)
(* everywhere but inside sched_make_runnable, sched_sleep_on and           *)
(* sched_switch.  sched_cancel and ktqueue_remove raise nothing.           *)
(*                                                                         *)
(* The functions of sched.c are written as operators from a scheduler      *)
(* state S = [thr, tq, size, panic, raced] to the scheduler state they     *)
(* leave, so that an action can apply several of them in the order the     *)
(* code calls them.                                                        *)
(***************************************************************************)
EXTENDS Integers, Sequences, FiniteSets, SequencesExt

CONSTANTS
    Threads,      \* the kthread_t objects the slab allocator can hand out
    WaitQueues,   \* the ktqueue_t objects threads sleep on
    IrqQueues,    \* the wait queues an interrupt handler calls sched_wakeup_on for
    CancellableQueues,  \* the wait queues threads sleep on cancellably
    kt_runq,      \* the run queue
    NULL

ASSUME SchedConstantsOK ==
    /\ IsFiniteSet(Threads) /\ IsFiniteSet(WaitQueues)
    /\ IrqQueues \subseteq WaitQueues
    /\ CancellableQueues \subseteq WaitQueues
    /\ kt_runq \notin WaitQueues
    /\ NULL \notin Threads \cup WaitQueues \cup {kt_runq}

VARIABLES
    kthread,   \* kthread[t]: the fields kt_state, kt_wchan, kt_cancelled of thread t
    tq,        \* tq[q]: the threads linked on queue q, in list order (head first)
    tq_size,   \* tq_size[q]: the field tq_size of queue q
    curthr,    \* the thread whose context the core last ran, or NULL
    kc_queue,  \* curcore.kc_queue: where core_switch puts the outgoing thread
    core,      \* what the core executes: "boot", "thread", "switch", "idle", "halt"
    pc,        \* pc[t]: the scheduler call thread t is inside, with its argument
    ret,       \* what the last call that returns a value returned to its caller
    panic,     \* NULL, or the assertion that stopped the kernel
    raced      \* a record of the model, no field of the kernel: ktqueue_remove
               \* has been given a queue that its thread had left

schedVars == <<kthread, tq, tq_size, curthr, kc_queue, core, pc, ret, panic, raced>>

Queues == WaitQueues \cup {kt_runq}

EINTR == 4

\* kthread.h: the values of kt_state; KT_UNALLOCATED is an object in the slab.
KT_UNALLOCATED == "UNALLOCATED"
KT_NO_STATE == "NO_STATE"
KT_ON_CPU == "ON_CPU"
KT_RUNNABLE == "RUNNABLE"
KT_SLEEP == "SLEEP"
KT_SLEEP_CANCELLABLE == "SLEEP_CANCELLABLE"
KT_EXITED == "EXITED"

KtStates == {KT_UNALLOCATED, KT_NO_STATE, KT_ON_CPU, KT_RUNNABLE, KT_SLEEP,
             KT_SLEEP_CANCELLABLE, KT_EXITED}

FreeThread == [kt_state |-> KT_UNALLOCATED, kt_wchan |-> NULL, kt_cancelled |-> FALSE]

\* Where a thread is: the call it is inside, that call's argument, and whether
\* it has switched away inside that call (its saved context is in sched_switch).
At(op, arg) == [op |-> op, arg |-> arg, switched |-> FALSE]
Run == At("run", NULL)
SwitchOps == {"yield", "sleep", "csleep", "exit", "cleanup"}
PcOps == SwitchOps \cup {"run", "cancel", "remove", "start", "kshell"}

\* The scheduler state the functions below transform.
Sch == [thr |-> kthread, tq |-> tq, size |-> tq_size, panic |-> panic, raced |-> raced]
Commit(S) ==
    /\ kthread' = S.thr /\ tq' = S.tq /\ tq_size' = S.size
    /\ panic' = S.panic /\ raced' = S.raced

\* The kernel runs: no assertion has stopped it, and its queues are the ones
\* the model can follow.
KernelRuns == panic = NULL /\ ~raced

\* KASSERT(cond): the kernel stops at a failed assertion, with the state it had.
Kassert(S, cond, what, T) == IF cond THEN T ELSE [S EXCEPT !.panic = what]

-----------------------------------------------------------------------------
(* ktqueue functions *)

sched_queue_init(S, q) == [S EXCEPT !.tq[q] = <<>>, !.size[q] = 0]

\* A queue is empty when its count says so, whatever is linked on its list.
sched_queue_empty(S, q) == S.size[q] = 0

ktqueue_enqueue(S, q, t) ==
    Kassert(S, S.thr[t].kt_wchan = NULL, "ktqueue_enqueue: kt_wchan",
            [S EXCEPT !.tq[q] = Cons(t, @), !.thr[t].kt_wchan = q, !.size[q] = @ + 1])

\* Thread t leaves queue q by ktqueue_dequeue.
Dequeued(S, q, t) ==
    [thr |-> t,
     S   |-> [S EXCEPT !.tq[q] = Remove(@, t), !.thr[t].kt_wchan = NULL, !.size[q] = @ - 1]]

\* ktqueue_dequeue on a list with no thread that counts one: l_prev of the list
\* is the list itself, and what is unlinked and returned is no thread.  The
\* kernel is taken to stop there.
NoThread(S) == [thr |-> NULL, S |-> [S EXCEPT !.panic = "ktqueue_dequeue: no thread"]]

\* A fault of ktqueue_dequeue: the thread is taken from the head of the list.
ktqueue_dequeue_head(S, q) ==
    CASE sched_queue_empty(S, q) -> [thr |-> NULL, S |-> S]
      [] ~sched_queue_empty(S, q) /\ S.tq[q] = <<>> -> NoThread(S)
      [] OTHER -> Dequeued(S, q, Head(S.tq[q]))

\* Returns the thread taken from the queue (NULL if there is none) and the state.
ktqueue_dequeue(S, q) ==
    CASE sched_queue_empty(S, q) -> [thr |-> NULL, S |-> S]
      [] ~sched_queue_empty(S, q) /\ S.tq[q] = <<>> -> NoThread(S)
      [] OTHER -> Dequeued(S, q, Last(S.tq[q]))

\* list_remove takes the thread off the list it is linked on; the count that
\* goes down is that of the queue the caller named, the thread's queue or not.
ktqueue_remove(S, q, t) ==
    Kassert(S, \E r \in Queues : Contains(S.tq[r], t), "ktqueue_remove: kt_qlink",
            [S EXCEPT !.tq = [r \in Queues |-> Remove(S.tq[r], t)],
                      !.thr[t].kt_wchan = NULL,
                      !.size[q] = @ - 1,
                      !.raced = @ \/ ~Contains(S.tq[q], t)])

-----------------------------------------------------------------------------
(* Functions of sched.c and kthread.c that run inside one step of a thread *)

sched_make_runnable(S, t) ==
    Kassert(S, t # curthr, "sched_make_runnable: curthr",
            ktqueue_enqueue([S EXCEPT !.thr[t].kt_state = KT_RUNNABLE], kt_runq, t))

sched_wakeup_on(S, q) ==
    LET d == ktqueue_dequeue(S, q)
    IN  IF d.thr = NULL THEN d.S ELSE sched_make_runnable(d.S, d.thr)

RECURSIVE sched_broadcast_on(_, _)
sched_broadcast_on(S, q) ==
    LET d == ktqueue_dequeue(S, q)
    IN  IF d.thr = NULL THEN d.S
        ELSE sched_broadcast_on(sched_make_runnable(d.S, d.thr), q)

\* sched_cancel in the pieces an interrupt can come between: the mark, the
\* test of kt_state, the read of kt_wchan, the queue operations.
CancelMark(S, t) == [S EXCEPT !.thr[t].kt_cancelled = TRUE]

\* The KASSERT of sched_cancel and the queue it reads for ktqueue_remove.
CancelLoad(S, t) == Kassert(S, S.thr[t].kt_wchan # NULL, "sched_cancel: kt_wchan", S)

\* A fault of CancelRemove: the thread is made runnable but left on its queue.
CancelRemove_noremove(S, t, q) == sched_make_runnable(S, t)

\* The queue operations of sched_cancel, q being the queue it read.
CancelRemove(S, t, q) == sched_make_runnable(ktqueue_remove(S, q, t), t)

\* A fault of CancelSleeps: every sleeping thread is taken for a cancellable one.
CancelSleeps_anysleep(S, t) ==
    S.thr[t].kt_state \in {KT_SLEEP, KT_SLEEP_CANCELLABLE}

\* A fault of CancelSleeps: the test is for the uninterruptible sleep.
CancelSleeps_wrongsleep(S, t) == S.thr[t].kt_state = KT_SLEEP

\* The test sched_cancel makes before it touches the queue.
CancelSleeps(S, t) == S.thr[t].kt_state = KT_SLEEP_CANCELLABLE

kthread_create(S, t) ==
    [S EXCEPT !.thr[t] = [kt_state |-> KT_NO_STATE, kt_wchan |-> NULL,
                          kt_cancelled |-> FALSE]]

kthread_destroy(S, t) ==
    Kassert(S, t # curthr /\ S.thr[t].kt_state = KT_EXITED, "kthread_destroy: state",
            [S EXCEPT !.thr[t] = FreeThread])

-----------------------------------------------------------------------------
(* Steps of a thread that holds the core *)

\* Thread t runs between two scheduler calls, with interrupts enabled.
OnCpu(t) == KernelRuns /\ core = "thread" /\ curthr = t /\ pc[t] = Run

SetState(S, t, state) == [S EXCEPT !.thr[t].kt_state = state]

\* The call of thread t has left the scheduler state S and is about to call
\* sched_switch(q).
Leave(t, S, op, q) ==
    /\ Commit(S)
    /\ pc' = [pc EXCEPT ![t] = At(op, q)]
    /\ UNCHANGED <<curthr, kc_queue, core, ret>>

SchedYield(t) ==
    /\ OnCpu(t)
    /\ Leave(t, Kassert(Sch, kthread[t].kt_state = KT_ON_CPU, "sched_yield: kt_state",
                        SetState(Sch, t, KT_RUNNABLE)), "yield", kt_runq)

SchedSleepOn(t, q) ==
    /\ OnCpu(t)
    /\ Leave(t, SetState(Sch, t, KT_SLEEP), "sleep", q)

\* A fault of CancelledBeforeSleep: the flag is not looked at before sleeping.
CancelledBeforeSleep_unchecked(t) == FALSE

CancelledBeforeSleep(t) == kthread[t].kt_cancelled

SchedCancellableSleepOn(t, q) ==
    /\ OnCpu(t)
    /\ \/ /\ CancelledBeforeSleep(t)
          /\ ret' = -EINTR
          /\ UNCHANGED <<kthread, tq, tq_size, curthr, kc_queue, core, pc, panic, raced>>
       \/ /\ ~CancelledBeforeSleep(t)
          /\ Leave(t, SetState(Sch, t, KT_SLEEP_CANCELLABLE), "csleep", q)

\* A fault of SleepResult: the error number is returned without its sign.
SleepResult_unsigned(t) == IF kthread[t].kt_cancelled THEN EINTR ELSE 0

\* What sched_cancellable_sleep_on returns once the thread has the core again.
SleepResult(t) == IF kthread[t].kt_cancelled THEN -EINTR ELSE 0

\* sched_switch up to its context_switch: interrupts go off and the core's
\* context resumes in core_switch.
SchedSwitch(t) ==
    /\ KernelRuns /\ core = "thread" /\ curthr = t
    /\ pc[t].op \in SwitchOps /\ ~pc[t].switched
    /\ Commit(Kassert(Sch, kthread[t].kt_state # KT_ON_CPU, "sched_switch: kt_state", Sch))
    /\ kc_queue' = pc[t].arg
    /\ core' = "switch"
    /\ pc' = [pc EXCEPT ![t].switched = TRUE]
    /\ UNCHANGED <<curthr, ret>>

\* sched_switch after its context_switch, and the return of the call that
\* made it: the thread is back on the core.
SchedReturn(t) ==
    /\ KernelRuns /\ core = "thread" /\ curthr = t
    /\ pc[t].op \in {"yield", "sleep", "csleep"} /\ pc[t].switched
    /\ pc' = [pc EXCEPT ![t] = Run]
    /\ ret' = IF pc[t].op = "csleep" THEN SleepResult(t) ELSE ret
    /\ UNCHANGED <<kthread, tq, tq_size, curthr, kc_queue, core, panic, raced>>

SchedWakeupOn(t, q) ==
    /\ OnCpu(t)
    /\ Commit(sched_wakeup_on(Sch, q))
    /\ UNCHANGED <<curthr, kc_queue, core, pc, ret>>

SchedBroadcastOn(t, q) ==
    /\ OnCpu(t)
    /\ Commit(sched_broadcast_on(Sch, q))
    /\ UNCHANGED <<curthr, kc_queue, core, pc, ret>>

\* kthread_cancel(u) by thread t, up to the test of u's state in sched_cancel.
\* Interrupts are enabled, so a handler may run before KthreadCancelLoad.
KthreadCancel(t, u) ==
    /\ OnCpu(t)
    /\ u # t /\ kthread[u].kt_state # KT_UNALLOCATED
    /\ Commit(CancelMark(Sch, u))
    /\ pc' = [pc EXCEPT ![t] = IF CancelSleeps(Sch, u) THEN At("cancel", u) ELSE Run]
    /\ UNCHANGED <<curthr, kc_queue, core, ret>>

\* sched_cancel inside its if: the assertion, and thr->kt_wchan read as the
\* argument of ktqueue_remove.  A handler may run before KthreadCancelWake.
KthreadCancelLoad(t) ==
    /\ KernelRuns /\ core = "thread" /\ curthr = t
    /\ pc[t].op = "cancel"
    /\ Commit(CancelLoad(Sch, pc[t].arg))
    /\ pc' = [pc EXCEPT ![t] = At("remove", <<pc[t].arg, kthread[pc[t].arg].kt_wchan>>)]
    /\ UNCHANGED <<curthr, kc_queue, core, ret>>

\* The rest of sched_cancel: ktqueue_remove with the queue that was read,
\* which the thread has left if a handler woke it since, and
\* sched_make_runnable.
KthreadCancelWake(t) ==
    /\ KernelRuns /\ core = "thread" /\ curthr = t
    /\ pc[t].op = "remove"
    /\ Commit(CancelRemove(Sch, pc[t].arg[1], pc[t].arg[2]))
    /\ pc' = [pc EXCEPT ![t] = Run]
    /\ UNCHANGED <<curthr, kc_queue, core, ret>>

\* kthread_create and sched_make_runnable, as every creator of a thread calls them.
KthreadSpawn(t, u) ==
    /\ OnCpu(t)
    /\ kthread[u].kt_state = KT_UNALLOCATED
    /\ Commit(sched_make_runnable(kthread_create(Sch, u), u))
    /\ UNCHANGED <<curthr, kc_queue, core, pc, ret>>

-----------------------------------------------------------------------------
(* Steps of the core's own context and of interrupt handlers *)

\* A fault of Deposit: the outgoing thread is not put on the queue it named.
Deposit_dropped(S) == S

\* core_switch, top of the loop: the outgoing thread goes to kc_queue.
Deposit(S) ==
    IF kc_queue = NULL THEN S ELSE ktqueue_enqueue(S, kc_queue, curthr)

\* core_switch, the rest of the loop: the next runnable thread gets the core,
\* or the core waits for an interrupt.
Dispatch(S) ==
    LET d == ktqueue_dequeue(S, kt_runq)
    IN  IF d.thr = NULL
        THEN /\ Commit(d.S) /\ curthr' = NULL /\ core' = "idle"
        ELSE /\ Commit(Kassert(d.S, d.S.thr[d.thr].kt_state = KT_RUNNABLE,
                               "core_switch: kt_state",
                               [d.S EXCEPT !.thr[d.thr].kt_state = KT_ON_CPU]))
             /\ curthr' = d.thr /\ core' = "thread"

CoreSwitch ==
    /\ KernelRuns /\ core = "switch"
    /\ Dispatch(Kassert(Sch, curthr = NULL \/ kthread[curthr].kt_state # KT_ON_CPU,
                        "core_switch: curthr", Deposit(Sch)))
    /\ UNCHANGED <<kc_queue, pc, ret>>

\* intr_wait returned: the idle core looks at the run queue again.
CoreIdle ==
    /\ KernelRuns /\ core = "idle"
    /\ ~sched_queue_empty(Sch, kt_runq)
    /\ Dispatch(Sch)
    /\ UNCHANGED <<kc_queue, pc, ret>>

\* An interrupt handler wakes a thread of q, as ldisc_key_pressed does for the
\* read queue of a terminal.  It runs between any two steps of a thread and
\* while the core idles: every step of a thread above ends with the
\* interrupt level it began with.
Irq(q) ==
    /\ KernelRuns /\ core \in {"thread", "idle"}
    /\ q \in IrqQueues
    /\ Commit(sched_wakeup_on(Sch, q))
    /\ UNCHANGED <<curthr, kc_queue, core, pc, ret>>

-----------------------------------------------------------------------------
(* The scheduler under every sequence of calls its callers can make *)

\* The state initproc_start leaves: one runnable thread, and the core's
\* context about to run core_switch for the first time.
SchedInit ==
    /\ \E t0 \in Threads :
         /\ kthread = [t \in Threads |->
                         IF t = t0 THEN [kt_state |-> KT_RUNNABLE, kt_wchan |-> kt_runq,
                                         kt_cancelled |-> FALSE]
                         ELSE FreeThread]
         /\ tq = [q \in Queues |-> IF q = kt_runq THEN <<t0>> ELSE <<>>]
         /\ tq_size = [q \in Queues |-> IF q = kt_runq THEN 1 ELSE 0]
    /\ curthr = NULL
    /\ kc_queue = NULL
    /\ core = "switch"
    /\ pc = [t \in Threads |-> Run]
    /\ ret = NULL
    /\ panic = NULL
    /\ raced = FALSE

\* The calls by which a running thread gives up the core for certain.
Suspend(t) == SchedYield(t) \/ \E q \in WaitQueues : SchedSleepOn(t, q)

ThreadStep(t) ==
    \/ Suspend(t)
    \/ \E q \in CancellableQueues : SchedCancellableSleepOn(t, q)
    \/ \E q \in WaitQueues : SchedWakeupOn(t, q) \/ SchedBroadcastOn(t, q)
    \/ \E u \in Threads : KthreadCancel(t, u) \/ KthreadSpawn(t, u)
    \/ KthreadCancelLoad(t)
    \/ KthreadCancelWake(t)
    \/ SchedSwitch(t)
    \/ SchedReturn(t)

\* Past a ktqueue_remove from a queue the thread had left, the counts of two
\* queues are wrong and the model follows the kernel no further.
KernelLost == raced /\ UNCHANGED schedVars

SchedNext ==
    \/ \E t \in Threads : ThreadStep(t)
    \/ CoreSwitch
    \/ CoreIdle
    \/ \E q \in IrqQueues : Irq(q)
    \/ KernelLost

\* The core always gets to run core_switch, a thread that is inside a call
\* finishes it, and (the discipline of cooperative scheduling) a thread that
\* holds the core reaches a call that gives it up.
SchedFairness ==
    /\ WF_schedVars(CoreSwitch)
    /\ WF_schedVars(CoreIdle)
    /\ \A t \in Threads :
         /\ WF_schedVars(SchedSwitch(t))
         /\ WF_schedVars(SchedReturn(t))
         /\ WF_schedVars(KthreadCancelLoad(t))
         /\ WF_schedVars(KthreadCancelWake(t))
         /\ WF_schedVars(Suspend(t))

SchedSpec == SchedInit /\ [][SchedNext]_schedVars /\ SchedFairness

-----------------------------------------------------------------------------
(* Properties *)

SchedTypeOK ==
    /\ kthread \in [Threads -> [kt_state : KtStates, kt_wchan : Queues \cup {NULL},
                                kt_cancelled : BOOLEAN]]
    /\ tq \in [Queues -> BoundedSeq(Threads, Cardinality(Threads))]
    /\ tq_size \in [Queues -> -1 .. Cardinality(Threads)]
    /\ curthr \in Threads \cup {NULL}
    /\ kc_queue \in Queues \cup {NULL}
    /\ core \in {"boot", "thread", "switch", "idle", "halt"}
    /\ pc \in [Threads -> [op : PcOps,
                            arg : Queues \cup Threads \cup {NULL} \cup (Threads \X Queues),
                            switched : BOOLEAN]]
    /\ ret \in {NULL, 0, -EINTR}
    /\ panic \in STRING \cup {NULL}
    /\ raced \in BOOLEAN

\* No KASSERT of sched.c or kthread.c fails and no queue is found without the
\* thread its count promises, whatever the order of calls and interrupts up
\* to the first ktqueue_remove of sched_cancel that an interrupt overtook.
\* What follows that one is not followed (KernelLost).
NoPanic == panic = NULL

\* The queues thread t is linked on.
QueuesOf(t) == {q \in Queues : Contains(tq[q], t)}

\* Thread t has set its state and core_switch has not yet put it on the queue
\* it named: the time from the assignment of kt_state to the end of Deposit.
InTransit(t) == t = curthr /\ kthread[t].kt_state # KT_ON_CPU

\* Queue membership matches thread state (sched.c as a whole, and what its
\* comments mean by "queue must be locked"): tq_size counts the threads
\* linked on a queue; a thread is on at most one queue and kt_wchan names it;
\* a runnable thread is on the run queue and a sleeping one on a wait queue,
\* unless it has called sched_switch and core_switch has not yet enqueued it;
\* a thread in any other state is on no queue; only curthr is ON_CPU.
QueueStateConsistent ==
    panic = NULL =>
    /\ \A q \in Queues : tq_size[q] = Len(tq[q])
    /\ \A t \in Threads :
         LET st == kthread[t].kt_state
             on == QueuesOf(t)
         IN  /\ on = IF kthread[t].kt_wchan = NULL THEN {} ELSE {kthread[t].kt_wchan}
             /\ \A q \in on : Len(SelectSeq(tq[q], LAMBDA u : u = t)) = 1
             /\ st = KT_RUNNABLE => on = {kt_runq} \/ (InTransit(t) /\ on = {})
             /\ st \in {KT_SLEEP, KT_SLEEP_CANCELLABLE} =>
                   (on # {} /\ kt_runq \notin on) \/ (InTransit(t) /\ on = {})
             /\ st \notin {KT_RUNNABLE, KT_SLEEP, KT_SLEEP_CANCELLABLE} => on = {}
             /\ st = KT_ON_CPU => t = curthr /\ core \in {"thread", "halt"}

\* The queues go wrong in one place only (sched_cancel, between its read of
\* thr->kt_wchan and ktqueue_remove): in every state the kernel reaches
\* without an interrupt waking the cancelled thread in that window, under
\* whatever else threads and handlers do, queue membership matches thread
\* state.
ConsistentButForCancelRace == raced \/ QueueStateConsistent

\* Thread c is inside sched_cancel(t), past the mark and before the wake.
Cancelling(c, t) ==
    \/ pc[c] = At("cancel", t)
    \/ pc[c].op = "remove" /\ pc[c].arg[1] = t

\* No thread is left asleep with its cancelled flag set (sched_cancel and the
\* test at the top of sched_cancellable_sleep_on): a cancellable sleeper on a
\* wait queue is not cancelled, except while the canceller is between
\* marking it and waking it.
NoCancelledSleeper ==
    panic = NULL =>
    \A t \in Threads :
        (kthread[t].kt_state = KT_SLEEP_CANCELLABLE /\ kthread[t].kt_cancelled)
            => \/ InTransit(t)
               \/ \E c \in Threads : Cancelling(c, t)

\* sched.c keeps the scheduler's promise (FifoSched): ktqueue_enqueue at the
\* head and ktqueue_dequeue from the tail make every queue first in, first
\* out; core_switch puts the outgoing thread on the queue it named and gives
\* the core to the thread that waited longest, in one step with interrupts
\* off; sched_wakeup_on, sched_broadcast_on and sched_cancel move threads only
\* to the end of the run queue, and sched_cancel only a cancellable sleeper;
\* no step loses a thread or links it twice.  The part of a call before
\* core_switch runs (kt_state set, sched_switch entered) shows nothing: the
\* thread has the core until core_switch takes it away.  The lists are what
\* is compared, not the counts: the step of sched_cancel that an interrupt
\* overtook moves its thread to the end of the run queue like any other.
Fifo ==
    INSTANCE FifoSched WITH
        running <- curthr,
        ready   <- Reverse(tq[kt_runq]),
        waiting <- [q \in WaitQueues |-> Reverse(tq[q])],
        light   <- {t \in Threads : pc[t].op = "csleep" /\ t # curthr}

ImplementsFifoSched == Fifo!Spec

\* The run queue is first in, first out (ktqueue_enqueue at the head,
\* ktqueue_dequeue from the tail, core_switch): a thread on the run queue
\* gets the core, however the other threads yield, sleep and wake, in every
\* behaviour that is not lost to the race of sched_cancel.
RunnableEventuallyRuns ==
    \A t \in Threads :
        (kthread[t].kt_state = KT_RUNNABLE /\ Contains(tq[kt_runq], t))
            ~> (kthread[t].kt_state = KT_ON_CPU \/ raced)

\* Cancellation is not lost (sched_cancel wakes the cancellable sleeper it
\* marks, sched_cancellable_sleep_on tests the mark before it sleeps): a
\* thread inside sched_cancellable_sleep_on that has been cancelled returns
\* from the call, whether or not an interrupt ever wakes its queue, unless
\* an interrupt wakes it inside the window of sched_cancel and the kernel is
\* lost.
CancelledSleeperReturns ==
    \A t \in Threads :
        (pc[t].op = "csleep" /\ kthread[t].kt_cancelled)
            ~> (pc[t].op # "csleep" \/ raced)

=============================================================================
