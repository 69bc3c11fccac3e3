------------------------------ MODULE TtyRead ------------------------------
(***************************************************************************)
(* A thread reading a terminal against the keyboard interrupt:             *)
(* ldisc_wait_read and ldisc_read of kernel/drivers/tty/ldisc.c run by a   *)
(* thread of module Sched, ldisc_key_pressed run by the interrupt handler. *)
(*                                                                         *)
(* ldisc_wait_read tests the buffer and then sleeps; ldisc_key_pressed     *)
(* cooks a line and then wakes the read queue.  Neither masks interrupts   *)
(* itself.  Their caller, the terminal driver's read operation, is not     *)
(* part of the sources: it is taken to let one thread at a time into the   *)
(* line discipline and to keep the keyboard interrupt masked while that    *)
(* thread runs there (KeyboardMasked).  Nothing masks it while another     *)
(* thread runs, inside sched_cancel or anywhere else.                      *)
(***************************************************************************)
EXTENDS Sched, Ldisc

CONSTANTS
    ldisc_read_queue    \* the wait queue of the ldisc_t

ASSUME ldisc_read_queue \in IrqQueues \cap CancellableQueues

VARIABLES
    reader,     \* the thread inside the driver's read operation, or NULL
    at          \* where it is: "test", "slept" or "read"

ttyVars == <<schedVars, ldiscVars, reader, at>>

\* A fault of KeyboardMasked: the reader runs with the interrupt enabled.
KeyboardMasked_never == FALSE

\* The read operation of the driver keeps the keyboard interrupt masked
\* while the reading thread holds the core.
KeyboardMasked == core = "thread" /\ curthr = reader

\* A thread enters the read operation and calls ldisc_wait_read.
TtyReadBegin(t) ==
    /\ OnCpu(t) /\ reader = NULL
    /\ reader' = t /\ at' = "test"
    /\ UNCHANGED <<schedVars, ldiscVars>>

Finish(v) == reader' = NULL /\ at' = "test" /\ ret' = v

\* ldisc_wait_read at the top of its loop: there is something to read, or
\* the thread calls sched_cancellable_sleep_on, which returns at once for a
\* cancelled thread.
LdiscWaitRead(t) ==
    /\ OnCpu(t) /\ reader = t /\ at = "test"
    /\ \/ /\ ~NoChars(ldisc)
          /\ at' = "read"
          /\ UNCHANGED <<schedVars, ldiscVars, reader>>
       \/ /\ NoChars(ldisc) /\ CancelledBeforeSleep(t)
          /\ Finish(-EINTR)
          /\ UNCHANGED <<kthread, tq, tq_size, curthr, kc_queue, core, pc, panic, raced, ldiscVars>>
       \/ /\ NoChars(ldisc) /\ ~CancelledBeforeSleep(t)
          /\ Leave(t, SetState(Sch, t, KT_SLEEP_CANCELLABLE), "csleep", ldisc_read_queue)
          /\ at' = "slept"
          /\ UNCHANGED <<ldiscVars, reader>>

\* sched_cancellable_sleep_on has returned: a cancelled sleep ends the
\* call, any other wake-up goes round the loop.
LdiscWaitReadWoken(t) ==
    /\ OnCpu(t) /\ reader = t /\ at = "slept"
    /\ \/ ret = -EINTR /\ Finish(-EINTR)
       \/ ret # -EINTR /\ at' = "test" /\ UNCHANGED <<reader, ret>>
    /\ UNCHANGED <<kthread, tq, tq_size, curthr, kc_queue, core, pc, panic, raced, ldiscVars>>

\* ldisc_wait_read returned 0 and the thread calls ldisc_read.
TtyLdiscRead(t, count) ==
    /\ OnCpu(t) /\ reader = t /\ at = "read"
    /\ LdiscRead(count)
    /\ Finish(Len(event'.buf))
    /\ UNCHANGED <<kthread, tq, tq_size, curthr, kc_queue, core, pc, panic, raced>>

\* A fault of Woken: the handler cooks the line and wakes nobody.
Woken_nobody(S, wake) == S

\* The scheduler state ldisc_key_pressed leaves.
Woken(S, wake) == IF wake THEN sched_wakeup_on(S, ldisc_read_queue) ELSE S

\* The keyboard interrupt: ldisc_key_pressed with its sched_wakeup_on.
KeyIrq(key) ==
    /\ KernelRuns /\ core \in {"thread", "idle"}
    /\ ~KeyboardMasked
    /\ LdiscKeyPressed(key)
    /\ Commit(Woken(Sch, event'.wake))
    /\ UNCHANGED <<curthr, kc_queue, core, pc, ret, reader, at>>

\* What the scheduler and the other threads do meanwhile.
Outside(A) == A /\ UNCHANGED <<ldiscVars, reader, at>>

TtyThread(t) ==
    \/ TtyReadBegin(t)
    \/ LdiscWaitRead(t)
    \/ LdiscWaitReadWoken(t)
    \/ \E count \in Counts : TtyLdiscRead(t, count)
    \/ reader # t /\ Outside(SchedYield(t))
    \/ reader # t /\ \E u \in Threads : Outside(KthreadCancel(t, u))
    \/ reader # t /\ \E u \in Threads : Outside(KthreadSpawn(t, u))
    \/ Outside(KthreadCancelLoad(t))
    \/ Outside(KthreadCancelWake(t))
    \/ Outside(SchedSwitch(t))
    \/ Outside(SchedReturn(t))

\* The state initproc_start leaves, with the terminal just initialised.
TtyInit ==
    /\ SchedInit /\ LdiscInit
    /\ reader = NULL /\ at = "test"

TtyNext ==
    \/ \E t \in Threads : TtyThread(t)
    \/ Outside(CoreSwitch)
    \/ Outside(CoreIdle)
    \/ \E key \in Keys : KeyIrq(key)
    \/ Outside(KernelLost)

\* The core runs core_switch, a thread inside a call finishes it, a thread
\* outside the read operation yields, and the reader takes its next step.
\* Nothing is assumed of the keyboard.
TtyFairness ==
    /\ WF_ttyVars(Outside(CoreSwitch))
    /\ WF_ttyVars(Outside(CoreIdle))
    /\ \A t \in Threads :
         /\ WF_ttyVars(Outside(SchedSwitch(t)))
         /\ WF_ttyVars(Outside(SchedReturn(t)))
         /\ WF_ttyVars(Outside(KthreadCancelLoad(t)))
         /\ WF_ttyVars(Outside(KthreadCancelWake(t)))
         /\ WF_ttyVars(reader # t /\ Outside(SchedYield(t)))
         /\ WF_ttyVars(LdiscWaitRead(t))
         /\ WF_ttyVars(LdiscWaitReadWoken(t))
         /\ WF_ttyVars(\E count \in Counts : TtyLdiscRead(t, count))

TtySpec == TtyInit /\ [][TtyNext]_ttyVars /\ TtyFairness

-----------------------------------------------------------------------------
(* Properties *)

\* No wake-up is lost between the test of ldisc_wait_read and its sleep:
\* whenever the reader is asleep on the read queue, or has set its state and
\* is on its way there, the buffer holds nothing to read.  A line cooked by
\* ldisc_key_pressed in that window would wake an empty queue and leave the
\* reader asleep beside its input.
NoSleepBesideInput ==
    \A t \in Threads :
        (reader = t /\ at = "slept" /\ kthread[t].kt_state = KT_SLEEP_CANCELLABLE)
            => NoChars(ldisc)

\* A reader gets its line (ldisc_wait_read, ldisc_key_pressed and the run
\* queue together): once there is something to read, the thread inside the
\* read operation leaves it, with the bytes or with -EINTR, however the
\* other threads yield and whatever else is typed, unless a key wakes a
\* reader inside the window of the sched_cancel that kills it and the kernel
\* is lost.
ReaderGetsLine ==
    \A t \in Threads :
        (reader = t /\ ~NoChars(ldisc)) ~> (reader # t \/ raced)

=============================================================================
