----------------------------- MODULE FifoSched -----------------------------
(***************************************************************************)
(* What the scheduler promises its callers, with none of its mechanism:    *)
(* one thread has the core, the threads that can run wait for it in one    *)
(* line, and the threads that sleep wait in one line per wait queue.       *)
(* Every line is first in, first out.  There is no kt_state, no kt_wchan,  *)
(* no kc_queue and no context of the core: a thread that gives up the      *)
(* core joins its line and the next thread has the core in the same step.  *)
(*                                                                         *)
(* Sched.tla shows that sched.c implements this specification.             *)
(***************************************************************************)
EXTENDS Sequences, FiniteSets, SequencesExt

CONSTANTS
    Threads,      \* the threads there can be
    WaitQueues,   \* the queues threads sleep on
    NULL

VARIABLES
    running,   \* the thread that has the core, or NULL
    ready,     \* the threads that can run, the one that waited longest first
    waiting,   \* waiting[q]: the sleepers of q, the one that slept longest first
    light      \* the threads whose sleep a cancellation may end

vars == <<running, ready, waiting, light>>

\* The threads that stand in some line.
Queued == ToSet(ready) \cup UNION {ToSet(waiting[q]) : q \in WaitQueues}

\* The threads that exist.
Live == Queued \cup ({running} \ {NULL})

TypeOK ==
    /\ running \in Threads \cup {NULL}
    /\ ready \in BoundedSeq(Threads, Cardinality(Threads))
    /\ waiting \in [WaitQueues -> BoundedSeq(Threads, Cardinality(Threads))]
    /\ light \subseteq Threads

\* The boot thread has made at most the first thread and runs none.
Init ==
    /\ running = NULL
    /\ Len(ready) <= 1 /\ ToSet(ready) \subseteq Threads
    /\ waiting = [q \in WaitQueues |-> <<>>]
    /\ light = {}

-----------------------------------------------------------------------------
(* What the thread that has the core, or an interrupt handler, does to the *)
(* other threads                                                           *)

\* A new thread joins the end of the ready line.
Spawn(u) ==
    /\ u \in Threads \ Live
    /\ ready' = Append(ready, u)
    /\ UNCHANGED <<running, waiting, light>>

\* The sleeper of q that slept longest joins the end of the ready line.
Wakeup(q) ==
    /\ waiting[q] # <<>>
    /\ ready' = Append(ready, Head(waiting[q]))
    /\ waiting' = [waiting EXCEPT ![q] = Tail(@)]
    /\ UNCHANGED <<running, light>>

\* Every sleeper of q joins the ready line, in the order they slept.
Broadcast(q) ==
    /\ ready' = ready \o waiting[q]
    /\ waiting' = [waiting EXCEPT ![q] = <<>>]
    /\ UNCHANGED <<running, light>>

\* A cancellation ends a light sleep: the thread leaves the line it stands in
\* for the end of the ready line.  It may stand in the ready line already,
\* woken and not yet run, and then loses its place.  A thread whose sleep is
\* not light is never moved.
Cancel(u) ==
    /\ u \in light \cap Queued
    /\ ready' = Append(Remove(ready, u), u)
    /\ waiting' = [q \in WaitQueues |-> Remove(waiting[q], u)]
    /\ UNCHANGED <<running, light>>

-----------------------------------------------------------------------------
(* The switch: the only step that changes who has the core *)

\* The lines once the running thread has joined the one it chose: the ready
\* line (it yields) or a wait queue (it sleeps, lightly or not).
Yielded == [ready |-> Append(ready, running), waiting |-> waiting, light |-> light]

Asleep(q, l) == [ready |-> ready, waiting |-> [waiting EXCEPT ![q] = Append(@, running)],
                 light |-> IF l THEN light \cup {running} ELSE light]

Stayed == [ready |-> ready, waiting |-> waiting, light |-> light]

\* From the lines L, the thread that waited longest to run gets the core; the
\* core idles when there is none.
Dispatch(L) ==
    /\ waiting' = L.waiting
    /\ \/ /\ L.ready = <<>>
          /\ running' = NULL /\ ready' = <<>> /\ light' = L.light
       \/ /\ L.ready # <<>>
          /\ running' = Head(L.ready) /\ ready' = Tail(L.ready)
          /\ light' = L.light \ {Head(L.ready)}

Switch ==
    \/ /\ running # NULL
       /\ \/ Dispatch(Yielded)
          \/ \E q \in WaitQueues, l \in BOOLEAN : Dispatch(Asleep(q, l))
    \/ /\ running = NULL
       /\ ready # <<>>
       /\ Dispatch(Stayed)

Next ==
    \/ \E u \in Threads : Spawn(u) \/ Cancel(u)
    \/ \E q \in WaitQueues : Wakeup(q) \/ Broadcast(q)
    \/ Switch

Spec == Init /\ [][Next]_vars

=============================================================================
