------------------------------- MODULE MCProc -------------------------------
(* The process supervisor for model checking: the process slots are the    *)
(* threads of module Sched, each with its wait queue, and one more wait    *)
(* queue stands for the read queue of a terminal.                          *)
EXTENDS Proc

CONSTANTS p1, p2, p3, p4, tty, f1, f2, root, dir

Procs2 == {p1, p2}
Procs3 == {p1, p2, p3}
Procs4 == {p1, p2, p3, p4}
WaitQueues2 == Procs2 \cup {tty}
WaitQueues3 == Procs3 \cup {tty}
WaitQueues4 == Procs4 \cup {tty}

\* The slab hands out any free object: every slot is like every other, and
\* the configurations that check safety say so with SYMMETRY.
AnyObject(S) == S

\* The slab hands out one free object, the same for the same free ones.  What
\* is left out are behaviours that differ from one kept only in which slot
\* holds which process: the configurations that check liveness, where TLC
\* cannot use SYMMETRY, use this.
OneObject(S) == IF S = {} THEN {} ELSE {CHOOSE u \in S : TRUE}

ProcSymmetry2 == Permutations(Procs2)
ProcSymmetry3 == Permutations(Procs3)
=============================================================================
