------------------------------ MODULE MCTtyRead ------------------------------
(***************************************************************************)
(* A terminal of two characters, two threads and the keyboard.             *)
(***************************************************************************)
EXTENDS TtyRead

CONSTANTS t1, t2, rq

TwoThreads == {t1, t2}
ReadQueue == {rq}
OneLetter == {"a"}
OneOrTwoBytes == {1, 2}

=============================================================================
