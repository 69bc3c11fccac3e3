------------------------------- MODULE MCLdisc -------------------------------
(***************************************************************************)
(* The line discipline for TLC: a buffer of four characters, two letters   *)
(* so that a character out of order shows, and the byte counts a reader    *)
(* may pass.                                                               *)
(***************************************************************************)
EXTENDS Ldisc

TwoLetters == {"a", "b"}

\* Reads that ask for at least one byte, up to more than the buffer holds.
SomeBytes == 1 .. 5

\* The same with the read of no bytes.
AnyBytes == 0 .. 5

=============================================================================
