----------------------------- MODULE LineBuffer -----------------------------
(***************************************************************************)
(* What the terminal line discipline promises, said without a circular     *)
(* buffer and taken from the comments of kernel/drivers/tty/ldisc.c: the   *)
(* characters typed since the last end of line are the raw line, which the *)
(* keyboard may still edit; an end of line (LF) or an end of transmission  *)
(* (EOT) cooks the raw line, and readers take cooked characters in the     *)
(* order they were typed, one line at a time.  The terminal holds at most  *)
(* Capacity characters and keeps one place free for the end of a line.     *)
(*                                                                         *)
(* Spec is the contract of those comments.  OrderedSpec asks less of a     *)
(* read: that it takes cooked characters from the front and hands out the  *)
(* oldest of them.  Module Ldisc is checked against both.                  *)
(***************************************************************************)
EXTENDS Integers, Sequences, SequencesExt, FiniteSetsExt

CONSTANTS
    Capacity,       \* how many characters the terminal holds
    Letters,        \* the ordinary characters
    Counts          \* the byte counts a reader may ask for

BS  == "BS"         \* backspace
ETX == "ETX"        \* ctrl-c
LF  == "LF"         \* end of line
EOT == "EOT"        \* ctrl-d

Keys   == Letters \cup {BS, ETX, LF, EOT}
Stored == Letters \cup {LF, EOT}

ASSUME
    /\ Capacity \in Nat \ {0}
    /\ Letters \cap {BS, ETX, LF, EOT} = {}
    /\ Counts \subseteq Nat

VARIABLES
    cooked,         \* the characters a reader may take, oldest first
    raw,            \* the line being typed
    event           \* what the last operation handed to its caller

vars == <<cooked, raw, event>>

KeyEvent(wake) == [op |-> "key", wake |-> wake, buf |-> <<>>]
ReadEvent(buf) == [op |-> "read", wake |-> FALSE, buf |-> buf]

Held == Len(cooked) + Len(raw)

Init ==
    /\ cooked = <<>>
    /\ raw = <<>>
    /\ event = KeyEvent(FALSE)

\* Backspace takes the last character of the raw line, if there is one.
Erase ==
    /\ raw' = IF raw = <<>> THEN raw ELSE Front(raw)
    /\ cooked' = cooked
    /\ event' = KeyEvent(FALSE)

\* A letter joins the raw line while a place stays free for the end of line.
Type(c) ==
    /\ raw' = IF Held < Capacity - 1 THEN Append(raw, c) ELSE raw
    /\ cooked' = cooked
    /\ event' = KeyEvent(FALSE)

\* An end of line or of transmission cooks `line` and wakes a reader, unless
\* the terminal is full; ctrl-c has thrown the raw line away before.
Cook(line, c) ==
    LET room == Len(cooked) + Len(line) < Capacity
    IN  /\ cooked' = IF room THEN cooked \o line \o <<c>> ELSE cooked
        /\ raw' = IF room THEN <<>> ELSE line
        /\ event' = KeyEvent(room)

Key(key) ==
    \/ key = BS /\ Erase
    \/ key \in Letters /\ Type(key)
    \/ key \in {LF, EOT} /\ Cook(raw, key)
    \/ key = ETX /\ Cook(<<>>, LF)

\* The cooked characters before the first end of transmission.
BeforeEOT ==
    LET eots == {i \in DOMAIN cooked : cooked[i] = EOT}
    IN  IF eots = {} THEN Len(cooked) ELSE Min(eots) - 1

\* The cooked characters up to and with the first end of line.
ThroughLF ==
    LET lfs == {i \in DOMAIN cooked : cooked[i] = LF}
    IN  IF lfs = {} THEN Len(cooked) ELSE Min(lfs)

\* "Reads count bytes (at max)": a reader takes at most `count` characters,
\* stops behind an end of line, and never reads across an end of
\* transmission, which it swallows when it stops on it with room to spare.
Read(count) ==
    LET n   == Min({count, BeforeEOT, ThroughLF})
        eat == IF n < count /\ n < Len(cooked) /\ cooked[n + 1] = EOT THEN 1 ELSE 0
    IN  /\ cooked' = SubSeq(cooked, n + eat + 1, Len(cooked))
        /\ raw' = raw
        /\ event' = ReadEvent(SubSeq(cooked, 1, n))

Next ==
    \/ \E key \in Keys : Key(key)
    \/ \E count \in Counts : Read(count)

Spec == Init /\ [][Next]_vars

-----------------------------------------------------------------------------
\* A read of which only the order is promised: it takes `n` cooked
\* characters from the front and hands its caller the first `k` of them, no
\* more than it was asked for.
Take(count) ==
    \E n \in 0 .. Len(cooked), k \in 0 .. Min({count, Len(cooked)}) :
        /\ k <= n
        /\ cooked' = SubSeq(cooked, n + 1, Len(cooked))
        /\ raw' = raw
        /\ event' = ReadEvent(SubSeq(cooked, 1, k))

OrderedNext ==
    \/ \E key \in Keys : Key(key)
    \/ \E count \in Counts : Take(count)

OrderedSpec == Init /\ [][OrderedNext]_vars

=============================================================================
