-------------------------------- MODULE Ldisc --------------------------------
(***************************************************************************)
(* The terminal line discipline of kernel/drivers/tty/ldisc.c: a circular  *)
(* buffer of LDISC_BUFFER_SIZE characters with three indices.  Characters  *)
(* from ldisc_tail up to ldisc_cooked are cooked (a reader may take them), *)
(* those from ldisc_cooked up to ldisc_head are the raw line the keyboard  *)
(* is still editing; ldisc_full tells a full buffer from an empty one.     *)
(*                                                                         *)
(* The operations are functions of the ldisc_t record, so that module      *)
(* TtyRead can run them from a thread and from the keyboard interrupt.     *)
(* Here each is one step: the terminal driver calls ldisc_read with the    *)
(* keyboard interrupt masked.  What is echoed to the virtual terminal is   *)
(* left out.                                                               *)
(***************************************************************************)
EXTENDS Integers, Sequences

CONSTANTS
    LDISC_BUFFER_SIZE,  \* the size of the circular buffer, a power of two
    Letters,            \* the ordinary characters
    Counts              \* the byte counts ldisc_read is called with

BS  == "BS"
ETX == "ETX"
LF  == "LF"
EOT == "EOT"
NUL == "NUL"            \* what memset leaves in the buffer

Keys   == Letters \cup {BS, ETX, LF, EOT}
Stored == Letters \cup {LF, EOT}
Index  == 0 .. LDISC_BUFFER_SIZE - 1

ASSUME
    /\ LDISC_BUFFER_SIZE \in {2, 4, 8}
    /\ Letters \cap {BS, ETX, LF, EOT, NUL} = {}
    /\ Counts \subseteq Nat

VARIABLES
    ldisc,          \* the ldisc_t
    event           \* what the last operation handed to its caller

ldiscVars == <<ldisc, event>>

MOD_POW_2(x) == x % LDISC_BUFFER_SIZE

ldisc_init ==
    [ldisc_head |-> 0, ldisc_tail |-> 0, ldisc_cooked |-> 0,
     ldisc_full |-> FALSE, ldisc_buffer |-> [i \in Index |-> NUL]]

\* The condition ldisc_wait_read sleeps on and ldisc_read returns 0 on.
NoChars(L) == L.ldisc_tail = L.ldisc_cooked /\ ~L.ldisc_full

\* A fault of NextIndex: the index leaves the buffer instead of wrapping.
NextIndex_nowrap(i) == i + 1

NextIndex(i) == MOD_POW_2(i + 1)

Backspace(L) ==
    IF L.ldisc_cooked # L.ldisc_head
    THEN [L EXCEPT !.ldisc_head = MOD_POW_2(@ - 1)] ELSE L

\* A fault of AlmostFull: the last place is not kept for the end of a line.
AlmostFull_never(L) == FALSE

AlmostFull(L) == NextIndex(L.ldisc_head) = L.ldisc_tail

\* The character goes in at ldisc_head; an end of line cooks what is there.
Store(L, c) ==
    LET head == NextIndex(L.ldisc_head)
    IN  [L EXCEPT !.ldisc_buffer[L.ldisc_head] = c,
                  !.ldisc_head = head,
                  !.ldisc_full = (head = L.ldisc_tail),
                  !.ldisc_cooked = IF c \in {LF, EOT} THEN head ELSE @]

\* ldisc_key_pressed: the record it leaves and whether it called
\* sched_wakeup_on.  Ctrl-c drops the raw line and goes on as an end of line.
ldisc_key_pressed(L, key) ==
    LET K == IF key = ETX THEN [L EXCEPT !.ldisc_head = L.ldisc_cooked] ELSE L
        c == IF key = ETX THEN LF ELSE key
    IN  CASE key = BS -> [L |-> Backspace(L), wake |-> FALSE]
          [] key # BS /\ (K.ldisc_full \/ (AlmostFull(K) /\ c \notin {LF, EOT}))
                      -> [L |-> K, wake |-> FALSE]
          [] OTHER    -> [L |-> Store(K, c), wake |-> c \in {LF, EOT}]

\* The copy loop of ldisc_read with `buf` filled so far.
RECURSIVE ReadLoop(_, _, _)
ReadLoop(L, buf, count) ==
    LET c == L.ldisc_buffer[L.ldisc_tail]
        M == [L EXCEPT !.ldisc_tail = NextIndex(@)]
    IN  CASE Len(buf) >= count -> [L |-> L, buf |-> buf]
          [] Len(buf) < count /\ c = EOT -> [L |-> M, buf |-> buf]
          [] Len(buf) < count /\ c # EOT /\ M.ldisc_tail = M.ldisc_cooked
                               -> [L |-> M, buf |-> Append(buf, c)]
          [] OTHER             -> ReadLoop(M, Append(buf, c), count)

\* A fault of ldisc_read: the full flag survives the read.
ldisc_read_keepfull(L, count) ==
    IF NoChars(L) THEN [L |-> L, buf |-> <<>>] ELSE ReadLoop(L, <<>>, count)

\* ldisc_read: the record it leaves and the bytes it copied out.
ldisc_read(L, count) ==
    IF NoChars(L)
    THEN [L |-> L, buf |-> <<>>]
    ELSE LET R == ReadLoop(L, <<>>, count)
         IN  [L |-> [R.L EXCEPT !.ldisc_full = FALSE], buf |-> R.buf]

\* The characters of the buffer from index `from`, `len` of them.
Chars(L, from, len) == [i \in 1 .. len |-> L.ldisc_buffer[MOD_POW_2(from + i - 1)]]

\* A fault of ldisc_get_current_line_raw: the second copy starts a place late.
ldisc_get_current_line_raw_late(L) ==
    LET head == L.ldisc_head
        cooked == L.ldisc_cooked
    IN  CASE MOD_POW_2(head - cooked) = 0 -> <<>>
          [] head > cooked -> Chars(L, cooked, head - cooked)
          [] OTHER -> Chars(L, cooked, LDISC_BUFFER_SIZE - cooked) \o Chars(L, 1, head)

\* ldisc_get_current_line_raw: one memcpy when the raw line is contiguous,
\* two when it wraps.
ldisc_get_current_line_raw(L) ==
    LET head == L.ldisc_head
        cooked == L.ldisc_cooked
    IN  CASE MOD_POW_2(head - cooked) = 0 -> <<>>
          [] head > cooked -> Chars(L, cooked, head - cooked)
          [] OTHER -> Chars(L, cooked, LDISC_BUFFER_SIZE - cooked) \o Chars(L, 0, head)

-----------------------------------------------------------------------------
KeyEvent(wake) == [op |-> "key", wake |-> wake, buf |-> <<>>]
ReadEvent(buf) == [op |-> "read", wake |-> FALSE, buf |-> buf]

LdiscInit ==
    /\ ldisc = ldisc_init
    /\ event = KeyEvent(FALSE)

\* The keyboard interrupt delivers a key.
LdiscKeyPressed(key) ==
    LET R == ldisc_key_pressed(ldisc, key)
    IN  /\ ldisc' = R.L
        /\ event' = KeyEvent(R.wake)

\* A reader that holds the terminal calls ldisc_read.
LdiscRead(count) ==
    LET R == ldisc_read(ldisc, count)
    IN  /\ ldisc' = R.L
        /\ event' = ReadEvent(R.buf)

LdiscNext ==
    \/ \E key \in Keys : LdiscKeyPressed(key)
    \/ \E count \in Counts : LdiscRead(count)

LdiscSpec == LdiscInit /\ [][LdiscNext]_ldiscVars

-----------------------------------------------------------------------------
\* The cooked and the raw characters, oldest first.
CookedChars(L) ==
    Chars(L, L.ldisc_tail,
          IF L.ldisc_full THEN LDISC_BUFFER_SIZE
          ELSE MOD_POW_2(L.ldisc_cooked - L.ldisc_tail))

RawChars(L) == Chars(L, L.ldisc_cooked, MOD_POW_2(L.ldisc_head - L.ldisc_cooked))

LdiscTypeOK ==
    /\ ldisc \in [ldisc_head : Index, ldisc_tail : Index, ldisc_cooked : Index,
                  ldisc_full : BOOLEAN,
                  ldisc_buffer : [Index -> Stored \cup {NUL}]]
    /\ event.op \in {"key", "read"}
    /\ event.wake \in BOOLEAN
    /\ event.buf \in Seq(Stored)

\* What ldisc_get_current_line_raw copies with its one or two memcpy calls
\* is the raw line: the characters typed since the last end of line that
\* were not erased, in the order they were typed.
RawLineIsRaw == ldisc_get_current_line_raw(ldisc) = RawChars(ldisc)

Abstract ==
    INSTANCE LineBuffer WITH Capacity <- LDISC_BUFFER_SIZE,
                             cooked <- CookedChars(ldisc),
                             raw <- RawChars(ldisc)

\* The line discipline implements the terminal its comments describe
\* (LineBuffer!Spec): with its indices, its wrap-around and its full flag,
\* ldisc_key_pressed and ldisc_read do to the cooked and the raw characters
\* what typing and reading a line do to two sequences.  The comment of
\* ldisc_read: "If you encounter a new line symbol before you have read
\* count bytes, you should stop copying and return the bytes read until now".
ImplementsLineBuffer == Abstract!Spec

\* Whatever ldisc_read takes, the order of the terminal is kept
\* (LineBuffer!OrderedSpec): ldisc_key_pressed cooks, erases, refuses and
\* wakes as the comments say, also on a full buffer and across the wrap of
\* the indices, and ldisc_read hands out the oldest cooked characters in the
\* order they were typed, never a raw one, never one twice and never more
\* than count.
KeepsTypedOrder == Abstract!OrderedSpec

\* Cooked characters leave the buffer only into a reader's bytes (the
\* comment of ldisc_read: it "reads count bytes (at max)" and returns how
\* many): after a step the cooked characters are the old ones with new ones
\* behind them, or the old ones less the bytes a read returned and an end of
\* transmission it stopped on.
ReadTakesWhatItReturns ==
    [][LET old == CookedChars(ldisc)
           new == CookedChars(ldisc')
       IN  \/ \E k \in 0 .. Len(new) : old = SubSeq(new, 1, k)
           \/ old = event'.buf \o new
           \/ old = event'.buf \o <<EOT>> \o new]_ldiscVars

\* The comment of ldisc_read: "If you encounter a new line symbol before you
\* have read count bytes, you should stop copying and return the bytes read
\* until now" - the bytes of one read never go past an end of line.
ReadStopsAtNewline ==
    \A i \in 1 .. Len(event.buf) - 1 : event.buf[i] # LF

=============================================================================
