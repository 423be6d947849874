------------------------------- MODULE Texts -------------------------------
(***************************************************************************)
(* From the shell's printf to the screen: printf of lib/libc writes a      *)
(* buffer of fixed length to a pipe, test_t2 of init/main.c reads it and   *)
(* prints it.  A lock on the tty, which printf closes and test_t2 opens,   *)
(* keeps the shell from changing colours between the two.                  *)
(*                                                                         *)
(* Of the pipe only what Pipe says is kept: bytes come out in the order    *)
(* written as long as nothing is overrun, and a write that the end of the  *)
(* ring divides is two steps.                                              *)
(***************************************************************************)
EXTENDS Integers, Sequences

CONSTANTS
  Colour,     \* what textcolor can ask for
  TextLen,    \* the bytes of printf's buffer, 100
  LogSize,    \* PIPE_SIZE
  MaxTexts    \* bound: texts printed

ASSUME TextsAssumption ==
  /\ TextLen \in Nat \ {0, 1}
  /\ LogSize \in Nat /\ LogSize > TextLen

VARIABLES
  log,      \* the bytes in the pipe: the number of a text, then zeros
  right,    \* the free slot of its ring
  tail,     \* the bytes of a divided write that are still to come
  user,     \* where the shell is: running, wrapping or locking
  drain,    \* where test_t2 is: reading, printing or unlocking
  buf,      \* what it has read
  lock,     \* tty_attr_lock
  colour,   \* vfg
  said,     \* history: the colours the shell printed its texts in
  shown,    \* history: the texts that test_t2 has printed, by number
  missed,   \* history: a text was refused, or read while it was divided
  early,    \* history: the lock was opened with a text still to be read
  mixed     \* history: a text was shown in another colour

textVars == <<log, right, tail, user, drain, buf, lock, colour, said, shown,
              missed, early, mixed>>

TextsInit ==
  /\ log = <<>> /\ right = 1 /\ tail = <<>> /\ user = "running"
  /\ drain = "reading" /\ buf = <<>>
  /\ lock = FALSE /\ colour \in Colour
  /\ said = <<>> /\ shown = <<>>
  /\ missed = FALSE /\ early = FALSE /\ mixed = FALSE

----------------------------------------------------------------------------
(* The buffer of text n: printf clears it first, so that zeros follow. *)
Bytes(n) == [i \in 1 .. TextLen |-> IF i = 1 THEN n ELSE 0]

ToEnd  == LogSize - right
Unread == Len(log)
Room   == LogSize - 1 - Unread

(* printf writes its buffer to the pipe and does not look at what write    *)
(* returns: refused when the pipe is full, or when the ring's end divides  *)
(* the text and the rest does not fit.  A write that goes over unread      *)
(* bytes, as any other that does not fit, is left out.                     *)
Write(s) ==
  \/ /\ TextLen <= Room /\ TextLen <= ToEnd
     /\ log' = log \o s
     /\ right' = (right + TextLen) % LogSize
     /\ user' = "locking" /\ UNCHANGED <<tail, missed>>
  \/ /\ TextLen <= Room /\ TextLen > ToEnd
     /\ log' = log \o SubSeq(s, 1, ToEnd)
     /\ tail' = SubSeq(s, ToEnd + 1, TextLen)
     /\ right' = 0
     /\ user' = "wrapping" /\ UNCHANGED missed
  \/ /\ TextLen > Room /\ (TextLen > ToEnd \/ Room = 0)
     /\ missed' = TRUE
     /\ user' = "locking" /\ UNCHANGED <<log, right, tail>>

Say ==
  /\ user = "running" /\ Len(said) < MaxTexts
  /\ Write(Bytes(Len(said) + 1))
  /\ said' = Append(said, colour)
  /\ UNCHANGED <<drain, buf, lock, colour, shown, early, mixed>>

SayRest ==
  /\ user = "wrapping"
  /\ log' = log \o tail
  /\ right' = Len(tail) /\ tail' = <<>>
  /\ user' = "locking"
  /\ UNCHANGED <<drain, buf, lock, colour, said, shown, missed, early, mixed>>

(* conlock(1) of printf *)
LockAttr ==
  /\ user = "locking"
  /\ lock' = TRUE /\ user' = "running"
  /\ UNCHANGED <<log, right, tail, drain, buf, colour, said, shown, missed, early, mixed>>

(* Mutant of SetColour: the lock is not looked at. *)
SetColourAlways(c) ==
  /\ user = "running" /\ c # colour
  /\ colour' = c
  /\ UNCHANGED <<log, right, tail, user, drain, buf, lock, said, shown, missed, early, mixed>>

(* textcolor: ktty_setattr does nothing when the tty is locked, and        *)
(* textcolor does not tell.                                                *)
SetColour(c) ==
  /\ user = "running" /\ c # colour
  /\ ~lock
  /\ colour' = c
  /\ UNCHANGED <<log, right, tail, user, drain, buf, lock, said, shown, missed, early, mixed>>

----------------------------------------------------------------------------
(* Mutant of Taken: a byte is left room for the final zero. *)
TakenShort == IF Unread < TextLen THEN Unread ELSE TextLen - 1

(* How much test_t2 reads: up to its buffer's length, perhaps nothing *)
Taken == IF Unread < TextLen THEN Unread ELSE TextLen

LogRead ==
  /\ drain = "reading"
  /\ buf' = SubSeq(log, 1, Taken)
  /\ log' = SubSeq(log, Taken + 1, Unread)
  /\ missed' = (missed \/ user = "wrapping")
  /\ drain' = "printing"
  /\ UNCHANGED <<right, tail, user, lock, colour, said, shown, early, mixed>>

(* It prints a string, which ends with the first zero. *)
LogPrint ==
  LET visible == buf # <<>> /\ buf[1] # 0
  IN  /\ drain = "printing"
      /\ shown' = IF visible THEN Append(shown, buf[1]) ELSE shown
      /\ mixed' = (mixed \/ (visible /\ said[buf[1]] # colour))
      /\ drain' = "unlocking" /\ buf' = <<>>
      /\ UNCHANGED <<log, right, tail, user, lock, colour, said, missed, early>>

(* And opens the lock, whether it has printed anything or not. *)
LogUnlock ==
  /\ drain = "unlocking"
  /\ lock' = FALSE
  /\ early' = (early \/ log # <<>>)
  /\ drain' = "reading"
  /\ UNCHANGED <<log, right, tail, user, buf, colour, said, shown, missed, mixed>>

TextsNext ==
  \/ Say \/ SayRest \/ LockAttr
  \/ \E c \in Colour : SetColour(c)
  \/ LogRead \/ LogPrint \/ LogUnlock

TextsSpec == TextsInit /\ [][TextsNext]_textVars
----------------------------------------------------------------------------
(* The texts in a run of bytes that starts with one *)
TextsIn(s) ==
  [i \in 1 .. (Len(s) + TextLen - 1) \div TextLen |-> s[TextLen * (i - 1) + 1]]

(* Every text that the shell prints is shown, once and in order, however   *)
(* the two threads alternate and wherever the ring ends: what is not on    *)
(* the screen is in test_t2's buffer or in the pipe.  It holds until a     *)
(* text is refused, or test_t2 reads one that is half written: the rest    *)
(* then hides the start of a later text.                                   *)
TextsShown ==
  ~missed => shown \o TextsIn(buf) \o TextsIn(log) = [i \in 1 .. Len(said) |-> i]

(* A text is shown in the colour it was printed in, until test_t2 opens    *)
(* the lock for a text that it has not read yet.                           *)
ColourKept == ~early => ~mixed
=============================================================================
