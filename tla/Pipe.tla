-------------------------------- MODULE Pipe --------------------------------
(***************************************************************************)
(* The byte ring of a pipe, kernel/process/ipc/pipe.c, with one thread     *)
(* that writes and one that reads, such as the key thread and the shell.   *)
(*                                                                         *)
(* left is the slot before the first unread byte, right the first free     *)
(* one; right = left means full.  A write that gets to the end of the ring *)
(* stores right twice, and the reader can run in between: that is two      *)
(* actions.  What a write tests before its first store cannot be spoilt by *)
(* the reader, who only makes room.  pipe_read is one action: a writer     *)
(* that comes between its loads of right is left out here.                 *)
(***************************************************************************)
EXTENDS Integers, Sequences

CONSTANTS
  PipeSize,   \* PIPE_SIZE
  Byte,       \* what can be written
  MaxWrite,   \* bound: the bytes of one write
  MaxRead     \* bound: the bytes asked for by one read

ASSUME PipeAssumption ==
  /\ PipeSize \in Nat \ {0, 1}
  /\ MaxWrite \in 1 .. PipeSize - 1 /\ MaxRead \in Nat \ {0}
  /\ Byte # {}

VARIABLES
  buf,       \* the ring's bytes
  left, right,
  rest,      \* what the write in progress has still to copy
  mid,       \* a write is between its two stores of right
  unread,    \* history: the bytes written and not yet read, oldest first,
             \* up to the first overrun
  overrun,   \* history: a write has gone over unread bytes
  long       \* history: there has been a write of more than one byte

vars == <<buf, left, right, rest, mid, unread, overrun, long>>

Slots == 0 .. PipeSize - 1
Writes == UNION {[1 .. n -> Byte] : n \in 1 .. MaxWrite}

(* create_kpipe *)
Init ==
  /\ buf \in {[i \in Slots |-> b] : b \in Byte}
  /\ left = 0 /\ right = 1
  /\ rest = <<>> /\ mid = FALSE
  /\ unread = <<>>
  /\ overrun = FALSE /\ long = FALSE

----------------------------------------------------------------------------
(* The bytes s are in the ring from slot i on. *)
Copied(s, i) == [k \in Slots |-> IF k - i \in 0 .. Len(s) - 1 THEN s[k - i + 1] ELSE buf[k]]

(* The slot of the i-th unread byte *)
SlotOf(i) == IF left + i < PipeSize THEN left + i ELSE left + i - PipeSize

Recorded(bytes) == IF overrun' THEN <<>> ELSE bytes

(* Mutant of Full: the pipe is never full. *)
FullNever == FALSE

Full == right = left

ToEnd == PipeSize - right

(* pipe_write of bytes that fit before the end of the ring.  Nothing       *)
(* compares them with left.                                                *)
WriteAhead(s) ==
  /\ ~mid /\ ~Full /\ Len(s) <= ToEnd
  /\ buf' = Copied(s, right)
  /\ right' = right + Len(s)
  /\ mid' = (right + Len(s) = PipeSize)
  /\ overrun' = (overrun \/ (right <= left /\ right + Len(s) > left))
  /\ unread' = Recorded(unread \o s)
  /\ long' = (long \/ Len(s) > 1)
  /\ UNCHANGED <<left, rest>>

(* pipe_write of bytes that do not, if there is room at the start          *)
WriteRound(s) ==
  /\ ~mid /\ ~Full /\ Len(s) > ToEnd
  /\ right >= left
  /\ left >= Len(s) - ToEnd
  /\ UNCHANGED overrun
  /\ LET tail == SubSeq(s, 1, ToEnd)
     IN  buf' = Copied(tail, right) /\ unread' = Recorded(unread \o tail)
  /\ right' = 0
  /\ rest' = SubSeq(s, ToEnd + 1, Len(s))
  /\ mid' = TRUE
  /\ long' = (long \/ Len(s) > 1)
  /\ UNCHANGED left

(* Mutant of WriteEnd: an index that has got to the end stays there. *)
WriteEndStays ==
  /\ mid
  /\ buf' = Copied(rest, 0)
  /\ right' = IF rest = <<>> THEN right ELSE Len(rest)
  /\ UNCHANGED <<left, overrun, long>>
  /\ unread' = Recorded(unread \o rest)
  /\ rest' = <<>> /\ mid' = FALSE

(* The rest of either: right is set back to 0, or the remaining bytes are  *)
(* copied to the start.                                                    *)
WriteEnd ==
  /\ mid
  /\ buf' = Copied(rest, 0)
  /\ right' = Len(rest)
  /\ UNCHANGED <<left, overrun, long>>
  /\ unread' = Recorded(unread \o rest)
  /\ rest' = <<>> /\ mid' = FALSE

----------------------------------------------------------------------------
(* What pipe_read takes for the number of unread bytes *)
Unread ==
  IF right > left THEN right - left - 1 ELSE PipeSize - left - 1 + right

(* Mutant of LeftAfter: the slot after the last byte that was read. *)
LeftAfterNext(n) ==
  IF right > left \/ n <= PipeSize - left - 1 THEN left + n
  ELSE n - (PipeSize - left - 1)

LeftAfter(n) ==
  IF right > left \/ n <= PipeSize - left - 1 THEN left + n
  ELSE n - (PipeSize - left - 1) - 1

(* pipe_read of up to n bytes *)
Read(n) ==
  LET got == IF n > Unread THEN Unread ELSE n
  IN  /\ left' = LeftAfter(got)
      /\ UNCHANGED <<buf, right, rest, mid, overrun, long>>
      /\ unread' = Recorded(SubSeq(unread, got + 1, Len(unread)))

Next ==
  \/ \E s \in Writes : WriteAhead(s) \/ WriteRound(s)
  \/ WriteEnd
  \/ \E n \in 1 .. MaxRead : Read(n)

Spec == Init /\ [][Next]_vars
----------------------------------------------------------------------------
(* Both indices stay in the ring, whatever has been overwritten; right     *)
(* leaves it only inside a write.                                          *)
TypeOK ==
  /\ buf \in [Slots -> Byte]
  /\ left \in Slots
  /\ right \in 0 .. PipeSize
  /\ right = PipeSize => mid
  /\ rest \in Seq(Byte) /\ unread \in Seq(Byte)
  /\ mid \in BOOLEAN /\ overrun \in BOOLEAN /\ long \in BOOLEAN

(* As long as no write has gone over unread bytes, a read gets all and     *)
(* only the bytes that were written, in order, wherever the ring wraps and *)
(* even in the middle of a write.                                          *)
InOrder ==
  ~overrun =>
    /\ Unread = Len(unread)
    /\ \A i \in 1 .. Len(unread) : buf[SlotOf(i)] = unread[i]

(* "return VFS_FULL_ERR;//Full": a pipe that is written a byte at a time,  *)
(* as the key thread does, refuses what it has no room for.                *)
BytesNeverOverrun == overrun => long
=============================================================================
