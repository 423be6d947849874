------------------------------ MODULE Keyboard ------------------------------
(***************************************************************************)
(* The keyboard: the interrupt handler, the ring of key codes that it      *)
(* fills (utils/circlequeue.c), and keyboard_get_key, through which the    *)
(* key thread (test_t1 of init/main.c, its only caller) empties it.        *)
(*                                                                         *)
(* The handler runs with interrupts off and is one action.  The key thread *)
(* runs with interrupts on: it is split wherever the handler can see or    *)
(* disturb what it does.  In particular `queue->used_cnt--' is a load and  *)
(* a store, which is what the compiler makes of it (no -O in the Makefile).*)
(* kbd_lock is uncontended; module KLock is about locks.                   *)
(***************************************************************************)
EXTENDS Integers, Sequences

CONSTANTS
  N,           \* the units of key_board_queue, 128 in the code
  Keyed,       \* the scan codes the keyboard sends, some of ScanCodes
  MaxUnread    \* bound: no further key once this many bytes are unread

VARIABLES
  shift,       \* shift_status
  caps,        \* caps_lock_status
  ext,         \* ext_scancode: the last byte was 0xe0
  data,        \* the ring's bytes
  head, foot,  \* its indices
  used,        \* its used_cnt
  blocked,     \* blocked_thread is set: FALSE is the null pointer
  status,      \* the key thread's task_status
  pc,          \* where the key thread is in keyboard_get_key
  loaded,      \* used_cnt as circlequeue_get has loaded it
  halted,      \* a page fault has stopped the machine (isr_handler)
  unread       \* history: the bytes pushed and not yet read, oldest first

flags == <<shift, caps, ext>>
ring == <<data, head, foot, used>>
vars == <<flags, ring, blocked, status, pc, loaded, halted, unread>>

(* Scan codes, one byte each: the prefix 0xe0, a letter, a digit, shift    *)
(* (0x2a), caps lock, an arrow, and the release of shift and of a letter.  *)
(* After 0xe0 a letter's byte stands for any key that has no E0 form.      *)
ScanCodes == {"E0", "letter", "digit", "shift", "caps", "arrow", "shiftUp", "letterUp"}

ASSUME KeyboardAssumption ==
  N \in Nat \ {0} /\ MaxUnread \in Nat /\ Keyed \subseteq ScanCodes

(* What is pushed: a letter or a digit, plain or shifted, the prefix "\0"  *)
(* of an extended key, and the code of a key that has no character.        *)
Codes == {"a", "A", "1", "!", "prefix", "letter", "digit", "shift", "caps", "arrow"}

Places == {"test", "note", "block", "asleep", "get", "store", "deref"}

TypeOK ==
  /\ shift \in BOOLEAN /\ caps \in BOOLEAN /\ ext \in BOOLEAN
  /\ data \in [0 .. N - 1 -> Codes]
  /\ head \in 0 .. N - 1 /\ foot \in 0 .. N - 1
  /\ used \in 0 .. N
  /\ blocked \in BOOLEAN
  /\ status \in {"READY", "BLOCKED"}
  /\ pc \in Places
  /\ loaded \in 0 .. N
  /\ halted \in BOOLEAN
  /\ unread \in Seq(Codes)

(* keyboard_init, and the key thread about to run *)
Init ==
  /\ shift = FALSE /\ caps = FALSE /\ ext = FALSE
  /\ data \in [0 .. N - 1 -> {"a"}]
  /\ head = 0 /\ foot = 0 /\ used = 0
  /\ blocked = FALSE
  /\ status = "READY"
  /\ pc = "test"
  /\ loaded = 0
  /\ halted = FALSE
  /\ unread = <<>>

----------------------------------------------------------------------------
(***************************************************************************)
(* intr_keyboard_handler                                                   *)
(***************************************************************************)
IsBreak(b) == b \in {"shiftUp", "letterUp"}

(* keymap, and the index itself for a key beyond it *)
CharOf(b) ==
  IF b = "letter" THEN IF shift # caps THEN "A" ELSE "a"
  ELSE IF b = "digit" THEN IF shift THEN "!" ELSE "1"
  ELSE b

(* The codes a make code stands for; <<>> for a key that only sets a flag. *)
CodesOf(b) ==
  IF ext THEN <<"prefix", b>>
  ELSE IF b \in {"shift", "caps"} THEN <<>>
  ELSE <<CharOf(b)>>

(* The handler looks whether the ring is full once, and then pushes; a     *)
(* circlequeue_push that finds it full drops its byte.                     *)
Fits(codes) == SubSeq(codes, 1, IF N - used < Len(codes) THEN N - used ELSE Len(codes))

(* Mutants of PushAll: head is not wrapped; or is advanced before the      *)
(* byte is stored.                                                         *)
PushAllNoWrap(s) ==
  /\ data' = [i \in 0 .. N - 1 |->
                LET k == (i - head) % N IN IF k < Len(s) THEN s[k + 1] ELSE data[i]]
  /\ head' = head + Len(s)
  /\ used' = used + Len(s)
  /\ unread' = unread \o s

PushAllAhead(s) ==
  /\ data' = [i \in 0 .. N - 1 |->
                LET k == (i - head - 1) % N IN IF k < Len(s) THEN s[k + 1] ELSE data[i]]
  /\ head' = (head + Len(s)) % N
  /\ used' = used + Len(s)
  /\ unread' = unread \o s

(* circlequeue_push of the bytes of s, one after the other *)
PushAll(s) ==
  /\ data' = [i \in 0 .. N - 1 |->
                LET k == (i - head) % N IN IF k < Len(s) THEN s[k + 1] ELSE data[i]]
  /\ head' = (head + Len(s)) % N
  /\ used' = used + Len(s)
  /\ unread' = unread \o s

(* thread_wakeup(blocked_thread): a null pointer is a page fault. *)
WakeReader ==
  IF blocked
    THEN status' = "READY" /\ UNCHANGED halted
    ELSE halted' = TRUE /\ UNCHANGED status

(* One key interrupt. *)
KeyInterrupt(b) ==
  LET codes == CodesOf(b)
  IN
  /\ ~halted
  /\ ext' = (b = "E0")
  /\ \/ /\ b = "E0"
        /\ UNCHANGED <<shift, caps, ring, unread, status, halted>>
     \/ /\ IsBreak(b)
        /\ shift' = IF b = "shiftUp" THEN FALSE ELSE shift
        /\ UNCHANGED <<caps, ring, unread, status, halted>>
     \/ /\ b # "E0" /\ ~IsBreak(b) /\ codes = <<>>
        /\ shift' = IF b = "shift" THEN TRUE ELSE shift
        /\ caps' = IF b = "caps" THEN ~caps ELSE caps
        /\ UNCHANGED <<ring, unread, status, halted>>
     \/ /\ b # "E0" /\ ~IsBreak(b) /\ codes # <<>>
        /\ IF used >= N
             THEN UNCHANGED <<ring, unread, status, halted>>
             ELSE /\ Len(unread) + Len(codes) <= MaxUnread
                  /\ PushAll(Fits(codes))
                  /\ WakeReader
                  /\ UNCHANGED foot
        /\ UNCHANGED <<shift, caps>>
  /\ UNCHANGED <<blocked, pc, loaded>>

----------------------------------------------------------------------------
(***************************************************************************)
(* keyboard_get_key, called over and over by the key thread                *)
(***************************************************************************)
Runs == ~halted /\ status = "READY"

(* if(!circlequeue_empty(&key_board_queue)) *)
TestEmpty ==
  /\ Runs /\ pc = "test"
  /\ pc' = IF used = 0 THEN "note" ELSE "get"
  /\ UNCHANGED <<flags, ring, blocked, status, loaded, halted, unread>>

(* blocked_thread=get_running_progress() *)
NoteReader ==
  /\ Runs /\ pc = "note"
  /\ blocked' = TRUE
  /\ pc' = "block"
  /\ UNCHANGED <<flags, ring, status, loaded, halted, unread>>

(* Mutant of BlockReader: the thread is not really switched from. *)
BlockNoSwitch ==
  /\ Runs /\ pc = "block"
  /\ pc' = "asleep"
  /\ UNCHANGED <<flags, ring, blocked, status, loaded, halted, unread>>

(* thread_block, whatever has been pushed since the test *)
BlockReader ==
  /\ Runs /\ pc = "block"
  /\ status' = "BLOCKED"
  /\ pc' = "asleep"
  /\ UNCHANGED <<flags, ring, blocked, loaded, halted, unread>>

(* circlequeue_get up to the load of used_cnt.  It returns 0 for an empty  *)
(* queue, which keyboard_get_key dereferences.                             *)
GetLoad ==
  /\ Runs /\ pc \in {"get", "asleep"}
  /\ IF used = 0
       THEN halted' = TRUE /\ UNCHANGED <<pc, loaded>>
       ELSE pc' = "store" /\ loaded' = used /\ UNCHANGED halted
  /\ UNCHANGED <<flags, ring, blocked, status, unread>>

(* Mutant of GetStore: used_cnt is not decremented. *)
GetNoDecrement ==
  /\ Runs /\ pc = "store"
  /\ foot' = (foot + 1) % N
  /\ pc' = "deref"
  /\ UNCHANGED <<flags, data, head, used, blocked, status, loaded, halted, unread>>

(* The store, and the advance of foot *)
GetStore ==
  /\ Runs /\ pc = "store"
  /\ used' = loaded - 1
  /\ foot' = (foot + 1) % N
  /\ pc' = "deref"
  /\ UNCHANGED <<flags, data, head, blocked, status, loaded, halted, unread>>

(* The slot circlequeue_get has returned is read after it has been freed. *)
Slot == (foot - 1) % N

GetDeref ==
  /\ Runs /\ pc = "deref"
  /\ unread' = Tail(unread)
  /\ pc' = "test"
  /\ UNCHANGED <<flags, ring, blocked, status, loaded, halted>>

Reader == TestEmpty \/ NoteReader \/ BlockReader \/ GetLoad \/ GetStore \/ GetDeref

Next == Reader \/ \E b \in Keyed : KeyInterrupt(b)

Spec == Init /\ [][Next]_vars

----------------------------------------------------------------------------
(***************************************************************************)
(* Properties                                                              *)
(***************************************************************************)

(* keyboard_get_key never dereferences the 0 that circlequeue_get returns  *)
(* for an empty queue, although it does not look again after it was woken  *)
(* and although its decrement of used_cnt can undo the handler's           *)
(* increment: the machine stops only for a key that comes before the key   *)
(* thread has first gone to sleep.                                         *)
NeverWokenForNothing == halted => ~blocked

(* used_cnt never promises a byte that is not there, whatever updates of   *)
(* it are lost: the thread never reads a byte twice.                       *)
UsedNeverAhead ==
  used + (IF pc = "deref" THEN 1 ELSE 0) <= Len(unread)

(* While no more than N bytes are unread they are on the ring in the order *)
(* they were pushed, and the next one to be read is the oldest.            *)
InOrder ==
  LET oldest == IF pc = "deref" THEN Slot ELSE foot
  IN  Len(unread) <= N =>
        \A i \in 1 .. Len(unread) : data[(oldest + i - 1) % N] = unread[i]
=============================================================================
