----------------------------- MODULE FifoMutex -----------------------------
(***************************************************************************)
(* What a kernel lock promises to the threads that use it: it is held by   *)
(* one thread at a time, as often nested as that thread asked for it, and  *)
(* it is granted in the order in which it was asked for.                   *)
(***************************************************************************)
EXTENDS Naturals, Sequences

CONSTANT Thread

VARIABLES
  queue,    \* the threads that have asked for the lock; the first one owns it
  inside,   \* the threads whose lock_acquire has returned
  nested    \* how often the owner has asked for the lock again

avars == <<queue, inside, nested>>

AInit == queue = <<>> /\ inside = {} /\ nested = 0

Asked(t) == \E i \in 1 .. Len(queue) : queue[i] = t

(* The thread asks for the lock, and may enter at once if it is first. *)
Ask(t) ==
  /\ ~Asked(t)
  /\ queue' = Append(queue, t)
  /\ inside' = IF queue = <<>> THEN {t} ELSE inside
  /\ UNCHANGED nested

(* The owner asks again. *)
AskAgain(t) ==
  /\ t \in inside
  /\ nested' = nested + 1
  /\ UNCHANGED <<queue, inside>>

(* The owner's lock_acquire returns. *)
Enter(t) ==
  /\ queue # <<>> /\ Head(queue) = t
  /\ inside' = inside \cup {t}
  /\ UNCHANGED <<queue, nested>>

(* The owner gives up one nesting, or the lock. *)
Leave(t) ==
  /\ t \in inside
  /\ \/ /\ nested > 0
        /\ nested' = nested - 1
        /\ UNCHANGED <<queue, inside>>
     \/ /\ nested = 0
        /\ queue' = Tail(queue)
        /\ inside' = inside \ {t}
        /\ UNCHANGED nested

ANext == \E t \in Thread : Ask(t) \/ AskAgain(t) \/ Enter(t) \/ Leave(t)

ASpec == AInit /\ [][ANext]_avars
=============================================================================
