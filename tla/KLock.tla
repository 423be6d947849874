------------------------------- MODULE KLock -------------------------------
(***************************************************************************)
(* The sleeping lock of kernel/process/sync.c: re-entrant, with a FIFO     *)
(* wait list, handed to the first waiter by lock_release.                  *)
(*                                                                         *)
(* lock_acquire and lock_release run with interrupts off; what they leave  *)
(* to other threads is the wait inside thread_block, so each is one action *)
(* up to that point.  When the scheduler gives the processor to a READY    *)
(* thread is its own business (module Sched): here any thread that is not  *)
(* BLOCKED may take the next step.                                         *)
(***************************************************************************)
EXTENDS Naturals, Sequences

CONSTANTS
  Thread,     \* the threads that use the lock
  NoThread,   \* the null pointer
  MaxNest     \* bound: how deep lock_acquire is nested

ASSUME KLockAssumption == NoThread \notin Thread /\ MaxNest \in Nat \ {0}

VARIABLES
  holder,     \* holder_task
  repeat,     \* repeat_ref_count
  waitList,   \* wait_list, the TCBs linked by their lock_tag
  status,     \* task_status: READY (or RUNNING), or BLOCKED
  pc,         \* "out", "waiting" inside lock_acquire, or "in"
  depth       \* how many calls of lock_acquire the thread has not yet released

vars == <<holder, repeat, waitList, status, pc, depth>>

Elements(s) == {s[i] : i \in 1 .. Len(s)}

TypeOK ==
  /\ holder \in Thread \cup {NoThread}
  /\ repeat \in Nat
  /\ waitList \in Seq(Thread)
  /\ status \in [Thread -> {"READY", "BLOCKED"}]
  /\ pc \in [Thread -> {"out", "waiting", "in"}]
  /\ depth \in [Thread -> 0 .. MaxNest]

(* lock_init *)
Init ==
  /\ holder = NoThread
  /\ repeat = 0
  /\ waitList = <<>>
  /\ status = [t \in Thread |-> "READY"]
  /\ pc = [t \in Thread |-> "out"]
  /\ depth = [t \in Thread |-> 0]

----------------------------------------------------------------------------
Runs(t) == status[t] = "READY"

(* lock_acquire by the thread that holds the lock *)
AcquireAgain(t) ==
  /\ Runs(t) /\ pc[t] = "in" /\ depth[t] < MaxNest
  /\ holder = t
  /\ repeat' = repeat + 1
  /\ depth' = [depth EXCEPT ![t] = @ + 1]
  /\ UNCHANGED <<holder, waitList, status, pc>>

(* lock_acquire of a free lock *)
AcquireFree(t) ==
  /\ Runs(t) /\ pc[t] = "out"
  /\ holder = NoThread
  /\ holder' = t
  /\ pc' = [pc EXCEPT ![t] = "in"]
  /\ depth' = [depth EXCEPT ![t] = 1]
  /\ UNCHANGED <<repeat, waitList, status>>

(* Mutant of AcquireHeld: the waiter goes to the front of the list. *)
AcquireHeldFront(t) ==
  /\ Runs(t) /\ pc[t] = "out"
  /\ holder \notin {NoThread, t}
  /\ waitList' = <<t>> \o waitList
  /\ status' = [status EXCEPT ![t] = "BLOCKED"]
  /\ pc' = [pc EXCEPT ![t] = "waiting"]
  /\ UNCHANGED <<holder, repeat, depth>>

(* lock_acquire of another thread's lock, up to the switch in thread_block *)
AcquireHeld(t) ==
  /\ Runs(t) /\ pc[t] = "out"
  /\ holder \notin {NoThread, t}
  /\ waitList' = Append(waitList, t)
  /\ status' = [status EXCEPT ![t] = "BLOCKED"]
  /\ pc' = [pc EXCEPT ![t] = "waiting"]
  /\ UNCHANGED <<holder, repeat, depth>>

(* Mutants of Resume: an `if' in place of the `while'; or list_append      *)
(* inside the loop.                                                        *)
ResumeOnce(t) ==
  /\ Runs(t) /\ pc[t] = "waiting"
  /\ pc' = [pc EXCEPT ![t] = "in"]
  /\ depth' = [depth EXCEPT ![t] = 1]
  /\ UNCHANGED <<holder, repeat, waitList, status>>

ResumeAppends(t) ==
  /\ Runs(t) /\ pc[t] = "waiting"
  /\ holder # t
  /\ waitList' = Append(waitList, t)
  /\ status' = [status EXCEPT ![t] = "BLOCKED"]
  /\ UNCHANGED <<holder, repeat, pc, depth>>

(* The thread runs again inside lock_acquire: `while(holder_task!=now)'. *)
Resume(t) ==
  /\ Runs(t) /\ pc[t] = "waiting"
  /\ \/ /\ holder = t
        /\ pc' = [pc EXCEPT ![t] = "in"]
        /\ depth' = [depth EXCEPT ![t] = 1]
        /\ UNCHANGED status
     \/ /\ holder # t
        /\ status' = [status EXCEPT ![t] = "BLOCKED"]
        /\ UNCHANGED <<pc, depth>>
  /\ UNCHANGED <<holder, repeat, waitList>>

(* lock_release that only ends a nested lock_acquire *)
ReleaseNested(t) ==
  /\ Runs(t) /\ pc[t] = "in"
  /\ holder = t /\ repeat # 0
  /\ repeat' = repeat - 1
  /\ depth' = [depth EXCEPT ![t] = @ - 1]
  /\ UNCHANGED <<holder, waitList, status, pc>>

(* Mutants of ReleaseLast: the new holder is not woken; repeat_ref_count   *)
(* is not looked at; or the waiter is woken but not made the holder.       *)
ReleaseNoWakeup(t) ==
  /\ Runs(t) /\ pc[t] = "in"
  /\ holder = t /\ repeat = 0
  /\ holder' = IF waitList = <<>> THEN NoThread ELSE Head(waitList)
  /\ waitList' = IF waitList = <<>> THEN <<>> ELSE Tail(waitList)
  /\ pc' = [pc EXCEPT ![t] = "out"]
  /\ depth' = [depth EXCEPT ![t] = 0]
  /\ UNCHANGED <<repeat, status>>

ReleaseAll(t) ==
  /\ Runs(t) /\ pc[t] = "in"
  /\ holder = t
  /\ waitList = <<>>
  /\ holder' = NoThread
  /\ pc' = [pc EXCEPT ![t] = "out"]
  /\ depth' = [depth EXCEPT ![t] = 0]
  /\ UNCHANGED <<repeat, waitList, status>>

ReleaseNoGrant(t) ==
  /\ Runs(t) /\ pc[t] = "in"
  /\ holder = t /\ repeat = 0
  /\ holder' = NoThread
  /\ waitList' = IF waitList = <<>> THEN <<>> ELSE Tail(waitList)
  /\ status' = IF waitList = <<>> THEN status
                                  ELSE [status EXCEPT ![Head(waitList)] = "READY"]
  /\ pc' = [pc EXCEPT ![t] = "out"]
  /\ depth' = [depth EXCEPT ![t] = 0]
  /\ UNCHANGED repeat

(* lock_release that frees the lock, or hands it to the first waiter and   *)
(* wakes it up                                                             *)
ReleaseLast(t) ==
  /\ Runs(t) /\ pc[t] = "in"
  /\ holder = t /\ repeat = 0
  /\ \/ /\ waitList = <<>>
        /\ holder' = NoThread
        /\ UNCHANGED <<waitList, status>>
     \/ /\ waitList # <<>>
        /\ holder' = Head(waitList)
        /\ waitList' = Tail(waitList)
        /\ status' = [status EXCEPT ![Head(waitList)] = "READY"]
  /\ pc' = [pc EXCEPT ![t] = "out"]
  /\ depth' = [depth EXCEPT ![t] = 0]
  /\ UNCHANGED repeat

(* thread_block inside the critical section: keyboard_get_key waits for a  *)
(* key without giving up kbd_lock.                                         *)
BlockInside(t) ==
  /\ Runs(t) /\ pc[t] = "in"
  /\ status' = [status EXCEPT ![t] = "BLOCKED"]
  /\ UNCHANGED <<holder, repeat, waitList, pc, depth>>

(* thread_wakeup by somebody who knows nothing of the lock, such as the    *)
(* keyboard interrupt, which never forgets the thread that waited for a    *)
(* key last.  A waiter must survive it: the loop in lock_acquire is there  *)
(* because somebody may "wake up a blocked thread" that "is blocked by the *)
(* lock".                                                                  *)
StrayWakeup(t) ==
  /\ status[t] = "BLOCKED"
  /\ status' = [status EXCEPT ![t] = "READY"]
  /\ UNCHANGED <<holder, repeat, waitList, pc, depth>>

Acquire(t) == AcquireAgain(t) \/ AcquireFree(t) \/ AcquireHeld(t)

Next ==
  \E t \in Thread :
    \/ Acquire(t) \/ Resume(t) \/ ReleaseNested(t) \/ ReleaseLast(t)
    \/ BlockInside(t) \/ StrayWakeup(t)

Spec == Init /\ [][Next]_vars

----------------------------------------------------------------------------
(***************************************************************************)
(* Properties                                                              *)
(***************************************************************************)

(* A thread whose lock_acquire has returned is the holder, so no two       *)
(* threads are between lock_acquire and lock_release at once: not even     *)
(* after a stray wake-up of a waiter.                                      *)
HolderInside == \A t \in Thread : pc[t] = "in" => holder = t

(* The wait list names exactly the threads that wait for the lock and have *)
(* not been given it, each of them once: a list_append must not put a TCB  *)
(* whose lock_tag is on the list there again.                              *)
WaitersListed ==
  /\ Elements(waitList) = {t \in Thread : pc[t] = "waiting" /\ holder # t}
  /\ \A i, j \in 1 .. Len(waitList) : waitList[i] = waitList[j] => i = j

(* No wake-up is lost: a waiter that has been given the lock is not left   *)
(* BLOCKED, and a free lock has nobody waiting.                            *)
NoLostGrant ==
  /\ \A t \in Thread : pc[t] = "waiting" /\ holder = t => status[t] = "READY"
  /\ holder = NoThread => waitList = <<>>

(* The nesting count is that of the holder: when the holder has released   *)
(* as often as it acquired, the lock goes to the next thread, not before.  *)
NestingCounted ==
  IF holder \in Thread /\ pc[holder] = "in" THEN repeat = depth[holder] - 1
                                            ELSE repeat = 0

(* The lock implements a re-entrant mutex that is granted first come,      *)
(* first served.                                                           *)
Mutex == INSTANCE FifoMutex WITH
           queue  <- IF holder = NoThread THEN <<>> ELSE <<holder>> \o waitList,
           inside <- {t \in Thread : pc[t] = "in"},
           nested <- repeat

ImplementsMutex == Mutex!ASpec
=============================================================================
