------------------------------- MODULE Sched -------------------------------
(***************************************************************************)
(* The thread scheduler of kernel/process/task.c and the timer interrupt   *)
(* of kernel/hardware/timer.c that drives it.                              *)
(*                                                                         *)
(* Every TCB sits on one circular, singly linked ring.  schedule() walks   *)
(* the ring from the running thread, wakes the sleepers whose time has     *)
(* come, and switches to the first READY thread it meets.  A TCB never     *)
(* leaves the ring: a thread that exits stays there as DIED.               *)
(*                                                                         *)
(* One processor.  A section between _IO_ATOMIC_IN and _IO_ATOMIC_OUT runs *)
(* with interrupts off and is one action; anything else is split where the *)
(* timer may strike.  Which system call the running thread makes next is   *)
(* the program's choice.                                                   *)
(***************************************************************************)
EXTENDS Integers, FiniteSets

CONSTANTS
  Thread,      \* every TCB that may ever exist
  Main,        \* main_TCB, the boot thread: it ends in while(1) and never blocks
  KThread,     \* the threads create_kern_thread makes (key and pipe threads)
  NoThread,    \* the null pointer
  TimeCont,    \* TIME_CONT, the ticks in a time slice
  TickMod,     \* the modulus of the tick counter, 2^32 in the code
  SleepTimes   \* the arguments user_sleep is called with

ASSUME SchedAssumption ==
  /\ Main \in Thread
  /\ KThread \subseteq Thread \ {Main}
  /\ NoThread \notin Thread
  /\ TimeCont \in Nat
  /\ TickMod \in Nat \ {0}
  /\ SleepTimes \subseteq Nat

VARIABLES
  status,      \* task_status of every TCB; "NONE": not created yet
  next,        \* the ring
  cur,         \* cur_tcb
  timeLeft,    \* cur_tcb->time_left (a switch resets it for the thread it picks)
  ticks,       \* the tick counter of timer.c
  ticksCnt,    \* ticks_cnt: when the thread went to sleep, 0 for "not sleeping"
  sleepTime,   \* sleep_time
  parent,      \* parent_thread
  pc           \* where the thread is: see Places

vars == <<status, next, cur, timeLeft, ticks, ticksCnt, sleepTime, parent, pc>>

Status == {"NONE", "RUNNING", "READY", "BLOCKED", "WAITING", "DIED"}

(* run: user code or the rest of the kernel.  stamped: in user_sleep, the  *)
(* stamp is taken and thread_block not yet called.  asleep: in user_sleep's*)
(* thread_block.  blocked: in a thread_block of another caller, a lock, the*)
(* keyboard or a pipe reader.                                              *)
Places == {"run", "stamped", "asleep", "blocked"}

Created == {t \in Thread : status[t] # "NONE"}

TypeOK ==
  /\ status \in [Thread -> Status]
  /\ next \in [Thread -> Thread \cup {NoThread}]
  /\ cur \in Thread
  /\ timeLeft \in 0 .. TimeCont
  /\ ticks \in 0 .. TickMod - 1
  /\ ticksCnt \in [Thread -> 0 .. TickMod - 1]
  /\ sleepTime \in [Thread -> SleepTimes \cup {0}]
  /\ parent \in [Thread -> Thread \cup {NoThread}]
  /\ pc \in [Thread -> Places]

(* threads_init: the boot thread alone on the ring. *)
Init ==
  /\ status = [t \in Thread |-> IF t = Main THEN "RUNNING" ELSE "NONE"]
  /\ next = [t \in Thread |-> IF t = Main THEN Main ELSE NoThread]
  /\ cur = Main
  /\ timeLeft = TimeCont
  /\ ticks = 0
  /\ ticksCnt = [t \in Thread |-> 0]
  /\ sleepTime = [t \in Thread |-> 0]
  /\ parent = [t \in Thread |-> NoThread]
  /\ pc = [t \in Thread |-> "run"]

----------------------------------------------------------------------------
(***************************************************************************)
(* schedule()                                                              *)
(***************************************************************************)

(* Mutant of Due: the times are compared as signed numbers, so that a      *)
(* sleep across the wrap of the counter is misjudged.                      *)
DueSigned(t, st, now) ==
  /\ st[t] = "BLOCKED"
  /\ ticksCnt[t] # 0
  /\ now - ticksCnt[t] >= sleepTime[t]

(* Is a thread that the probe passes over a sleeper whose time has come?   *)
Due(t, st, now) ==
  /\ st[t] = "BLOCKED"
  /\ ticksCnt[t] # 0
  /\ (now - ticksCnt[t]) % TickMod >= sleepTime[t]

(* Mutant of Walk: the probe starts at main_TCB. *)
WalkFromMain(S, q, st, nx) ==
  IF cur # Main /\ st[Main] = "READY" THEN S = {} /\ q = Main
  ELSE /\ cur \notin S /\ q \notin S
       /\ nx[cur] \in S \cup {q}
       /\ \A s \in S : st[s] # "READY" /\ nx[s] \in S \cup {q}
       /\ q = cur \/ st[q] = "READY"

(* The probe leaves cur on the ring nx, passes over exactly the threads of *)
(* S, none of them READY, and stops at q: a READY thread, or cur itself    *)
(* after a whole turn.                                                     *)
Walk(S, q, st, nx) ==
  /\ cur \notin S /\ q \notin S
  /\ nx[cur] \in S \cup {q}
  /\ \A s \in S : st[s] # "READY" /\ nx[s] \in S \cup {q}
  /\ q = cur \/ st[q] = "READY"

(* Mutant of StatusAfter: the thread switched from is not put back.        *)
StatusAfterNotBack(S, q, st, now) ==
  [t \in Thread |->
    IF t \in S /\ Due(t, st, now) THEN "READY"
    ELSE IF t = q THEN "RUNNING" ELSE st[t]]

(* The statuses a call of schedule() leaves.  A whole turn leaves a        *)
(* runnable cur as it is, and makes any other cur RUNNING ("ALL OF THE     *)
(* THREADS ARE BLOCKED, SELF WAKE UP ONE").                                *)
StatusAfter(S, q, st, now) ==
  [t \in Thread |->
    IF t \in S /\ Due(t, st, now) THEN "READY"
    ELSE IF q = cur
      THEN IF t = cur /\ st[t] # "READY" THEN "RUNNING" ELSE st[t]
      ELSE IF t = q THEN "RUNNING"
           ELSE IF t = cur /\ st[t] = "RUNNING" THEN "READY" ELSE st[t]]

(* Mutant of Schedule: ticks_cnt of a woken sleeper is not cleared. *)
ScheduleKeepsStamps(st, nx, now, at) ==
  \E q \in Thread, S \in SUBSET Thread :
    /\ Walk(S, q, st, nx)
    /\ status' = StatusAfter(S, q, st, now)
    /\ cur' = q
    /\ timeLeft' = TimeCont
    /\ ticksCnt' = ticksCnt
    /\ pc' = LET left == [pc EXCEPT ![cur] = at]
             IN  IF left[q] \in {"asleep", "blocked"}
                   THEN [left EXCEPT ![q] = "run"] ELSE left

(* schedule() when the statuses are st, the ring is nx, the clock is now   *)
(* and the calling thread has come to the place `at'.  A thread that is    *)
(* switched to returns from the thread_block it had called.                *)
Schedule(st, nx, now, at) ==
  \E q \in Thread, S \in SUBSET Thread :
    /\ Walk(S, q, st, nx)
    /\ status' = StatusAfter(S, q, st, now)
    /\ cur' = q
    /\ timeLeft' = TimeCont
    /\ ticksCnt' = [t \in Thread |->
                      IF t \in S /\ Due(t, st, now) THEN 0 ELSE ticksCnt[t]]
    /\ pc' = LET left == [pc EXCEPT ![cur] = at]
             IN  IF left[q] \in {"asleep", "blocked"}
                   THEN [left EXCEPT ![q] = "run"] ELSE left

(* Mutants of Tick: time_left is not compared with 0 before it is          *)
(* decremented; or is renewed without a call of schedule().                *)
TickUntested ==
  /\ ticks' = (ticks + 1) % TickMod
  /\ timeLeft' = timeLeft - 1
  /\ UNCHANGED <<status, cur, ticksCnt, pc, next, sleepTime, parent>>

TickRenews ==
  /\ ticks' = (ticks + 1) % TickMod
  /\ timeLeft' = IF timeLeft = 0 THEN TimeCont ELSE timeLeft - 1
  /\ UNCHANGED <<status, cur, ticksCnt, pc, next, sleepTime, parent>>

(* timer_callback *)
Tick ==
  /\ ticks' = (ticks + 1) % TickMod
  /\ \/ /\ timeLeft # 0
        /\ timeLeft' = timeLeft - 1
        /\ UNCHANGED <<status, cur, ticksCnt, pc>>
     \/ /\ timeLeft = 0
        /\ Schedule(status, next, ticks', pc[cur])
  /\ UNCHANGED <<next, sleepTime, parent>>

----------------------------------------------------------------------------
(***************************************************************************)
(* Creation of threads.  The new TCB is linked in after cur.               *)
(***************************************************************************)
UserThreads == Thread \ (KThread \cup {Main})

(* Mutant of RingWith: the new TCB's own pointer is left null. *)
RingWithout(n) == [next EXCEPT ![cur] = n]

RingWith(n) == [next EXCEPT ![n] = next[cur], ![cur] = n]

(* create_kern_thread, which kernelmain calls before it creates init *)
CreateKern(n) ==
  /\ cur = Main
  /\ n \in KThread \ Created
  /\ Created \cap UserThreads = {}
  /\ status' = [status EXCEPT ![n] = "READY"]
  /\ next' = RingWith(n)
  /\ parent' = [parent EXCEPT ![n] = Main]
  /\ UNCHANGED <<cur, timeLeft, ticks, ticksCnt, sleepTime, pc>>

(* create_user_thread, which kernelmain calls once, for init.  It ends in  *)
(* a call of schedule(), here undisturbed: see SchedBoot.                  *)
CreateUser(n) ==
  /\ cur = Main
  /\ n \in UserThreads
  /\ Created \cap UserThreads = {}
  /\ next' = RingWith(n)
  /\ Schedule([status EXCEPT ![n] = "READY"], next', ticks, "run")
  /\ UNCHANGED <<ticks, sleepTime, parent>>

(* The running thread is a user program, between two system calls. *)
InUser(t) == t = cur /\ t \in UserThreads /\ pc[t] = "run"

(* user_fork: the child's TCB is a copy of the parent's. *)
Fork(n) ==
  /\ InUser(cur)
  /\ n \in UserThreads \ Created
  /\ status' = [status EXCEPT ![n] = "READY"]
  /\ next' = RingWith(n)
  /\ parent' = [parent EXCEPT ![n] = cur]
  /\ ticksCnt' = [ticksCnt EXCEPT ![n] = ticksCnt[cur]]
  /\ sleepTime' = [sleepTime EXCEPT ![n] = sleepTime[cur]]
  /\ UNCHANGED <<cur, timeLeft, ticks, pc>>

----------------------------------------------------------------------------
(***************************************************************************)
(* Giving up the processor                                                 *)
(***************************************************************************)

(* user_sleep takes its stamp with interrupts on ... *)
SleepStamp(ms) ==
  /\ InUser(cur)
  /\ ticksCnt' = [ticksCnt EXCEPT ![cur] = ticks]
  /\ sleepTime' = [sleepTime EXCEPT ![cur] = ms]
  /\ pc' = [pc EXCEPT ![cur] = "stamped"]
  /\ UNCHANGED <<status, next, cur, timeLeft, ticks, parent>>

(* ... and then calls thread_block. *)
SleepBlock ==
  /\ pc[cur] = "stamped"
  /\ Schedule([status EXCEPT ![cur] = "BLOCKED"], next, ticks, "asleep")
  /\ UNCHANGED <<next, ticks, sleepTime, parent>>

(* thread_block for a lock, for the keyboard or for input *)
Block ==
  /\ cur # Main
  /\ pc[cur] = "run"
  /\ Schedule([status EXCEPT ![cur] = "BLOCKED"], next, ticks, "blocked")
  /\ UNCHANGED <<next, ticks, sleepTime, parent>>

(* thread_wakeup of a thread that such a thread_block has put to sleep, by *)
(* the thread that releases the lock or by the keyboard interrupt          *)
Wakeup(t) ==
  /\ pc[t] = "blocked"
  /\ status[t] = "BLOCKED"
  /\ status' = [status EXCEPT ![t] = "READY"]
  /\ UNCHANGED <<next, cur, timeLeft, ticks, ticksCnt, sleepTime, parent, pc>>

(* user_wait *)
Wait ==
  /\ InUser(cur)
  /\ Schedule([status EXCEPT ![cur] = "WAITING"], next, ticks, "run")
  /\ UNCHANGED <<next, ticks, sleepTime, parent>>

(* Mutant of Exit: the parent is made READY whatever it is doing. *)
ExitWakesAny ==
  /\ InUser(cur)
  /\ Schedule([t \in Thread |->
                 IF t = cur THEN "DIED"
                 ELSE IF t = parent[cur] THEN "READY" ELSE status[t]],
              next, ticks, "run")
  /\ UNCHANGED <<next, ticks, sleepTime, parent>>

(* user_exit; parent_thread is null in init *)
Exit ==
  /\ InUser(cur)
  /\ Schedule([t \in Thread |->
                 IF t = cur THEN "DIED"
                 ELSE IF t = parent[cur] /\ status[t] = "WAITING" THEN "READY"
                 ELSE status[t]],
              next, ticks, "run")
  /\ UNCHANGED <<next, ticks, sleepTime, parent>>

Next ==
  \/ Tick
  \/ \E n \in Thread : CreateKern(n) \/ CreateUser(n) \/ Fork(n)
  \/ \E ms \in SleepTimes : SleepStamp(ms)
  \/ SleepBlock \/ Block \/ Wait \/ Exit
  \/ \E t \in Thread : Wakeup(t)

Spec == Init /\ [][Next]_vars

(* The timer interrupts for ever.  No thread is assumed to do anything.    *)
FairSpec == Spec /\ WF_vars(Tick)

----------------------------------------------------------------------------
(***************************************************************************)
(* Properties                                                              *)
(***************************************************************************)

(* A set of threads no ring pointer leads out of. *)
Closed(S) == \A s \in S : next[s] \in S

(* The ring is one cycle through every created thread: from any of them    *)
(* schedule() can reach all the others, however forks and switches have    *)
(* been interleaved.  (create_thread and user_fork link a TCB in after the *)
(* thread that happens to run.)                                            *)
RingOK ==
  /\ Closed(Created)
  /\ \A S \in SUBSET Created : S # {} /\ Closed(S) => S = Created

(* Exactly the thread cur_tcb points at is RUNNING: no path through        *)
(* schedule(), thread_wakeup or user_exit leaves two threads RUNNING or    *)
(* none.                                                                   *)
OneRunning == \A t \in Thread : status[t] = "RUNNING" <=> t = cur

(* Main is always runnable. *)
MainRunnable == status[Main] \in {"RUNNING", "READY"}

(* Only a thread that is inside user_sleep carries a stamp, so schedule()  *)
(* never takes a thread that waits for a lock or a key for a sleeper whose *)
(* time has come: it must clear ticks_cnt when it ends a sleep, and a fork *)
(* must not copy a live stamp.                                             *)
NoStaleStamp ==
  \A t \in Thread : ticksCnt[t] # 0 => pc[t] \in {"stamped", "asleep"}

(* A thread that has died is never made runnable again, although it stays  *)
(* on the ring and schedule() may find every other thread blocked.         *)
DeadStaysDead ==
  [][\A t \in Thread : status[t] = "DIED" => status'[t] = "DIED"]_vars

(* A READY thread gets the processor, for every thread and whatever the    *)
(* others do.                                                              *)
ReadyRuns == \A t \in Thread : status[t] = "READY" ~> cur = t

(* A sleep ends, whichever thread sleeps; a sleep stamped when the counter *)
(* reads 0 is the exception, it looks like no sleep at all.                *)
SleepEnds ==
  \A t \in Thread : pc[t] = "asleep" /\ ticksCnt[t] # 0 ~> pc[t] = "run"

(* The shell waits for the command it has started (sys/usertest/main.c:    *)
(* `if(is_wait)wait();'): a parent whose children have all exited is not   *)
(* left WAITING.                                                           *)
ChildrenOf(t) == {c \in Thread : parent[c] = t}
WaitReturns ==
  \A t \in UserThreads :
    /\ status[t] = "WAITING"
    /\ ChildrenOf(t) # {}
    /\ \A c \in ChildrenOf(t) : status[c] = "DIED"
    ~> status[t] # "WAITING"
=============================================================================
