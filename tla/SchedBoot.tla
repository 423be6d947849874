----------------------------- MODULE SchedBoot -----------------------------
(***************************************************************************)
(* The one call of schedule() that is made with interrupts on: the last    *)
(* line but one of create_user_thread, which kernelmain runs to start      *)
(* init.  The timer may strike after the walk has chosen a thread and      *)
(* before the switch to it, and run a whole schedule() of its own.         *)
(***************************************************************************)
EXTENDS Sched

VARIABLE probe   \* schedule()'s local variable in that call, NoThread outside it

BootVars == <<vars, probe>>

BootInit == Init /\ probe = NoThread

(* create_user_thread up to _IO_ATOMIC_OUT, and the entry of schedule() *)
BootCreate(n) ==
  /\ cur = Main
  /\ n \in UserThreads
  /\ Created \cap UserThreads = {}
  /\ next' = RingWith(n)
  /\ status' = [status EXCEPT ![n] = "READY"]
  /\ probe' = Main
  /\ UNCHANGED <<cur, timeLeft, ticks, ticksCnt, sleepTime, parent, pc>>

(* The walk: it ends at a READY thread, or returns after a whole turn. *)
BootProbe ==
  /\ cur = Main /\ probe = Main
  /\ \E q \in Thread, S \in SUBSET Thread :
       LET woken == {t \in S : Due(t, status, ticks)}
       IN  /\ Walk(S, q, status, next)
           /\ status' = [t \in Thread |->
                           IF t \in woken THEN "READY" ELSE status[t]]
           /\ ticksCnt' = [t \in Thread |->
                             IF t \in woken THEN 0 ELSE ticksCnt[t]]
           /\ probe' = IF q = Main THEN NoThread ELSE q
           /\ timeLeft' = IF q = Main THEN TimeCont ELSE timeLeft
  /\ UNCHANGED <<next, cur, ticks, sleepTime, parent, pc>>

(* The switch to the thread the walk ended at, whatever it is by now. *)
BootSwitch ==
  /\ cur = Main /\ probe \in Thread \ {Main}
  /\ status' = [status EXCEPT ![Main] = "READY", ![probe] = "RUNNING"]
  /\ cur' = probe
  /\ timeLeft' = TimeCont
  /\ pc' = IF pc[probe] \in {"asleep", "blocked"}
             THEN [pc EXCEPT ![probe] = "run"] ELSE pc
  /\ probe' = NoThread
  /\ UNCHANGED <<next, ticks, ticksCnt, sleepTime, parent>>

BootNext ==
  \/ \E n \in Thread : BootCreate(n)
  \/ BootProbe
  \/ BootSwitch
  \/ /\ \/ Tick \/ SleepBlock \/ Block \/ Wait \/ Exit
        \/ \E n \in Thread : CreateKern(n) \/ Fork(n) \/ Wakeup(n)
        \/ \E ms \in SleepTimes : SleepStamp(ms)
     /\ UNCHANGED probe

BootSpec == BootInit /\ [][BootNext]_BootVars

(* "if cur task is blocked,it will not be set ready or cur thread will     *)
(* running next schedule" (task.c:756), and "cli and sti is used to sync   *)
(* to access the threads list" (task.c:835): schedule() never switches to  *)
(* a thread that is BLOCKED.                                               *)
BlockedNotRun ==
  [][\A t \in Thread : status[t] = "BLOCKED" => ~(cur # t /\ cur' = t)]_BootVars
=============================================================================
