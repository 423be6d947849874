---------------------------- MODULE SchedProofs ----------------------------
(***************************************************************************)
(* Safety of the scheduler, for every set of threads, time slice, tick     *)
(* modulus and sleep time.                                                 *)
(*                                                                         *)
(* The argument turns on one fact, WalkEnds: schedule() can only come back *)
(* to the thread that called it when that thread is Main.  The threads it  *)
(* has passed over, with the caller, are closed under the ring's pointers; *)
(* the ring is one cycle, so they are all the threads there are; Main is   *)
(* among them, and Main is never passed over because it is always          *)
(* runnable.  Hence a thread that blocks, waits or dies is really left.    *)
(***************************************************************************)
EXTENDS Sched, TLAPS

(* The pointers nx make one cycle of the threads in C. *)
OneRing(C, nx) ==
  /\ \A s \in C : nx[s] \in C
  /\ \A S \in SUBSET C : S # {} /\ (\A s \in S : nx[s] \in S) => S = C

(* What a thread's place says about its status and its stamp. *)
PlacesOK(st, p, stamp) ==
  /\ \A t \in Thread :
       /\ st[t] = "BLOCKED" => p[t] \in {"asleep", "blocked"}
       /\ p[t] \in {"asleep", "blocked"} => st[t] \in {"BLOCKED", "READY"}
       /\ stamp[t] # 0 => p[t] \in {"stamped", "asleep"}
       /\ p[t] = "asleep" /\ st[t] = "READY" => stamp[t] = 0
       /\ p[t] = "stamped" => st[t] \in {"RUNNING", "READY"}
  /\ p[Main] = "run"

(* The inductive invariant.  NoStaleStamp alone is not inductive: that a   *)
(* sleeper's stamp is cleared before it runs again needs the fact that it  *)
(* is only made READY by schedule() (PlacesOK), and that it really is left *)
(* when it blocks (RingOK, MainRunnable and OneRunning).                   *)
IInv ==
  /\ TypeOK
  /\ RingOK
  /\ OneRunning
  /\ MainRunnable
  /\ PlacesOK(status, pc, ticksCnt)

----------------------------------------------------------------------------
(* RingOK is OneRing of the present state. *)
LEMMA RingIsOneRing == RingOK <=> OneRing(Created, next)
  BY DEF RingOK, Closed, OneRing

(* Linking a new TCB in after the thread c (create_thread, user_fork)      *)
(* keeps the ring one cycle.                                               *)
LEMMA LinkKeepsRing ==
  ASSUME NEW nx \in [Thread -> Thread \cup {NoThread}],
         NEW C \in SUBSET Thread, NEW c \in C, NEW n \in Thread \ C,
         OneRing(C, nx)
  PROVE  OneRing(C \cup {n}, [nx EXCEPT ![n] = nx[c], ![c] = n])
<1> DEFINE ny == [nx EXCEPT ![n] = nx[c], ![c] = n]
<1>1. ny[c] = n /\ ny[n] = nx[c] /\ \A s \in C \ {c} : ny[s] = nx[s]
  OBVIOUS
<1>2. \A s \in C : nx[s] \in C
  BY DEF OneRing
<1> HIDE DEF ny
<1>3. \A s \in C \cup {n} : ny[s] \in C \cup {n}
  BY <1>1, <1>2
<1>4. ASSUME NEW S \in SUBSET (C \cup {n}), S # {}, \A s \in S : ny[s] \in S
      PROVE  S = C \cup {n}
  <2> DEFINE T == S \ {n}
  <2>1. T # {}
    BY <1>1, <1>2, <1>4
  <2>2. \A s \in T : nx[s] \in T
    <3> SUFFICES ASSUME NEW s \in T PROVE nx[s] \in T
      OBVIOUS
    <3>1. s \in C /\ nx[s] \in C /\ nx[s] # n
      BY <1>2
    <3>2. CASE s = c
      BY <3>1, <3>2, <1>1, <1>4
    <3>3. CASE s # c
      BY <3>1, <3>3, <1>1, <1>4
    <3> QED BY <3>2, <3>3
  <2>3. T = C
    BY <2>1, <2>2 DEF OneRing
  <2>4. n \in S
    BY <2>3, <1>1, <1>4
  <2> QED BY <2>3, <2>4
<1>5. OneRing(C \cup {n}, ny)
  BY <1>3, <1>4 DEF OneRing
<1> QED BY <1>5 DEF ny

(* A walk that comes back to its caller has passed over every other        *)
(* thread, so its caller is Main.                                          *)
LEMMA WalkEnds ==
  ASSUME NEW st \in [Thread -> Status], NEW nx,
         NEW q \in Thread, NEW S \in SUBSET Thread,
         OneRing({t \in Thread : st[t] # "NONE"}, nx),
         cur \in Thread, st[cur] # "NONE",
         st[Main] \in {"RUNNING", "READY"}, st[Main] = "RUNNING" => cur = Main,
         Walk(S, q, st, nx)
  PROVE  IF q = cur THEN cur = Main ELSE st[q] = "READY"
<1> DEFINE C == {t \in Thread : st[t] # "NONE"}
<1>1. CASE q # cur
  BY <1>1 DEF Walk
<1>2. CASE q = cur
  <2> DEFINE R == (S \cup {cur}) \cap C
  <2>1. R \in SUBSET C /\ R # {}
    OBVIOUS
  <2>2. \A s \in R : nx[s] \in R
    BY <1>2 DEF Walk, OneRing
  <2>3. R = C
    BY <2>1, <2>2 DEF OneRing
  <2>4. Main \in C
    BY SchedAssumption
  <2>5. Main \notin S \/ cur = Main
    BY DEF Walk
  <2> QED BY <1>2, <2>3, <2>4, <2>5
<1> QED BY <1>1, <1>2

----------------------------------------------------------------------------
(* What a call of schedule() leaves, when the caller has set the statuses  *)
(* to st and stands at the place `at'.                                     *)
LEMMA ScheduleStep ==
  ASSUME TypeOK,
         NEW st \in [Thread -> Status], NEW nx, NEW now, NEW at \in Places,
         OneRing({t \in Thread : st[t] # "NONE"}, nx),
         st[cur] # "NONE",
         st[Main] \in {"RUNNING", "READY"},
         \A t \in Thread : st[t] = "RUNNING" => t = cur,
         cur = Main => st[Main] = "RUNNING",
         PlacesOK(st, [pc EXCEPT ![cur] = at], ticksCnt),
         Schedule(st, nx, now, at)
  PROVE  /\ status' \in [Thread -> Status]
         /\ cur' \in Thread
         /\ timeLeft' \in 0 .. TimeCont
         /\ ticksCnt' \in [Thread -> 0 .. TickMod - 1]
         /\ pc' \in [Thread -> Places]
         /\ \A t \in Thread : status'[t] = "RUNNING" <=> t = cur'
         /\ status'[Main] \in {"RUNNING", "READY"}
         /\ \A t \in Thread : status'[t] = "NONE" <=> st[t] = "NONE"
         /\ \A t \in Thread : status'[t] = "DIED" <=> st[t] = "DIED"
         /\ PlacesOK(status', pc', ticksCnt')
<1> DEFINE left == [pc EXCEPT ![cur] = at]
<1>1. PICK q \in Thread, S \in SUBSET Thread :
        /\ Walk(S, q, st, nx)
        /\ status' = StatusAfter(S, q, st, now)
        /\ cur' = q
        /\ timeLeft' = TimeCont
        /\ ticksCnt' = [t \in Thread |->
                          IF t \in S /\ Due(t, st, now) THEN 0 ELSE ticksCnt[t]]
        /\ pc' = IF left[q] \in {"asleep", "blocked"}
                   THEN [left EXCEPT ![q] = "run"] ELSE left
  BY DEF Schedule
<1> DEFINE W == {t \in S : Due(t, st, now)}
<1>2. cur \in Thread /\ left \in [Thread -> Places]
  BY DEF TypeOK
<1>3. IF q = cur THEN cur = Main /\ st[q] = "RUNNING" ELSE st[q] = "READY"
  BY <1>1, <1>2, WalkEnds, SchedAssumption
<1>4. q \notin W /\ cur \notin W /\ \A t \in W : t \in Thread /\ st[t] = "BLOCKED"
  BY <1>1 DEF Walk, Due
<1>5. \A t \in Thread :
        /\ status'[t] = IF t \in W THEN "READY"
                        ELSE IF t = q THEN "RUNNING"
                        ELSE IF t = cur /\ st[t] = "RUNNING" THEN "READY"
                        ELSE st[t]
        /\ ticksCnt'[t] = IF t \in W THEN 0 ELSE ticksCnt[t]
        /\ pc'[t] = IF t = q /\ left[t] \in {"asleep", "blocked"}
                      THEN "run" ELSE left[t]
  <2> SUFFICES ASSUME NEW t \in Thread
               PROVE  /\ status'[t] = IF t \in W THEN "READY"
                                      ELSE IF t = q THEN "RUNNING"
                                      ELSE IF t = cur /\ st[t] = "RUNNING" THEN "READY"
                                      ELSE st[t]
                      /\ ticksCnt'[t] = IF t \in W THEN 0 ELSE ticksCnt[t]
                      /\ pc'[t] = IF t = q /\ left[t] \in {"asleep", "blocked"}
                                    THEN "run" ELSE left[t]
    OBVIOUS
  <2>1. t \in W <=> t \in S /\ Due(t, st, now)
    OBVIOUS
  <2>2. status'[t] = StatusAfter(S, q, st, now)[t]
    BY <1>1
  <2> HIDE DEF W
  <2>3. CASE q = cur
    BY <1>3, <1>4, <2>1, <2>2, <2>3, <1>1, <1>2 DEF StatusAfter
  <2>4. CASE q # cur
    BY <1>3, <1>4, <2>1, <2>2, <2>4, <1>1, <1>2 DEF StatusAfter
  <2> QED BY <2>3, <2>4
<1>6. /\ status' \in [Thread -> Status]
      /\ ticksCnt' \in [Thread -> 0 .. TickMod - 1]
      /\ pc' \in [Thread -> Places]
      /\ timeLeft' \in 0 .. TimeCont
  <2>1. status' = [t \in Thread |-> status'[t]]
    BY <1>1 DEF StatusAfter
  <2>2. \A t \in Thread : status'[t] \in Status
    BY <1>5 DEF Status
  <2>3. ticksCnt' \in [Thread -> 0 .. TickMod - 1]
    BY <1>1, SchedAssumption DEF TypeOK
  <2>4. pc' \in [Thread -> Places]
    BY <1>1, <1>2 DEF Places
  <2>5. timeLeft' \in 0 .. TimeCont
    BY <1>1, SchedAssumption
  <2> QED BY <2>1, <2>2, <2>3, <2>4, <2>5
<1> DEFINE NewPlace(t) == IF t = q /\ left[t] \in {"asleep", "blocked"}
                            THEN "run" ELSE left[t]
<1> HIDE DEF W
<1>7. \A t \in Thread : status'[t] = "RUNNING" <=> t = cur'
  BY <1>1, <1>3, <1>4, <1>5
<1>8. status'[Main] \in {"RUNNING", "READY"}
  BY <1>4, <1>5, SchedAssumption
<1>9. \A t \in Thread : /\ status'[t] = "NONE" <=> st[t] = "NONE"
                        /\ status'[t] = "DIED" <=> st[t] = "DIED"
  BY <1>3, <1>4, <1>5
<1>10. PlacesOK(status', pc', ticksCnt')
  <2> HIDE DEF left
  <2>1. pc'[Main] = "run"
    BY <1>5, SchedAssumption DEF PlacesOK, left
  <2>2. ASSUME NEW t \in Thread
        PROVE  /\ status'[t] = "BLOCKED" => pc'[t] \in {"asleep", "blocked"}
               /\ pc'[t] \in {"asleep", "blocked"} => status'[t] \in {"BLOCKED", "READY"}
               /\ ticksCnt'[t] # 0 => pc'[t] \in {"stamped", "asleep"}
               /\ pc'[t] = "asleep" /\ status'[t] = "READY" => ticksCnt'[t] = 0
               /\ pc'[t] = "stamped" => status'[t] \in {"RUNNING", "READY"}
    <3>1. PlacesOK(st, left, ticksCnt)
      BY DEF left
    <3>2. CASE t \in W
      BY <3>1, <3>2, <1>4, <1>5 DEF PlacesOK
    <3>3. CASE t = q
      BY <3>1, <3>3, <1>3, <1>4, <1>5 DEF PlacesOK
    <3>4. CASE t \notin W /\ t # q
      BY <3>1, <3>4, <1>5 DEF PlacesOK
    <3> QED BY <3>2, <3>3, <3>4
  <2> QED BY <2>1, <2>2 DEF PlacesOK
<1> QED BY <1>1, <1>6, <1>7, <1>8, <1>9, <1>10

----------------------------------------------------------------------------
(* The steps of Sched, one lemma for each kind. *)

LEMMA InitIInv == Init => IInv
<1> SUFFICES ASSUME Init PROVE IInv
  OBVIOUS
<1>1. TypeOK
  BY SchedAssumption DEF Init, TypeOK, Status, Places
<1>2. Created = {Main} /\ next[Main] = Main
  BY SchedAssumption DEF Init, Created
<1>3. RingOK
  BY <1>2 DEF RingOK, Closed
<1>4. OneRunning /\ MainRunnable /\ PlacesOK(status, pc, ticksCnt)
  BY SchedAssumption DEF Init, OneRunning, MainRunnable, PlacesOK
<1> QED BY <1>1, <1>3, <1>4 DEF IInv

(* Every action that ends in schedule(): the caller may have linked in a   *)
(* TCB, and has set the statuses to st and come to the place `at'.         *)
LEMMA ScheduleKeepsIInv ==
  ASSUME IInv,
         NEW st \in [Thread -> Status], NEW now, NEW at \in Places,
         next' \in [Thread -> Thread \cup {NoThread}],
         ticks' \in 0 .. TickMod - 1,
         UNCHANGED <<sleepTime, parent>>,
         OneRing({t \in Thread : st[t] # "NONE"}, next'),
         st[cur] # "NONE",
         st[Main] \in {"RUNNING", "READY"},
         \A t \in Thread : st[t] = "RUNNING" => t = cur,
         cur = Main => st[Main] = "RUNNING",
         PlacesOK(st, [pc EXCEPT ![cur] = at], ticksCnt),
         Schedule(st, next', now, at)
  PROVE  /\ IInv'
         /\ \A t \in Thread : status'[t] = "DIED" <=> st[t] = "DIED"
<1> DEFINE nx == next'
<1>0. TypeOK
  BY DEF IInv
<1>1. /\ status' \in [Thread -> Status]
      /\ cur' \in Thread
      /\ timeLeft' \in 0 .. TimeCont
      /\ ticksCnt' \in [Thread -> 0 .. TickMod - 1]
      /\ pc' \in [Thread -> Places]
      /\ \A t \in Thread : status'[t] = "RUNNING" <=> t = cur'
      /\ status'[Main] \in {"RUNNING", "READY"}
      /\ \A t \in Thread : status'[t] = "NONE" <=> st[t] = "NONE"
      /\ \A t \in Thread : status'[t] = "DIED" <=> st[t] = "DIED"
      /\ PlacesOK(status', pc', ticksCnt')
  <2> OneRing({t \in Thread : st[t] # "NONE"}, nx) /\ Schedule(st, nx, now, at)
    OBVIOUS
  <2> HIDE DEF nx
  <2> QED BY <1>0, ScheduleStep
<1>2. TypeOK'
  BY <1>0, <1>1 DEF TypeOK
<1>3. Created' = {t \in Thread : st[t] # "NONE"}
  BY <1>1 DEF Created
<1>4. RingOK'
  BY <1>3 DEF RingOK, Closed, OneRing
<1>5. PlacesOK(status, pc, ticksCnt)'
  BY <1>1 DEF PlacesOK
<1> QED BY <1>1, <1>2, <1>4, <1>5 DEF IInv, OneRunning, MainRunnable

(* The running thread has been created, and the facts of IInv in the form  *)
(* the steps use.                                                          *)
LEMMA CurFacts ==
  ASSUME IInv
  PROVE  /\ cur \in Thread /\ Main \in Thread
         /\ status[cur] = "RUNNING"
         /\ \A t \in Thread : status[t] = "RUNNING" => t = cur
         /\ status[Main] \in {"RUNNING", "READY"}
         /\ cur = Main => status[Main] = "RUNNING"
         /\ pc[cur] \in {"run", "stamped"}
         /\ OneRing(Created, next)
         /\ Main \in Created /\ cur \in Created
<1>1. /\ cur \in Thread /\ Main \in Thread
      /\ pc[cur] \in Places
  BY SchedAssumption DEF IInv, TypeOK
<1>2. OneRing(Created, next)
  BY RingIsOneRing DEF IInv
<1> QED BY <1>1, <1>2 DEF IInv, OneRunning, MainRunnable, PlacesOK, Places, Created

(* create_thread and user_fork: a new READY thread in the place "run". *)
LEMMA NewThread ==
  ASSUME IInv, NEW n \in Thread \ Created
  PROVE  LET st == [status EXCEPT ![n] = "READY"]
         IN  /\ st \in [Thread -> Status]
             /\ {t \in Thread : st[t] # "NONE"} = Created \cup {n}
             /\ RingWith(n) \in [Thread -> Thread \cup {NoThread}]
             /\ OneRing(Created \cup {n}, RingWith(n))
             /\ n # cur /\ n # Main
             /\ pc[n] = "run" /\ ticksCnt[n] = 0
<1> DEFINE st == [status EXCEPT ![n] = "READY"]
<1>1. TypeOK /\ PlacesOK(status, pc, ticksCnt)
  BY DEF IInv
<1>2. st \in [Thread -> Status]
  BY <1>1 DEF TypeOK, Status
<1>3. {t \in Thread : st[t] # "NONE"} = Created \cup {n}
  BY <1>1 DEF TypeOK, Created
<1>4. cur \in Created /\ Main \in Created /\ OneRing(Created, next)
  BY CurFacts
<1>5. next \in [Thread -> Thread \cup {NoThread}]
  BY <1>1 DEF TypeOK
<1>6. Created \in SUBSET Thread
  BY DEF Created
<1>7. OneRing(Created \cup {n}, RingWith(n))
  BY <1>4, <1>5, <1>6, LinkKeepsRing DEF RingWith
<1>8. next[cur] \in Thread
  BY <1>4, <1>6 DEF OneRing
<1>9. RingWith(n) \in [Thread -> Thread \cup {NoThread}]
  BY <1>5, <1>8 DEF RingWith
<1>10. status[n] = "NONE"
  BY DEF Created
<1>11. pc[n] = "run" /\ ticksCnt[n] = 0
  BY <1>1, <1>10 DEF PlacesOK, TypeOK, Places
<1> QED BY <1>2, <1>3, <1>4, <1>7, <1>9, <1>11

(* No action revives a dead thread. *)
DeadKept == \A t \in Thread : status[t] = "DIED" => status'[t] = "DIED"

(* user_fork and create_thread without the call of schedule() *)
LEMMA AddKeepsIInv ==
  ASSUME IInv, NEW n \in Thread \ Created,
         status' = [status EXCEPT ![n] = "READY"],
         next' = RingWith(n),
         pc[cur] = "run",
         \/ ticksCnt' = ticksCnt
         \/ ticksCnt' = [ticksCnt EXCEPT ![n] = ticksCnt[cur]],
         sleepTime' \in [Thread -> SleepTimes \cup {0}],
         parent' \in [Thread -> Thread \cup {NoThread}],
         UNCHANGED <<cur, timeLeft, ticks, pc>>
  PROVE  IInv' /\ DeadKept
<1>1. /\ status' \in [Thread -> Status]
      /\ next' \in [Thread -> Thread \cup {NoThread}]
      /\ OneRing(Created', next')
      /\ n # cur /\ n # Main
      /\ pc[n] = "run" /\ ticksCnt[n] = 0
  <2> DEFINE st == [status EXCEPT ![n] = "READY"]
  <2>1. /\ st \in [Thread -> Status]
        /\ {t \in Thread : st[t] # "NONE"} = Created \cup {n}
        /\ RingWith(n) \in [Thread -> Thread \cup {NoThread}]
        /\ OneRing(Created \cup {n}, RingWith(n))
        /\ n # cur /\ n # Main
        /\ pc[n] = "run" /\ ticksCnt[n] = 0
    BY NewThread
  <2>2. status' = st
    OBVIOUS
  <2> HIDE DEF st
  <2>3. Created' = Created \cup {n}
    BY <2>1, <2>2 DEF Created
  <2> QED BY <2>1, <2>2, <2>3
<1>2. TypeOK /\ PlacesOK(status, pc, ticksCnt) /\ OneRunning /\ MainRunnable
  BY DEF IInv
<1>3. ticksCnt[cur] = 0 /\ cur \in Thread /\ Main \in Thread
  BY <1>2, CurFacts DEF PlacesOK
<1>4. ticksCnt' = ticksCnt
  BY <1>1, <1>2, <1>3 DEF TypeOK
<1>5. status[n] = "NONE" /\ n \in Thread
  BY DEF Created
<1>6. \A t \in Thread : status'[t] = IF t = n THEN "READY" ELSE status[t]
  BY <1>2 DEF TypeOK
<1>7. TypeOK'
  BY <1>1, <1>2, <1>4 DEF TypeOK
<1>8. RingOK'
  BY <1>1 DEF RingOK, Closed, OneRing
<1>9. OneRunning' /\ MainRunnable'
  BY <1>1, <1>2, <1>3, <1>6 DEF OneRunning, MainRunnable
<1>10. PlacesOK(status, pc, ticksCnt)'
  BY <1>1, <1>2, <1>4, <1>6 DEF PlacesOK
<1>11. DeadKept
  BY <1>5, <1>6 DEF DeadKept
<1> QED BY <1>7, <1>8, <1>9, <1>10, <1>11 DEF IInv

LEMMA TickStep == IInv /\ Tick => IInv' /\ DeadKept
<1> SUFFICES ASSUME IInv, Tick PROVE IInv' /\ DeadKept
  OBVIOUS
<1>1. TypeOK /\ PlacesOK(status, pc, ticksCnt)
  BY DEF IInv
<1>2. ticks' \in 0 .. TickMod - 1
  BY <1>1, SchedAssumption DEF Tick, TypeOK
<1>3. CASE timeLeft # 0 /\ timeLeft' = timeLeft - 1
                /\ UNCHANGED <<status, cur, ticksCnt, pc>>
  <2>1. TypeOK'
    BY <1>1, <1>2, <1>3, SchedAssumption DEF Tick, TypeOK
  <2>2. UNCHANGED <<status, next, cur, ticksCnt, pc>>
    BY <1>3 DEF Tick
  <2> QED BY <2>1, <2>2 DEF IInv, RingOK, Closed, Created, OneRunning,
                            MainRunnable, PlacesOK, DeadKept
<1>4. CASE Schedule(status, next, ticks', pc[cur])
  <2>1. /\ next' = next /\ UNCHANGED <<sleepTime, parent>>
        /\ next' \in [Thread -> Thread \cup {NoThread}]
        /\ status \in [Thread -> Status] /\ pc[cur] \in Places
    BY <1>1 DEF Tick, TypeOK
  <2>2. [pc EXCEPT ![cur] = pc[cur]] = pc
    BY <1>1 DEF TypeOK
  <2>3. {t \in Thread : status[t] # "NONE"} = Created
    BY DEF Created
  <2>4. IInv' /\ \A t \in Thread : status'[t] = "DIED" <=> status[t] = "DIED"
    BY <1>1, <1>2, <1>4, <2>1, <2>2, <2>3, CurFacts, ScheduleKeepsIInv
  <2> QED BY <2>4 DEF DeadKept
<1> QED BY <1>3, <1>4 DEF Tick

LEMMA CreateKernStep ==
  ASSUME NEW n \in Thread PROVE IInv /\ CreateKern(n) => IInv' /\ DeadKept
<1> SUFFICES ASSUME IInv, CreateKern(n) PROVE IInv' /\ DeadKept
  OBVIOUS
<1>1. TypeOK /\ pc[Main] = "run"
  BY DEF IInv, PlacesOK
<1>2. /\ parent' \in [Thread -> Thread \cup {NoThread}]
      /\ sleepTime' \in [Thread -> SleepTimes \cup {0}]
  BY <1>1, SchedAssumption DEF CreateKern, TypeOK
<1> QED BY <1>1, <1>2, AddKeepsIInv DEF CreateKern

LEMMA ForkStep ==
  ASSUME NEW n \in Thread PROVE IInv /\ Fork(n) => IInv' /\ DeadKept
<1> SUFFICES ASSUME IInv, Fork(n) PROVE IInv' /\ DeadKept
  OBVIOUS
<1>1. TypeOK
  BY DEF IInv
<1>2. /\ parent' \in [Thread -> Thread \cup {NoThread}]
      /\ sleepTime' \in [Thread -> SleepTimes \cup {0}]
  BY <1>1, CurFacts DEF Fork, TypeOK
<1> QED BY <1>2, AddKeepsIInv DEF Fork, InUser

LEMMA CreateUserStep ==
  ASSUME NEW n \in Thread PROVE IInv /\ CreateUser(n) => IInv' /\ DeadKept
<1> SUFFICES ASSUME IInv, CreateUser(n) PROVE IInv' /\ DeadKept
  OBVIOUS
<1> DEFINE st == [status EXCEPT ![n] = "READY"]
<1>1. TypeOK /\ PlacesOK(status, pc, ticksCnt)
  BY DEF IInv
<1>2. n \in Thread \ Created /\ cur = Main
  BY DEF CreateUser
<1>3. /\ st \in [Thread -> Status]
      /\ next' \in [Thread -> Thread \cup {NoThread}]
      /\ OneRing({t \in Thread : st[t] # "NONE"}, next')
      /\ n # cur
      /\ pc[n] = "run" /\ ticksCnt[n] = 0
  BY <1>2, NewThread DEF CreateUser
<1>4. \A t \in Thread : st[t] = IF t = n THEN "READY" ELSE status[t]
  BY <1>1 DEF TypeOK
<1>5. Schedule(st, next', ticks, "run")
  BY DEF CreateUser
<1>6. ticks' \in 0 .. TickMod - 1 /\ UNCHANGED <<sleepTime, parent>>
  BY <1>1 DEF CreateUser, TypeOK
<1> HIDE DEF st
<1>7. [pc EXCEPT ![cur] = "run"] = pc
  BY <1>1, <1>2 DEF PlacesOK, TypeOK
<1>8. PlacesOK(st, pc, ticksCnt)
  BY <1>1, <1>3, <1>4 DEF PlacesOK
<1>9. /\ st[cur] # "NONE" /\ st[Main] \in {"RUNNING", "READY"}
      /\ \A t \in Thread : st[t] = "RUNNING" => t = cur
      /\ cur = Main => st[Main] = "RUNNING"
  BY <1>2, <1>3, <1>4, CurFacts
<1>10. IInv' /\ \A t \in Thread : status'[t] = "DIED" <=> st[t] = "DIED"
  BY <1>3, <1>5, <1>6, <1>7, <1>8, <1>9, ScheduleKeepsIInv DEF Places
<1>11. status[n] = "NONE"
  BY <1>2 DEF Created
<1> QED BY <1>4, <1>10, <1>11 DEF DeadKept

LEMMA SleepStampStep ==
  ASSUME NEW ms \in SleepTimes PROVE IInv /\ SleepStamp(ms) => IInv' /\ DeadKept
<1> SUFFICES ASSUME IInv, SleepStamp(ms) PROVE IInv' /\ DeadKept
  OBVIOUS
<1>1. TypeOK /\ PlacesOK(status, pc, ticksCnt)
  BY DEF IInv
<1>2. TypeOK'
  BY <1>1 DEF SleepStamp, TypeOK, Places
<1>3. cur # Main /\ status[cur] = "RUNNING"
  BY CurFacts DEF SleepStamp, InUser, UserThreads
<1>4. PlacesOK(status, pc, ticksCnt)'
  BY <1>1, <1>3 DEF SleepStamp, PlacesOK, TypeOK
<1>5. UNCHANGED <<status, next, cur>>
  BY DEF SleepStamp
<1> QED BY <1>2, <1>4, <1>5 DEF IInv, RingOK, Closed, Created, OneRunning,
                                MainRunnable, DeadKept

LEMMA WakeupStep ==
  ASSUME NEW t \in Thread PROVE IInv /\ Wakeup(t) => IInv' /\ DeadKept
<1> SUFFICES ASSUME IInv, Wakeup(t) PROVE IInv' /\ DeadKept
  OBVIOUS
<1>1. TypeOK /\ PlacesOK(status, pc, ticksCnt)
  BY DEF IInv
<1>2. TypeOK'
  BY <1>1 DEF Wakeup, TypeOK, Status
<1>3. \A u \in Thread : status'[u] = IF u = t THEN "READY" ELSE status[u]
  BY <1>1 DEF Wakeup, TypeOK
<1>4. PlacesOK(status, pc, ticksCnt)'
  BY <1>1, <1>3 DEF Wakeup, PlacesOK
<1>5. Created' = Created /\ next' = next
  BY <1>3 DEF Wakeup, Created
<1>6. RingOK'
  BY <1>5 DEF IInv, RingOK, Closed
<1>7. OneRunning' /\ MainRunnable' /\ DeadKept
  BY <1>3, SchedAssumption DEF Wakeup, IInv, OneRunning, MainRunnable, DeadKept
<1> QED BY <1>2, <1>4, <1>6, <1>7 DEF IInv

(* thread_block, user_wait and user_exit: the thread sets its own status   *)
(* and leaves; user_exit may make a WAITING parent READY as well.          *)
LEMMA LeaveStep ==
  ASSUME IInv, cur # Main,
         NEW mine \in {"BLOCKED", "WAITING", "DIED"}, NEW at \in Places,
         NEW st,
         st = [t \in Thread |->
                 IF t = cur THEN mine
                 ELSE IF mine = "DIED" /\ t = parent[cur] /\ status[t] = "WAITING"
                   THEN "READY"
                 ELSE status[t]],
         mine = "BLOCKED" => at \in {"asleep", "blocked"},
         mine # "BLOCKED" => at = "run",
         ticksCnt[cur] # 0 => at = "asleep",
         Schedule(st, next, ticks, at),
         UNCHANGED <<next, ticks, sleepTime, parent>>
  PROVE  IInv' /\ DeadKept
<1>1. TypeOK /\ PlacesOK(status, pc, ticksCnt)
  BY DEF IInv
<1>2. \A t \in Thread :
        st[t] = IF t = cur THEN mine
                ELSE IF mine = "DIED" /\ t = parent[cur] /\ status[t] = "WAITING"
                  THEN "READY"
                ELSE status[t]
  OBVIOUS
<1>3. st \in [Thread -> Status]
  BY <1>1 DEF TypeOK, Status
<1>4. /\ next' \in [Thread -> Thread \cup {NoThread}]
      /\ ticks' \in 0 .. TickMod - 1
      /\ next' = next
  BY <1>1 DEF TypeOK
<1>5. {t \in Thread : st[t] # "NONE"} = Created
  BY <1>2, CurFacts DEF Created
<1>6. PlacesOK(st, [pc EXCEPT ![cur] = at], ticksCnt)
  <2> DEFINE p == [pc EXCEPT ![cur] = at]
  <2>1. \A t \in Thread : p[t] = IF t = cur THEN at ELSE pc[t]
    BY <1>1 DEF TypeOK
  <2> HIDE DEF p
  <2>2. p[Main] = "run"
    BY <1>1, <2>1, SchedAssumption DEF PlacesOK
  <2>3. ASSUME NEW t \in Thread
        PROVE  /\ st[t] = "BLOCKED" => p[t] \in {"asleep", "blocked"}
               /\ p[t] \in {"asleep", "blocked"} => st[t] \in {"BLOCKED", "READY"}
               /\ ticksCnt[t] # 0 => p[t] \in {"stamped", "asleep"}
               /\ p[t] = "asleep" /\ st[t] = "READY" => ticksCnt[t] = 0
               /\ p[t] = "stamped" => st[t] \in {"RUNNING", "READY"}
    <3>1. CASE t = cur
      BY <3>1, <1>2, <2>1
    <3>2. CASE t # cur
      BY <3>2, <1>1, <1>2, <2>1 DEF PlacesOK
    <3> QED BY <3>1, <3>2
  <2>4. PlacesOK(st, p, ticksCnt)
    BY <2>2, <2>3 DEF PlacesOK
  <2> QED BY <2>4 DEF p
<1>7. /\ st[cur] # "NONE" /\ st[Main] \in {"RUNNING", "READY"}
      /\ \A t \in Thread : st[t] = "RUNNING" => t = cur
  BY <1>2, CurFacts
<1>8. OneRing(Created, next)
  BY CurFacts
<1>9. IInv' /\ \A t \in Thread : status'[t] = "DIED" <=> st[t] = "DIED"
  <2> HIDE DEF IInv
  <2> QED BY <1>3, <1>4, <1>5, <1>6, <1>7, <1>8, ScheduleKeepsIInv
<1>10. \A t \in Thread : status[t] = "DIED" => st[t] = "DIED"
  BY <1>2, CurFacts
<1> QED BY <1>9, <1>10 DEF DeadKept

LEMMA GiveUpStep == IInv /\ (SleepBlock \/ Block \/ Wait \/ Exit) => IInv' /\ DeadKept
<1> SUFFICES ASSUME IInv, SleepBlock \/ Block \/ Wait \/ Exit
             PROVE  IInv' /\ DeadKept
  OBVIOUS
<1>1. TypeOK /\ PlacesOK(status, pc, ticksCnt) /\ cur \in Thread
  BY DEF IInv, TypeOK
<1>2. pc[cur] = "run" => ticksCnt[cur] = 0
  BY <1>1 DEF PlacesOK
<1> DEFINE Left(mine) ==
      [t \in Thread |->
         IF t = cur THEN mine
         ELSE IF mine = "DIED" /\ t = parent[cur] /\ status[t] = "WAITING"
           THEN "READY"
         ELSE status[t]]
<1>3. \A mine \in {"BLOCKED", "WAITING"} : [status EXCEPT ![cur] = mine] = Left(mine)
  BY <1>1 DEF TypeOK
<1> HIDE DEF Left
<1>4. CASE SleepBlock
  <2>1. cur # Main
    BY <1>1, <1>4 DEF SleepBlock, PlacesOK
  <2>2. Schedule(Left("BLOCKED"), next, ticks, "asleep")
        /\ UNCHANGED <<next, ticks, sleepTime, parent>>
    BY <1>3, <1>4 DEF SleepBlock
  <2> QED BY <2>1, <2>2, LeaveStep DEF Left, Places
<1>5. CASE Block
  <2>1. Schedule(Left("BLOCKED"), next, ticks, "blocked")
        /\ UNCHANGED <<next, ticks, sleepTime, parent>>
        /\ cur # Main /\ pc[cur] = "run"
    BY <1>3, <1>5 DEF Block
  <2> QED BY <2>1, <1>2, LeaveStep DEF Left, Places
<1>6. CASE Wait
  <2>1. Schedule(Left("WAITING"), next, ticks, "run")
        /\ UNCHANGED <<next, ticks, sleepTime, parent>>
        /\ cur # Main /\ pc[cur] = "run"
    BY <1>3, <1>6 DEF Wait, InUser, UserThreads
  <2> QED BY <2>1, <1>2, LeaveStep DEF Left, Places
<1>7. CASE Exit
  <2>1. Schedule(Left("DIED"), next, ticks, "run")
        /\ UNCHANGED <<next, ticks, sleepTime, parent>>
        /\ cur # Main /\ pc[cur] = "run"
    BY <1>7 DEF Exit, InUser, UserThreads, Left
  <2> QED BY <2>1, <1>2, LeaveStep DEF Left, Places
<1> QED BY <1>4, <1>5, <1>6, <1>7

LEMMA NextStep == IInv /\ [Next]_vars => IInv' /\ DeadKept
<1>1. IInv /\ UNCHANGED vars => IInv' /\ DeadKept
  BY DEF IInv, TypeOK, RingOK, Closed, Created, OneRunning, MainRunnable,
         PlacesOK, DeadKept, vars
<1> QED BY <1>1, TickStep, CreateKernStep, CreateUserStep, ForkStep,
           SleepStampStep, WakeupStep, GiveUpStep DEF Next

----------------------------------------------------------------------------
(* Every reachable state satisfies the inductive invariant. *)
THEOREM Invariance == Spec => []IInv
<1>1. Init => IInv
  BY InitIInv
<1>2. IInv /\ [Next]_vars => IInv'
  BY NextStep
<1> QED BY <1>1, <1>2, PTL DEF Spec

(* The variables keep their types: in particular schedule() always leaves  *)
(* cur_tcb at a TCB.                                                       *)
THEOREM TypeCorrect == Spec => []TypeOK
<1>1. IInv => TypeOK
  BY DEF IInv
<1> QED BY <1>1, Invariance, PTL

(* The ring stays one cycle through all the TCBs, however create_thread,   *)
(* user_fork and the switches of schedule() are interleaved.               *)
THEOREM RingStaysOne == Spec => []RingOK
<1>1. IInv => RingOK
  BY DEF IInv
<1> QED BY <1>1, Invariance, PTL

(* schedule(), thread_wakeup and user_exit leave exactly the thread of     *)
(* cur_tcb RUNNING.                                                        *)
THEOREM OneRunsAlways == Spec => []OneRunning
<1>1. IInv => OneRunning
  BY DEF IInv
<1> QED BY <1>1, Invariance, PTL

(* Only a thread inside user_sleep carries a stamp in ticks_cnt.           *)
THEOREM StampsAreFresh == Spec => []NoStaleStamp
<1>1. IInv => NoStaleStamp
  BY DEF IInv, PlacesOK, NoStaleStamp
<1> QED BY <1>1, Invariance, PTL

(* A thread that has exited is never made runnable again: in particular    *)
(* schedule() never takes its "ALL OF THE THREADS ARE BLOCKED" branch.     *)
THEOREM DeadStaysDeadAlways == Spec => DeadStaysDead
<1>1. IInv /\ [Next]_vars => [\A t \in Thread : status[t] = "DIED" => status'[t] = "DIED"]_vars
  BY NextStep DEF DeadKept
<1> QED BY <1>1, Invariance, PTL DEF Spec, DeadStaysDead
=============================================================================
