---------------------------- MODULE KLockProofs ----------------------------
(***************************************************************************)
(* The sleeping lock is safe, and implements a first come, first served    *)
(* mutex, for any set of threads and any nesting; and the ATA driver, whose *)
(* transfers it guards, moves the sectors it is asked for.                 *)
(***************************************************************************)
EXTENDS Ata, FiniteSetTheorems, TLAPS

(* The inductive invariant.  What the properties leave out: the holder has *)
(* asked for the lock, and a thread outside has nothing left to release.   *)
HolderAsked == \A t \in Thread : holder = t => pc[t] \in {"waiting", "in"}
DepthInside == \A t \in Thread : depth[t] # 0 <=> pc[t] = "in"

IInv ==
  /\ TypeOK
  /\ HolderInside /\ HolderAsked
  /\ WaitersListed
  /\ NoLostGrant
  /\ NestingCounted /\ DepthInside

----------------------------------------------------------------------------
(* Sequences as queues *)

LEMMA AppendElements ==
  ASSUME NEW S, NEW s \in Seq(S), NEW e \in S
  PROVE  Elements(Append(s, e)) = Elements(s) \cup {e}
<1>1. /\ Len(Append(s, e)) = Len(s) + 1
      /\ \A i \in 1 .. Len(s) : Append(s, e)[i] = s[i]
      /\ Append(s, e)[Len(s) + 1] = e
      /\ Len(s) \in Nat
  OBVIOUS
<1>2. 1 .. Len(s) + 1 = (1 .. Len(s)) \cup {Len(s) + 1}
  BY <1>1
<1> QED BY <1>1, <1>2 DEF Elements

LEMMA TailElements ==
  ASSUME NEW S, NEW s \in Seq(S), s # <<>>,
         \A i, j \in 1 .. Len(s) : s[i] = s[j] => i = j
  PROVE  /\ Tail(s) \in Seq(S) /\ Head(s) \in Elements(s)
         /\ Elements(Tail(s)) = Elements(s) \ {Head(s)}
         /\ \A i, j \in 1 .. Len(Tail(s)) : Tail(s)[i] = Tail(s)[j] => i = j
<1>1. /\ Tail(s) \in Seq(S) /\ Len(s) \in Nat \ {0}
      /\ Len(Tail(s)) = Len(s) - 1
      /\ \A i \in 1 .. Len(s) - 1 : Tail(s)[i] = s[i + 1]
      /\ Head(s) = s[1]
  OBVIOUS
<1>2. \A i \in 1 .. Len(s) : i # 1 => i - 1 \in 1 .. Len(s) - 1 /\ s[i] = Tail(s)[i - 1]
  BY <1>1
<1>3. Elements(Tail(s)) \subseteq Elements(s) \ {Head(s)}
  <2> SUFFICES ASSUME NEW i \in 1 .. Len(Tail(s))
               PROVE  Tail(s)[i] \in Elements(s) /\ Tail(s)[i] # Head(s)
    BY DEF Elements
  <2>1. i + 1 \in 1 .. Len(s) /\ 1 \in 1 .. Len(s) /\ i + 1 # 1
    BY <1>1
  <2> QED BY <1>1, <2>1 DEF Elements
<1>4. Elements(s) \ {Head(s)} \subseteq Elements(Tail(s))
  BY <1>1, <1>2 DEF Elements
<1>5. \A i, j \in 1 .. Len(Tail(s)) : Tail(s)[i] = Tail(s)[j] => i = j
  BY <1>1
<1>6. Head(s) \in Elements(s)
  BY <1>1 DEF Elements
<1> QED BY <1>1, <1>3, <1>4, <1>5, <1>6

LEMMA Cons ==
  ASSUME NEW S, NEW h \in S, NEW s \in Seq(S)
  PROVE  /\ <<h>> \o s \in Seq(S) /\ <<h>> \o s # <<>>
         /\ Len(<<h>> \o s) = Len(s) + 1
         /\ Head(<<h>> \o s) = h
         /\ Tail(<<h>> \o s) = s
  OBVIOUS

LEMMA ConsAppend ==
  ASSUME NEW S, NEW h \in S, NEW s \in Seq(S), NEW e \in S
  PROVE  <<h>> \o Append(s, e) = Append(<<h>> \o s, e)
  OBVIOUS

LEMMA HeadTail ==
  ASSUME NEW S, NEW s \in Seq(S), s # <<>>
  PROVE  Head(s) \in S /\ Tail(s) \in Seq(S) /\ <<Head(s)>> \o Tail(s) = s
  OBVIOUS

----------------------------------------------------------------------------
(* The steps preserve the inductive invariant. *)

LEMMA InitIInv == Init => IInv
<1> SUFFICES ASSUME Init PROVE IInv
  OBVIOUS
<1>1. TypeOK
  BY KLockAssumption DEF Init, TypeOK
<1>2. HolderInside /\ HolderAsked /\ NoLostGrant /\ NestingCounted /\ DepthInside
  BY KLockAssumption
     DEF Init, HolderInside, HolderAsked, NoLostGrant, NestingCounted, DepthInside
<1>3. WaitersListed
  BY DEF Init, WaitersListed, Elements
<1> QED BY <1>1, <1>2, <1>3 DEF IInv

LEMMA TypeStep == IInv /\ [Next]_vars => TypeOK'
<1> SUFFICES ASSUME IInv, [Next]_vars PROVE TypeOK'
  OBVIOUS
<1> USE DEF TypeOK
<1>0. TypeOK
  BY DEF IInv
<1>1. ASSUME NEW t \in Thread, AcquireAgain(t) PROVE TypeOK'
  BY <1>0, <1>1, KLockAssumption DEF AcquireAgain
<1>2. ASSUME NEW t \in Thread, AcquireFree(t) PROVE TypeOK'
  BY <1>0, <1>2, KLockAssumption DEF AcquireFree
<1>3. ASSUME NEW t \in Thread, AcquireHeld(t) PROVE TypeOK'
  BY <1>0, <1>3 DEF AcquireHeld
<1>4. ASSUME NEW t \in Thread, Resume(t) PROVE TypeOK'
  <2>0. UNCHANGED <<holder, repeat, waitList>>
    BY <1>4 DEF Resume
  <2>1. CASE holder = t
    BY <1>0, <1>4, <2>0, <2>1, KLockAssumption DEF Resume
  <2>2. CASE holder # t
    BY <1>0, <1>4, <2>0, <2>2 DEF Resume
  <2> QED BY <2>1, <2>2
<1>5. ASSUME NEW t \in Thread, ReleaseNested(t) PROVE TypeOK'
  <2>1. depth[t] \in 0 .. MaxNest /\ depth[t] # 0
    BY <1>0, <1>5 DEF IInv, DepthInside, ReleaseNested
  <2>2. depth[t] - 1 \in 0 .. MaxNest
    BY <2>1, KLockAssumption
  <2> QED BY <1>0, <1>5, <2>2 DEF ReleaseNested
<1>6. ASSUME NEW t \in Thread, ReleaseLast(t) PROVE TypeOK'
  <2>0. /\ repeat' = repeat /\ 0 \in 0 .. MaxNest
        /\ pc' = [pc EXCEPT ![t] = "out"] /\ depth' = [depth EXCEPT ![t] = 0]
    BY <1>6, KLockAssumption DEF ReleaseLast
  <2>1. CASE waitList = <<>>
    <3>1. holder' = NoThread /\ waitList' = waitList /\ status' = status
      BY <1>6, <2>1 DEF ReleaseLast
    <3> QED BY <1>0, <2>0, <3>1
  <2>2. CASE waitList # <<>>
    <3> DEFINE h == Head(waitList)
    <3>1. h \in Thread /\ Tail(waitList) \in Seq(Thread)
      BY <1>0, <2>2, HeadTail
    <3>2. holder' = h /\ waitList' = Tail(waitList)
          /\ status' = [status EXCEPT ![h] = "READY"]
      BY <1>6, <2>2 DEF ReleaseLast
    <3> HIDE DEF h
    <3> QED BY <1>0, <2>0, <3>1, <3>2
  <2> QED BY <2>1, <2>2
<1>7. ASSUME NEW t \in Thread, BlockInside(t) \/ StrayWakeup(t) PROVE TypeOK'
  BY <1>0, <1>7 DEF BlockInside, StrayWakeup
<1>8. CASE UNCHANGED vars
  BY <1>0, <1>8 DEF vars
<1> QED BY <1>1, <1>2, <1>3, <1>4, <1>5, <1>6, <1>7, <1>8 DEF Next, Acquire

(* The wait list: only AcquireHeld and a hand-over change it.              *)
LEMMA ListStep == IInv /\ [Next]_vars => WaitersListed'
<1> SUFFICES ASSUME IInv, [Next]_vars PROVE WaitersListed'
  OBVIOUS
<1>0. TypeOK /\ WaitersListed /\ HolderInside /\ HolderAsked /\ NoLostGrant
  BY DEF IInv
<1> DEFINE W == {u \in Thread : pc[u] = "waiting" /\ holder # u}
<1>1. ASSUME UNCHANGED <<holder, waitList, pc>> PROVE WaitersListed'
  BY <1>0, <1>1 DEF WaitersListed, Elements
<1>2. ASSUME NEW t \in Thread, AcquireFree(t) PROVE WaitersListed'
  <2>1. W' = W
    BY <1>0, <1>2, KLockAssumption DEF AcquireFree, TypeOK
  <2> QED BY <1>0, <1>2, <2>1 DEF AcquireFree, WaitersListed, Elements
<1>3. ASSUME NEW t \in Thread, AcquireHeld(t) PROVE WaitersListed'
  <2>1. t \notin Elements(waitList)
    BY <1>0, <1>3 DEF WaitersListed, AcquireHeld
  <2>2. W' = W \cup {t}
    BY <1>0, <1>3 DEF AcquireHeld, TypeOK
  <2>3. waitList' = Append(waitList, t) /\ waitList \in Seq(Thread)
    BY <1>0, <1>3 DEF AcquireHeld, TypeOK
  <2>4. Elements(waitList') = W'
    BY <1>0, <2>2, <2>3, AppendElements DEF WaitersListed
  <2>5. \A i, j \in 1 .. Len(waitList') : waitList'[i] = waitList'[j] => i = j
    BY <1>0, <2>1, <2>3 DEF WaitersListed, Elements
  <2> QED BY <2>4, <2>5 DEF WaitersListed, Elements
<1>4. ASSUME NEW t \in Thread, Resume(t) PROVE WaitersListed'
  <2>1. W' = W /\ waitList' = waitList
    BY <1>0, <1>4 DEF Resume, TypeOK
  <2> QED BY <1>0, <2>1 DEF WaitersListed, Elements
<1>5. ASSUME NEW t \in Thread, ReleaseLast(t) PROVE WaitersListed'
  <2>1. CASE waitList = <<>>
    <3>1. W = {} /\ waitList' = <<>>
      BY <1>0, <1>5, <2>1 DEF WaitersListed, Elements, ReleaseLast
    <3>2. W' = {}
      BY <1>0, <1>5, <3>1, <2>1 DEF ReleaseLast, TypeOK
    <3> QED BY <3>1, <3>2 DEF WaitersListed, Elements
  <2>2. CASE waitList # <<>>
    <3>1. /\ Head(waitList) \in Elements(waitList)
          /\ Elements(Tail(waitList)) = Elements(waitList) \ {Head(waitList)}
          /\ \A i, j \in 1 .. Len(Tail(waitList)) :
               Tail(waitList)[i] = Tail(waitList)[j] => i = j
      BY <1>0, <2>2, TailElements DEF TypeOK, WaitersListed
    <3>2. waitList' = Tail(waitList) /\ holder' = Head(waitList) /\ holder = t
      BY <1>5, <2>2 DEF ReleaseLast
    <3>3. W' = W \ {Head(waitList)}
      <4>1. \A u \in Thread : pc'[u] = IF u = t THEN "out" ELSE pc[u]
        BY <1>0, <1>5 DEF ReleaseLast, TypeOK
      <4>2. pc[t] # "waiting"
        BY <1>5 DEF ReleaseLast
      <4> QED BY <3>2, <4>1, <4>2
    <3>4. Elements(waitList') = W'
      BY <1>0, <3>1, <3>2, <3>3 DEF WaitersListed
    <3> QED BY <3>1, <3>2, <3>4 DEF WaitersListed, Elements
  <2> QED BY <2>1, <2>2
<1>6. CASE UNCHANGED vars
  BY <1>1, <1>6 DEF vars
<1>7. ASSUME NEW t \in Thread,
             AcquireAgain(t) \/ ReleaseNested(t) \/ BlockInside(t) \/ StrayWakeup(t)
      PROVE  WaitersListed'
  BY <1>1, <1>7 DEF AcquireAgain, ReleaseNested, BlockInside, StrayWakeup
<1> QED BY <1>2, <1>3, <1>4, <1>5, <1>6, <1>7 DEF Next, Acquire

(* The holder: a hand-over gives the lock to a thread that waits for it.   *)
LEMMA HolderStep ==
  IInv /\ [Next]_vars =>
    HolderInside' /\ HolderAsked' /\ NoLostGrant' /\ NestingCounted' /\ DepthInside'
<1> DEFINE Goal == HolderInside /\ HolderAsked /\ NoLostGrant /\ NestingCounted /\ DepthInside
<1> SUFFICES ASSUME IInv, [Next]_vars PROVE Goal'
  OBVIOUS
<1>0. TypeOK /\ Goal /\ WaitersListed
  BY DEF IInv
<1> USE DEF HolderInside, HolderAsked, NoLostGrant, NestingCounted, DepthInside, TypeOK
<1>1. ASSUME NEW t \in Thread, AcquireAgain(t) PROVE Goal'
  BY <1>0, <1>1, KLockAssumption DEF AcquireAgain
<1>2. ASSUME NEW t \in Thread, AcquireFree(t) PROVE Goal'
  BY <1>0, <1>2, KLockAssumption DEF AcquireFree
<1>3. ASSUME NEW t \in Thread, AcquireHeld(t) PROVE Goal'
  BY <1>0, <1>3, KLockAssumption DEF AcquireHeld
<1>4. ASSUME NEW t \in Thread, Resume(t) PROVE Goal'
  <2>0. pc[t] = "waiting" /\ status[t] = "READY" /\ UNCHANGED <<holder, repeat, waitList>>
    BY <1>4 DEF Resume, Runs
  <2>1. CASE holder = t
    <3>1. /\ pc' = [pc EXCEPT ![t] = "in"] /\ depth' = [depth EXCEPT ![t] = 1]
          /\ status' = status
      BY <1>4, <2>1 DEF Resume
    <3> QED BY <1>0, <2>0, <2>1, <3>1, KLockAssumption
  <2>2. CASE holder # t
    <3>1. status' = [status EXCEPT ![t] = "BLOCKED"] /\ pc' = pc /\ depth' = depth
      BY <1>4, <2>2 DEF Resume
    <3> QED BY <1>0, <2>0, <2>2, <3>1, KLockAssumption
  <2> QED BY <2>1, <2>2
<1>5. ASSUME NEW t \in Thread, ReleaseNested(t) PROVE Goal'
  BY <1>0, <1>5, KLockAssumption DEF ReleaseNested
<1>6. ASSUME NEW t \in Thread, ReleaseLast(t) PROVE Goal'
  <2>1. CASE waitList = <<>>
    BY <1>0, <1>6, <2>1, KLockAssumption DEF ReleaseLast
  <2>2. CASE waitList # <<>>
    <3> DEFINE h == Head(waitList)
    <3>1. h \in Elements(waitList)
      BY <1>0, <2>2, TailElements DEF WaitersListed
    <3>2. h \in Thread /\ pc[h] = "waiting" /\ h # t
      BY <1>0, <1>6, <3>1 DEF WaitersListed, ReleaseLast
    <3>3. /\ holder = t /\ holder' = h /\ repeat' = 0
          /\ status' = [status EXCEPT ![h] = "READY"]
          /\ pc' = [pc EXCEPT ![t] = "out"]
          /\ depth' = [depth EXCEPT ![t] = 0]
      BY <1>6, <2>2 DEF ReleaseLast
    <3> HIDE DEF h
    <3> QED BY <1>0, <3>2, <3>3, KLockAssumption
  <2> QED BY <2>1, <2>2
<1>7. ASSUME NEW t \in Thread, BlockInside(t) \/ StrayWakeup(t) PROVE Goal'
  BY <1>0, <1>7, KLockAssumption DEF BlockInside, StrayWakeup
<1>8. CASE UNCHANGED vars
  BY <1>0, <1>8 DEF vars
<1> QED BY <1>1, <1>2, <1>3, <1>4, <1>5, <1>6, <1>7, <1>8 DEF Next, Acquire

LEMMA NextIInv == IInv /\ [Next]_vars => IInv'
  BY TypeStep, ListStep, HolderStep DEF IInv

(* Every reachable state satisfies the inductive invariant. *)
THEOREM Invariance == Spec => []IInv
<1> QED BY InitIInv, NextIInv, PTL DEF Spec

(* lock_acquire and lock_release keep the lock's fields in their types.    *)
THEOREM TypeCorrect == Spec => []TypeOK
<1>1. IInv => TypeOK
  BY DEF IInv
<1> QED BY <1>1, Invariance, PTL

(* A thread whose lock_acquire has returned holds the lock.                *)
THEOREM InsideHolds == Spec => []HolderInside
<1>1. IInv => HolderInside
  BY DEF IInv
<1> QED BY <1>1, Invariance, PTL

(* Two threads are never between lock_acquire and lock_release at once.    *)
THEOREM MutualExclusion ==
  Spec => [](\A t, u \in Thread : pc[t] = "in" /\ pc[u] = "in" => t = u)
<1>1. IInv => \A t, u \in Thread : pc[t] = "in" /\ pc[u] = "in" => t = u
  BY DEF IInv, HolderInside
<1> QED BY <1>1, Invariance, PTL

(* The wait list names exactly the threads that wait without the lock,     *)
(* each of them once.                                                      *)
THEOREM ListIsExact == Spec => []WaitersListed
<1>1. IInv => WaitersListed
  BY DEF IInv
<1> QED BY <1>1, Invariance, PTL

(* A thread that has been handed the lock is awake; nobody waits for a     *)
(* free lock.                                                              *)
THEOREM GrantsAreNotLost == Spec => []NoLostGrant
<1>1. IInv => NoLostGrant
  BY DEF IInv
<1> QED BY <1>1, Invariance, PTL

(* repeat_ref_count counts the holder's nesting.                           *)
THEOREM NestingIsCounted == Spec => []NestingCounted
<1>1. IInv => NestingCounted
  BY DEF IInv
<1> QED BY <1>1, Invariance, PTL

----------------------------------------------------------------------------
(* Refinement: the holder followed by the wait list is the queue of the    *)
(* abstract mutex.                                                         *)

Queue == IF holder = NoThread THEN <<>> ELSE <<holder>> \o waitList
Inside == {t \in Thread : pc[t] = "in"}

LEMMA InitRefines == Init => Mutex!AInit
  BY KLockAssumption DEF Init, Mutex!AInit

(* Who has asked for the lock, in the abstract mutex, is the holder or on  *)
(* the wait list.                                                          *)
LEMMA AskedMeansQueued ==
  ASSUME IInv, NEW t \in Thread, pc[t] = "out"
  PROVE  ~Mutex!Asked(t)
<1>1. t # holder /\ t \notin Elements(waitList)
  BY DEF IInv, HolderAsked, WaitersListed
<1>2. waitList \in Seq(Thread) /\ holder \in Thread \cup {NoThread}
  BY DEF IInv, TypeOK
<1>3. CASE holder = NoThread
  BY <1>3 DEF Mutex!Asked
<1>4. CASE holder # NoThread
  <2>1. \A i \in 1 .. Len(<<holder>> \o waitList) :
          \/ (<<holder>> \o waitList)[i] = holder
          \/ i - 1 \in 1 .. Len(waitList) /\ (<<holder>> \o waitList)[i] = waitList[i - 1]
    BY <1>2, <1>4
  <2> QED BY <1>1, <1>4, <2>1 DEF Mutex!Asked, Elements
<1> QED BY <1>3, <1>4

LEMMA NextRefines == IInv /\ [Next]_vars => [Mutex!ANext]_Mutex!avars
<1> SUFFICES ASSUME IInv, [Next]_vars PROVE [Mutex!ANext]_Mutex!avars
  OBVIOUS
<1>0. TypeOK /\ HolderInside /\ HolderAsked /\ WaitersListed /\ NoLostGrant
  BY DEF IInv
<1>a. Mutex!avars = <<Queue, Inside, repeat>>
  BY DEF Mutex!avars, Queue, Inside
<1>1. ASSUME NEW t \in Thread, AcquireAgain(t) PROVE Mutex!AskAgain(t)
  BY <1>0, <1>1 DEF AcquireAgain, Mutex!AskAgain
<1>2. ASSUME NEW t \in Thread, AcquireFree(t) PROVE Mutex!Ask(t)
  <2>1. waitList = <<>> /\ waitList' = <<>> /\ holder = NoThread /\ holder' = t
        /\ t # NoThread /\ repeat' = repeat
    BY <1>0, <1>2, KLockAssumption DEF AcquireFree, NoLostGrant
  <2>2. Inside = {} /\ Inside' = {t}
    BY <1>0, <1>2, KLockAssumption DEF AcquireFree, HolderInside, Inside, TypeOK
  <2>3. Queue = <<>> /\ Queue' = <<t>>
    BY <2>1 DEF Queue
  <2>4. ~Mutex!Asked(t)
    BY <1>2, AskedMeansQueued DEF AcquireFree
  <2>5. Queue' = Append(Queue, t) /\ Inside' = IF Queue = <<>> THEN {t} ELSE Inside
    BY <2>2, <2>3
  <2> QED BY <2>1, <2>4, <2>5 DEF Mutex!Ask, Queue, Inside
<1>3. ASSUME NEW t \in Thread, AcquireHeld(t) PROVE Mutex!Ask(t)
  <2>1. waitList' = Append(waitList, t) /\ holder' = holder /\ holder # NoThread
        /\ repeat' = repeat /\ waitList \in Seq(Thread) /\ holder \in Thread
    BY <1>0, <1>3 DEF AcquireHeld, TypeOK
  <2>2. Inside' = Inside
    BY <1>0, <1>3 DEF AcquireHeld, Inside, TypeOK
  <2>3. Queue' = Append(Queue, t) /\ Queue # <<>>
    BY <2>1, Cons, ConsAppend DEF Queue
  <2>4. ~Mutex!Asked(t)
    BY <1>3, AskedMeansQueued DEF AcquireHeld
  <2> QED BY <2>1, <2>2, <2>3, <2>4 DEF Mutex!Ask, Queue, Inside
<1>4. ASSUME NEW t \in Thread, Resume(t)
      PROVE  Mutex!Enter(t) \/ UNCHANGED Mutex!avars
  <2>1. CASE holder = t
    <3>1. pc' = [pc EXCEPT ![t] = "in"] /\ UNCHANGED <<holder, repeat, waitList>>
          /\ waitList \in Seq(Thread) /\ holder # NoThread
      BY <1>0, <1>4, <2>1, KLockAssumption DEF Resume, TypeOK
    <3>2. Inside' = Inside \cup {t}
      BY <1>0, <3>1 DEF Inside, TypeOK
    <3>3. Queue # <<>> /\ Head(Queue) = t /\ Queue' = Queue
      BY <2>1, <3>1, Cons DEF Queue
    <3> QED BY <3>1, <3>2, <3>3 DEF Mutex!Enter, Queue, Inside
  <2>2. CASE holder # t
    BY <1>4, <2>2 DEF Resume, Mutex!avars
  <2> QED BY <2>1, <2>2
<1>5. ASSUME NEW t \in Thread, ReleaseNested(t) PROVE Mutex!Leave(t)
  BY <1>0, <1>5 DEF ReleaseNested, Mutex!Leave, TypeOK
<1>6. ASSUME NEW t \in Thread, ReleaseLast(t) PROVE Mutex!Leave(t)
  <2>1. holder = t /\ repeat = 0 /\ repeat' = repeat /\ t # NoThread
        /\ pc' = [pc EXCEPT ![t] = "out"] /\ t \in Inside
    BY <1>6, KLockAssumption DEF ReleaseLast, Inside
  <2>2. Inside' = Inside \ {t}
    BY <1>0, <2>1 DEF Inside, TypeOK
  <2>3. waitList \in Seq(Thread)
    BY <1>0 DEF TypeOK
  <2>4. Queue' = Tail(Queue)
    <3>1. Tail(Queue) = waitList
      BY <2>1, <2>3, Cons DEF Queue
    <3>2. CASE waitList = <<>>
      BY <1>6, <3>1, <3>2 DEF ReleaseLast, Queue
    <3>3. CASE waitList # <<>>
      <4>1. holder' = Head(waitList) /\ waitList' = Tail(waitList)
        BY <1>6, <3>3 DEF ReleaseLast
      <4>2. <<Head(waitList)>> \o Tail(waitList) = waitList /\ Head(waitList) # NoThread
        BY <2>3, <3>3, HeadTail, KLockAssumption
      <4> QED BY <3>1, <4>1, <4>2 DEF Queue
    <3> QED BY <3>2, <3>3
  <2> QED BY <2>1, <2>2, <2>4 DEF Mutex!Leave, Queue, Inside
<1>7. ASSUME NEW t \in Thread, BlockInside(t) \/ StrayWakeup(t)
      PROVE  UNCHANGED Mutex!avars
  BY <1>7 DEF BlockInside, StrayWakeup, Mutex!avars
<1>8. CASE UNCHANGED vars
  BY <1>8 DEF vars, Mutex!avars
<1> QED BY <1>1, <1>2, <1>3, <1>4, <1>5, <1>6, <1>7, <1>8
        DEF Next, Acquire, Mutex!ANext

(* lock_acquire and lock_release implement a re-entrant mutex that is      *)
(* granted first come, first served.                                       *)
THEOREM LockImplementsMutex == Spec => ImplementsMutex
<1> QED BY InitRefines, NextRefines, Invariance, PTL
        DEF Spec, ImplementsMutex, Mutex!ASpec

----------------------------------------------------------------------------
(* ------------------------------ The driver ------------------------------ *)

Packs == {"ppoll", "send", "wait", "clear", "dpoll", "wait2", "clear2", "drain"}
Commands == {"poll", "wpoll", "flush", "fpoll"}

Drives ==
  /\ DOMAIN drives \subseteq Nat
  /\ \A d \in DOMAIN drives : drives[d].type \in {"ata", "atapi"} /\ drives[d].channel \in Channels

Transfers ==
  [op : {"read", "write", "zero"}, drive : DOMAIN drives, lba : Nat, n : Nat,
   moved : Seq({NoX} \cup (Nat \X Nat)), ret : {0, 2, 3, 114}, each : Nat,
   step : {"start", "move", "done"} \cup Packs \cup Commands]

DeviceStates ==
  [phase : {"idle", "busy", "drq", "fault"}, then : {"idle", "drq"}, rings : BOOLEAN,
   drive : Nat, at : Nat, left : Nat]

ATypes ==
  /\ xfer \in [Thread -> Transfers \cup {NoX, Ended}]
  /\ dev \in [Channels -> DeviceStates]
  /\ ien \in [Channels -> BOOLEAN]
  /\ pend \in BOOLEAN /\ irq \in BOOLEAN /\ torn \in BOOLEAN

Under(t) == xfer[t] \notin {NoX, Ended}

(* ide_dev_read and ide_dev_write transfer inside the lock, and only one    *)
(* transfer is under way on a channel.                                      *)
InLock == \A t \in Thread : Under(t) /\ xfer[t].op # "zero" => pc[t] = "in"
OwnChannel == \A t, u \in Thread : t # u /\ Active(t) /\ Active(u) => Chan(t) # Chan(u)

(* What a transfer has done so far. *)
Account(x, type) ==
  /\ Len(x.moved) <= x.n
  /\ \A k \in 1 .. Len(x.moved) : x.moved[k] \in {NoX, <<x.drive, x.lba + k - 1>>}
  /\ type = "atapi" => x.op = "read" /\ x.each = 1 /\ x.step \notin Commands
  /\ type = "ata" => x.each = (IF x.op = "zero" THEN 1 ELSE x.n) /\ x.step \notin Packs
  /\ x.step \in {"poll", "wpoll", "move", "ppoll", "send", "wait", "clear", "dpoll"}
       => Len(x.moved) < x.n
  /\ x.step \in {"wpoll", "flush", "fpoll"} => x.op # "read"
  /\ x.step = "start" => Len(x.moved) < x.n \/ x.each = 0
  /\ x.step \in {"wait2", "clear2", "drain"}
       => Len(x.moved) > 0 /\ x.moved[Len(x.moved)] # NoX
  /\ x.step = "done" /\ x.ret = 0
       => Len(x.moved) = x.n /\ (x.op = "read" /\ x.n > 0 => x.moved[x.n] # NoX)

(* The data the device has or fetches is that of the next sector. *)
Data(x, v) ==
  /\ /\ x.step \in {"poll", "wpoll", "wait", "clear", "dpoll", "move"}
     /\ v.phase = "drq" \/ (v.phase = "busy" /\ v.then = "drq")
     => v.drive = x.drive /\ v.at = Here(x)
  /\ x.step = "move" => v.phase # "busy" /\ (x.op = "read" => v.phase = "drq")

(* A packet's interrupts are enabled, and it has one to wait for. *)
Rings(s, type) == type = "atapi" /\ s \notin {"start", "done"}

Rung(t) ==
  /\ Rings(xfer[t].step, Drive(t).type) => ien[Chan(t)]
  /\ xfer[t].step \in {"wait", "wait2"} =>
       irq \/ pend \/ (dev[Chan(t)].phase = "busy" /\ dev[Chan(t)].rings)

Kept(t) ==
  /\ Account(xfer[t], Drive(t).type)
  /\ Data(xfer[t], dev[Chan(t)])
  /\ Rung(t)

AInv ==
  /\ Drives /\ ATypes /\ InLock
  /\ ~torn => OwnChannel /\ \A t \in Thread : Under(t) => Kept(t)

(* Who is counted up to a position, step by step. *)
LEMMA FewAreFinite == ASSUME NEW P, P \subseteq 1 .. 4 PROVE IsFiniteSet(P)
<1>1. 1 \in Int /\ 4 \in Int
  OBVIOUS
<1>2. IsFiniteSet(1 .. 4)
  BY <1>1, FS_Interval
<1> QED BY <1>2, FS_Subset

LEMMA RankIs ==
  ASSUME NEW P, P \subseteq 1 .. 4, NEW k \in 1 .. Cardinality(P)
  PROVE  \E i \in P : Cardinality({j \in P : j <= i}) = k
<1> DEFINE R(i) == {j \in P : j <= i}
           c(i) == Cardinality(R(i))
<1>0. \A j \in P : j \in Int /\ 1 <= j /\ j <= 4
  OBVIOUS
<1>1. IsFiniteSet(P) /\ \A i : IsFiniteSet(R(i))
  BY FewAreFinite, FS_Subset
<1>2. \A i : c(i) \in Nat
  BY <1>1, FS_CardinalityType
<1>3. c(0) = 0 /\ c(4) = Cardinality(P)
  <2>1. \A j \in R(0) : FALSE
    BY <1>0
  <2>2. \A j \in P : j \in R(4)
    BY <1>0
  <2> QED BY <2>1, <2>2, FS_EmptySet
<1>4. ASSUME NEW i \in 0 .. 3
      PROVE  (i + 1 \in P /\ c(i + 1) = c(i) + 1) \/ c(i + 1) = c(i)
  <2>0. \A j \in P : (j <= i + 1 <=> j <= i \/ j = i + 1) /\ ~(i + 1 <= i)
    BY <1>0
  <2>1. CASE i + 1 \in P
    <3>1. R(i + 1) = R(i) \cup {i + 1} /\ i + 1 \notin R(i)
      BY <2>0, <2>1
    <3>2. IsFiniteSet(R(i))
      BY <1>1
    <3> HIDE DEF R
    <3>3. Cardinality(R(i) \cup {i + 1}) = Cardinality(R(i)) + 1
      BY <3>1, <3>2, FS_AddElement
    <3> QED BY <2>1, <3>1, <3>3
  <2>2. CASE i + 1 \notin P
    <3>1. R(i + 1) = R(i)
      BY <2>0, <2>2
    <3> QED BY <3>1
  <2> QED BY <2>1, <2>2
<1> HIDE DEF c
<1>5. \E i \in 1 .. 4 : i \in P /\ c(i) = k
  <2>1. 0 \in 0 .. 3 /\ 1 \in 0 .. 3 /\ 2 \in 0 .. 3 /\ 3 \in 0 .. 3
        /\ 0 + 1 = 1 /\ 1 + 1 = 2 /\ 2 + 1 = 3 /\ 3 + 1 = 4
    OBVIOUS
  <2>2. (1 \in P /\ c(1) = c(0) + 1) \/ c(1) = c(0)
    BY <1>4, <2>1
  <2>3. (2 \in P /\ c(2) = c(1) + 1) \/ c(2) = c(1)
    BY <1>4, <2>1
  <2>4. (3 \in P /\ c(3) = c(2) + 1) \/ c(3) = c(2)
    BY <1>4, <2>1
  <2>5. (4 \in P /\ c(4) = c(3) + 1) \/ c(4) = c(3)
    BY <1>4, <2>1
  <2>6. k \in Nat /\ 1 <= k /\ k <= c(4)
    BY <1>2, <1>3
  <2> QED BY <1>2, <1>3, <2>2, <2>3, <2>4, <2>5, <2>6
<1> QED BY <1>5 DEF c

LEMMA DetectedIs ==
  ASSUME NEW b \in Buses, drives = Detected(b)
  PROVE  Drives
<1> DEFINE P == Present(b)
           At(k) == CHOOSE i \in P : Cardinality({j \in P : j <= i}) = k
<1>1. b \in Seq([is : {"ata", "atapi", "other", "none"}, lba : BOOLEAN]) /\ Len(b) <= 4
  BY AtaAssumption
<1>2. P \subseteq 1 .. 4 /\ \A i \in P : b[i].is \in {"ata", "atapi"}
  BY <1>1 DEF Present
<1>3. Cardinality(P) \in Nat
  BY <1>2, FewAreFinite, FS_CardinalityType
<1>4. \A k \in 1 .. Cardinality(P) : At(k) \in P
  BY <1>2, RankIs
<1>5. DOMAIN drives = 1 .. Cardinality(P)
  BY DEF Detected
<1>6. \A k \in 1 .. Cardinality(P) :
        drives[k] = [type |-> b[At(k)].is, channel |-> (At(k) - 1) \div 2,
                     drive |-> (At(k) - 1) % 2, lba |-> b[At(k)].lba]
  BY DEF Detected
<1>7. \A i \in 1 .. 4 : (i - 1) \div 2 \in Channels
  BY DEF Channels
<1> HIDE DEF P, At
<1>8. ASSUME NEW k \in DOMAIN drives
      PROVE  drives[k].type \in {"ata", "atapi"} /\ drives[k].channel \in Channels
  <2>1. At(k) \in P /\ At(k) \in 1 .. 4
    BY <1>2, <1>4, <1>5
  <2>2. drives[k].type = b[At(k)].is /\ drives[k].channel = (At(k) - 1) \div 2
    BY <1>5, <1>6
  <2> QED BY <1>2, <1>7, <2>1, <2>2
<1>9. DOMAIN drives \subseteq Nat
  BY <1>3, <1>5
<1> QED BY <1>8, <1>9 DEF Drives

LEMMA AtaInitially == AInit => AInv
<1> SUFFICES ASSUME AInit PROVE AInv
  OBVIOUS
<1>1. Drives
  BY DetectedIs DEF AInit
<1>2. Still \in DeviceStates /\ FALSE \in BOOLEAN
  BY DEF Still, DeviceStates
<1>3. ATypes
  BY <1>2 DEF AInit, ATypes
<1>4. \A t \in Thread : ~Under(t) /\ ~Active(t)
  BY DEF AInit, Under, Active
<1> QED BY <1>1, <1>3, <1>4 DEF AInv, InLock, OwnChannel

(* The lock sees its own steps only. *)
LEMMA LockSteps == [ANext]_all => [Next]_vars
<1> SUFFICES ASSUME [ANext]_all PROVE [Next]_vars
  OBVIOUS
<1>1. CASE Irq \/ \E c \in Channels : Device(c)
  BY <1>1 DEF Irq, Device, vars
<1>2. ASSUME NEW t \in Thread, Begin(t) \/ Transfer(t) PROVE UNCHANGED vars
  BY <1>2 DEF Begin, Transfer, Command, Packet, Poll, PollOnly, Send, WaitIrq, Move, Flush, Drain,
              Finish, vars
<1>3. ASSUME NEW t \in Thread, Nested(t) \/ Nap(t) \/ Take(t) \/ Wake(t) \/ Give(t) \/ Stray(t)
      PROVE  Next
  BY <1>3 DEF Nested, Nap, Take, Wake, Give, Stray, Next, Acquire
<1>4. CASE UNCHANGED all
  BY <1>4 DEF all, vars
<1> QED BY <1>1, <1>2, <1>3, <1>4 DEF ANext

(* A transfer steps: what it does to the device of its own channel concerns  *)
(* no other, and an interrupt is taken only by a packet read, of which the   *)
(* lock allows one.                                                          *)
LEMMA OneMoves ==
  ASSUME AInv, IInv, NEW t \in Thread, Active(t), NEW y \in Transfers,
         UNCHANGED <<vars, drives>>, xfer' = [xfer EXCEPT ![t] = y],
         y.drive = xfer[t].drive, y.op = xfer[t].op, torn' \in BOOLEAN, ~torn,
         dev' \in [Channels -> DeviceStates], ien' \in [Channels -> BOOLEAN],
         irq' \in BOOLEAN, pend' \in BOOLEAN,
         \A c \in Channels \ {Chan(t)} : dev'[c] = dev[c] /\ ien'[c] = ien[c],
         (irq \/ pend => irq' \/ pend') \/ xfer[t].step \in Packs,
         ~torn' => /\ Account(y, Drive(t).type)
                   /\ Data(y, dev'[Chan(t)])
                   /\ Rings(y.step, Drive(t).type) => ien'[Chan(t)]
                   /\ y.step \in {"wait", "wait2"} =>
                        irq' \/ pend' \/ (dev'[Chan(t)].phase = "busy" /\ dev'[Chan(t)].rings)
  PROVE  AInv'
<1>0. /\ Drives /\ ATypes /\ InLock /\ OwnChannel
      /\ \A u \in Thread : Under(u) => Kept(u)
  BY DEF AInv
<1>1. Drives' /\ Transfers' = Transfers
  BY <1>0 DEF Drives, Transfers
<1>2. xfer'[t] = y /\ \A u \in Thread \ {t} : xfer'[u] = xfer[u]
  BY <1>0 DEF ATypes
<1>3. ATypes'
  <2>1. xfer' \in [Thread -> Transfers \cup {NoX, Ended}]
    BY <1>0 DEF ATypes
  <2> QED BY <1>1, <2>1 DEF ATypes
<1>4. Under(t) /\ xfer[t].step # "done" /\ xfer[t] \in Transfers
  BY <1>0 DEF Active, Under, ATypes
<1>5. InLock'
  <2> SUFFICES ASSUME NEW u \in Thread, Under(u)', xfer'[u].op # "zero" PROVE pc'[u] = "in"
    BY DEF InLock
  <2>1. CASE u = t
    BY <1>0, <1>2, <1>4, <2>1 DEF InLock, vars
  <2>2. CASE u # t
    BY <1>0, <1>2, <2>2 DEF InLock, Under, vars
  <2> QED BY <2>1, <2>2
<1>6. \A u \in Thread : Chan(u)' = IF u = t THEN Chan(t) ELSE Chan(u)
  BY <1>2 DEF Chan, Drive
<1>7. \A u \in Thread : Active(u)' => Active(u)
  BY <1>2 DEF Active
<1>8. OwnChannel'
  <2> SUFFICES ASSUME NEW u \in Thread, NEW w \in Thread, u # w, Active(u)', Active(w)'
               PROVE  Chan(u)' # Chan(w)'
    BY DEF OwnChannel
  <2>1. Chan(u) # Chan(w)
    BY <1>0, <1>7 DEF OwnChannel
  <2>2. Chan(u)' = Chan(u) /\ Chan(w)' = Chan(w)
    BY <1>6
  <2> QED BY <2>1, <2>2
<1>9. ASSUME ~torn', NEW u \in Thread, Under(u)' PROVE Kept(u)'
  <2>1. CASE u = t
    <3>1. Account(xfer[t], Drive(t).type)' /\ Data(xfer[t], dev[Chan(t)])'
      <4>1. Drive(t)' = Drive(t) /\ Chan(t)' = Chan(t)
        BY <1>2, <1>6 DEF Drive
      <4> QED BY <1>2, <1>9, <4>1
              DEF Account, Data, Here
    <3>2. Rung(t)'
      <4>1. Drive(t)' = Drive(t)
        BY <1>2 DEF Drive
      <4> QED BY <1>2, <1>6, <1>9, <4>1 DEF Rung, Rings
    <3> QED BY <2>1, <3>1, <3>2 DEF Kept
  <2>2. CASE u # t
    <3>1. xfer'[u] = xfer[u] /\ Drive(u)' = Drive(u) /\ Chan(u)' = Chan(u) /\ Under(u)
      BY <1>2, <1>6, <1>9, <2>2 DEF Drive, Under
    <3>2. Kept(u) /\ xfer[u] \in Transfers
      BY <1>0, <3>1 DEF Under, ATypes
    <3>3. Account(xfer[u], Drive(u).type)'
      BY <3>1, <3>2 DEF Account, Kept
    <3>4. CASE xfer[u].step = "done"
      <4>1. Data(xfer[u], dev[Chan(u)])' /\ Rung(u)'
        BY <3>1, <3>4 DEF Data, Rung, Rings
      <4> QED BY <3>3, <4>1 DEF Kept
    <3>5. CASE xfer[u].step # "done"
      <4>1. Active(u)
        BY <3>1, <3>5 DEF Active, Under
      <4>2. Chan(u) # Chan(t)
        BY <1>0, <2>2, <4>1 DEF OwnChannel
      <4>3. Chan(u) \in Channels
        BY <1>0, <3>2 DEF Drives, Transfers, Chan, Drive
      <4>4. dev'[Chan(u)] = dev[Chan(u)] /\ ien'[Chan(u)] = ien[Chan(u)]
        BY <4>2, <4>3
      <4>5. Data(xfer[u], dev[Chan(u)])'
        BY <3>1, <3>2, <4>4 DEF Data, Here, Kept
      <4>6. xfer[u].step \in Packs => xfer[t].step \notin Packs
        <5> SUFFICES ASSUME xfer[u].step \in Packs, xfer[t].step \in Packs PROVE FALSE
          OBVIOUS
        <5>1. Kept(t)
          BY <1>0, <1>4
        <5>2. xfer[u].op = "read" /\ xfer[t].op = "read"
          <6>1. Drive(u).type \in {"ata", "atapi"} /\ Drive(t).type \in {"ata", "atapi"}
            BY <1>0, <1>4, <3>2 DEF Drives, Transfers, Drive
          <6> QED BY <3>2, <5>1, <6>1 DEF Kept, Account
        <5>3. pc[u] = "in" /\ pc[t] = "in"
          BY <1>0, <1>4, <3>1, <5>2 DEF InLock
        <5> QED BY <2>2, <5>3 DEF IInv, HolderInside
      <4>7. Rung(u)'
        BY <3>1, <3>2, <4>4, <4>6 DEF Rung, Rings, Kept, Packs
      <4> QED BY <3>3, <4>5, <4>7 DEF Kept
    <3> QED BY <3>4, <3>5
  <2> QED BY <2>1, <2>2
<1> QED BY <1>1, <1>3, <1>5, <1>8, <1>9 DEF AInv

(* What a step leaves of a transfer. *)
Entries == {NoX} \cup (Nat \X Nat)
Steps == {"start", "move", "done"} \cup Packs \cup Commands
Changed(x, m, s, r) ==
  [op |-> x.op, drive |-> x.drive, lba |-> x.lba, n |-> x.n, moved |-> m,
   ret |-> r, each |-> x.each, step |-> s]

LEMMA ChangedIs ==
  ASSUME NEW x \in Transfers, NEW m \in Seq(Entries), NEW s \in Steps, NEW r \in {0, 2, 3, 114}
  PROVE  /\ Changed(x, m, s, r) \in Transfers
         /\ Changed(x, m, s, r).op = x.op /\ Changed(x, m, s, r).drive = x.drive
         /\ Changed(x, m, s, r).lba = x.lba /\ Changed(x, m, s, r).n = x.n
         /\ Changed(x, m, s, r).each = x.each
         /\ Changed(x, m, s, r).moved = m /\ Changed(x, m, s, r).step = s
         /\ Changed(x, m, s, r).ret = r
<1>1. /\ x.op \in {"read", "write", "zero"} /\ x.drive \in DOMAIN drives
      /\ x.lba \in Nat /\ x.n \in Nat /\ x.each \in Nat
  BY DEF Transfers
<1>2. Changed(x, m, s, r) \in Transfers
  BY <1>1 DEF Changed, Transfers, Entries, Steps
<1> QED BY <1>2 DEF Changed

Stepped(y, s) == [y EXCEPT !.step = s]
Returned(y, s, r) == [y EXCEPT !.step = s, !.ret = r]

LEMMA SteppedIs ==
  ASSUME NEW x \in Transfers, NEW s
  PROVE  [x EXCEPT !.step = s] = Changed(x, x.moved, s, x.ret)
<1> PICK y : y = [x EXCEPT !.step = s]
  OBVIOUS
<1>1. y \in [op : {x.op}, drive : {x.drive}, lba : {x.lba}, n : {x.n}, moved : {x.moved},
            ret : {x.ret}, each : {x.each}, step : {s}]
  BY DEF Transfers
<1> QED BY <1>1 DEF Changed

LEMMA ReturnedIs ==
  ASSUME NEW x \in Transfers, NEW s, NEW r
  PROVE  [x EXCEPT !.step = s, !.ret = r] = Changed(x, x.moved, s, r)
<1> PICK y : y = [x EXCEPT !.step = s, !.ret = r]
  OBVIOUS
<1>1. y \in [op : {x.op}, drive : {x.drive}, lba : {x.lba}, n : {x.n}, moved : {x.moved},
            ret : {r}, each : {x.each}, step : {s}]
  BY DEF Transfers
<1> QED BY <1>1 DEF Changed

LEMMA MovedIs ==
  ASSUME NEW x \in Transfers, NEW m
  PROVE  [x EXCEPT !.moved = m] = Changed(x, m, x.step, x.ret)
<1> PICK y : y = [x EXCEPT !.moved = m]
  OBVIOUS
<1>1. y \in [op : {x.op}, drive : {x.drive}, lba : {x.lba}, n : {x.n}, moved : {m},
            ret : {x.ret}, each : {x.each}, step : {x.step}]
  BY DEF Transfers
<1> QED BY <1>1 DEF Changed

LEMMA MovedSteppedIs ==
  ASSUME NEW x \in Transfers, NEW m, NEW s
  PROVE  Stepped(Changed(x, m, x.step, x.ret), s) = Changed(x, m, s, x.ret)
<1> PICK y : y = Changed(x, m, x.step, x.ret)
  OBVIOUS
<1>1. y \in [op : {x.op}, drive : {x.drive}, lba : {x.lba}, n : {x.n}, moved : {m},
            ret : {x.ret}, each : {x.each}, step : {x.step}]
  BY DEF Changed
<1> PICK z : z = [y EXCEPT !.step = s]
  OBVIOUS
<1>2. z \in [op : {x.op}, drive : {x.drive}, lba : {x.lba}, n : {x.n}, moved : {m},
            ret : {x.ret}, each : {x.each}, step : {s}]
  BY <1>1
<1> QED BY <1>2 DEF Changed, Stepped

LEMMA MovedReturnedIs ==
  ASSUME NEW x \in Transfers, NEW m, NEW s, NEW r
  PROVE  Returned(Changed(x, m, x.step, x.ret), s, r) = Changed(x, m, s, r)
<1> PICK y : y = Changed(x, m, x.step, x.ret)
  OBVIOUS
<1>1. y \in [op : {x.op}, drive : {x.drive}, lba : {x.lba}, n : {x.n}, moved : {m},
            ret : {x.ret}, each : {x.each}, step : {x.step}]
  BY DEF Changed
<1> PICK z : z = [y EXCEPT !.step = s, !.ret = r]
  OBVIOUS
<1>2. z \in [op : {x.op}, drive : {x.drive}, lba : {x.lba}, n : {x.n}, moved : {m},
            ret : {r}, each : {x.each}, step : {s}]
  BY <1>1
<1> QED BY <1>2 DEF Changed, Returned

LEMMA Grows ==
  ASSUME NEW m \in Seq(Entries), NEW e \in Entries
  PROVE  /\ Append(m, e) \in Seq(Entries) /\ Len(m) \in Nat
         /\ Len(Append(m, e)) = Len(m) + 1
         /\ \A k \in 1 .. Len(m) : Append(m, e)[k] = m[k]
         /\ Append(m, e)[Len(m) + 1] = e
  OBVIOUS

LEMMA Acting ==
  ASSUME AInv, NEW t \in Thread, NEW s, In(t, s), s # "done"
  PROVE  /\ ~torn /\ Active(t) /\ xfer[t] \in Transfers /\ xfer[t].step = s /\ Kept(t)
         /\ Chan(t) \in Channels /\ Drive(t).type \in {"ata", "atapi"}
         /\ dev[Chan(t)] \in DeviceStates
         /\ xfer[t].drive \in Nat /\ xfer[t].moved \in Seq(Entries)
  BY DEF AInv, In, Active, Under, ATypes, Drives, Transfers, Chan, Drive, Entries

LEMMA ToIs ==
  ASSUME ATypes, NEW t \in Thread, xfer[t] \in Transfers, NEW s, To(t, s)
  PROVE  xfer' = [xfer EXCEPT ![t] = Changed(xfer[t], xfer[t].moved, s, xfer[t].ret)]
<1>1. xfer' = [xfer EXCEPT ![t] = [xfer[t] EXCEPT !.step = s]]
  BY DEF To, ATypes
<1> QED BY <1>1, SteppedIs

LEMMA ReturnIs ==
  ASSUME ATypes, NEW t \in Thread, xfer[t] \in Transfers, NEW r, Return(t, r)
  PROVE  xfer' = [xfer EXCEPT ![t] = Changed(xfer[t], xfer[t].moved, "done", r)]
<1>1. [xfer[t] EXCEPT !.step = "done", !.ret = r] = Changed(xfer[t], xfer[t].moved, "done", r)
  BY ReturnedIs
<1> QED BY <1>1 DEF Return

(* Onward: the sectors so far are m. *)
NextStep(x, m) == IF Len(m) < x.n THEN "start" ELSE "done"
Left(x, r) == IF x.op = "zero" THEN 0 ELSE r

LEMMA OnwardIs ==
  ASSUME NEW t \in Thread, xfer[t] \in Transfers, NEW r, Onward(t, xfer[t], r)
  PROVE  xfer' = [xfer EXCEPT ![t] = Changed(xfer[t], xfer[t].moved,
                                             NextStep(xfer[t], xfer[t].moved), Left(xfer[t], r))]
<1>1. PICK s, q : s = NextStep(xfer[t], xfer[t].moved) /\ q = Left(xfer[t], r)
  OBVIOUS
<1>2. [xfer[t] EXCEPT !.step = s, !.ret = q] = Changed(xfer[t], xfer[t].moved, s, q)
  BY ReturnedIs
<1>3. xfer' = [xfer EXCEPT ![t] = [xfer[t] EXCEPT !.step = s, !.ret = q]]
  BY <1>1 DEF Onward, NextStep, Left
<1> QED BY <1>1, <1>2, <1>3

LEMMA FailedIs ==
  ASSUME NEW t \in Thread, xfer[t] \in Transfers, NEW r, Onward(t, Failed(t), r)
  PROVE  xfer' = [xfer EXCEPT ![t] = Changed(xfer[t], Append(xfer[t].moved, NoX),
                                             NextStep(xfer[t], Append(xfer[t].moved, NoX)),
                                             Left(xfer[t], r))]
<1>1. PICK m, x : m = Append(xfer[t].moved, NoX) /\ x = Changed(xfer[t], m, xfer[t].step, xfer[t].ret)
  OBVIOUS
<1>2. PICK s, q : s = NextStep(xfer[t], m) /\ q = Left(xfer[t], r)
  OBVIOUS
<1>3. x.moved = m /\ x.n = xfer[t].n /\ x.op = xfer[t].op
  BY <1>1 DEF Changed
<1>4. Failed(t) = x
  <2>1. [xfer[t] EXCEPT !.moved = m] = x
    BY <1>1, MovedIs
  <2> QED BY <1>1, <2>1 DEF Failed
<1>5. xfer' = [xfer EXCEPT ![t] = Returned(x, s, q)]
  BY <1>2, <1>3, <1>4 DEF Returned, Onward, NextStep, Left
<1>6. Returned(x, s, q) = Changed(xfer[t], m, s, q)
  BY <1>1, MovedReturnedIs
<1> QED BY <1>1, <1>2, <1>5, <1>6

(* The accounts that a step leaves. *)
Pending == {"poll", "wpoll", "move", "ppoll", "send", "wait", "clear", "dpoll"}
Arrived == {"wait2", "clear2", "drain"}

LEMMA OnTheWay ==
  ASSUME NEW x \in Transfers, NEW type \in {"ata", "atapi"}, Account(x, type),
         NEW s \in Steps, s # "done", s # "start",
         type = "atapi" => s \notin Commands, type = "ata" => s \notin Packs,
         s \in Pending => Len(x.moved) < x.n, s \in {"wpoll", "flush", "fpoll"} => x.op # "read",
         s \in Arrived => Len(x.moved) > 0 /\ x.moved[Len(x.moved)] # NoX
  PROVE  /\ Changed(x, x.moved, s, x.ret) \in Transfers
         /\ Account(Changed(x, x.moved, s, x.ret), type)
<1> PICK y : y = Changed(x, x.moved, s, x.ret)
  OBVIOUS
<1>1. x.moved \in Seq(Entries) /\ x.ret \in {0, 2, 3, 114}
  BY DEF Transfers, Entries
<1>2. /\ y \in Transfers /\ y.op = x.op /\ y.drive = x.drive /\ y.lba = x.lba /\ y.n = x.n
      /\ y.each = x.each /\ y.moved = x.moved /\ y.step = s
  BY <1>1, ChangedIs
<1>3. Account(y, type)
  BY <1>2 DEF Account, Pending, Arrived
<1> QED BY <1>2, <1>3

LEMMA NothingLeft ==
  ASSUME NEW x \in Transfers, NEW type \in {"ata", "atapi"}, Account(x, type),
         NEW r \in {0, 2, 3, 114},
         r = 0 => Len(x.moved) = x.n /\ (x.op = "read" /\ x.n > 0 => x.moved[x.n] # NoX)
  PROVE  /\ Changed(x, x.moved, "done", r) \in Transfers
         /\ Account(Changed(x, x.moved, "done", r), type)
<1> PICK y : y = Changed(x, x.moved, "done", r)
  OBVIOUS
<1>1. x.moved \in Seq(Entries) /\ "done" \in Steps
  BY DEF Transfers, Entries, Steps
<1>2. /\ y \in Transfers /\ y.op = x.op /\ y.drive = x.drive /\ y.lba = x.lba /\ y.n = x.n
      /\ y.each = x.each /\ y.moved = x.moved /\ y.step = "done" /\ y.ret = r
  BY <1>1, ChangedIs
<1>3. Account(y, type)
  BY <1>2 DEF Account, Packs, Commands
<1> QED BY <1>2, <1>3

LEMMA Appended ==
  ASSUME NEW x \in Transfers, NEW type \in {"ata", "atapi"}, Account(x, type), Len(x.moved) < x.n,
         NEW e \in Entries, e \in {NoX, <<x.drive, Here(x)>>},
         NEW s \in Steps, NEW r \in {0, 2, 3, 114},
         type = "atapi" => s \notin Commands, type = "ata" => s \notin Packs,
         s \in Pending \cup {"start"} => Len(x.moved) + 1 < x.n,
         s \in Arrived => e # NoX, s \in {"wpoll", "flush", "fpoll"} => x.op # "read",
         s = "done" /\ r = 0 => Len(x.moved) + 1 = x.n /\ (x.op = "read" => e # NoX)
  PROVE  /\ Changed(x, Append(x.moved, e), s, r) \in Transfers
         /\ Account(Changed(x, Append(x.moved, e), s, r), type)
<1>a. PICK m : m = Append(x.moved, e)
  OBVIOUS
<1>b. PICK y : y = Changed(x, m, s, r)
  OBVIOUS
<1>1. x.moved \in Seq(Entries) /\ x.n \in Nat /\ x.lba \in Nat
  BY DEF Transfers, Entries
<1>2. /\ m \in Seq(Entries) /\ Len(x.moved) \in Nat /\ Len(m) = Len(x.moved) + 1
      /\ \A k \in 1 .. Len(x.moved) : m[k] = x.moved[k]
      /\ m[Len(x.moved) + 1] = e
  BY <1>1, <1>a, Grows
<1>c. m \in Seq(Entries)
  BY <1>2
<1>3. /\ y \in Transfers /\ y.op = x.op /\ y.drive = x.drive /\ y.lba = x.lba /\ y.n = x.n
      /\ y.each = x.each /\ y.moved = m /\ y.step = s /\ y.ret = r
  BY <1>b, <1>c, ChangedIs
<1>4. ASSUME NEW k \in 1 .. Len(m) PROVE m[k] \in {NoX, <<x.drive, x.lba + k - 1>>}
  <2>1. CASE k = Len(x.moved) + 1
    <3>1. x.lba + k - 1 = Here(x)
      BY <1>1, <1>2, <2>1 DEF Here
    <3> QED BY <1>2, <2>1, <3>1
  <2>2. CASE k # Len(x.moved) + 1
    <3>1. k \in 1 .. Len(x.moved)
      BY <1>2, <2>2
    <3> QED BY <1>2, <3>1 DEF Account
  <2> QED BY <2>1, <2>2
<1>5. /\ Len(m) <= x.n /\ Len(m) > 0 /\ m[Len(m)] = e
      /\ Len(m) = Len(x.moved) + 1
  BY <1>1, <1>2
<1>6. /\ type = "atapi" => x.op = "read" /\ x.each = 1
      /\ type = "ata" => x.each = (IF x.op = "zero" THEN 1 ELSE x.n)
  BY DEF Account
<1>7. /\ s \in Pending => Len(m) < x.n
      /\ s = "start" => Len(m) < x.n
      /\ s \in Arrived => m[Len(m)] # NoX
      /\ s = "done" /\ r = 0 => Len(m) = x.n /\ (x.op = "read" /\ x.n > 0 => m[x.n] # NoX)
  BY <1>5
<1>8. Account(y, type)
  BY <1>3, <1>4, <1>5, <1>6, <1>7 DEF Account, Pending, Arrived
<1> QED BY <1>3, <1>8, <1>a, <1>b

LEMMA AfterFailure ==
  ASSUME NEW x \in Transfers, NEW type \in {"ata", "atapi"}, Account(x, type), Len(x.moved) < x.n,
         NEW r \in {0, 2, 3}, x.op = "zero" \/ r # 0,
         NEW y, y = Changed(x, Append(x.moved, NoX), NextStep(x, Append(x.moved, NoX)), Left(x, r))
  PROVE  /\ y \in Transfers /\ Account(y, type) /\ y.step \in {"start", "done"}
         /\ y.drive = x.drive /\ y.op = x.op
<1>1. x.moved \in Seq(Entries) /\ NoX \in Entries /\ x.n \in Nat
  BY DEF Transfers, Entries
<1>2. PICK m : m = Append(x.moved, NoX)
  OBVIOUS
<1>3. m \in Seq(Entries) /\ Len(m) = Len(x.moved) + 1 /\ Len(x.moved) \in Nat
  BY <1>1, <1>2, Grows
<1>4. PICK s, q : s = NextStep(x, m) /\ q = Left(x, r)
  OBVIOUS
<1>5. /\ s \in {"start", "done"} /\ s \in Steps /\ q \in {0, 2, 3, 114}
      /\ s \notin Commands /\ s \notin Packs /\ s \notin Arrived /\ s \notin Pending
      /\ s = "start" => Len(x.moved) + 1 < x.n
      /\ s = "done" => Len(x.moved) + 1 = x.n
      /\ q = 0 => x.op # "read"
  BY <1>1, <1>3, <1>4 DEF NextStep, Left, Steps, Commands, Packs, Arrived, Pending
<1>6. y = Changed(x, Append(x.moved, NoX), s, q)
  BY <1>2, <1>4
<1>7. y \in Transfers /\ Account(y, type)
  BY <1>1, <1>5, <1>6, Appended
<1>8. y.step = s /\ y.drive = x.drive /\ y.op = x.op
  <2>1. m \in Seq(Entries) /\ s \in Steps /\ q \in {0, 2, 3, 114}
    BY <1>3, <1>5
  <2>2. y = Changed(x, m, s, q)
    BY <1>2, <1>6
  <2> QED BY <2>1, <2>2, ChangedIs
<1> QED BY <1>5, <1>7, <1>8

LEMMA AfterCommand ==
  ASSUME NEW x \in Transfers, NEW type \in {"ata", "atapi"}, Account(x, type),
         x.op = "read" /\ x.n > 0 /\ Len(x.moved) = x.n => x.moved[x.n] # NoX,
         NEW y, y = Changed(x, x.moved, NextStep(x, x.moved), Left(x, 0))
  PROVE  /\ y \in Transfers /\ Account(y, type) /\ y.step \in {"start", "done"}
         /\ y.drive = x.drive /\ y.op = x.op
<1>1. x.moved \in Seq(Entries) /\ x.n \in Nat /\ Len(x.moved) \in Nat
  BY DEF Transfers, Entries
<1>2. PICK s : s = NextStep(x, x.moved)
  OBVIOUS
<1>3. s \in {"start", "done"} /\ s \in Steps /\ Left(x, 0) = 0 /\ 0 \in {0, 2, 3, 114}
      /\ (s = "start" => Len(x.moved) < x.n) /\ (s = "done" => Len(x.moved) = x.n)
  BY <1>1, <1>2 DEF NextStep, Left, Steps, Account
<1>4. /\ y \in Transfers /\ y.op = x.op /\ y.drive = x.drive /\ y.lba = x.lba /\ y.n = x.n
      /\ y.each = x.each /\ y.moved = x.moved /\ y.step = s /\ y.ret = 0
  BY <1>1, <1>2, <1>3, ChangedIs
<1>5. Account(y, type)
  BY <1>3, <1>4 DEF Account, Packs, Commands
<1> QED BY <1>3, <1>4, <1>5

LEMMA CommandStep ==
  ASSUME AInv, IInv, NEW t \in Thread, Command(t)
  PROVE  AInv'
<1>1. In(t, "start") /\ Drive(t).type = "ata" /\ UNCHANGED <<vars, drives, pend, irq, torn>>
  BY DEF Command
<1>2. /\ ~torn /\ Active(t) /\ xfer[t] \in Transfers /\ xfer[t].step = "start" /\ Kept(t)
      /\ Chan(t) \in Channels /\ dev[Chan(t)] \in DeviceStates
      /\ xfer[t].drive \in Nat /\ xfer[t].moved \in Seq(Entries)
  BY <1>1, Acting
<1>3. PICK x : x = xfer[t]
  OBVIOUS
<1>4. x \in Transfers /\ Account(x, "ata") /\ "ata" \in {"ata", "atapi"} /\ x.step = "start"
  BY <1>1, <1>2, <1>3 DEF Kept
<1>5. /\ ATypes /\ x.n \in Nat /\ x.each \in Nat /\ x.lba \in Nat /\ Len(x.moved) \in Nat
      /\ x.moved \in Seq(Entries) /\ x.ret \in {0, 2, 3, 114}
  BY <1>4 DEF AInv, Transfers, Entries
<1>6. x.each # 0 => Len(x.moved) < x.n
  BY <1>4 DEF Account
<1>7. CASE /\ Here(x) < Far /\ ~Drive(t).lba
           /\ IF x.op = "zero" THEN Onward(t, Failed(t), 0) ELSE Return(t, 114)
           /\ UNCHANGED <<dev, ien>>
  <2>1. \E y \in Transfers : /\ xfer' = [xfer EXCEPT ![t] = y] /\ Account(y, "ata")
                             /\ y.step \in {"start", "done"} /\ y.drive = x.drive /\ y.op = x.op
    <3>1. CASE x.op = "zero"
      <4>1. Len(x.moved) < x.n
        BY <1>4, <1>6, <3>1 DEF Account
      <4>2. PICK y : y = Changed(x, Append(x.moved, NoX), NextStep(x, Append(x.moved, NoX)), Left(x, 0))
        OBVIOUS
      <4>3. xfer' = [xfer EXCEPT ![t] = y]
        BY <1>2, <1>3, <1>7, <3>1, <4>2, FailedIs
      <4>4. y \in Transfers /\ Account(y, "ata") /\ y.step \in {"start", "done"}
            /\ y.drive = x.drive /\ y.op = x.op
        BY <1>4, <3>1, <4>1, <4>2, AfterFailure
      <4> QED BY <4>3, <4>4
    <3>2. CASE x.op # "zero"
      <4>1. PICK y : y = Changed(x, x.moved, "done", 114)
        OBVIOUS
      <4>2. xfer' = [xfer EXCEPT ![t] = y]
        BY <1>2, <1>3, <1>5, <1>7, <3>2, <4>1, ReturnIs
      <4>3. y \in Transfers /\ Account(y, "ata")
        BY <1>4, <4>1, NothingLeft
      <4>4. y.step = "done" /\ y.drive = x.drive /\ y.op = x.op
        BY <4>1 DEF Changed
      <4> QED BY <4>2, <4>3, <4>4
    <3> QED BY <3>1, <3>2
  <2>2. PICK y \in Transfers : /\ xfer' = [xfer EXCEPT ![t] = y] /\ Account(y, "ata")
                               /\ y.step \in {"start", "done"} /\ y.drive = x.drive /\ y.op = x.op
    BY <2>1
  <2>3. ~Rings(y.step, Drive(t).type) /\ y.step \notin {"wait", "wait2"}
    BY <2>2 DEF Rings
  <2>4. Data(y, dev'[Chan(t)])
    BY <2>2 DEF Data
  <2>5. /\ dev' \in [Channels -> DeviceStates] /\ ien' \in [Channels -> BOOLEAN]
        /\ irq' \in BOOLEAN /\ pend' \in BOOLEAN /\ torn' \in BOOLEAN
        /\ \A c \in Channels \ {Chan(t)} : dev'[c] = dev[c] /\ ien'[c] = ien[c]
        /\ (irq \/ pend => irq' \/ pend')
    BY <1>1, <1>5, <1>7 DEF ATypes
  <2> QED BY <1>1, <1>2, <1>3, <2>2, <2>3, <2>4, <2>5, OneMoves
<1>8. ASSUME NEW count \in Nat, NEW s \in Steps,
             dev[Chan(t)].phase # "busy",
             dev' = [dev EXCEPT ![Chan(t)] = Busy("drq", ~Writes(t), x.drive, Here(x), count)],
             ien' = [ien EXCEPT ![Chan(t)] = @ \/ Here(x) >= Far],
             NEW r \in {0, 2, 3, 114}, xfer' = [xfer EXCEPT ![t] = Changed(x, x.moved, s, r)],
             Changed(x, x.moved, s, r) \in Transfers, Account(Changed(x, x.moved, s, r), "ata"),
             s \in {"flush", "done", "poll", "wpoll"}
      PROVE  AInv'
  <2>1. PICK y : y = Changed(x, x.moved, s, r)
    OBVIOUS
  <2>2. /\ y \in Transfers /\ Account(y, "ata") /\ xfer' = [xfer EXCEPT ![t] = y]
        /\ y.step = s /\ y.drive = x.drive /\ y.op = x.op /\ y.lba = x.lba /\ y.moved = x.moved
    BY <1>8, <2>1 DEF Changed
  <2>3. ~Rings(y.step, Drive(t).type) /\ y.step \notin {"wait", "wait2", "move"}
    BY <1>1, <1>8, <2>2 DEF Rings
  <2>4. Here(x) \in Nat /\ x.drive \in Nat /\ (~Writes(t)) \in BOOLEAN
    BY <1>2, <1>3, <1>5 DEF Here, Writes
  <2>5. Busy("drq", ~Writes(t), x.drive, Here(x), count) \in DeviceStates
    BY <2>4 DEF Busy, DeviceStates
  <2>6. dev'[Chan(t)] = Busy("drq", ~Writes(t), x.drive, Here(x), count)
    BY <1>2, <1>5, <1>8 DEF ATypes
  <2>7. Data(y, dev'[Chan(t)])
    <3>1. dev'[Chan(t)].drive = x.drive /\ dev'[Chan(t)].at = Here(x)
      BY <2>6 DEF Busy
    <3>2. Here(y) = Here(x)
      BY <2>2 DEF Here
    <3> QED BY <2>2, <2>3, <3>1, <3>2 DEF Data
  <2>8. /\ dev' \in [Channels -> DeviceStates] /\ ien' \in [Channels -> BOOLEAN]
        /\ irq' \in BOOLEAN /\ pend' \in BOOLEAN /\ torn' \in BOOLEAN
        /\ \A c \in Channels \ {Chan(t)} : dev'[c] = dev[c] /\ ien'[c] = ien[c]
        /\ (irq \/ pend => irq' \/ pend')
    BY <1>1, <1>2, <1>5, <1>8, <2>5 DEF ATypes
  <2> QED BY <1>1, <1>2, <1>3, <2>2, <2>3, <2>7, <2>8, OneMoves
<1>9. CASE /\ Here(x) >= Far \/ Drive(t).lba
           /\ dev[Chan(t)].phase # "busy"
           /\ dev' = [dev EXCEPT ![Chan(t)] = Busy("drq", ~Writes(t), x.drive, Here(x),
                                                   IF x.each = 0 THEN Byte ELSE x.each)]
           /\ ien' = [ien EXCEPT ![Chan(t)] = @ \/ Here(x) >= Far]
           /\ IF x.each = 0 THEN IF Writes(t) THEN To(t, "flush") ELSE Return(t, 0)
              ELSE To(t, IF Writes(t) THEN "wpoll" ELSE "poll")
  <2>1. (IF x.each = 0 THEN Byte ELSE x.each) \in Nat
    BY <1>5, AtaAssumption
  <2>4. PICK count \in Nat :
          /\ dev' = [dev EXCEPT ![Chan(t)] = Busy("drq", ~Writes(t), x.drive, Here(x), count)]
          /\ ien' = [ien EXCEPT ![Chan(t)] = @ \/ Here(x) >= Far]
          /\ dev[Chan(t)].phase # "busy"
    BY <1>9, <2>1
  <2>2. CASE x.each = 0 /\ ~Writes(t)
    <3>1. x.op = "read" /\ x.n = 0 /\ Len(x.moved) = 0
      BY <1>3, <1>4, <1>5, <2>2 DEF Account, Writes
    <3>2. Changed(x, x.moved, "done", 0) \in Transfers /\ Account(Changed(x, x.moved, "done", 0), "ata")
      <4>1. 0 \in {0, 2, 3, 114} /\ Len(x.moved) = x.n /\ ~(x.n > 0)
        BY <3>1
      <4> QED BY <1>4, <4>1, NothingLeft
    <3>3. xfer' = [xfer EXCEPT ![t] = Changed(x, x.moved, "done", 0)]
      BY <1>2, <1>3, <1>5, <1>9, <2>2, ReturnIs
    <3>4. "done" \in Steps /\ 0 \in {0, 2, 3, 114}
      BY DEF Steps
    <3> QED BY <1>8, <2>4, <3>2, <3>3, <3>4
  <2>3. CASE ~(x.each = 0 /\ ~Writes(t))
    <3>1. PICK s \in {"flush", "wpoll", "poll"} :
            To(t, s) /\ (s # "flush" => x.each # 0) /\ (s # "poll" => x.op # "read")
      BY <1>3, <1>9, <2>3 DEF Writes
    <3>2. /\ s \in Steps /\ s # "done" /\ s # "start" /\ s \notin Packs /\ s \notin Arrived
          /\ s \in Pending => s # "flush"
      BY DEF Steps, Commands, Packs, Arrived, Pending
    <3>3. xfer' = [xfer EXCEPT ![t] = Changed(x, x.moved, s, x.ret)]
      BY <1>2, <1>3, <1>5, <3>1, ToIs
    <3>4. Changed(x, x.moved, s, x.ret) \in Transfers /\ Account(Changed(x, x.moved, s, x.ret), "ata")
      BY <1>4, <1>6, <3>1, <3>2, OnTheWay
    <3>5. PICK q \in {0, 2, 3, 114} : q = x.ret
      BY <1>5
    <3>6. s \in {"flush", "done", "poll", "wpoll"}
      OBVIOUS
    <3>7. xfer' = [xfer EXCEPT ![t] = Changed(x, x.moved, s, q)]
          /\ Changed(x, x.moved, s, q) \in Transfers /\ Account(Changed(x, x.moved, s, q), "ata")
      BY <3>3, <3>4, <3>5
    <3> QED BY <1>8, <2>1, <2>4, <3>2, <3>6, <3>7
  <2> QED BY <2>2, <2>3
<1> QED BY <1>3, <1>7, <1>9 DEF Command

(* A step to s that leaves the device alone. *)
LEMMA DeviceStill ==
  ASSUME AInv, IInv, NEW t \in Thread, Active(t), NEW y \in Transfers,
         UNCHANGED <<vars, drives, dev, ien, pend, torn>>, xfer' = [xfer EXCEPT ![t] = y],
         y.drive = xfer[t].drive, y.op = xfer[t].op, ~torn,
         irq' \in BOOLEAN, irq' = irq \/ xfer[t].step \in Packs,
         Account(y, Drive(t).type), Data(y, dev[Chan(t)]),
         Rings(y.step, Drive(t).type) => ien[Chan(t)],
         y.step \notin {"wait", "wait2"}
  PROVE  AInv'
<1>1. ATypes
  BY DEF AInv
<1>2. /\ dev' \in [Channels -> DeviceStates] /\ ien' \in [Channels -> BOOLEAN]
      /\ pend' \in BOOLEAN /\ torn' \in BOOLEAN
      /\ \A c \in Channels \ {Chan(t)} : dev'[c] = dev[c] /\ ien'[c] = ien[c]
      /\ (irq \/ pend => irq' \/ pend') \/ xfer[t].step \in Packs
  BY <1>1 DEF ATypes
<1> QED BY <1>2, OneMoves

LEMMA PacketStep ==
  ASSUME AInv, IInv, NEW t \in Thread, Packet(t)
  PROVE  AInv'
<1>1. /\ In(t, "start") /\ Drive(t).type = "atapi" /\ UNCHANGED <<vars, drives, pend, irq>>
      /\ torn' = (dev[Chan(t)].phase = "busy") /\ ien' = [ien EXCEPT ![Chan(t)] = TRUE]
      /\ dev' = [dev EXCEPT ![Chan(t)] = Busy("drq", FALSE, xfer[t].drive, 0, 0)]
      /\ To(t, "ppoll")
  BY DEF Packet
<1>2. /\ ~torn /\ Active(t) /\ xfer[t] \in Transfers /\ xfer[t].step = "start" /\ Kept(t)
      /\ Chan(t) \in Channels /\ dev[Chan(t)] \in DeviceStates
      /\ xfer[t].drive \in Nat /\ xfer[t].moved \in Seq(Entries)
  BY <1>1, Acting
<1>3. PICK x : x = xfer[t]
  OBVIOUS
<1>4. x \in Transfers /\ Account(x, "atapi") /\ "atapi" \in {"ata", "atapi"} /\ x.step = "start"
  BY <1>1, <1>2, <1>3 DEF Kept
<1>5. ATypes /\ x.each = 1 /\ Len(x.moved) < x.n
  BY <1>4 DEF AInv, Account
<1>6. PICK y : y = Changed(x, x.moved, "ppoll", x.ret)
  OBVIOUS
<1>7. /\ "ppoll" \in Steps /\ "ppoll" \notin Commands /\ "ppoll" \notin Arrived
      /\ "ppoll" \notin {"wpoll", "flush", "fpoll"} /\ "ppoll" # "done" /\ "ppoll" # "start"
  BY DEF Steps, Packs, Commands, Arrived
<1>8. y \in Transfers /\ Account(y, "atapi")
  BY <1>4, <1>5, <1>6, <1>7, OnTheWay
<1>9. xfer' = [xfer EXCEPT ![t] = y]
  BY <1>1, <1>2, <1>3, <1>5, <1>6, ToIs
<1>10. y.step = "ppoll" /\ y.drive = x.drive /\ y.op = x.op
  BY <1>6 DEF Changed
<1>11. Busy("drq", FALSE, x.drive, 0, 0) \in DeviceStates
  BY <1>2, <1>3 DEF Busy, DeviceStates
<1>12. /\ dev' \in [Channels -> DeviceStates] /\ ien' \in [Channels -> BOOLEAN]
       /\ irq' \in BOOLEAN /\ pend' \in BOOLEAN /\ torn' \in BOOLEAN
       /\ \A c \in Channels \ {Chan(t)} : dev'[c] = dev[c] /\ ien'[c] = ien[c]
       /\ (irq \/ pend => irq' \/ pend') /\ ien'[Chan(t)]
  BY <1>1, <1>2, <1>3, <1>5, <1>11 DEF ATypes
<1>13. Data(y, dev'[Chan(t)]) /\ y.step \notin {"wait", "wait2"}
  BY <1>10 DEF Data
<1> QED BY <1>1, <1>2, <1>3, <1>8, <1>9, <1>10, <1>12, <1>13, OneMoves

LEMMA PollStep ==
  ASSUME AInv, IInv, NEW t \in Thread, Poll(t)
  PROVE  AInv'
<1>1. PICK s \in {"poll", "ppoll", "dpoll"} :
        /\ In(t, s)
        /\ IF Status(t) = "drq" THEN To(t, IF s = "poll" THEN "move" ELSE AtapiFlow[s])
           ELSE LET r == IF Status(t) = "fault" THEN 2 ELSE 3
                IN  IF s = "poll" THEN Return(t, r) ELSE Onward(t, Failed(t), r)
  BY DEF Poll, AtaFlow
<1>2. UNCHANGED <<vars, drives, dev, ien, pend, irq, torn>>
  BY DEF Poll
<1>3. /\ ~torn /\ Active(t) /\ xfer[t] \in Transfers /\ xfer[t].step = s /\ Kept(t)
      /\ Chan(t) \in Channels /\ Drive(t).type \in {"ata", "atapi"}
  BY <1>1, Acting
<1>4. PICK x, type : x = xfer[t] /\ type = Drive(t).type
  OBVIOUS
<1>5. /\ x \in Transfers /\ type \in {"ata", "atapi"} /\ Account(x, type) /\ Len(x.moved) < x.n
      /\ ATypes /\ x.ret \in {0, 2, 3, 114}
  BY <1>1, <1>3, <1>4 DEF AInv, Kept, Account, Transfers
<1>6. type = IF s = "poll" THEN "ata" ELSE "atapi"
  BY <1>1, <1>3, <1>4, <1>5 DEF Account, Packs, Commands
<1>7. CASE Status(t) = "drq"
  <2>1. PICK g : g = IF s = "poll" THEN "move" ELSE AtapiFlow[s]
    OBVIOUS
  <2>2. /\ (s = "ppoll" => g = "send") /\ (s # "ppoll" => g = "move")
        /\ g \in Steps /\ g # "done" /\ g # "start" /\ g \notin Commands /\ g \notin Arrived
        /\ g \notin {"wpoll", "flush", "fpoll"} /\ g \notin {"wait", "wait2"}
        /\ (g \in Packs => g = "send")
    BY <1>1, <2>1 DEF AtapiFlow, Steps, Packs, Commands, Arrived
  <2>3. PICK y : y = Changed(x, x.moved, g, x.ret)
    OBVIOUS
  <2>4. xfer' = [xfer EXCEPT ![t] = y]
    BY <1>1, <1>3, <1>4, <1>5, <1>7, <2>1, <2>3, ToIs
  <2>5. type = "ata" => g \notin Packs
    BY <1>6, <2>2
  <2>6. y \in Transfers /\ Account(y, type)
    BY <1>5, <2>2, <2>3, <2>5, OnTheWay
  <2>7. y.step = g /\ y.drive = x.drive /\ y.op = x.op /\ y.moved = x.moved /\ y.lba = x.lba
    BY <2>3 DEF Changed
  <2>8. Data(x, dev[Chan(t)]) /\ Rung(t)
    BY <1>3, <1>4 DEF Kept
  <2>9. Data(y, dev[Chan(t)])
    BY <1>1, <1>3, <1>4, <1>7, <2>2, <2>7, <2>8 DEF Data, Here, Status
  <2>10. Rings(y.step, Drive(t).type) => ien[Chan(t)]
    BY <1>1, <1>3, <1>4, <1>6, <2>8 DEF Rung, Rings
  <2>11. irq' \in BOOLEAN /\ (irq' = irq \/ xfer[t].step \in Packs) /\ y.step \notin {"wait", "wait2"}
    BY <1>2, <1>5, <2>2, <2>7 DEF ATypes
  <2> QED BY <1>2, <1>3, <1>4, <2>4, <2>6, <2>7, <2>9, <2>10, <2>11, DeviceStill
<1>8. CASE Status(t) # "drq"
  <2>1. PICK r \in {2, 3} : IF s = "poll" THEN Return(t, r) ELSE Onward(t, Failed(t), r)
    BY <1>1, <1>8
  <2>2. \E y \in Transfers : /\ xfer' = [xfer EXCEPT ![t] = y] /\ Account(y, type)
                             /\ y.step \in {"start", "done"} /\ y.drive = x.drive /\ y.op = x.op
    <3>1. CASE s = "poll"
      <4>1. PICK y : y = Changed(x, x.moved, "done", r)
        OBVIOUS
      <4>2. xfer' = [xfer EXCEPT ![t] = y]
        BY <1>3, <1>4, <1>5, <2>1, <3>1, <4>1, ReturnIs
      <4>3. /\ r \in {0, 2, 3, 114}
            /\ r = 0 => Len(x.moved) = x.n /\ (x.op = "read" /\ x.n > 0 => x.moved[x.n] # NoX)
        OBVIOUS
      <4>4. Changed(x, x.moved, "done", r) \in Transfers /\ Account(Changed(x, x.moved, "done", r), type)
        <5>1. CASE r = 2
          BY <1>5, <5>1, NothingLeft
        <5>2. CASE r = 3
          BY <1>5, <5>2, NothingLeft
        <5> QED BY <5>1, <5>2
      <4>5. y.step = "done" /\ y.drive = x.drive /\ y.op = x.op
        BY <4>1 DEF Changed
      <4> QED BY <4>1, <4>2, <4>4, <4>5
    <3>2. CASE s # "poll"
      <4>1. PICK y : y = Changed(x, Append(x.moved, NoX), NextStep(x, Append(x.moved, NoX)), Left(x, r))
        OBVIOUS
      <4>2. xfer' = [xfer EXCEPT ![t] = y]
        BY <1>3, <1>4, <2>1, <3>2, <4>1, FailedIs
      <4>3. r \in {0, 2, 3} /\ r # 0
        OBVIOUS
      <4>4. y \in Transfers /\ Account(y, type) /\ y.step \in {"start", "done"}
            /\ y.drive = x.drive /\ y.op = x.op
        BY <1>5, <4>1, <4>3, AfterFailure
      <4> QED BY <4>2, <4>4
    <3> QED BY <3>1, <3>2
  <2>3. PICK y \in Transfers : /\ xfer' = [xfer EXCEPT ![t] = y] /\ Account(y, type)
                               /\ y.step \in {"start", "done"} /\ y.drive = x.drive /\ y.op = x.op
    BY <2>2
  <2>4. ~Rings(y.step, Drive(t).type) /\ y.step \notin {"wait", "wait2"} /\ Data(y, dev[Chan(t)])
    BY <2>3 DEF Rings, Data
  <2>5. irq' \in BOOLEAN /\ (irq' = irq \/ xfer[t].step \in Packs)
    BY <1>2, <1>5 DEF ATypes
  <2> QED BY <1>2, <1>3, <1>4, <2>3, <2>4, <2>5, DeviceStill
<1> QED BY <1>7, <1>8

LEMMA PollOnlyStep ==
  ASSUME AInv, IInv, NEW t \in Thread, PollOnly(t)
  PROVE  AInv'
<1>1. PICK s \in {"wpoll", "fpoll"} :
        In(t, s) /\ Status(t) # "busy" /\ IF s = "wpoll" THEN To(t, "move") ELSE Onward(t, xfer[t], 0)
  BY DEF PollOnly, AtaFlow
<1>2. UNCHANGED <<vars, drives, dev, ien, pend, irq, torn>>
  BY DEF PollOnly
<1>3. /\ ~torn /\ Active(t) /\ xfer[t] \in Transfers /\ xfer[t].step = s /\ Kept(t)
      /\ Chan(t) \in Channels /\ Drive(t).type \in {"ata", "atapi"}
  BY <1>1, Acting
<1>4. PICK x, type : x = xfer[t] /\ type = Drive(t).type
  OBVIOUS
<1>5. /\ x \in Transfers /\ type \in {"ata", "atapi"} /\ Account(x, type) /\ x.op # "read"
      /\ ATypes /\ x.ret \in {0, 2, 3, 114}
  BY <1>1, <1>3, <1>4 DEF AInv, Kept, Account, Transfers
<1>6. CASE s = "wpoll"
  <2>1. Len(x.moved) < x.n /\ Data(x, dev[Chan(t)])
    BY <1>3, <1>4, <1>6 DEF Kept, Account
  <2>2. PICK y : y = Changed(x, x.moved, "move", x.ret)
    OBVIOUS
  <2>3. xfer' = [xfer EXCEPT ![t] = y]
    BY <1>1, <1>3, <1>4, <1>5, <1>6, <2>2, ToIs
  <2>4. /\ "move" \in Steps /\ "move" \notin Commands /\ "move" \notin Packs
        /\ "move" \notin Arrived
    BY DEF Steps, Packs, Commands, Arrived
  <2>5. y \in Transfers /\ Account(y, type)
    BY <1>5, <2>1, <2>2, <2>4, OnTheWay
  <2>6. y.step = "move" /\ y.drive = x.drive /\ y.op = x.op /\ y.moved = x.moved /\ y.lba = x.lba
    BY <2>2 DEF Changed
  <2>7. Data(y, dev[Chan(t)])
    BY <1>1, <1>3, <1>4, <1>5, <1>6, <2>1, <2>6 DEF Data, Here, Status
  <2>8. irq' \in BOOLEAN /\ (irq' = irq \/ xfer[t].step \in Packs) /\ y.step \notin {"wait", "wait2"}
        /\ ~Rings(y.step, Drive(t).type)
    <3>1. type = "ata"
      BY <1>3, <1>4, <1>5, <1>6 DEF Account, Commands
    <3> QED BY <1>2, <1>4, <1>5, <2>6, <3>1 DEF ATypes, Rings
  <2> QED BY <1>2, <1>3, <1>4, <2>3, <2>5, <2>6, <2>7, <2>8, DeviceStill
<1>7. CASE s = "fpoll"
  <2>1. PICK y : y = Changed(x, x.moved, NextStep(x, x.moved), Left(x, 0))
    OBVIOUS
  <2>2. xfer' = [xfer EXCEPT ![t] = y]
    BY <1>1, <1>3, <1>4, <1>7, <2>1, OnwardIs
  <2>3. y \in Transfers /\ Account(y, type) /\ y.step \in {"start", "done"}
        /\ y.drive = x.drive /\ y.op = x.op
    BY <1>5, <2>1, AfterCommand
  <2>4. ~Rings(y.step, Drive(t).type) /\ y.step \notin {"wait", "wait2"} /\ Data(y, dev[Chan(t)])
    BY <2>3 DEF Rings, Data
  <2>5. irq' \in BOOLEAN /\ (irq' = irq \/ xfer[t].step \in Packs)
    BY <1>2, <1>5 DEF ATypes
  <2> QED BY <1>2, <1>3, <1>4, <2>2, <2>3, <2>4, <2>5, DeviceStill
<1> QED BY <1>6, <1>7

LEMMA SendStep ==
  ASSUME AInv, IInv, NEW t \in Thread, Send(t)
  PROVE  AInv'
<1>1. /\ In(t, "send") /\ UNCHANGED <<vars, drives, ien, pend, irq, torn>>
      /\ dev' = [dev EXCEPT ![Chan(t)] = Busy("drq", TRUE, xfer[t].drive, Here(xfer[t]), 1)]
      /\ To(t, "wait")
  BY DEF Send, AtapiFlow
<1>2. /\ ~torn /\ Active(t) /\ xfer[t] \in Transfers /\ xfer[t].step = "send" /\ Kept(t)
      /\ Chan(t) \in Channels /\ Drive(t).type \in {"ata", "atapi"}
      /\ dev[Chan(t)] \in DeviceStates
      /\ xfer[t].drive \in Nat /\ xfer[t].moved \in Seq(Entries)
  BY <1>1, Acting
<1>3. PICK x, type : x = xfer[t] /\ type = Drive(t).type
  OBVIOUS
<1>4. /\ x \in Transfers /\ Account(x, type) /\ type \in {"ata", "atapi"} /\ x.step = "send"
      /\ ATypes /\ Len(x.moved) < x.n /\ Rung(t)
  BY <1>2, <1>3 DEF AInv, Kept, Account
<1>5. type = "atapi"
  BY <1>4 DEF Account, Packs
<1>6. PICK y : y = Changed(x, x.moved, "wait", x.ret)
  OBVIOUS
<1>7. /\ "wait" \in Steps /\ "wait" \notin Commands /\ "wait" \notin Arrived
      /\ "wait" \notin {"wpoll", "flush", "fpoll"} /\ "wait" # "done" /\ "wait" # "start"
      /\ "send" \in Packs
  BY DEF Steps, Packs, Commands, Arrived
<1>8. y \in Transfers /\ Account(y, type)
  BY <1>4, <1>5, <1>6, <1>7, OnTheWay
<1>9. xfer' = [xfer EXCEPT ![t] = y]
  BY <1>1, <1>2, <1>3, <1>4, <1>6, ToIs
<1>10. y.step = "wait" /\ y.drive = x.drive /\ y.op = x.op /\ y.lba = x.lba /\ y.moved = x.moved
  BY <1>6 DEF Changed
<1>11. x.lba \in Nat /\ Len(x.moved) \in Nat /\ Here(x) \in Nat
  BY <1>4 DEF Here, Transfers
<1>12. Busy("drq", TRUE, x.drive, Here(x), 1) \in DeviceStates
  BY <1>2, <1>3, <1>11 DEF Busy, DeviceStates
<1>13. /\ dev' \in [Channels -> DeviceStates] /\ ien' \in [Channels -> BOOLEAN]
       /\ irq' \in BOOLEAN /\ pend' \in BOOLEAN /\ torn' \in BOOLEAN
       /\ \A c \in Channels \ {Chan(t)} : dev'[c] = dev[c] /\ ien'[c] = ien[c]
       /\ (irq \/ pend => irq' \/ pend')
       /\ dev'[Chan(t)] = Busy("drq", TRUE, x.drive, Here(x), 1)
  BY <1>1, <1>2, <1>3, <1>4, <1>12 DEF ATypes
<1>14. Here(y) = Here(x)
  BY <1>10 DEF Here
<1>15. Data(y, dev'[Chan(t)])
  BY <1>10, <1>13, <1>14 DEF Data, Busy
<1>16. /\ dev'[Chan(t)].phase = "busy" /\ dev'[Chan(t)].rings
       /\ ien'[Chan(t)]
  BY <1>1, <1>3, <1>4, <1>5, <1>13 DEF Busy, Rung, Rings
<1> QED BY <1>1, <1>2, <1>3, <1>8, <1>9, <1>10, <1>13, <1>15, <1>16, OneMoves

LEMMA WaitIrqStep ==
  ASSUME AInv, IInv, NEW t \in Thread, WaitIrq(t)
  PROVE  AInv'
<1>1. PICK s \in {"wait", "wait2", "clear", "clear2"} :
        /\ In(t, s) /\ To(t, AtapiFlow[s])
        /\ irq' = irq \/ irq' = FALSE
  BY DEF WaitIrq
<1>2. UNCHANGED <<vars, drives, dev, ien, pend, torn>>
  BY DEF WaitIrq
<1>3. /\ ~torn /\ Active(t) /\ xfer[t] \in Transfers /\ xfer[t].step = s /\ Kept(t)
      /\ Chan(t) \in Channels /\ Drive(t).type \in {"ata", "atapi"}
  BY <1>1, Acting
<1>4. PICK x, type : x = xfer[t] /\ type = Drive(t).type
  OBVIOUS
<1>5. /\ x \in Transfers /\ Account(x, type) /\ type \in {"ata", "atapi"} /\ ATypes
      /\ Rung(t) /\ Data(x, dev[Chan(t)])
  BY <1>3, <1>4 DEF AInv, Kept
<1>6. s \in Packs /\ type = "atapi"
  BY <1>1, <1>3, <1>4, <1>5 DEF Account, Packs
<1>7. PICK g : g = AtapiFlow[s]
  OBVIOUS
<1>8. /\ s = "wait" => g = "clear"
      /\ s = "clear" => g = "dpoll"
      /\ s = "wait2" => g = "clear2"
      /\ s = "clear2" => g = "drain"
  BY <1>7 DEF AtapiFlow
<1>9. /\ g \in Steps /\ g # "done" /\ g # "start" /\ g \notin Commands
      /\ g \notin {"wpoll", "flush", "fpoll"} /\ g \notin {"wait", "wait2"}
      /\ g \in Arrived => s \in {"wait2", "clear2"}
      /\ g \in Pending => s \in {"wait", "clear"}
      /\ g # "move"
  BY <1>1, <1>8 DEF Steps, Packs, Commands, Arrived, Pending
<1>10. PICK y : y = Changed(x, x.moved, g, x.ret)
  OBVIOUS
<1>11. /\ g \in Pending => Len(x.moved) < x.n
       /\ g \in Arrived => Len(x.moved) > 0 /\ x.moved[Len(x.moved)] # NoX
  BY <1>3, <1>4, <1>5, <1>9 DEF Account
<1>12. y \in Transfers /\ Account(y, type)
  BY <1>5, <1>6, <1>9, <1>10, <1>11, OnTheWay
<1>13. xfer' = [xfer EXCEPT ![t] = y]
  BY <1>1, <1>3, <1>4, <1>5, <1>7, <1>10, ToIs
<1>14. y.step = g /\ y.drive = x.drive /\ y.op = x.op /\ y.lba = x.lba /\ y.moved = x.moved
  BY <1>10 DEF Changed
<1>15. Data(y, dev[Chan(t)])
  <2>1. Here(y) = Here(x)
    BY <1>14 DEF Here
  <2>2. g \in {"clear", "dpoll"} => s \in {"wait", "clear"}
    BY <1>1, <1>8
  <2>3. g \in {"clear", "dpoll", "clear2", "drain"}
    BY <1>1, <1>8
  <2> QED BY <1>3, <1>4, <1>5, <1>14, <2>1, <2>2, <2>3 DEF Data
<1>16. ien[Chan(t)]
  BY <1>1, <1>3, <1>4, <1>5, <1>6 DEF Rung, Rings
<1>17. irq' \in BOOLEAN
  BY <1>1, <1>5 DEF ATypes
<1> QED BY <1>2, <1>3, <1>4, <1>6, <1>9, <1>12, <1>13, <1>14, <1>15, <1>16, <1>17, DeviceStill

LEMMA FlushStep ==
  ASSUME AInv, IInv, NEW t \in Thread, Flush(t)
  PROVE  AInv'
<1>1. /\ In(t, "flush") /\ UNCHANGED <<vars, drives, ien, pend, irq, torn>>
      /\ dev' = [dev EXCEPT ![Chan(t)] = Busy("idle", TRUE, xfer[t].drive, 0, 0)]
      /\ To(t, "fpoll")
  BY DEF Flush
<1>2. /\ ~torn /\ Active(t) /\ xfer[t] \in Transfers /\ xfer[t].step = "flush" /\ Kept(t)
      /\ Chan(t) \in Channels /\ Drive(t).type \in {"ata", "atapi"}
      /\ dev[Chan(t)] \in DeviceStates
      /\ xfer[t].drive \in Nat /\ xfer[t].moved \in Seq(Entries)
  BY <1>1, Acting
<1>3. PICK x, type : x = xfer[t] /\ type = Drive(t).type
  OBVIOUS
<1>4. /\ x \in Transfers /\ Account(x, type) /\ type \in {"ata", "atapi"} /\ x.step = "flush"
      /\ ATypes /\ x.op # "read"
  BY <1>2, <1>3 DEF AInv, Kept, Account
<1>5. type = "ata"
  BY <1>4 DEF Account, Commands
<1>6. PICK y : y = Changed(x, x.moved, "fpoll", x.ret)
  OBVIOUS
<1>7. /\ "fpoll" \in Steps /\ "fpoll" \notin Packs /\ "fpoll" \notin Arrived /\ "fpoll" \notin Pending
      /\ "fpoll" # "done" /\ "fpoll" # "start"
  BY DEF Steps, Packs, Commands, Arrived, Pending
<1>8. y \in Transfers /\ Account(y, type)
  BY <1>4, <1>5, <1>6, <1>7, OnTheWay
<1>9. xfer' = [xfer EXCEPT ![t] = y]
  BY <1>1, <1>2, <1>3, <1>4, <1>6, ToIs
<1>10. y.step = "fpoll" /\ y.drive = x.drive /\ y.op = x.op
  BY <1>6 DEF Changed
<1>11. Busy("idle", TRUE, x.drive, 0, 0) \in DeviceStates
  BY <1>2, <1>3 DEF Busy, DeviceStates
<1>12. /\ dev' \in [Channels -> DeviceStates] /\ ien' \in [Channels -> BOOLEAN]
       /\ irq' \in BOOLEAN /\ pend' \in BOOLEAN /\ torn' \in BOOLEAN
       /\ \A c \in Channels \ {Chan(t)} : dev'[c] = dev[c] /\ ien'[c] = ien[c]
       /\ (irq \/ pend => irq' \/ pend')
  BY <1>1, <1>2, <1>3, <1>4, <1>11 DEF ATypes
<1>13. Data(y, dev'[Chan(t)]) /\ ~Rings(y.step, Drive(t).type) /\ y.step \notin {"wait", "wait2"}
  BY <1>3, <1>5, <1>10 DEF Data, Rings
<1> QED BY <1>1, <1>2, <1>3, <1>8, <1>9, <1>10, <1>12, <1>13, OneMoves

LEMMA DrainStep ==
  ASSUME AInv, IInv, NEW t \in Thread, Drain(t)
  PROVE  AInv'
<1>1. In(t, "drain") /\ Onward(t, xfer[t], 0) /\ UNCHANGED <<vars, drives, dev, ien, pend, irq, torn>>
  BY DEF Drain
<1>2. /\ ~torn /\ Active(t) /\ xfer[t] \in Transfers /\ xfer[t].step = "drain" /\ Kept(t)
      /\ Chan(t) \in Channels /\ Drive(t).type \in {"ata", "atapi"}
  BY <1>1, Acting
<1>3. PICK x, type : x = xfer[t] /\ type = Drive(t).type
  OBVIOUS
<1>4. /\ x \in Transfers /\ Account(x, type) /\ type \in {"ata", "atapi"} /\ ATypes
      /\ (Len(x.moved) = x.n => x.moved[x.n] # NoX)
  BY <1>2, <1>3 DEF AInv, Kept, Account
<1>5. PICK y : y = Changed(x, x.moved, NextStep(x, x.moved), Left(x, 0))
  OBVIOUS
<1>6. xfer' = [xfer EXCEPT ![t] = y]
  BY <1>1, <1>2, <1>3, <1>5, OnwardIs
<1>7. y \in Transfers /\ Account(y, type) /\ y.step \in {"start", "done"}
      /\ y.drive = x.drive /\ y.op = x.op
  BY <1>4, <1>5, AfterCommand
<1>8. ~Rings(y.step, Drive(t).type) /\ y.step \notin {"wait", "wait2"} /\ Data(y, dev[Chan(t)])
  BY <1>7 DEF Rings, Data
<1>9. irq' \in BOOLEAN /\ (irq' = irq \/ xfer[t].step \in Packs)
  BY <1>1, <1>4 DEF ATypes
<1> QED BY <1>1, <1>2, <1>3, <1>6, <1>7, <1>8, <1>9, DeviceStill

LEMMA Remainder ==
  ASSUME NEW k \in Nat, NEW n \in Nat \ {0}, k >= 1, k <= n
  PROVE  k % n = IF k = n THEN 0 ELSE k
  OBVIOUS

LEMMA OneRemainder == ASSUME NEW k \in Nat PROVE k % 1 = 0
  OBVIOUS

(* How many sectors a command has left, and what follows. *)
LEMMA MoreOrNot ==
  ASSUME NEW x \in Transfers, NEW type \in {"ata", "atapi"}, Account(x, type), Len(x.moved) < x.n
  PROVE  LET k == Len(x.moved) + 1
         IN  /\ k % x.each # 0 => k < x.n
             /\ type = "ata" /\ x.op # "zero" /\ k % x.each = 0 => k = x.n
<1>1. x.n \in Nat /\ Len(x.moved) \in Nat
  BY DEF Transfers
<1>2. PICK k : k = Len(x.moved) + 1
  OBVIOUS
<1>3. k \in Nat /\ k >= 1 /\ k <= x.n /\ x.n \in Nat \ {0}
  BY <1>1, <1>2
<1>4. x.each = 1 \/ (x.each = x.n /\ type = "ata" /\ x.op # "zero")
  BY DEF Account
<1>5. type = "ata" /\ x.op # "zero" => x.each = x.n
  BY DEF Account
<1>6. k % 1 = 0 /\ k % x.n = IF k = x.n THEN 0 ELSE k
  BY <1>3, Remainder, OneRemainder
<1>7. k % x.each # 0 => k < x.n
  BY <1>3, <1>4, <1>6
<1>8. type = "ata" /\ x.op # "zero" /\ k % x.each = 0 => k = x.n
  BY <1>3, <1>5, <1>6
<1> QED BY <1>2, <1>7, <1>8

LEMMA MoveIs ==
  ASSUME NEW t \in Thread, xfer[t] \in Transfers, Move(t),
         NEW e, e = (IF dev[Chan(t)].phase = "drq" THEN <<dev[Chan(t)].drive, dev[Chan(t)].at>> ELSE NoX)
  PROVE  \E s : /\ s = (IF Drive(t).type = "atapi" THEN "wait2"
                        ELSE IF (Len(Append(xfer[t].moved, e)) % xfer[t].each) # 0
                             THEN IF Writes(t) THEN "wpoll" ELSE "poll"
                             ELSE IF Writes(t) THEN "flush" ELSE "done")
                /\ xfer' = [xfer EXCEPT ![t] = Changed(xfer[t], Append(xfer[t].moved, e), s, xfer[t].ret)]
<1>1. PICK m, x : m = Append(xfer[t].moved, e) /\ x = Changed(xfer[t], m, xfer[t].step, xfer[t].ret)
  OBVIOUS
<1>2. [xfer[t] EXCEPT !.moved = m] = x
  BY <1>1, MovedIs
<1>3. x.moved = m /\ x.each = xfer[t].each
  BY <1>1 DEF Changed
<1>4. PICK s : s = (IF Drive(t).type = "atapi" THEN "wait2"
                    ELSE IF (Len(m) % xfer[t].each) # 0 THEN IF Writes(t) THEN "wpoll" ELSE "poll"
                         ELSE IF Writes(t) THEN "flush" ELSE "done")
  OBVIOUS
<1>5. [xfer[t] EXCEPT !.moved = Append(@, IF dev[Chan(t)].phase = "drq"
                                          THEN <<dev[Chan(t)].drive, dev[Chan(t)].at>> ELSE NoX)] = x
  BY <1>1, <1>2
<1>6. xfer' = [xfer EXCEPT ![t] = Stepped(x, s)]
  BY <1>3, <1>4, <1>5 DEF Move, AtapiFlow, Stepped
<1>7. Stepped(x, s) = Changed(xfer[t], m, s, xfer[t].ret)
  BY <1>1, MovedSteppedIs
<1> QED BY <1>1, <1>4, <1>6, <1>7

LEMMA MoveStep ==
  ASSUME AInv, IInv, NEW t \in Thread, Move(t)
  PROVE  AInv'
<1>1. /\ In(t, "move") /\ UNCHANGED <<vars, drives, ien, pend, irq, torn>>
  BY DEF Move
<1>2. /\ ~torn /\ Active(t) /\ xfer[t] \in Transfers /\ xfer[t].step = "move" /\ Kept(t)
      /\ Chan(t) \in Channels /\ Drive(t).type \in {"ata", "atapi"}
      /\ dev[Chan(t)] \in DeviceStates
      /\ xfer[t].drive \in Nat /\ xfer[t].moved \in Seq(Entries)
  BY <1>1, Acting
<1>3. PICK x, type, v : x = xfer[t] /\ type = Drive(t).type /\ v = dev[Chan(t)]
  OBVIOUS
<1>4. /\ x \in Transfers /\ Account(x, type) /\ type \in {"ata", "atapi"} /\ x.step = "move"
      /\ ATypes /\ Len(x.moved) < x.n /\ Rung(t) /\ Data(x, v) /\ v \in DeviceStates
      /\ x.moved \in Seq(Entries) /\ x.ret \in {0, 2, 3, 114} /\ Writes(t) = (x.op # "read")
  BY <1>2, <1>3 DEF AInv, Kept, Account, Transfers, Writes
<1>5. /\ v.phase # "busy" /\ (x.op = "read" => v.phase = "drq")
      /\ (v.phase = "drq" => v.drive = x.drive /\ v.at = Here(x))
      /\ (type = "atapi" => x.op = "read")
  BY <1>4 DEF Data, Account
<1>6. PICK e : e = IF v.phase = "drq" THEN <<v.drive, v.at>> ELSE NoX
  OBVIOUS
<1>7. e \in Entries /\ e \in {NoX, <<x.drive, Here(x)>>} /\ (x.op = "read" => e # NoX)
  <2>1. v.drive \in Nat /\ v.at \in Nat
    BY <1>4 DEF DeviceStates
  <2> QED BY <1>5, <1>6, <2>1, AtaAssumption DEF Entries
<1>8. PICK s : /\ s = (IF type = "atapi" THEN "wait2"
                       ELSE IF (Len(Append(x.moved, e)) % x.each) # 0
                            THEN IF x.op # "read" THEN "wpoll" ELSE "poll"
                            ELSE IF x.op # "read" THEN "flush" ELSE "done")
               /\ xfer' = [xfer EXCEPT ![t] = Changed(x, Append(x.moved, e), s, x.ret)]
  <2>1. e = (IF dev[Chan(t)].phase = "drq" THEN <<dev[Chan(t)].drive, dev[Chan(t)].at>> ELSE NoX)
    BY <1>3, <1>6
  <2>2. PICK s : /\ s = (IF Drive(t).type = "atapi" THEN "wait2"
                         ELSE IF (Len(Append(xfer[t].moved, e)) % xfer[t].each) # 0
                              THEN IF Writes(t) THEN "wpoll" ELSE "poll"
                              ELSE IF Writes(t) THEN "flush" ELSE "done")
                 /\ xfer' = [xfer EXCEPT ![t] = Changed(xfer[t], Append(xfer[t].moved, e), s, xfer[t].ret)]
    BY <1>2, <2>1, MoveIs
  <2> QED BY <1>3, <1>4, <2>2
<1>9. Len(Append(x.moved, e)) = Len(x.moved) + 1 /\ Len(x.moved) \in Nat
  BY <1>4
<1>10. /\ s \in Steps /\ s # "start"
       /\ type = "atapi" => s = "wait2"
       /\ type = "ata" => s \in {"poll", "wpoll", "flush", "done"}
       /\ s \in {"poll", "wpoll"} => Len(x.moved) + 1 < x.n
       /\ s \in {"wpoll", "flush"} => x.op # "read"
       /\ s = "done" => Len(x.moved) + 1 = x.n /\ x.op = "read"
  <2>1. PICK k : k = Len(x.moved) + 1
    OBVIOUS
  <2>2. /\ k % x.each # 0 => k < x.n
        /\ type = "ata" /\ x.op # "zero" /\ k % x.each = 0 => k = x.n
    BY <1>4, <2>1, MoreOrNot
  <2>3. s = (IF type = "atapi" THEN "wait2"
             ELSE IF (k % x.each) # 0 THEN IF x.op # "read" THEN "wpoll" ELSE "poll"
                  ELSE IF x.op # "read" THEN "flush" ELSE "done")
    BY <1>8, <1>9, <2>1
  <2> QED BY <1>4, <2>1, <2>2, <2>3 DEF Steps, Packs, Commands
<1>11. /\ type = "atapi" => s \notin Commands
       /\ type = "ata" => s \notin Packs
       /\ s \in Pending \cup {"start"} => Len(x.moved) + 1 < x.n
       /\ s \in Arrived => type = "atapi"
       /\ s \in {"wpoll", "flush", "fpoll"} => x.op # "read"
  BY <1>4, <1>10 DEF Packs, Commands, Pending, Arrived
<1>12. PICK y : y = Changed(x, Append(x.moved, e), s, x.ret)
  OBVIOUS
<1>13. y \in Transfers /\ Account(y, type)
  <2>1. PICK r \in {0, 2, 3, 114} : r = x.ret
    BY <1>4
  <2>2. s \in Arrived => e # NoX
    BY <1>5, <1>7, <1>11
  <2>3. s = "done" /\ r = 0 => Len(x.moved) + 1 = x.n /\ (x.op = "read" => e # NoX)
    BY <1>7, <1>10
  <2>4. s \in Steps
    BY <1>10
  <2>5. /\ Changed(x, Append(x.moved, e), s, r) \in Transfers
        /\ Account(Changed(x, Append(x.moved, e), s, r), type)
    BY <1>4, <1>7, <1>11, <2>2, <2>3, <2>4, Appended
  <2> QED BY <1>12, <2>1, <2>5
<1>14. /\ y.step = s /\ y.drive = x.drive /\ y.op = x.op /\ y.lba = x.lba
       /\ y.moved = Append(x.moved, e)
  BY <1>12 DEF Changed
<1>15. PICK w : w = IF v.phase # "drq" THEN v
                    ELSE IF v.left > 1 THEN Busy("drq", TRUE, v.drive, v.at + 1, v.left - 1)
                    ELSE IF type = "atapi" \/ x.op # "read" THEN Busy("idle", TRUE, v.drive, v.at, 0)
                    ELSE Still
  OBVIOUS
<1>16. w \in DeviceStates
  <2>1. v.drive \in Nat /\ v.at \in Nat /\ v.at + 1 \in Nat /\ v.left \in Nat
        /\ (v.left > 1 => v.left - 1 \in Nat)
    BY <1>4 DEF DeviceStates
  <2>2. CASE v.phase = "drq" /\ v.left > 1
    BY <1>15, <2>1, <2>2 DEF Busy, DeviceStates
  <2>3. CASE v.phase = "drq" /\ ~(v.left > 1) /\ (type = "atapi" \/ x.op # "read")
    BY <1>15, <2>1, <2>3 DEF Busy, DeviceStates
  <2>4. CASE v.phase = "drq" /\ ~(v.left > 1) /\ ~(type = "atapi" \/ x.op # "read")
    BY <1>15, <2>4 DEF Still, DeviceStates
  <2> QED BY <1>4, <1>15, <2>2, <2>3, <2>4
<1>17. dev' = [dev EXCEPT ![Chan(t)] = w]
  <2>1. CASE v.phase # "drq"
    BY <1>2, <1>3, <1>4, <1>15, <2>1 DEF Move, ATypes
  <2>2. CASE v.phase = "drq"
    BY <1>3, <1>4, <1>15, <2>2 DEF Move
  <2> QED BY <2>1, <2>2
<1>18. /\ dev' \in [Channels -> DeviceStates] /\ ien' \in [Channels -> BOOLEAN]
       /\ irq' \in BOOLEAN /\ pend' \in BOOLEAN /\ torn' \in BOOLEAN
       /\ \A c \in Channels \ {Chan(t)} : dev'[c] = dev[c] /\ ien'[c] = ien[c]
       /\ (irq \/ pend => irq' \/ pend') /\ dev'[Chan(t)] = w
  BY <1>1, <1>2, <1>4, <1>16, <1>17 DEF ATypes
<1>19. Data(y, w)
  <2>1. Here(y) = Here(x) + 1 /\ (v.phase = "drq" => Here(x) = v.at)
    <3>1. x.lba \in Nat
      BY <1>4 DEF Transfers
    <3>2. Here(y) = Here(x) + 1
      BY <1>9, <1>14, <3>1 DEF Here
    <3> QED BY <1>5, <3>2
  <2>2. s # "move"
    BY <1>10, <1>4
  <2>3. CASE v.phase # "drq"
    BY <1>5, <1>14, <1>15, <2>2, <2>3 DEF Data
  <2>4. CASE v.phase = "drq" /\ v.left > 1
    <3>1. w.drive = v.drive /\ w.at = v.at + 1
      BY <1>15, <2>4 DEF Busy
    <3> QED BY <1>5, <1>14, <2>1, <2>2, <2>4, <3>1 DEF Data
  <2>5. CASE v.phase = "drq" /\ ~(v.left > 1)
    <3>1. w.phase # "drq" /\ w.then = "idle"
      BY <1>15, <2>5 DEF Busy, Still
    <3> QED BY <1>14, <2>2, <3>1 DEF Data
  <2> QED BY <2>3, <2>4, <2>5
<1>20. Rings(y.step, type) => ien'[Chan(t)]
  BY <1>1, <1>3, <1>4 DEF Rings, Rung
<1>21. y.step \in {"wait", "wait2"} => w.phase = "busy" /\ w.rings
  <2> SUFFICES ASSUME y.step \in {"wait", "wait2"} PROVE w.phase = "busy" /\ w.rings
    OBVIOUS
  <2>1. type = "atapi"
    BY <1>4, <1>10, <1>14
  <2> QED BY <1>5, <1>15, <2>1 DEF Busy
<1>22. xfer' = [xfer EXCEPT ![t] = y]
  BY <1>8, <1>12
<1> QED BY <1>1, <1>2, <1>3, <1>13, <1>14, <1>18, <1>19, <1>20, <1>21, <1>22, OneMoves

(* Steps that move no transfer on, those of the lock among them.            *)
LEMMA NoneMoves ==
  ASSUME AInv, UNCHANGED <<drives, dev, ien, torn>>, pend' \in BOOLEAN, irq' \in BOOLEAN,
         irq \/ pend => irq' \/ pend',
         xfer' \in [Thread -> Transfers \cup {NoX, Ended}],
         \A u \in Thread : \/ xfer'[u] \in {NoX, Ended}
                           \/ xfer'[u] = xfer[u] /\ (Under(u) => pc'[u] = pc[u])
  PROVE  AInv'
<1>0. /\ Drives /\ ATypes /\ InLock
      /\ ~torn => OwnChannel /\ \A u \in Thread : Under(u) => Kept(u)
  BY DEF AInv
<1>1. Drives' /\ Transfers' = Transfers
  BY <1>0 DEF Drives, Transfers
<1>2. ATypes'
  BY <1>0, <1>1 DEF ATypes
<1>3. \A u \in Thread : Under(u)' => /\ Under(u) /\ xfer'[u] = xfer[u] /\ pc'[u] = pc[u]
                                     /\ Chan(u)' = Chan(u) /\ Drive(u)' = Drive(u)
  BY DEF Under, Chan, Drive
<1>4. InLock'
  BY <1>0, <1>3 DEF InLock
<1>5. \A u \in Thread : Active(u)' => Active(u) /\ Chan(u)' = Chan(u)
  BY <1>3 DEF Active, Under
<1>6. ASSUME ~torn' PROVE OwnChannel'
  BY <1>0, <1>5, <1>6 DEF OwnChannel
<1>7. ASSUME ~torn', NEW u \in Thread, Under(u)' PROVE Kept(u)'
  <2>1. /\ Kept(u) /\ xfer'[u] = xfer[u] /\ Chan(u)' = Chan(u) /\ Drive(u)' = Drive(u)
        /\ dev'[Chan(u)] = dev[Chan(u)] /\ ien'[Chan(u)] = ien[Chan(u)]
    BY <1>0, <1>3, <1>7
  <2>2. Account(xfer[u], Drive(u).type)'
    BY <2>1 DEF Account, Kept
  <2>3. Data(xfer[u], dev[Chan(u)])'
    BY <2>1 DEF Data, Here, Kept
  <2>4. Rung(u)'
    BY <2>1 DEF Rung, Rings, Kept
  <2> QED BY <2>2, <2>3, <2>4 DEF Kept
<1> QED BY <1>1, <1>2, <1>4, <1>6, <1>7 DEF AInv

LEMMA FinishStep ==
  ASSUME AInv, NEW t \in Thread, Finish(t)
  PROVE  AInv'
<1>1. ATypes
  BY DEF AInv
<1>2. PICK z \in {NoX, Ended} : xfer' = [xfer EXCEPT ![t] = z]
  BY <1>1 DEF Finish, ATypes
<1>3. UNCHANGED <<vars, drives, dev, ien, pend, irq, torn>>
  BY DEF Finish
<1>4. /\ xfer' \in [Thread -> Transfers \cup {NoX, Ended}]
      /\ xfer'[t] = z /\ \A u \in Thread \ {t} : xfer'[u] = xfer[u]
  BY <1>1, <1>2 DEF ATypes
<1>5. \A u \in Thread : xfer'[u] \in {NoX, Ended} \/ (xfer'[u] = xfer[u] /\ pc'[u] = pc[u])
  BY <1>3, <1>4 DEF vars
<1> QED BY <1>1, <1>3, <1>4, <1>5, NoneMoves DEF ATypes

LEMMA LockStep ==
  ASSUME AInv, IInv, NEW t \in Thread,
         Nested(t) \/ Nap(t) \/ Take(t) \/ Wake(t) \/ Give(t) \/ Stray(t)
  PROVE  AInv'
<1>1. ATypes /\ pc \in [Thread -> {"out", "waiting", "in"}]
  BY DEF AInv, IInv, TypeOK
<1>2. CASE Give(t)
  <2>1. /\ UNCHANGED <<drives, dev, ien, pend, irq, torn>> /\ xfer' = [xfer EXCEPT ![t] = NoX]
        /\ pc' = [pc EXCEPT ![t] = "out"]
    BY <1>2 DEF Give, ReleaseLast
  <2>2. /\ xfer' \in [Thread -> Transfers \cup {NoX, Ended}]
        /\ xfer'[t] = NoX
        /\ \A u \in Thread \ {t} : xfer'[u] = xfer[u] /\ pc'[u] = pc[u]
    BY <1>1, <2>1 DEF ATypes
  <2>3. \A u \in Thread : xfer'[u] \in {NoX, Ended} \/ (xfer'[u] = xfer[u] /\ pc'[u] = pc[u])
    BY <2>2
  <2> QED BY <1>1, <2>1, <2>2, <2>3, NoneMoves DEF ATypes
<1>3. CASE Nested(t) \/ Nap(t) \/ Take(t) \/ Wake(t) \/ Stray(t)
  <2>1. UNCHANGED avars
    BY <1>3 DEF Nested, Nap, Take, Wake, Stray
  <2>2. \A u \in Thread : Under(u) => pc'[u] = pc[u]
    <3>1. CASE Stray(t)
      BY <3>1 DEF Stray, StrayWakeup
    <3>2. CASE Nested(t) \/ Nap(t) \/ Take(t) \/ Wake(t)
      <4>1. ~Under(t)
        BY <3>2 DEF Nested, Nap, Take, Wake, Free, Under
      <4>2. \A u \in Thread \ {t} : pc'[u] = pc[u]
        BY <1>1, <3>2 DEF Nested, Nap, Take, Wake, AcquireAgain, ReleaseNested, BlockInside,
                          AcquireFree, AcquireHeld, Resume
      <4> QED BY <4>1, <4>2
    <3> QED BY <1>3, <3>1, <3>2
  <2> QED BY <1>1, <2>1, <2>2, NoneMoves DEF ATypes, avars
<1> QED BY <1>2, <1>3

LEMMA DeviceStep ==
  ASSUME AInv, NEW c \in Channels, Device(c)
  PROVE  AInv'
<1>0. /\ Drives /\ ATypes /\ InLock /\ OwnChannel /\ ~torn
      /\ \A u \in Thread : Under(u) => Kept(u)
  BY DEF AInv, Device
<1>1. UNCHANGED <<vars, drives, xfer, ien, irq, torn>> /\ dev[c].phase = "busy" /\ dev[c] \in DeviceStates
  BY <1>0 DEF Device, ATypes
<1>2. PICK w : /\ dev' = [dev EXCEPT ![c] = w]
               /\ \/ /\ w = IF dev[c].then = "idle" THEN Still
                            ELSE [dev[c] EXCEPT !.phase = "drq", !.rings = FALSE]
                     /\ pend' = (pend \/ (ien[c] /\ dev[c].rings))
                  \/ /\ w = [Still EXCEPT !.phase = "fault"]
                     /\ pend' = (pend \/ ien[c])
  BY <1>0 DEF Device, ATypes
<1>3. /\ w \in DeviceStates /\ w.phase # "busy"
      /\ w.phase = "drq" => dev[c].then = "drq" /\ w.drive = dev[c].drive /\ w.at = dev[c].at
  <2>1. CASE w = Still
    BY <2>1 DEF Still, DeviceStates
  <2>2. CASE w = [Still EXCEPT !.phase = "fault"]
    BY <2>2 DEF Still, DeviceStates
  <2>3. CASE dev[c].then # "idle" /\ w = [dev[c] EXCEPT !.phase = "drq", !.rings = FALSE]
    BY <1>1, <2>3 DEF DeviceStates
  <2> QED BY <1>2, <2>1, <2>2, <2>3
<1>4. pend' \in BOOLEAN /\ dev' \in [Channels -> DeviceStates] /\ dev'[c] = w
      /\ \A k \in Channels \ {c} : dev'[k] = dev[k]
  BY <1>0, <1>2, <1>3 DEF ATypes
<1>5. Drives' /\ Transfers' = Transfers
  BY <1>0, <1>1 DEF Drives, Transfers
<1>6. ATypes'
  BY <1>0, <1>1, <1>4, <1>5 DEF ATypes
<1>7. InLock' /\ OwnChannel'
  BY <1>0, <1>1 DEF InLock, Under, vars, OwnChannel, Active, Chan, Drive
<1>8. ASSUME NEW u \in Thread, Under(u)' PROVE Kept(u)'
  <2>1. /\ Under(u) /\ Kept(u) /\ Chan(u)' = Chan(u) /\ Drive(u)' = Drive(u)
        /\ xfer[u] \in Transfers
    BY <1>0, <1>1, <1>8 DEF Under, Chan, Drive, ATypes
  <2>2. Chan(u) \in Channels /\ Drive(u).type \in {"ata", "atapi"}
    BY <1>0, <2>1 DEF Drives, Transfers, Chan, Drive
  <2>3. Account(xfer[u], Drive(u).type)'
    BY <1>1, <2>1 DEF Account, Kept
  <2>4. Data(xfer[u], dev[Chan(u)])'
    <3>1. Data(xfer[u], dev[Chan(u)])
      BY <2>1 DEF Kept
    <3>2. CASE Chan(u) = c
      <4>1. dev'[Chan(u)] = w /\ xfer[u].step # "move"
        BY <1>1, <1>4, <3>1, <3>2 DEF Data
      <4> QED BY <1>1, <1>3, <2>1, <3>1, <3>2, <4>1 DEF Data, Here
    <3>3. CASE Chan(u) # c
      <4>1. dev'[Chan(u)] = dev[Chan(u)]
        BY <1>4, <2>2, <3>3
      <4> QED BY <1>1, <2>1, <3>1, <4>1 DEF Data, Here
    <3> QED BY <3>2, <3>3
  <2>5. Rung(u)'
    <3>1. Rings(xfer[u].step, Drive(u).type)' => ien'[Chan(u)]
      BY <1>1, <2>1 DEF Rings, Rung, Kept
    <3>2. ASSUME xfer[u].step \in {"wait", "wait2"}
          PROVE  irq' \/ pend' \/ (dev'[Chan(u)].phase = "busy" /\ dev'[Chan(u)].rings)
      <4>1. xfer[u].step \in Packs
        BY <3>2 DEF Packs
      <4>2. Drive(u).type = "atapi"
        BY <2>1, <2>2, <4>1 DEF Kept, Account
      <4>3. ien[Chan(u)] /\ (irq \/ pend \/ (dev[Chan(u)].phase = "busy" /\ dev[Chan(u)].rings))
        BY <2>1, <3>2, <4>2 DEF Kept, Rung, Rings
      <4>4. CASE Chan(u) = c
        BY <1>1, <1>2, <4>3, <4>4
      <4>5. CASE Chan(u) # c
        BY <1>1, <1>2, <1>4, <2>2, <4>3, <4>5
      <4> QED BY <4>4, <4>5
    <3> QED BY <1>1, <2>1, <3>1, <3>2 DEF Rung
  <2> QED BY <2>3, <2>4, <2>5 DEF Kept
<1> QED BY <1>0, <1>1, <1>5, <1>6, <1>7, <1>8 DEF AInv

LEMMA BeginStep ==
  ASSUME AInv, NEW t \in Thread, Begin(t)
  PROVE  AInv'
<1>0. /\ Drives /\ ATypes /\ InLock /\ OwnChannel /\ ~torn
      /\ \A u \in Thread : Under(u) => Kept(u)
  BY DEF AInv, Begin
<1>1. UNCHANGED <<vars, drives, dev, ien, pend, irq>> /\ xfer[t] = NoX
  BY DEF Begin
<1>2. PICK d \in DOMAIN drives, q \in Requests, err \in {0, 2} :
        LET pack == drives[d].type = "atapi"
            zero == q.op = "zero"
            n    == IF zero THEN q.num ELSE q.num % Byte
        IN  /\ pc[t] = IF zero THEN "out" ELSE "in"
            /\ pack => q.op = "read"
            /\ err = 0 \/ (pack /\ n = 0)
            /\ xfer' = [xfer EXCEPT ![t] =
                 [op |-> q.op, drive |-> d, lba |-> q.lba, n |-> n, moved |-> <<>>, ret |-> err,
                  each |-> IF pack \/ zero THEN 1 ELSE n,
                  step |-> IF (pack \/ zero) /\ n = 0 THEN "done" ELSE "start"]]
            /\ torn' = Mixed(t, drives[d].channel)
  BY DEF Begin
<1>3. PICK n, type : n = (IF q.op = "zero" THEN q.num ELSE q.num % Byte) /\ type = drives[d].type
  OBVIOUS
<1>4. PICK y : y = [op |-> q.op, drive |-> d, lba |-> q.lba, n |-> n, moved |-> <<>>, ret |-> err,
                    each |-> IF type = "atapi" \/ q.op = "zero" THEN 1 ELSE n,
                    step |-> IF (type = "atapi" \/ q.op = "zero") /\ n = 0 THEN "done" ELSE "start"]
  OBVIOUS
<1>5. /\ n \in Nat /\ q.lba \in Nat /\ q.op \in {"read", "write", "zero"} /\ type \in {"ata", "atapi"}
      /\ drives[d].channel \in Channels
  <2>1. q.op \in {"read", "write", "zero"} /\ q.lba \in Nat /\ q.num \in Nat
    BY AtaAssumption
  <2>2. Byte \in Nat \ {0}
    BY AtaAssumption
  <2>3. q.num % Byte \in Nat
    BY <2>1, <2>2
  <2> QED BY <1>0, <1>3, <2>1, <2>3 DEF Drives
<1>6. /\ y.op = q.op /\ y.drive = d /\ y.lba = q.lba /\ y.n = n /\ y.moved = <<>> /\ y.ret = err
      /\ y.each = (IF type = "atapi" \/ q.op = "zero" THEN 1 ELSE n)
      /\ y.step = (IF (type = "atapi" \/ q.op = "zero") /\ n = 0 THEN "done" ELSE "start")
  BY <1>4
<1>7. /\ pc[t] = (IF q.op = "zero" THEN "out" ELSE "in")
      /\ type = "atapi" => q.op = "read"
      /\ xfer' = [xfer EXCEPT ![t] = y]
      /\ torn' = Mixed(t, drives[d].channel)
  BY <1>2, <1>3, <1>4
<1>8. y \in Transfers
  BY <1>4, <1>5 DEF Transfers
<1>9. Account(y, type)
  <2>1. Len(y.moved) = 0 /\ y.n \in Nat
    BY <1>5, <1>6
  <2>2. \A k \in 1 .. Len(y.moved) : y.moved[k] \in {NoX, <<y.drive, y.lba + k - 1>>}
    BY <2>1
  <2>3. y.step \in {"start", "done"} /\ (y.step = "start" => 0 < n \/ y.each = 0)
        /\ (y.step = "done" => n = 0)
    BY <1>5, <1>6
  <2>4. Len(y.moved) <= y.n
    BY <2>1
  <2>5. y.step \notin Packs /\ y.step \notin Commands
    BY <2>3 DEF Packs, Commands
  <2> QED BY <1>5, <1>6, <1>7, <2>1, <2>2, <2>3, <2>4, <2>5 DEF Account
<1>10. /\ xfer' \in [Thread -> Transfers \cup {NoX, Ended}] /\ xfer'[t] = y
       /\ \A u \in Thread \ {t} : xfer'[u] = xfer[u]
  BY <1>0, <1>7, <1>8 DEF ATypes
<1>11. Drives' /\ Transfers' = Transfers
  BY <1>0, <1>1 DEF Drives, Transfers
<1>12. torn' \in BOOLEAN /\ ATypes'
  <2>1. torn' \in BOOLEAN
    BY <1>7 DEF Mixed
  <2> QED BY <1>0, <1>1, <1>10, <1>11, <2>1 DEF ATypes
<1>13. InLock'
  <2> SUFFICES ASSUME NEW u \in Thread, Under(u)', xfer'[u].op # "zero" PROVE pc'[u] = "in"
    BY DEF InLock
  <2>1. CASE u = t
    BY <1>1, <1>6, <1>7, <1>10, <2>1 DEF vars
  <2>2. CASE u # t
    BY <1>0, <1>1, <1>10, <2>2 DEF InLock, Under, vars
  <2> QED BY <2>1, <2>2
<1>14. \A u \in Thread \ {t} : /\ Under(u)' = Under(u) /\ Chan(u)' = Chan(u) /\ Drive(u)' = Drive(u)
                               /\ Active(u)' = Active(u)
  BY <1>1, <1>10 DEF Under, Chan, Drive, Active
<1>15. Chan(t)' = drives[d].channel /\ Drive(t)' = drives[d]
  BY <1>1, <1>6, <1>10 DEF Chan, Drive
<1>16. ASSUME ~torn' PROVE OwnChannel'
  <2>1. \A u \in Thread \ {t} : Active(u) => Chan(u) # drives[d].channel
    BY <1>7, <1>16 DEF Mixed
  <2> SUFFICES ASSUME NEW u \in Thread, NEW w \in Thread, u # w, Active(u)', Active(w)'
               PROVE  Chan(u)' # Chan(w)'
    BY DEF OwnChannel
  <2>2. CASE u = t
    BY <1>14, <1>15, <2>1, <2>2
  <2>3. CASE w = t
    BY <1>14, <1>15, <2>1, <2>3
  <2>4. CASE u # t /\ w # t
    BY <1>0, <1>14, <2>4 DEF OwnChannel
  <2> QED BY <2>2, <2>3, <2>4
<1>17. ASSUME NEW u \in Thread, Under(u)' PROVE Kept(u)'
  <2>1. CASE u = t
    <3>1. Account(xfer[t], Drive(t).type)'
      BY <1>3, <1>9, <1>10, <1>15 DEF Account
    <3>2. y.step \in {"start", "done"}
      BY <1>6
    <3>3. Data(xfer[t], dev[Chan(t)])'
      BY <1>10, <3>2 DEF Data
    <3>4. Rung(t)'
      BY <1>10, <3>2 DEF Rung, Rings
    <3> QED BY <2>1, <3>1, <3>3, <3>4 DEF Kept
  <2>2. CASE u # t
    <3>1. /\ Kept(u) /\ xfer'[u] = xfer[u] /\ Chan(u)' = Chan(u) /\ Drive(u)' = Drive(u)
      BY <1>0, <1>10, <1>14, <1>17, <2>2
    <3>2. Account(xfer[u], Drive(u).type)'
      BY <3>1 DEF Account, Kept
    <3>3. Data(xfer[u], dev[Chan(u)])'
      BY <1>1, <3>1 DEF Data, Here, Kept
    <3>4. Rung(u)'
      BY <1>1, <3>1 DEF Rung, Rings, Kept
    <3> QED BY <3>2, <3>3, <3>4 DEF Kept
  <2> QED BY <2>1, <2>2
<1> QED BY <1>11, <1>12, <1>13, <1>16, <1>17 DEF AInv

LEMMA AtaStep == AInv /\ IInv /\ [ANext]_all => AInv'
<1> SUFFICES ASSUME AInv, IInv, [ANext]_all PROVE AInv'
  OBVIOUS
<1>1. CASE UNCHANGED all
  BY <1>1, NoneMoves DEF AInv, ATypes, all, avars, vars
<1>2. CASE Irq
  BY <1>2, NoneMoves DEF AInv, ATypes, Irq, vars
<1>3. ASSUME NEW c \in Channels, Device(c) PROVE AInv'
  BY <1>3, DeviceStep
<1>4. ASSUME NEW t \in Thread, Begin(t) PROVE AInv'
  BY <1>4, BeginStep
<1>5. ASSUME NEW t \in Thread, Transfer(t) PROVE AInv'
  <2>1. CASE Command(t)
    BY <2>1, CommandStep
  <2>2. CASE Packet(t)
    BY <2>2, PacketStep
  <2>3. CASE Poll(t)
    BY <2>3, PollStep
  <2>4. CASE PollOnly(t)
    BY <2>4, PollOnlyStep
  <2>5. CASE Send(t)
    BY <2>5, SendStep
  <2>6. CASE WaitIrq(t)
    BY <2>6, WaitIrqStep
  <2>7. CASE Move(t)
    BY <2>7, MoveStep
  <2>8. CASE Flush(t)
    BY <2>8, FlushStep
  <2>9. CASE Drain(t)
    BY <2>9, DrainStep
  <2>10. CASE Finish(t)
    BY <2>10, FinishStep
  <2> QED BY <1>5, <2>1, <2>2, <2>3, <2>4, <2>5, <2>6, <2>7, <2>8, <2>9, <2>10 DEF Transfer
<1>6. ASSUME NEW t \in Thread, Nested(t) \/ Nap(t) \/ Take(t) \/ Wake(t) \/ Give(t) \/ Stray(t)
      PROVE AInv'
  BY <1>6, LockStep
<1> QED BY <1>1, <1>2, <1>3, <1>4, <1>5, <1>6 DEF ANext

(* The driver uses the lock as module KLock says its users do: what is      *)
(* proved of the lock above is true of it here.                             *)
THEOREM DriverKeepsLock == ASpec => Spec
<1>1. AInit => Init
  BY DEF AInit
<1> QED BY <1>1, LockSteps, PTL DEF ASpec, Spec

THEOREM AtaInvariance == ASpec => [](AInv /\ IInv)
<1>1. Spec => []IInv
  BY Invariance
<1> QED BY <1>1, DriverKeepsLock, AtaInitially, AtaStep, PTL DEF ASpec

(* A transfer moves the sectors it was asked for, from its own drive and in *)
(* order, and one that returns no error has moved them all.                 *)
THEOREM SectorsAreMoved == ASpec => []MovesItsSectors
<1>1. AInv => MovesItsSectors
  <2> SUFFICES ASSUME AInv, NEW t \in Thread, ~torn, xfer[t] \notin {NoX, Ended}
               PROVE  LET x == xfer[t]
                      IN  /\ \A k \in 1 .. Len(x.moved) : x.moved[k] \in {NoX, <<x.drive, x.lba + k - 1>>}
                          /\ (x.step = "done" /\ x.ret = 0) => Len(x.moved) = x.n
                          /\ (x.step = "done" /\ x.ret = 0 /\ x.op = "read" /\ x.n > 0) => x.moved[x.n] # NoX
    BY DEF MovesItsSectors
  <2>1. Account(xfer[t], Drive(t).type)
    BY DEF AInv, Under, Kept
  <2> QED BY <2>1 DEF Account
<1> QED BY <1>1, AtaInvariance, PTL

(* A packet read waits only for an interrupt that has come or will come.    *)
THEOREM InterruptsCome == ASpec => []IrqComes
<1>1. AInv => IrqComes
  <2> SUFFICES ASSUME AInv, NEW t \in Thread, NEW s \in {"wait", "wait2"}, In(t, s)
               PROVE  irq \/ pend \/ (dev[Chan(t)].phase = "busy" /\ dev[Chan(t)].rings /\ ien[Chan(t)])
    BY DEF IrqComes
  <2>1. Kept(t) /\ xfer[t].step = s /\ Drive(t).type \in {"ata", "atapi"}
    BY Acting
  <2>2. s \in Packs
    BY DEF Packs
  <2>3. Drive(t).type = "atapi"
    BY <2>1, <2>2 DEF Kept, Account
  <2> QED BY <2>1, <2>3 DEF Kept, Rung, Rings
<1> QED BY <1>1, AtaInvariance, PTL

(* Two transfers are never under way at once unless one of them is          *)
(* ide_dev_zero: only it can mix with another (torn).                       *)
OnlyZeroMixes ==
  \A t, u \in Thread :
    t # u /\ Under(t) /\ Under(u) => xfer[t].op = "zero" \/ xfer[u].op = "zero"

THEOREM ReadsExclude == ASpec => []OnlyZeroMixes
<1>1. AInv /\ IInv => OnlyZeroMixes
  BY DEF AInv, IInv, InLock, HolderInside, OnlyZeroMixes
<1> QED BY <1>1, AtaInvariance, PTL

(* With transfers under way inside it, the lock is still the abstract mutex. *)
THEOREM DriverImplementsMutex == ASpec => ImplementsMutex
<1> QED BY DriverKeepsLock, LockImplementsMutex, PTL
=============================================================================
