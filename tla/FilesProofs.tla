---------------------------- MODULE FilesProofs ----------------------------
(***************************************************************************)
(* Proofs about open files, module Files, and about the file system that   *)
(* keeps them, module Fat.                                                 *)
(*                                                                         *)
(* Until two threads update one count at once, ref_cnt is exact and no     *)
(* descriptor dangles, for any number of threads, files and descriptors,   *)
(* and through every interleaving of open, pipe, dup, dup2, close, fork    *)
(* and exit.                                                               *)
(*                                                                         *)
(* The proof counts the slots that ref_cnt accounts for, which a call in   *)
(* progress changes together with the count, instead of all slots.         *)
(*                                                                         *)
(* The cached group of the FAT32 table agrees with the disk, the chains of *)
(* a volume stay apart and closed, and inodes keep their end and length,   *)
(* for tables, groups and clusters of any size.  VolumeInv, below, is the  *)
(* invariant from which the last two follow.                               *)
(***************************************************************************)
EXTENDS Files, Fat, FiniteSetTheorems, TLAPS

AllSlots == Thread \X Fds

(* The slot that t's call has filled and not yet counted, or given up and  *)
(* not yet cleared *)
Pending(t, i) ==
  call[t].at \in {"counting", "counted", "clearing"} /\ call[t].fd = i

(* The slots of f that its count accounts for, as it does for the strays *)
Owned(f) == {w \in AllSlots : fd[w[1]][w[2]] = f /\ ~Pending(w[1], w[2])}

(* What each place in a call relies on *)
CallOK(t) ==
  LET c == call[t]
  IN  /\ c.at \in {"counting", "counted", "closing", "dropping"} => FileAt(t) # Null
      /\ c.at \in {"counting", "counted"} => \E i \in Fds \ {c.fd} : fd[t][i] = FileAt(t)
      /\ c.at \in {"counting", "counted"} /\ c.to # -1 => c.from = c.fd
      /\ c.at \in {"closing", "dropping", "clearing"} /\ c.to # -1 =>
           c.fd = c.to /\ c.from \in Fds
      /\ c.at \in {"counted", "dropping"} => c.val = ref[FileAt(t)]
      /\ c.at = "dropping" => c.val # 0

(* A slot names a file that has not been freed, unless it is to be cleared. *)
SlotOK(t, i) ==
  \/ fd[t][i] \in (inUse \ lost) \cup {Null}
  \/ call[t].at = "clearing" /\ call[t].fd = i

Counted ==
  /\ \A f \in File \ inUse : ref[f] = 0
  /\ \A f \in inUse \ lost : Cardinality(Owned(f)) + strays[f] = ref[f] + 1

Core ==
  /\ \A t \in Thread : CallOK(t)
  /\ \A t \in Thread, i \in Fds : SlotOK(t, i)
  /\ Counted

(* There have only been so many forks. *)
FewForked == IsFiniteSet({t \in Thread : call[t].at # "none"})

NoneEmpty == \A t \in Thread, i \in Fds : call[t].at = "none" => fd[t][i] = Null

IInv == FilesTypeOK /\ FewForked /\ NoneEmpty /\ (~raced => Core)

----------------------------------------------------------------------------
(* Every set of natural numbers has a least element. *)
LEMMA LeastNat ==
  ASSUME NEW T \in SUBSET Nat, T # {}
  PROVE  \E m \in T : \A n \in T : m <= n
<1> DEFINE R == {p \in Nat \X Nat : p[1] < p[2]}
<1>1. IsWellFoundedOn(R, Nat)
  BY NatLessThanWellFounded DEF OpToRel
<1>2. PICK m \in T : \A n \in T : <<n, m>> \notin R
  <2> HIDE DEF R
  <2> QED BY <1>1, WFMin
<1>3. \A n \in T : <<n, m>> \in Nat \X Nat
  OBVIOUS
<1>4. \A n \in T : ~(n < m)
  BY <1>2, <1>3
<1> QED BY <1>4

(* thread_add_fd puts the file in one empty slot, or in none when the      *)
(* table is full. *)
LEMMA AddedIs ==
  ASSUME NEW fds \in [Fds -> File \cup {Null}], NEW f \in File
  PROVE  \/ TableFull(fds) /\ Added(fds, f) = fds
         \/ /\ ~TableFull(fds)
            /\ \E k \in Fds : fds[k] = Null /\ Added(fds, f) = [fds EXCEPT ![k] = f]
<1>1. CASE TableFull(fds)
  BY <1>1 DEF TableFull, Added, FirstFree
<1>2. CASE ~TableFull(fds)
  <2> DEFINE T == {i \in Fds : fds[i] = Null}
  <2>1. T \in SUBSET Nat /\ T # {}
    BY <1>2 DEF TableFull, Fds
  <2>2. PICK k \in T : \A i \in T : k <= i
    BY <2>1, LeastNat
  <2>3. k \in Fds /\ FirstFree(fds, k)
    BY <2>1, <2>2 DEF FirstFree, Fds
  <2>4. \A i \in Fds : FirstFree(fds, i) => i = k
    BY <2>1, <2>3 DEF FirstFree, Fds
  <2>5. Added(fds, f) = [fds EXCEPT ![k] = f]
    BY <2>3, <2>4 DEF Added
  <2> QED BY <1>2, <2>3, <2>5 DEF FirstFree
<1> QED BY <1>1, <1>2

LEMMA InitIInv == FilesInit => IInv
<1> SUFFICES ASSUME FilesInit PROVE IInv
  OBVIOUS
<1> USE FilesAssumption DEF FilesInit, InUser
<1>1. FilesTypeOK
  <2>1. 0 \in Fds
    BY DEF Fds
  <2>2. \A t \in Thread : call[t] \in Calls
    BY <2>1 DEF Calls
  <2>3. call \in [Thread -> Calls]
    BY <2>2
  <2> HIDE DEF InUser
  <2> QED BY <2>3 DEF FilesTypeOK
<1>2. FewForked
  <2>1. {t \in Thread : call[t].at # "none"} = {Init0}
    OBVIOUS
  <2>2. IsFiniteSet({Init0})
    BY FS_Singleton
  <2> HIDE DEF FilesInit
  <2> QED BY <2>1, <2>2 DEF FewForked
<1>3. NoneEmpty
  BY DEF NoneEmpty
<1>4. Core
  BY DEF Core, CallOK, SlotOK, Counted
<1> QED BY <1>1, <1>2, <1>3, <1>4 DEF IInv

(* Only so many descriptors name a file. *)
LEMMA FiniteSlots ==
  ASSUME FewForked, NoneEmpty, NEW f \in File
  PROVE  IsFiniteSet(Descriptors(f)) /\ IsFiniteSet(Owned(f))
<1> DEFINE forked == {t \in Thread : call[t].at # "none"}
<1>1. IsFiniteSet(Fds)
  <2>1. 0 \in Int /\ FdMax - 1 \in Int
    BY FilesAssumption
  <2> QED BY <2>1, FS_Interval DEF Fds
<1>2. IsFiniteSet(forked \X Fds)
  BY <1>1, FS_Product DEF FewForked
<1>3. Descriptors(f) \in SUBSET (forked \X Fds)
  BY FilesAssumption DEF NoneEmpty, Descriptors
<1>4. Owned(f) \in SUBSET (forked \X Fds)
  BY FilesAssumption DEF NoneEmpty, Owned, AllSlots
<1> HIDE DEF forked
<1> QED BY <1>2, <1>3, <1>4, FS_Subset

(* What a step of t leaves true of another thread: all, if it stores no    *)
(* count that the other is in the middle of updating. *)
LEMMA OthersOK ==
  ASSUME NEW u \in Thread, CallOK(u),
         fd'[u] = fd[u], call'[u] = call[u],
         call[u].at \in {"counted", "dropping"} => ref'[FileAt(u)] = ref[FileAt(u)]
  PROVE  CallOK(u)'
BY DEF CallOK, FileAt

(* Sets of slots are compared slot by slot. *)
LEMMA SameSlots ==
  ASSUME NEW S \in SUBSET AllSlots, NEW T \in SUBSET AllSlots,
         \A u \in Thread, i \in Fds : <<u, i>> \in S <=> <<u, i>> \in T
  PROVE  S = T
BY DEF AllSlots

LEMMA CallTypes ==
  ASSUME FilesTypeOK, NEW t \in Thread
  PROVE  /\ call[t] \in Calls /\ call[t].fd \in Fds /\ call[t].val \in Nat
         /\ call[t].to \in Fds \cup {-1, Outside} /\ call[t].from \in Fds \cup {-1}
         /\ FileAt(t) \in File \cup {Null}
BY DEF FilesTypeOK, Calls, FileAt

(* How the slots that the count of f accounts for change *)
Owns(u, i, f) == fd[u][i] = f /\ ~Pending(u, i)

LEMMA OwnedSame ==
  ASSUME NEW f, \A u \in Thread, i \in Fds : Owns(u, i, f)' <=> Owns(u, i, f)
  PROVE  Owned(f)' = Owned(f)
BY SameSlots DEF Owned, Owns, AllSlots

LEMMA OwnedAdds ==
  ASSUME NEW f, NEW t \in Thread, NEW k \in Fds,
         \A u \in Thread, i \in Fds :
           Owns(u, i, f)' <=> Owns(u, i, f) \/ (u = t /\ i = k)
  PROVE  Owned(f)' = Owned(f) \cup {<<t, k>>}
BY DEF Owned, Owns, AllSlots

LEMMA OwnedDrops ==
  ASSUME NEW f, NEW t \in Thread, NEW k \in Fds,
         \A u \in Thread, i \in Fds :
           Owns(u, i, f)' <=> Owns(u, i, f) /\ ~(u = t /\ i = k)
  PROVE  Owned(f)' = Owned(f) \ {<<t, k>>}
BY DEF Owned, Owns, AllSlots

LEMMA OwnedNone ==
  ASSUME NEW f, \A u \in Thread, i \in Fds : ~Owns(u, i, f)
  PROVE  Owned(f) = {}
BY DEF Owned, Owns, AllSlots

LEMMA OwnedFirst ==
  ASSUME NEW f, NEW t \in Thread, NEW k \in Fds,
         \A u \in Thread, i \in Fds : Owns(u, i, f)' <=> (u = t /\ i = k)
  PROVE  Cardinality(Owned(f)') = 1
<1>1. Owned(f)' = {<<t, k>>}
  BY DEF Owned, Owns, AllSlots
<1> QED BY <1>1, FS_Singleton

(* A step that changes what t is doing, and nothing of another thread but  *)
(* counts that it is not in the middle of updating *)
LEMMA OneMoves ==
  ASSUME IInv, ~raced,
         NEW t \in Thread, NEW c \in Calls, call[t].at # "none", c.at # "none",
         call' = [call EXCEPT ![t] = c],
         fd' \in [Thread -> [Fds -> File \cup {Null}]],
         \A u \in Thread \ {t} : fd'[u] = fd[u],
         inUse' \subseteq File, lost' \subseteq inUse',
         ref' \in [File -> Nat], strays' \in [File -> Nat], raced' \in BOOLEAN,
         ~raced' =>
           /\ CallOK(t)' /\ Counted'
           /\ \A u \in Thread, i \in Fds : SlotOK(u, i)'
           /\ \A u \in Thread \ {t} :
                call[u].at \in {"counted", "dropping"} => ref'[FileAt(u)] = ref[FileAt(u)]
  PROVE  IInv'
<1>1. FilesTypeOK /\ FewForked /\ NoneEmpty /\ Core
  BY DEF IInv
<1>2. /\ call'[t] = c
      /\ \A u \in Thread \ {t} : call'[u] = call[u]
  BY <1>1 DEF FilesTypeOK
<1>3. FilesTypeOK'
  BY <1>1 DEF FilesTypeOK
<1>4. FewForked'
  <2>1. {u \in Thread : call'[u].at # "none"} = {u \in Thread : call[u].at # "none"}
    BY <1>2
  <2> QED BY <1>1, <2>1 DEF FewForked
<1>5. NoneEmpty'
  BY <1>1, <1>2 DEF NoneEmpty
<1>6. ASSUME ~raced' PROVE \A u \in Thread : CallOK(u)'
  <2>1. \A u \in Thread : CallOK(u)
    BY <1>1 DEF Core
  <2> QED BY <1>2, <1>6, <2>1, OthersOK
<1> QED BY <1>3, <1>4, <1>5, <1>6 DEF IInv, Core

----------------------------------------------------------------------------
(***************************************************************************)
(* The steps                                                               *)
(***************************************************************************)
LEMMA OpenStep ==
  ASSUME IInv, ~raced, NEW t \in Thread, NEW f \in File, Open(t, f)
  PROVE  IInv'
<1>1. FilesTypeOK /\ FewForked /\ NoneEmpty /\ Core
  BY DEF IInv
<1>2. /\ call[t].at = "user" /\ f \notin inUse /\ f # Null
      /\ call' = call /\ raced' = raced /\ inUse' = inUse \cup {f}
      /\ ref' = [ref EXCEPT ![f] = 0] /\ strays' = [strays EXCEPT ![f] = 0]
  BY FilesAssumption DEF Open
<1>3. fd[t] \in [Fds -> File \cup {Null}]
  BY <1>1 DEF FilesTypeOK
<1>4. \A u \in Thread \ {t} : fd'[u] = fd[u]
  BY <1>1 DEF Open, FilesTypeOK
<1>5. \/ TableFull(fd[t]) /\ fd' = fd /\ lost' = lost \cup {f}
      \/ /\ lost' = lost
         /\ \E k \in Fds : fd[t][k] = Null /\ fd' = [fd EXCEPT ![t][k] = f]
  <2>1. fd' = [fd EXCEPT ![t] = Added(fd[t], f)]
    BY DEF Open
  <2>2. lost' = IF TableFull(fd[t]) THEN lost \cup {f} ELSE lost
    BY DEF Open
  <2>3. CASE TableFull(fd[t])
    <3>1. Added(fd[t], f) = fd[t]
      BY <1>3, <2>3, AddedIs
    <3> QED BY <1>1, <2>1, <2>2, <2>3, <3>1 DEF FilesTypeOK
  <2>4. CASE ~TableFull(fd[t])
    <3>1. PICK k \in Fds : fd[t][k] = Null /\ Added(fd[t], f) = [fd[t] EXCEPT ![k] = f]
      BY <1>3, <2>4, AddedIs
    <3>2. fd' = [fd EXCEPT ![t][k] = f]
      BY <1>1, <2>1, <3>1 DEF FilesTypeOK
    <3> QED BY <2>2, <2>4, <3>1, <3>2
  <2> QED BY <2>3, <2>4
<1>6. FilesTypeOK'
  BY <1>1, <1>2, <1>5 DEF FilesTypeOK
<1>7. FewForked' /\ NoneEmpty'
  <2>1. FewForked'
    BY <1>1, <1>2 DEF FewForked
  <2> QED BY <1>1, <1>2, <1>4, <2>1 DEF NoneEmpty
<1>8. \A u \in Thread, i \in Fds : Pending(u, i)' <=> Pending(u, i)
  BY <1>2 DEF Pending
<1>9. \A u \in Thread : CallOK(u)'
  <2> TAKE u \in Thread
  <2>1. CASE u = t
    BY <1>2, <2>1 DEF CallOK
  <2>2. CASE u # t
    <3>1. call[u].at \in {"counted", "dropping"} => FileAt(u) # f
      BY <1>1, <1>2 DEF Core, SlotOK, CallOK, FilesTypeOK, FileAt, Calls
    <3> QED BY <1>1, <1>2, <1>4, <2>2, <3>1, OthersOK DEF Core, FilesTypeOK
  <2> QED BY <2>1, <2>2
<1>10. \A u \in Thread, i \in Fds : SlotOK(u, i)'
  BY <1>1, <1>2, <1>5 DEF Core, SlotOK, FilesTypeOK
<1>11. Counted'
  <2>1. \A g \in File \ inUse' : ref'[g] = 0
    BY <1>1, <1>2 DEF Core, Counted, FilesTypeOK
  <2>2. ASSUME NEW g \in inUse' \ lost', g # f
        PROVE  Cardinality(Owned(g)') + strays'[g] = ref'[g] + 1
    <3>1. \A u \in Thread, i \in Fds : fd'[u][i] = g <=> fd[u][i] = g
      <4>1. g # Null
        BY <1>1, <1>2, <2>2, FilesAssumption DEF FilesTypeOK
      <4> QED BY <1>1, <1>2, <1>5, <2>2, <4>1 DEF FilesTypeOK
    <3>2. Owned(g)' = Owned(g)
      BY <1>8, <3>1, OwnedSame DEF Owns
    <3> QED BY <1>1, <1>2, <1>5, <2>2, <3>2 DEF Core, Counted, FilesTypeOK
  <2>3. ASSUME f \notin lost'
        PROVE  Cardinality(Owned(f)') + strays'[f] = ref'[f] + 1
    <3>1. PICK k \in Fds : fd[t][k] = Null /\ fd' = [fd EXCEPT ![t][k] = f]
      <4>1. lost' # lost \cup {f}
        BY <2>3
      <4> QED BY <1>5, <4>1
    <3>2. \A u \in Thread, i \in Fds : ~Owns(u, i, f)
      BY <1>1, <1>2 DEF Core, SlotOK, Pending, Owns
    <3>3. Owned(f)' = Owned(f) \cup {<<t, k>>}
      <4>1. ~Pending(t, k)
        BY <1>2 DEF Pending
      <4>2. \A u \in Thread, i \in Fds : fd'[u][i] = f <=> fd[u][i] = f \/ (u = t /\ i = k)
        BY <1>1, <3>1 DEF FilesTypeOK
      <4> QED BY <1>8, <3>2, <4>1, <4>2, OwnedAdds DEF Owns
    <3>4. Cardinality(Owned(f)') = 1
      BY <3>2, <3>3, OwnedNone, FS_Singleton
    <3> QED BY <1>1, <1>2, <3>4 DEF FilesTypeOK
  <2> QED BY <2>1, <2>2, <2>3 DEF Counted
<1> QED BY <1>6, <1>7, <1>9, <1>10, <1>11 DEF IInv, Core

LEMMA ExitStep ==
  ASSUME IInv, ~raced, NEW t \in Thread, Exit(t)
  PROVE  IInv'
<1>1. FilesTypeOK /\ Core /\ call[t].at = "user"
  BY DEF IInv, Exit
<1> DEFINE c == [call[t] EXCEPT !.at = "exited"]
<1>2. c \in Calls /\ c.at = "exited" /\ call' = [call EXCEPT ![t] = c]
  BY <1>1 DEF FilesTypeOK, Calls, Exit
<1>3. UNCHANGED <<fd, inUse, ref, lost, strays, raced>>
  BY DEF Exit
<1> HIDE DEF c
<1>4. call'[t] = c /\ \A u \in Thread \ {t} : call'[u] = call[u]
  BY <1>1, <1>2 DEF FilesTypeOK
<1>5. \A u \in Thread, i \in Fds : Pending(u, i)' <=> Pending(u, i)
  BY <1>1, <1>2, <1>4 DEF Pending
<1>6. CallOK(t)'
  BY <1>2, <1>4 DEF CallOK
<1>7. \A u \in Thread, i \in Fds : SlotOK(u, i)'
  BY <1>1, <1>2, <1>3, <1>4 DEF Core, SlotOK
<1>8. Counted'
  <2>1. \A f : Owned(f)' = Owned(f)
    BY <1>3, <1>5, OwnedSame DEF Owns
  <2> QED BY <1>1, <1>3, <2>1 DEF Core, Counted
<1> QED BY <1>1, <1>2, <1>3, <1>6, <1>7, <1>8, OneMoves DEF FilesTypeOK

LEMMA CloseStep ==
  ASSUME IInv, ~raced, NEW t \in Thread, NEW k \in Fds, Close(t, k)
  PROVE  IInv'
<1>1. FilesTypeOK /\ Core /\ call[t].at = "user" /\ fd[t][k] # Null
  BY DEF IInv, Close
<1> DEFINE c == [InUser EXCEPT !.at = "closing", !.fd = k]
<1>2. /\ c \in Calls /\ c.at = "closing" /\ c.fd = k /\ c.to = -1
      /\ call' = [call EXCEPT ![t] = c]
  BY DEF InUser, Calls, Close, Fds
<1>3. UNCHANGED <<fd, inUse, ref, lost, strays, raced>>
  BY DEF Close
<1> HIDE DEF c
<1>4. call'[t] = c /\ \A u \in Thread \ {t} : call'[u] = call[u]
  BY <1>1, <1>2 DEF FilesTypeOK
<1>5. \A u \in Thread, i \in Fds : Pending(u, i)' <=> Pending(u, i)
  BY <1>1, <1>2, <1>4 DEF Pending
<1>6. CallOK(t)'
  BY <1>1, <1>2, <1>3, <1>4 DEF CallOK, FileAt
<1>7. \A u \in Thread, i \in Fds : SlotOK(u, i)'
  BY <1>1, <1>2, <1>3, <1>4 DEF Core, SlotOK
<1>8. Counted'
  <2>1. \A f : Owned(f)' = Owned(f)
    BY <1>3, <1>5, OwnedSame DEF Owns
  <2> QED BY <1>1, <1>3, <2>1 DEF Core, Counted
<1> QED BY <1>1, <1>2, <1>3, <1>6, <1>7, <1>8, OneMoves DEF FilesTypeOK

LEMMA CountLoadStep ==
  ASSUME IInv, ~raced, NEW t \in Thread, CountLoad(t)
  PROVE  IInv'
<1>1. FilesTypeOK /\ Core /\ call[t].at = "counting" /\ call[t] \in Calls
  BY DEF IInv, CountLoad, FilesTypeOK
<1> DEFINE c == [call[t] EXCEPT !.at = "counted", !.val = ref[FileAt(t)]]
<1>2. CallOK(t) /\ FileAt(t) \in File
  <2>1. CallOK(t)
    BY <1>1 DEF Core
  <2> QED BY <1>1, <2>1, CallTypes DEF CallOK
<1>3. /\ c \in Calls /\ c.at = "counted" /\ c.val = ref[FileAt(t)]
      /\ c.fd = call[t].fd /\ c.to = call[t].to /\ c.from = call[t].from
  <2>1. ref[FileAt(t)] \in Nat
    BY <1>1, <1>2 DEF FilesTypeOK
  <2> QED BY <1>1, <2>1 DEF Calls
<1>4. /\ call' = [call EXCEPT ![t] = c]
      /\ UNCHANGED <<fd, inUse, ref, lost, strays, raced>>
  BY <1>1 DEF CountLoad, FilesTypeOK
<1> HIDE DEF c
<1>5. call'[t] = c /\ \A u \in Thread \ {t} : call'[u] = call[u]
  BY <1>1, <1>4 DEF FilesTypeOK
<1>6. \A u \in Thread, i \in Fds : Pending(u, i)' <=> Pending(u, i)
  BY <1>1, <1>3, <1>5 DEF Pending
<1>7. CallOK(t)'
  BY <1>1, <1>2, <1>3, <1>4, <1>5 DEF CallOK, FileAt
<1>8. \A u \in Thread, i \in Fds : SlotOK(u, i)'
  BY <1>1, <1>4, <1>5 DEF Core, SlotOK
<1>9. Counted'
  <2>1. \A f : Owned(f)' = Owned(f)
    BY <1>4, <1>6, OwnedSame DEF Owns
  <2> QED BY <1>1, <1>4, <2>1 DEF Core, Counted
<1> QED BY <1>1, <1>3, <1>4, <1>7, <1>8, <1>9, OneMoves DEF FilesTypeOK

LEMMA DupStep ==
  ASSUME IInv, ~raced, NEW t \in Thread, NEW i \in Fds, NEW n \in Fds \cup {-1, Outside},
         Dup(t, i, n)
  PROVE  IInv'
<1>1. FilesTypeOK /\ Core /\ call[t].at = "user" /\ fd[t][i] # Null
  BY DEF IInv, Dup
<1>2. PICK k \in Fds :
        /\ FirstFree(fd[t], k)
        /\ fd' = [fd EXCEPT ![t][k] = fd[t][i]]
        /\ call' = [call EXCEPT ![t] = [at |-> "counting", fd |-> k, to |-> n,
                                        from |-> IF n = -1 THEN -1 ELSE k, val |-> 0]]
  BY DEF Dup
<1> DEFINE c == [at |-> "counting", fd |-> k, to |-> n,
                 from |-> IF n = -1 THEN -1 ELSE k, val |-> 0]
<1>3. /\ c \in Calls /\ c.at = "counting" /\ c.fd = k
      /\ c.to = n /\ (n # -1 => c.from = k)
  BY DEF Calls
<1>4. /\ call' = [call EXCEPT ![t] = c]
      /\ UNCHANGED <<inUse, ref, lost, strays, raced>>
  BY <1>2 DEF Dup
<1> HIDE DEF c
<1>5. call'[t] = c /\ \A u \in Thread \ {t} : call'[u] = call[u]
  BY <1>1, <1>4 DEF FilesTypeOK
<1>6. fd[t][k] = Null /\ k # i
  BY <1>1, <1>2 DEF FirstFree
<1>7. /\ fd' \in [Thread -> [Fds -> File \cup {Null}]]
      /\ \A u \in Thread \ {t} : fd'[u] = fd[u]
      /\ fd'[t][k] = fd[t][i]
      /\ \A j \in Fds \ {k} : fd'[t][j] = fd[t][j]
  BY <1>1, <1>2 DEF FilesTypeOK
<1>8. CallOK(t)'
  BY <1>1, <1>3, <1>5, <1>6, <1>7 DEF CallOK, FileAt
<1>9. \A u \in Thread, j \in Fds : SlotOK(u, j)'
  BY <1>1, <1>3, <1>4, <1>5, <1>7 DEF Core, SlotOK
<1>10. Counted'
  <2>1. ASSUME NEW f \in File
        PROVE  Owned(f)' = Owned(f)
    BY <1>1, <1>3, <1>5, <1>6, <1>7, FilesAssumption, OwnedSame DEF Owns, Pending
  <2> QED BY <1>1, <1>4, <2>1 DEF Core, Counted, FilesTypeOK
<1> QED BY <1>1, <1>3, <1>4, <1>7, <1>8, <1>9, <1>10, OneMoves DEF FilesTypeOK

LEMMA CloseTestStep ==
  ASSUME IInv, ~raced, NEW t \in Thread, CloseTest(t)
  PROVE  IInv'
<1> DEFINE f == FileAt(t)
           k == call[t].fd
<1>1. /\ FilesTypeOK /\ Core /\ FewForked /\ NoneEmpty /\ call[t].at = "closing"
      /\ UNCHANGED <<fd, ref, lost, strays, raced>>
  BY DEF IInv, CloseTest
<1>2. call[t] \in Calls /\ k \in Fds /\ CallOK(t) /\ SlotOK(t, k)
  BY <1>1, CallTypes DEF Core
<1>3. f \in inUse \ lost /\ f \in File /\ fd[t][k] = f
  BY <1>1, <1>2 DEF CallOK, SlotOK, FileAt, FilesTypeOK
<1>4. Owns(t, k, f) /\ ~Pending(t, k)
  BY <1>1, <1>3 DEF Owns, Pending
<1>5. CASE ref[f] = 0 /\ inUse' = inUse \ {f} /\ call' = [call EXCEPT ![t].at = "clearing"]
  <2> DEFINE c == [call[t] EXCEPT !.at = "clearing"]
  <2>1. /\ c \in Calls /\ c.at = "clearing" /\ c.fd = k /\ c.to = call[t].to
        /\ c.from = call[t].from /\ call' = [call EXCEPT ![t] = c]
    BY <1>1, <1>2, <1>5 DEF Calls, FilesTypeOK
  <2> HIDE DEF c
  <2>2. call'[t] = c /\ \A u \in Thread \ {t} : call'[u] = call[u]
    BY <1>1, <2>1 DEF FilesTypeOK
  <2>3. \A u \in Thread, i \in Fds : Owns(u, i, f) => u = t /\ i = k
    <3>1. Cardinality(Owned(f)) = 1 /\ IsFiniteSet(Owned(f))
      <4>1. Cardinality(Owned(f)) + strays[f] = 1 /\ IsFiniteSet(Owned(f))
        BY <1>1, <1>3, <1>5, FiniteSlots DEF Core, Counted
      <4>2. <<t, k>> \in Owned(f)
        BY <1>2, <1>4 DEF Owned, Owns, AllSlots
      <4>3. Cardinality(Owned(f)) \in Nat /\ Cardinality(Owned(f)) # 0 /\ strays[f] \in Nat
        BY <1>1, <1>3, <4>1, <4>2, FS_CardinalityType, FS_EmptySet DEF FilesTypeOK
      <4> HIDE DEF f, k
      <4> QED BY <4>1, <4>3
    <3>2. PICK x : Owned(f) = {x}
      BY <3>1, FS_Singleton
    <3>3. \A u \in Thread, i \in Fds : Owns(u, i, f) => <<u, i>> \in Owned(f)
      BY DEF Owns, Owned, AllSlots
    <3> HIDE DEF f, k
    <3> QED BY <1>2, <1>4, <3>2, <3>3
  <2>4. \A u \in Thread, i \in Fds : SlotOK(u, i)'
    <3> SUFFICES ASSUME NEW u \in Thread, NEW i \in Fds PROVE SlotOK(u, i)'
      OBVIOUS
    <3>1. CASE u = t /\ i = k
      BY <2>1, <2>2, <3>1 DEF SlotOK
    <3>2. CASE fd[u][i] = f /\ ~(u = t /\ i = k)
      <4>1. Pending(u, i)
        BY <2>3, <3>2 DEF Owns
      <4>2. u # t
        BY <1>1, <4>1 DEF Pending
      <4>3. call[u].at = "clearing"
        <5> SUFFICES ASSUME call[u].at \in {"counting", "counted"} PROVE FALSE
          BY <4>1 DEF Pending
        <5>1. PICK j \in Fds \ {i} : fd[u][j] = f
          BY <1>1, <3>2, <4>1 DEF Core, CallOK, Pending, FileAt
        <5>2. Owns(u, j, f)
          BY <4>1, <5>1 DEF Owns, Pending
        <5> QED BY <2>3, <4>2, <5>2
      <4> QED BY <2>2, <4>1, <4>2, <4>3 DEF SlotOK, Pending
    <3>3. CASE fd[u][i] # f
      <4>1. SlotOK(u, i)
        BY <1>1 DEF Core
      <4>2. call[u].at = "clearing" => call'[u] = call[u]
        BY <1>1, <2>2
      <4> QED BY <1>1, <1>5, <3>3, <4>1, <4>2 DEF SlotOK
    <3> QED BY <3>1, <3>2, <3>3
  <2>5. Counted'
    <3>1. ASSUME NEW g, g # f
          PROVE  Owned(g)' = Owned(g)
      BY <1>1, <1>3, <2>1, <2>2, <3>1, OwnedSame DEF Owns, Pending
    <3> QED BY <1>1, <1>5, <3>1 DEF Core, Counted
  <2>6. CallOK(t)'
    BY <1>1, <1>2, <2>1, <2>2 DEF CallOK
  <2>7. lost' \subseteq inUse' /\ inUse' \subseteq File
    BY <1>1, <1>3, <1>5 DEF FilesTypeOK
  <2> QED BY <1>1, <2>1, <2>4, <2>5, <2>6, <2>7, OneMoves DEF FilesTypeOK
<1>6. CASE /\ ref[f] # 0 /\ inUse' = inUse
           /\ call' = [call EXCEPT ![t].at = "dropping", ![t].val = ref[f]]
  <2> DEFINE c == [call[t] EXCEPT !.at = "dropping", !.val = ref[f]]
  <2>1. ref[f] \in Nat
    BY <1>1, <1>3 DEF FilesTypeOK
  <2>2. /\ c \in Calls /\ c.at = "dropping" /\ c.fd = k /\ c.to = call[t].to
        /\ c.from = call[t].from /\ c.val = ref[f]
    BY <1>2, <2>1 DEF Calls
  <2>3. call' = [call EXCEPT ![t] = c]
    BY <1>1, <1>6 DEF FilesTypeOK
  <2> HIDE DEF c
  <2>4. call'[t] = c /\ \A u \in Thread \ {t} : call'[u] = call[u]
    BY <1>1, <2>3 DEF FilesTypeOK
  <2>5. \A u \in Thread, i \in Fds : Pending(u, i)' <=> Pending(u, i)
    BY <1>1, <2>2, <2>4 DEF Pending
  <2>6. CallOK(t)'
    BY <1>1, <1>2, <1>3, <1>6, <2>2, <2>4 DEF CallOK, FileAt
  <2>7. \A u \in Thread, i \in Fds : SlotOK(u, i)'
    <3>1. \A u \in Thread : call[u].at = "clearing" => call'[u] = call[u]
      BY <1>1, <2>4
    <3>2. \A u \in Thread, i \in Fds : SlotOK(u, i)
      BY <1>1 DEF Core
    <3>3. UNCHANGED <<fd, inUse, lost>>
      BY <1>1, <1>6
    <3> QED BY <3>1, <3>2, <3>3 DEF SlotOK
  <2>8. Counted'
    <3>1. \A g : Owned(g)' = Owned(g)
      BY <1>1, <2>5, OwnedSame DEF Owns
    <3> QED BY <1>1, <1>6, <3>1 DEF Core, Counted
  <2> QED BY <1>1, <1>6, <2>2, <2>3, <2>6, <2>7, <2>8, OneMoves DEF FilesTypeOK
<1> QED BY <1>5, <1>6 DEF CloseTest

LEMMA DropStoreStep ==
  ASSUME IInv, ~raced, NEW t \in Thread, DropStore(t)
  PROVE  IInv'
<1> DEFINE c == [call[t] EXCEPT !.at = "clearing"]
<1>a. PICK k \in Fds : k = call[t].fd
  BY CallTypes DEF IInv
<1>b. PICK f : f = FileAt(t)
  OBVIOUS
<1>1. /\ FilesTypeOK /\ Core /\ FewForked /\ NoneEmpty /\ call[t].at = "dropping"
      /\ UNCHANGED <<fd, inUse, lost, strays>>
      /\ ref' = [ref EXCEPT ![f] = call[t].val - 1]
      /\ raced' = (raced \/ Races(t, f))
  BY <1>b DEF IInv, DropStore
<1>2. call[t] \in Calls /\ CallOK(t) /\ SlotOK(t, k)
  BY <1>1, CallTypes DEF Core
<1>3. f \in inUse \ lost /\ f \in File /\ fd[t][k] = f
  BY <1>1, <1>2, <1>a, <1>b DEF CallOK, SlotOK, FileAt, FilesTypeOK
<1>4. ref[f] \in Nat \ {0} /\ call[t].val = ref[f]
  BY <1>1, <1>2, <1>3, <1>b DEF CallOK, FilesTypeOK
<1>5. ref'[f] = ref[f] - 1 /\ \A g \in File \ {f} : ref'[g] = ref[g]
  BY <1>1, <1>3, <1>4 DEF FilesTypeOK
<1>6. ref' \in [File -> Nat] /\ raced' \in BOOLEAN
  <2>1. ref[f] - 1 \in Nat
    BY <1>4
  <2>2. ref' \in [File -> Nat]
    BY <1>1, <1>4, <2>1 DEF FilesTypeOK
  <2>3. raced' \in BOOLEAN
    BY <1>1 DEF FilesTypeOK
  <2> QED BY <2>2, <2>3
<1>7. /\ c \in Calls /\ c.at = "clearing" /\ c.fd = k /\ c.to = call[t].to
      /\ c.from = call[t].from /\ call' = [call EXCEPT ![t] = c]
  BY <1>1, <1>2, <1>a DEF Calls, FilesTypeOK, DropStore
<1> HIDE DEF c
<1>8. call'[t] = c /\ \A u \in Thread \ {t} : call'[u] = call[u]
  BY <1>1, <1>7 DEF FilesTypeOK
<1>9. CallOK(t)'
  BY <1>1, <1>2, <1>7, <1>8, <1>a DEF CallOK
<1>10. \A u \in Thread, i \in Fds : SlotOK(u, i)'
  BY <1>1, <1>7, <1>8 DEF Core, SlotOK
<1>11. Counted'
  <2>1. ASSUME NEW g, g # f
        PROVE  Owned(g)' = Owned(g)
    BY <1>1, <1>3, <1>7, <1>8, <1>a, <2>1, OwnedSame DEF Owns, Pending
  <2>2. Cardinality(Owned(f)') + strays'[f] = ref'[f] + 1
    <3>1. Owned(f)' = Owned(f) \ {<<t, k>>}
      BY <1>1, <1>2, <1>3, <1>7, <1>8, <1>a, OwnedDrops DEF Owns, Pending
    <3>2. <<t, k>> \in Owned(f)
      BY <1>1, <1>2, <1>3 DEF Owned, AllSlots, Pending
    <3>3. IsFiniteSet(Owned(f)) /\ Cardinality(Owned(f)) + strays[f] = ref[f] + 1
      BY <1>1, <1>3, FiniteSlots DEF Core, Counted
    <3>4. Cardinality(Owned(f)') = Cardinality(Owned(f)) - 1
      BY <3>1, <3>2, <3>3, FS_RemoveElement
    <3>5. Cardinality(Owned(f)) \in Nat /\ strays[f] \in Nat /\ strays'[f] = strays[f]
      BY <1>1, <1>3, <3>3, FS_CardinalityType DEF FilesTypeOK
    <3> QED BY <1>4, <1>5, <3>3, <3>4, <3>5
  <2> QED BY <1>1, <1>3, <1>5, <2>1, <2>2 DEF Core, Counted, FilesTypeOK
<1>12. ASSUME ~raced', NEW u \in Thread \ {t}, call[u].at \in {"counted", "dropping"}
       PROVE  ref'[FileAt(u)] = ref[FileAt(u)]
  <2>1. FileAt(u) # f
    BY <1>1, <1>12 DEF Races
  <2> QED BY <1>1, <2>1 DEF FilesTypeOK
<1> QED BY <1>1, <1>6, <1>7, <1>9, <1>10, <1>11, <1>12, OneMoves DEF FilesTypeOK

LEMMA ClearStep ==
  ASSUME IInv, ~raced, NEW t \in Thread, Clear(t)
  PROVE  IInv'
<1>1. /\ FilesTypeOK /\ Core /\ FewForked /\ NoneEmpty /\ call[t].at = "clearing"
      /\ UNCHANGED <<inUse, ref, lost, strays, raced>>
      /\ call' = [call EXCEPT ![t] = InUser]
  BY DEF IInv, Clear
<1>2. InUser \in Calls /\ InUser.at = "user"
  BY FilesAssumption DEF InUser, Calls, Fds
<1>3. call'[t] = InUser /\ \A u \in Thread \ {t} : call'[u] = call[u]
  BY <1>1 DEF FilesTypeOK
<1>4. CallOK(t)'
  BY <1>2, <1>3 DEF CallOK
<1>5. PICK k \in Fds : k = call[t].fd
  BY <1>1, CallTypes
<1>6. CASE call[t].to = -1 \/ call[t].from = k
  <2>1. fd' = [fd EXCEPT ![t][k] = Null]
    <3>1. CASE call[t].to = -1
      BY <1>1, <1>5, <3>1 DEF Clear, FilesTypeOK
    <3>2. CASE call[t].to # -1 /\ call[t].from = k
      <4>1. call[t].to = k
        BY <1>1, <1>5, <3>2 DEF Core, CallOK
      <4>2. Moved([fd[t] EXCEPT ![k] = Null], k, k) = [fd[t] EXCEPT ![k] = Null]
        BY <1>1 DEF Moved, FilesTypeOK
      <4> QED BY <1>1, <1>5, <3>2, <4>1, <4>2 DEF Clear, FilesTypeOK
    <3> QED BY <1>6, <3>1, <3>2
  <2>2. /\ fd' \in [Thread -> [Fds -> File \cup {Null}]]
        /\ \A u \in Thread \ {t} : fd'[u] = fd[u]
        /\ fd'[t][k] = Null /\ \A j \in Fds \ {k} : fd'[t][j] = fd[t][j]
    BY <1>1, <2>1 DEF FilesTypeOK
  <2>3. \A u \in Thread, i \in Fds : SlotOK(u, i)'
    BY <1>1, <1>3, <1>5, <2>2 DEF Core, SlotOK
  <2>4. Counted'
    <3>1. ASSUME NEW f \in File
          PROVE  Owned(f)' = Owned(f)
      BY <1>1, <1>2, <1>3, <1>5, <2>2, FilesAssumption, OwnedSame DEF Owns, Pending
    <3> QED BY <1>1, <3>1 DEF Core, Counted, FilesTypeOK
  <2> QED BY <1>1, <1>2, <1>4, <2>2, <2>3, <2>4, OneMoves DEF FilesTypeOK
<1>7. CASE call[t].to # -1 /\ call[t].from # k
  <2>1. PICK m \in Fds : m = call[t].from
    BY <1>1, <1>7 DEF Core, CallOK
  <2>2. call[t].to = k /\ m # k
    BY <1>1, <1>5, <1>7, <2>1 DEF Core, CallOK
  <2>3. fd' = [fd EXCEPT ![t] = Moved([fd[t] EXCEPT ![k] = Null], m, k)]
    BY <1>5, <1>7, <2>1, <2>2 DEF Clear
  <2>4. /\ fd' \in [Thread -> [Fds -> File \cup {Null}]]
        /\ \A u \in Thread \ {t} : fd'[u] = fd[u]
        /\ fd'[t][k] = fd[t][m] /\ fd'[t][m] = Null
        /\ \A j \in Fds \ {k, m} : fd'[t][j] = fd[t][j]
    <3> DEFINE fds == Moved([fd[t] EXCEPT ![k] = Null], m, k)
    <3>1. /\ fds \in [Fds -> File \cup {Null}]
          /\ fds[k] = fd[t][m] /\ fds[m] = Null
          /\ \A j \in Fds \ {k, m} : fds[j] = fd[t][j]
      BY <1>1, <2>2 DEF Moved, FilesTypeOK
    <3> HIDE DEF fds
    <3>2. fd' = [fd EXCEPT ![t] = fds]
      BY <2>3 DEF fds
    <3> QED BY <1>1, <3>1, <3>2 DEF FilesTypeOK
  <2>5. \A u \in Thread, i \in Fds : SlotOK(u, i)'
    <3>1. SlotOK(t, m)
      BY <1>1 DEF Core
    <3> QED BY <1>1, <1>3, <1>5, <2>2, <2>4, <3>1 DEF Core, SlotOK
  <2>6. Counted'
    <3>1. ASSUME NEW f \in File
          PROVE  Cardinality(Owned(f)') = Cardinality(Owned(f))
      <4>1. CASE fd[t][m] # f
        <5>1. Owned(f)' = Owned(f)
          BY <1>1, <1>2, <1>3, <1>5, <2>2, <2>4, <4>1, FilesAssumption, OwnedSame
             DEF Owns, Pending
        <5> QED BY <5>1
      <4>2. CASE fd[t][m] = f
        <5>1. \A u \in Thread, i \in Fds : <<u, i>> \in Owned(f) <=> Owns(u, i, f)
          BY DEF Owned, Owns, AllSlots
        <5>2. <<t, m>> \in Owned(f) /\ <<t, k>> \notin Owned(f)
          BY <1>1, <1>5, <2>2, <4>2, <5>1 DEF Owns, Pending
        <5>3. \A u \in Thread, i \in Fds :
                Owns(u, i, f)' <=> (Owns(u, i, f) /\ ~(u = t /\ i = m)) \/ (u = t /\ i = k)
          BY <1>1, <1>2, <1>3, <1>5, <2>2, <2>4, <4>2, FilesAssumption DEF Owns, Pending
        <5>4. Owned(f)' = (Owned(f) \ {<<t, m>>}) \cup {<<t, k>>}
          BY <5>3 DEF Owned, Owns, AllSlots
        <5>5. IsFiniteSet(Owned(f)) /\ Cardinality(Owned(f)) \in Nat
          BY <1>1, FiniteSlots, FS_CardinalityType
        <5>6. /\ IsFiniteSet(Owned(f) \ {<<t, m>>})
              /\ Cardinality(Owned(f) \ {<<t, m>>}) = Cardinality(Owned(f)) - 1
          BY <5>2, <5>5, FS_RemoveElement
        <5>7. Cardinality(Owned(f)') = Cardinality(Owned(f) \ {<<t, m>>}) + 1
          BY <5>2, <5>4, <5>6, FS_AddElement
        <5> QED BY <5>5, <5>6, <5>7
      <4> QED BY <4>1, <4>2
    <3> QED BY <1>1, <3>1 DEF Core, Counted, FilesTypeOK
  <2> QED BY <1>1, <1>2, <1>4, <2>4, <2>5, <2>6, OneMoves DEF FilesTypeOK
<1> QED BY <1>6, <1>7

(* A count is raised together with one slot that it accounts for. *)
LEMMA CountedRises ==
  ASSUME IInv, ~raced, NEW f \in inUse \ lost, NEW t \in Thread, NEW k \in Fds,
         UNCHANGED <<inUse, lost, strays>>,
         ref' = [ref EXCEPT ![f] = ref[f] + 1],
         \A g \in File \ {f} : Owned(g)' = Owned(g),
         Owned(f)' = Owned(f) \cup {<<t, k>>},
         <<t, k>> \notin Owned(f)
  PROVE  Counted'
<1>1. FilesTypeOK /\ Counted /\ f \in File /\ FewForked /\ NoneEmpty
  BY DEF IInv, Core, FilesTypeOK
<1>2. ref[f] \in Nat /\ ref'[f] = ref[f] + 1 /\ \A g \in File \ {f} : ref'[g] = ref[g]
  BY <1>1 DEF FilesTypeOK
<1>3. IsFiniteSet(Owned(f)) /\ Cardinality(Owned(f)) + strays[f] = ref[f] + 1
  BY <1>1, FiniteSlots DEF Counted
<1>4. Cardinality(Owned(f)') = Cardinality(Owned(f)) + 1
  BY <1>3, FS_AddElement
<1>5. Cardinality(Owned(f)') + strays'[f] = ref'[f] + 1
  <2>1. Cardinality(Owned(f)) \in Nat /\ strays[f] \in Nat
    BY <1>1, <1>3, FS_CardinalityType DEF FilesTypeOK
  <2> QED BY <1>2, <1>3, <1>4, <2>1
<1>6. ASSUME NEW g \in inUse \ lost, g # f
      PROVE  Cardinality(Owned(g)') + strays'[g] = ref'[g] + 1
  <2>1. g \in File \ {f}
    BY <1>1, <1>6 DEF FilesTypeOK
  <2>2. Owned(g)' = Owned(g) /\ strays' = strays /\ ref'[g] = ref[g]
    BY <1>2, <2>1
  <2>3. Cardinality(Owned(g)) + strays[g] = ref[g] + 1
    BY <1>1, <1>6 DEF Counted
  <2> QED BY <2>2, <2>3
<1>7. inUse' = inUse /\ lost' = lost
  OBVIOUS
<1>8. \A g \in File \ inUse : ref'[g] = 0
  BY <1>1, <1>2 DEF Counted, FilesTypeOK
<1> HIDE DEF Counted
<1>9. \A g \in inUse' \ lost' : Cardinality(Owned(g)') + strays'[g] = ref'[g] + 1
  BY <1>5, <1>6, <1>7, Zenon
<1> QED BY <1>7, <1>8, <1>9 DEF Counted

LEMMA CountStoreStep ==
  ASSUME IInv, ~raced, NEW t \in Thread, CountStore(t)
  PROVE  IInv'
<1>1. PICK k \in Fds : k = call[t].fd
  BY CallTypes DEF IInv
<1>2. PICK f : f = FileAt(t)
  OBVIOUS
<1>3. /\ FilesTypeOK /\ Core /\ call[t].at = "counted"
      /\ UNCHANGED <<inUse, lost>>
      /\ ref' = [ref EXCEPT ![f] = call[t].val + 1]
      /\ raced' = (raced \/ Races(t, f))
  BY <1>2 DEF IInv, CountStore
<1>4. /\ call[t] \in Calls /\ call[t].to \in Fds \cup {-1, Outside}
      /\ CallOK(t) /\ \A i \in Fds : SlotOK(t, i)
  BY <1>3, CallTypes DEF Core
<1>5. f \in inUse \ lost /\ f \in File /\ f # Null /\ fd[t][k] = f
  BY <1>1, <1>2, <1>3, <1>4 DEF CallOK, SlotOK, FileAt, FilesTypeOK
<1>6. ref[f] \in Nat /\ ref' = [ref EXCEPT ![f] = ref[f] + 1]
  BY <1>2, <1>3, <1>4, <1>5 DEF CallOK, FilesTypeOK
<1>7. ref' \in [File -> Nat] /\ raced' \in BOOLEAN
  <2>1. ref[f] + 1 \in Nat
    BY <1>6
  <2> QED BY <1>3, <1>6, <2>1 DEF FilesTypeOK
<1>8. ASSUME ~raced', NEW u \in Thread \ {t}, call[u].at \in {"counted", "dropping"}
      PROVE  ref'[FileAt(u)] = ref[FileAt(u)]
  <2>1. FileAt(u) # f
    BY <1>3, <1>8 DEF Races
  <2> QED BY <1>6, <2>1, <1>3 DEF FilesTypeOK
<1>9. InUser \in Calls /\ InUser.at = "user"
  BY FilesAssumption DEF InUser, Calls, Fds
<1>10. CASE UNCHANGED <<fd, strays>> /\ call' = [call EXCEPT ![t] = InUser]
  <2>1. call'[t] = InUser /\ \A u \in Thread \ {t} : call'[u] = call[u]
    BY <1>3, <1>10 DEF FilesTypeOK
  <2>2. CallOK(t)'
    BY <1>9, <2>1 DEF CallOK
  <2>3. \A u \in Thread, i \in Fds : SlotOK(u, i)'
    BY <1>3, <1>10, <2>1 DEF Core, SlotOK
  <2>4. Counted'
    <3>1. ASSUME NEW g, g # f PROVE Owned(g)' = Owned(g)
      <4>1. \A u \in Thread, i \in Fds : Owns(u, i, g)' <=> Owns(u, i, g)
        BY <1>1, <1>3, <1>5, <1>9, <1>10, <2>1, <3>1 DEF Owns, Pending
      <4> QED BY <4>1, OwnedSame
    <3>2. Owned(f)' = Owned(f) \cup {<<t, k>>}
      <4>1. \A u \in Thread, i \in Fds : Owns(u, i, f)' <=> Owns(u, i, f) \/ (u = t /\ i = k)
        BY <1>1, <1>3, <1>5, <1>9, <1>10, <2>1 DEF Owns, Pending
      <4> QED BY <4>1, OwnedAdds
    <3>3. <<t, k>> \notin Owned(f)
      BY <1>1, <1>3 DEF Owned, Pending
    <3> QED BY <1>3, <1>5, <1>6, <1>10, <3>1, <3>2, <3>3, CountedRises
  <2> QED BY <1>3, <1>7, <1>8, <1>9, <1>10, <2>2, <2>3, <2>4, OneMoves DEF FilesTypeOK
<1>11. CASE /\ call[t].to \in Fds /\ fd[t][call[t].to] # Null /\ UNCHANGED <<fd, strays>>
            /\ call' = [call EXCEPT ![t].at = "closing", ![t].fd = call[t].to, ![t].val = 0]
  <2> DEFINE c == [call[t] EXCEPT !.at = "closing", !.fd = call[t].to, !.val = 0]
  <2>1. /\ c \in Calls /\ c.at = "closing" /\ c.fd = call[t].to /\ c.to = call[t].to
        /\ c.from = call[t].from
    BY <1>4, <1>11 DEF Calls
  <2>0. call[t].to # -1
    BY <1>11 DEF Fds
  <2>2. call' = [call EXCEPT ![t] = c]
    BY <1>3, <1>11 DEF FilesTypeOK
  <2> HIDE DEF c
  <2>3. call'[t] = c /\ \A u \in Thread \ {t} : call'[u] = call[u]
    BY <1>3, <2>2 DEF FilesTypeOK
  <2>4. CallOK(t)'
    BY <1>1, <1>3, <1>4, <1>11, <2>0, <2>1, <2>3 DEF CallOK, FileAt
  <2>5. \A u \in Thread, i \in Fds : SlotOK(u, i)'
    <3>1. \A u \in Thread : call[u].at = "clearing" => call'[u] = call[u]
      BY <1>3, <2>3
    <3>2. \A u \in Thread, i \in Fds : SlotOK(u, i)
      BY <1>3 DEF Core
    <3>3. UNCHANGED <<fd, inUse, lost>>
      BY <1>3, <1>11
    <3> QED BY <3>1, <3>2, <3>3 DEF SlotOK
  <2>6. Counted'
    <3>1. Pending(t, k) /\ \A u \in Thread, i \in Fds :
            Pending(u, i)' <=> Pending(u, i) /\ ~(u = t /\ i = k)
      BY <1>1, <1>3, <2>1, <2>3 DEF Pending
    <3>2. UNCHANGED fd
      BY <1>11
    <3>3. ASSUME NEW g, g # f PROVE Owned(g)' = Owned(g)
      BY <1>5, <3>1, <3>2, <3>3, OwnedSame DEF Owns
    <3>4. Owned(f)' = Owned(f) \cup {<<t, k>>}
      BY <1>5, <3>1, <3>2, OwnedAdds DEF Owns
    <3>5. <<t, k>> \notin Owned(f)
      BY <1>1, <1>3 DEF Owned, Pending
    <3> QED BY <1>3, <1>5, <1>6, <1>11, <3>3, <3>4, <3>5, CountedRises
  <2>7. /\ fd' \in [Thread -> [Fds -> File \cup {Null}]]
        /\ \A u \in Thread \ {t} : fd'[u] = fd[u]
        /\ inUse' \subseteq File /\ lost' \subseteq inUse' /\ strays' \in [File -> Nat]
    BY <1>3, <1>11 DEF FilesTypeOK
  <2> QED BY <1>3, <1>7, <1>8, <2>1, <2>2, <2>4, <2>5, <2>6, <2>7, OneMoves
<1>12. CASE /\ call[t].to \in Fds /\ fd[t][call[t].to] = Null /\ UNCHANGED strays
            /\ fd' = [fd EXCEPT ![t] = Moved(fd[t], call[t].from, call[t].to)]
            /\ call' = [call EXCEPT ![t] = InUser]
  <2>1. call'[t] = InUser /\ \A u \in Thread \ {t} : call'[u] = call[u]
    BY <1>3, <1>12 DEF FilesTypeOK
  <2>2. PICK m \in Fds : m = call[t].to
    BY <1>12
  <2>0. call[t].to # -1
    BY <1>12 DEF Fds
  <2>3. call[t].from = k /\ m # k /\ fd[t][m] = Null
    BY <2>0, <1>1, <1>3, <1>4, <1>5, <1>12, <2>2 DEF CallOK
  <2>4. /\ fd' \in [Thread -> [Fds -> File \cup {Null}]]
        /\ \A u \in Thread \ {t} : fd'[u] = fd[u]
        /\ fd'[t][m] = f /\ fd'[t][k] = Null
        /\ \A j \in Fds \ {k, m} : fd'[t][j] = fd[t][j]
    <3> DEFINE fds == Moved(fd[t], k, m)
    <3>1. /\ fds \in [Fds -> File \cup {Null}]
          /\ fds[m] = f /\ fds[k] = Null
          /\ \A j \in Fds \ {k, m} : fds[j] = fd[t][j]
      BY <1>3, <1>5, <2>3 DEF Moved, FilesTypeOK
    <3>2. fd' = [fd EXCEPT ![t] = fds]
      BY <1>12, <2>2, <2>3
    <3> HIDE DEF fds
    <3> QED BY <1>3, <3>1, <3>2 DEF FilesTypeOK
  <2>5. CallOK(t)'
    BY <1>9, <2>1 DEF CallOK
  <2>6. \A u \in Thread, i \in Fds : SlotOK(u, i)'
    BY <1>3, <1>5, <2>1, <2>4 DEF Core, SlotOK
  <2>7. Counted'
    <3> DEFINE hid(u, i) == u = t /\ i = k
    <3>4. \A u \in Thread, i \in Fds : Pending(u, i)' <=> Pending(u, i) /\ ~hid(u, i)
      BY <1>1, <1>3, <1>9, <2>1 DEF Pending
    <3>5. Pending(t, k) /\ ~Pending(t, m)
      BY <1>1, <1>3, <2>3 DEF Pending
    <3>6. fd[t][k] = f /\ f # Null
      BY <1>3, <1>5, FilesAssumption
    <3>1. ASSUME NEW g \in File \ {f} PROVE Owned(g)' = Owned(g)
      <4>1. \A u \in Thread, i \in Fds : Owns(u, i, g)' <=> Owns(u, i, g)
        BY <2>3, <2>4, <3>4, <3>5, <3>6, FilesAssumption DEF Owns
      <4> QED BY <4>1, OwnedSame
    <3>2. Owned(f)' = Owned(f) \cup {<<t, m>>}
      <4>1. \A u \in Thread, i \in Fds : Owns(u, i, f)' <=> Owns(u, i, f) \/ (u = t /\ i = m)
        BY <2>3, <2>4, <3>4, <3>5, <3>6 DEF Owns
      <4> QED BY <4>1, OwnedAdds
    <3>3. <<t, m>> \notin Owned(f)
      BY <1>5, <2>3 DEF Owned
    <3> QED BY <1>3, <1>5, <1>6, <1>12, <3>1, <3>2, <3>3, CountedRises
  <2> QED BY <1>3, <1>7, <1>8, <1>9, <1>12, <2>4, <2>5, <2>6, <2>7, OneMoves DEF FilesTypeOK
<1>13. CASE /\ call[t].to = Outside /\ PutOutside(t, call[t].from)
            /\ call' = [call EXCEPT ![t] = InUser]
  <2>1. call'[t] = InUser /\ \A u \in Thread \ {t} : call'[u] = call[u]
    BY <1>3, <1>13 DEF FilesTypeOK
  <2>2. Outside # -1
    BY FilesAssumption DEF Outside
  <2>3. call[t].from = k
    BY <1>1, <1>3, <1>4, <1>13, <2>2 DEF CallOK
  <2>4. /\ fd' = [fd EXCEPT ![t][k] = Null]
        /\ strays' = [strays EXCEPT ![f] = @ + 1]
    BY <1>5, <1>13, <2>3 DEF PutOutside
  <2>5. /\ fd' \in [Thread -> [Fds -> File \cup {Null}]]
        /\ \A u \in Thread \ {t} : fd'[u] = fd[u]
        /\ fd'[t][k] = Null /\ \A j \in Fds \ {k} : fd'[t][j] = fd[t][j]
    BY <1>3, <2>4 DEF FilesTypeOK
  <2>6. /\ strays[f] \in Nat /\ strays' \in [File -> Nat]
        /\ strays'[f] = strays[f] + 1 /\ \A g \in File \ {f} : strays'[g] = strays[g]
    BY <1>3, <1>5, <2>4 DEF FilesTypeOK
  <2>7. CallOK(t)'
    BY <1>9, <2>1 DEF CallOK
  <2>8. \A u \in Thread, i \in Fds : SlotOK(u, i)'
    BY <1>3, <2>1, <2>5 DEF Core, SlotOK
  <2>9. Counted'
    <3>1. \A u \in Thread, i \in Fds : Pending(u, i)' <=> Pending(u, i) /\ ~(u = t /\ i = k)
      BY <1>1, <1>3, <1>9, <2>1 DEF Pending
    <3>2. Pending(t, k)
      BY <1>1, <1>3 DEF Pending
    <3>3. ASSUME NEW g \in File PROVE Owned(g)' = Owned(g)
      <4>1. \A u \in Thread, i \in Fds : Owns(u, i, g)' <=> Owns(u, i, g)
        BY <2>5, <3>1, <3>2, FilesAssumption DEF Owns
      <4> QED BY <4>1, OwnedSame
    <3>4. Cardinality(Owned(f)) + strays[f] = ref[f] + 1 /\ FewForked /\ NoneEmpty
      BY <1>3, <1>5 DEF IInv, Core, Counted
    <3>5. Cardinality(Owned(f)) \in Nat
      BY <1>5, <3>4, FiniteSlots, FS_CardinalityType
    <3>6. ref'[f] = ref[f] + 1 /\ \A g \in File \ {f} : ref'[g] = ref[g]
      BY <1>3, <1>5, <1>6 DEF FilesTypeOK
    <3>7. Cardinality(Owned(f)) + (strays[f] + 1) = (ref[f] + 1) + 1
      BY <1>6, <2>6, <3>4, <3>5
    <3> QED BY <1>3, <1>5, <2>6, <3>3, <3>6, <3>7 DEF Core, Counted, FilesTypeOK
  <2> QED BY <1>3, <1>7, <1>8, <1>9, <1>13, <2>5, <2>6, <2>7, <2>8, <2>9, OneMoves
          DEF FilesTypeOK
<1> QED BY <1>10, <1>11, <1>12, <1>13 DEF CountStore

LEMMA ForkStep ==
  ASSUME IInv, ~raced, NEW t \in Thread, NEW u \in Thread, Fork(t, u)
  PROVE  IInv'
<1> DEFINE copies(f) == {i \in Fds : fd[t][i] = f}
<1>1. /\ FilesTypeOK /\ Core /\ FewForked /\ NoneEmpty
      /\ call[t].at = "user" /\ call[u].at = "none"
      /\ fd' = [fd EXCEPT ![u] = fd[t]]
      /\ ref' = [f \in File |-> ref[f] + Cardinality(copies(f))]
      /\ raced' = (raced \/ \E i \in Fds : fd[t][i] # Null /\ Races(t, fd[t][i]))
      /\ call' = [call EXCEPT ![u] = InUser]
      /\ UNCHANGED <<inUse, lost, strays>>
  BY DEF IInv, Fork
<1>2. InUser \in Calls /\ InUser.at = "user"
  BY FilesAssumption DEF InUser, Calls, Fds
<1>3. /\ u # t
      /\ call'[u] = InUser /\ \A v \in Thread \ {u} : call'[v] = call[v]
      /\ fd'[u] = fd[t] /\ \A v \in Thread \ {u} : fd'[v] = fd[v]
      /\ \A i \in Fds : fd[u][i] = Null
  BY <1>1 DEF FilesTypeOK, NoneEmpty
<1>4. \A f \in File : /\ IsFiniteSet(copies(f)) /\ Cardinality(copies(f)) \in Nat
                      /\ copies(f) = {} => Cardinality(copies(f)) = 0
  <2> TAKE f \in File
  <2>1. IsFiniteSet(Fds)
    <3>1. 0 \in Int /\ FdMax - 1 \in Int
      BY FilesAssumption
    <3> QED BY <3>1, FS_Interval DEF Fds
  <2>2. copies(f) \in SUBSET Fds
    OBVIOUS
  <2> HIDE DEF copies
  <2> QED BY <2>1, <2>2, FS_Subset, FS_CardinalityType, FS_EmptySet
<1>5. FilesTypeOK'
  <2>1. \A f \in File : ref[f] + Cardinality(copies(f)) \in Nat
    <3> TAKE f \in File
    <3>1. ref[f] \in Nat /\ Cardinality(copies(f)) \in Nat
      BY <1>1, <1>4 DEF FilesTypeOK
    <3> HIDE DEF copies
    <3> QED BY <3>1
  <2> HIDE DEF copies
  <2>2. ref' \in [File -> Nat]
    BY <1>1, <2>1
  <2>3. raced' \in BOOLEAN
    BY <1>1, Zenon DEF FilesTypeOK
  <2> QED BY <1>1, <1>2, <2>2, <2>3 DEF FilesTypeOK
<1>6. FewForked'
  <2>1. {v \in Thread : call'[v].at # "none"} = {v \in Thread : call[v].at # "none"} \cup {u}
    BY <1>2, <1>3
  <2>2. IsFiniteSet({v \in Thread : call[v].at # "none"})
    BY <1>1 DEF FewForked
  <2>3. IsFiniteSet({v \in Thread : call[v].at # "none"} \cup {u})
    BY <2>2, FS_AddElement
  <2> QED BY <2>1, <2>3 DEF FewForked
<1>7. NoneEmpty'
  BY <1>1, <1>2, <1>3 DEF NoneEmpty
<1>8. ASSUME ~raced' PROVE \A v \in Thread : CallOK(v)'
  <2> TAKE v \in Thread
  <2>1. CASE v = u
    BY <1>2, <1>3, <2>1 DEF CallOK
  <2>2. CASE v # u
    <3>1. CallOK(v)
      BY <1>1 DEF Core
    <3>2. ASSUME call[v].at \in {"counted", "dropping"}
          PROVE  ref'[FileAt(v)] = ref[FileAt(v)]
      <4>1. v # t /\ FileAt(v) \in File
        BY <1>1, <3>1, <3>2, CallTypes DEF CallOK
      <4>2. copies(FileAt(v)) = {}
        BY <1>1, <1>8, <3>2, <4>1, FilesAssumption DEF Races
      <4>3. Cardinality(copies(FileAt(v))) = 0 /\ ref[FileAt(v)] \in Nat
        BY <1>1, <1>4, <4>1, <4>2 DEF FilesTypeOK
      <4> HIDE DEF copies
      <4> QED BY <1>1, <4>1, <4>3
    <3> QED BY <1>3, <2>2, <3>1, <3>2, OthersOK
  <2> QED BY <2>1, <2>2
<1>9. \A v \in Thread, i \in Fds : SlotOK(v, i)'
  <2>1. \A v \in Thread, i \in Fds : SlotOK(v, i)
    BY <1>1 DEF Core
  <2>2. \A i \in Fds : fd[t][i] \in (inUse \ lost) \cup {Null}
    BY <1>1, <2>1 DEF SlotOK
  <2>3. \A v \in Thread, i \in Fds : v # u => SlotOK(v, i)'
    BY <1>1, <1>3, <2>1 DEF SlotOK
  <2>4. \A i \in Fds : SlotOK(u, i)'
    BY <1>1, <1>3, <2>2 DEF SlotOK
  <2> QED BY <2>3, <2>4
<1>10. Counted'
  <2>1. ASSUME NEW f \in File \ inUse PROVE ref'[f] = 0
    <3>1. copies(f) = {}
      BY <1>1, FilesAssumption DEF Core, SlotOK, FilesTypeOK
    <3>2. ref[f] = 0 /\ Cardinality(copies(f)) = 0
      BY <1>1, <1>4, <3>1 DEF Core, Counted
    <3> HIDE DEF copies
    <3> QED BY <1>1, <3>2
  <2>2. ASSUME NEW f \in inUse \ lost PROVE Cardinality(Owned(f)') + strays'[f] = ref'[f] + 1
    <3> DEFINE new == {u} \X copies(f)
    <3>1. f \in File /\ f # Null
      BY <1>1, FilesAssumption DEF FilesTypeOK
    <3>2. Owned(f)' = Owned(f) \cup new
      <4>1. \A v \in Thread, i \in Fds :
              <<v, i>> \in Owned(f)' <=> <<v, i>> \in Owned(f) \cup new
        BY <1>1, <1>2, <1>3, <3>1 DEF Owned, Pending, AllSlots
      <4>2. Owned(f)' \subseteq AllSlots /\ (Owned(f) \cup new) \subseteq AllSlots
        BY DEF Owned, AllSlots
      <4> HIDE DEF new
      <4> QED BY <4>1, <4>2 DEF AllSlots
    <3>3. Owned(f) \cap new = {}
      BY <1>3, <3>1 DEF Owned, AllSlots
    <3>4. IsFiniteSet(new) /\ Cardinality(new) = Cardinality(copies(f))
      <4>1. IsFiniteSet({u}) /\ Cardinality({u}) = 1
        BY FS_Singleton
      <4>2. IsFiniteSet(copies(f)) /\ Cardinality(copies(f)) \in Nat
        BY <1>4, <3>1
      <4> HIDE DEF copies
      <4>3. IsFiniteSet(new) /\ Cardinality(new) = 1 * Cardinality(copies(f))
        BY <4>1, <4>2, FS_Product
      <4> QED BY <4>2, <4>3
    <3>5. IsFiniteSet(Owned(f)) /\ Cardinality(Owned(f)) + strays[f] = ref[f] + 1
      BY <1>1, <3>1, FiniteSlots DEF Core, Counted
    <3> HIDE DEF new
    <3>6. Cardinality(Owned(f)') = Cardinality(Owned(f)) + Cardinality(new) - Cardinality({})
      BY <3>2, <3>3, <3>4, <3>5, FS_Union
    <3>7. ref[f] \in Nat /\ Cardinality(copies(f)) \in Nat /\ Cardinality({}) = 0
      BY <1>1, <1>4, <3>1, FS_EmptySet DEF FilesTypeOK
    <3>8. ref'[f] = ref[f] + Cardinality(copies(f))
      BY <1>1, <3>1
    <3>9. strays'[f] = strays[f] /\ strays[f] \in Nat /\ Cardinality(Owned(f)) \in Nat
      BY <1>1, <3>1, <3>5, FS_CardinalityType DEF FilesTypeOK
    <3> HIDE DEF copies
    <3> QED BY <3>4, <3>5, <3>6, <3>7, <3>8, <3>9
  <2> QED BY <1>1, <2>1, <2>2 DEF Counted
<1> QED BY <1>5, <1>6, <1>7, <1>8, <1>9, <1>10 DEF IInv, Core

(* thread_add_fd of a file that the table does not name *)
LEMMA AddedSlots ==
  ASSUME NEW fds \in [Fds -> File \cup {Null}], NEW f \in File,
         \A i \in Fds : fds[i] # f
  PROVE  /\ Added(fds, f) \in [Fds -> File \cup {Null}]
         /\ \A i \in Fds, h \in File \ {f} : Added(fds, f)[i] = h <=> fds[i] = h
         /\ TableFull(fds) => Added(fds, f) = fds
         /\ ~TableFull(fds) => \E k \in Fds : \A i \in Fds : Added(fds, f)[i] = f <=> i = k
<1>1. CASE TableFull(fds)
  BY <1>1, AddedIs
<1>2. CASE ~TableFull(fds)
  <2>1. PICK k \in Fds : fds[k] = Null /\ Added(fds, f) = [fds EXCEPT ![k] = f]
    BY <1>2, AddedIs
  <2>2. \A i \in Fds : Added(fds, f)[i] = f <=> i = k
    BY <2>1
  <2>3. \A i \in Fds, h \in File \ {f} : Added(fds, f)[i] = h <=> fds[i] = h
    BY <2>1, FilesAssumption
  <2> QED BY <1>2, <2>1, <2>2, <2>3
<1> QED BY <1>1, <1>2

LEMMA OpenPipeStep ==
  ASSUME IInv, ~raced, NEW t \in Thread, NEW f \in File, NEW g \in File, OpenPipe(t, f, g)
  PROVE  IInv'
<1> DEFINE tab1 == Added(fd[t], f)
           tab2 == Added(tab1, g)
<1>1. /\ FilesTypeOK /\ FewForked /\ NoneEmpty /\ Core
      /\ call[t].at = "user" /\ f \notin inUse /\ g \notin inUse /\ f # g
      /\ call' = call /\ raced' = raced /\ inUse' = inUse \cup {f, g}
      /\ ref' = [ref EXCEPT ![g] = ref[f]]
      /\ strays' = [strays EXCEPT ![f] = 0, ![g] = 0]
      /\ fd' = [fd EXCEPT ![t] = tab2]
      /\ lost' = lost \cup (IF TableFull(fd[t]) THEN {f} ELSE {})
                      \cup (IF TableFull(tab1) THEN {g} ELSE {})
  BY DEF OpenPipe, IInv
<1>2. ref[f] = 0 /\ ref[g] = 0 /\ ref' = ref
  BY <1>1 DEF Core, Counted, FilesTypeOK
<1>3. \A i \in Fds : fd[t][i] # f /\ fd[t][i] # g
  BY <1>1, FilesAssumption DEF Core, SlotOK
<1>4. /\ tab1 \in [Fds -> File \cup {Null}]
      /\ \A i \in Fds, h \in File \ {f} : tab1[i] = h <=> fd[t][i] = h
      /\ ~TableFull(fd[t]) => \E k \in Fds : \A i \in Fds : tab1[i] = f <=> i = k
  BY <1>1, <1>3, AddedSlots DEF FilesTypeOK
<1>5. \A i \in Fds : tab1[i] # g
  BY <1>1, <1>3, <1>4
<1> HIDE DEF tab1
<1>6. /\ tab2 \in [Fds -> File \cup {Null}]
      /\ \A i \in Fds, h \in File \ {g} : tab2[i] = h <=> tab1[i] = h
      /\ ~TableFull(tab1) => \E k \in Fds : \A i \in Fds : tab2[i] = g <=> i = k
  BY <1>4, <1>5, AddedSlots
<1> HIDE DEF tab2
<1>7. /\ fd' \in [Thread -> [Fds -> File \cup {Null}]] /\ fd'[t] = tab2
      /\ \A u \in Thread \ {t} : fd'[u] = fd[u]
      /\ \A i \in Fds, h \in File \ {f, g} : fd'[t][i] = h <=> fd[t][i] = h
  BY <1>1, <1>4, <1>6 DEF FilesTypeOK
<1>8. FilesTypeOK'
  <2>1. lost' \subseteq inUse' /\ inUse' \subseteq File
    BY <1>1 DEF FilesTypeOK
  <2> QED BY <1>1, <1>2, <1>7, <2>1 DEF FilesTypeOK
<1>9. FewForked' /\ NoneEmpty'
  <2>1. FewForked'
    BY <1>1 DEF FewForked
  <2> QED BY <1>1, <1>7, <2>1 DEF NoneEmpty
<1>10. \A u \in Thread, i \in Fds : Pending(u, i)' <=> Pending(u, i)
  BY <1>1 DEF Pending
<1>11. \A u \in Thread : CallOK(u)'
  <2> TAKE u \in Thread
  <2>1. CASE u = t
    BY <1>1, <2>1 DEF CallOK
  <2>2. CASE u # t
    BY <1>1, <1>2, <1>7, <2>2, OthersOK DEF Core
  <2> QED BY <2>1, <2>2
<1>12. ASSUME NEW h \in File, h \notin inUse
       PROVE  \A u \in Thread, i \in Fds : ~Owns(u, i, h)
  BY <1>1, <1>12, FilesAssumption DEF Core, SlotOK, Owns, Pending
<1>13. \A i \in Fds : ~Pending(t, i)
  BY <1>1 DEF Pending
<1>14. f \notin lost' => Cardinality(Owned(f)') = 1
  <2> SUFFICES ASSUME f \notin lost' PROVE Cardinality(Owned(f)') = 1
    OBVIOUS
  <2>1. ~TableFull(fd[t])
    BY <1>1
  <2>2. PICK k \in Fds : \A i \in Fds : tab1[i] = f <=> i = k
    BY <1>4, <2>1
  <2>3. \A i \in Fds : fd'[t][i] = f <=> i = k
    BY <1>1, <1>6, <1>7, <2>2
  <2>4. \A u \in Thread, i \in Fds : Owns(u, i, f)' <=> (u = t /\ i = k)
    BY <1>1, <1>7, <1>10, <1>12, <1>13, <2>3 DEF Owns
  <2> QED BY <2>4, OwnedFirst DEF Owns
<1>15. g \notin lost' => Cardinality(Owned(g)') = 1
  <2> SUFFICES ASSUME g \notin lost' PROVE Cardinality(Owned(g)') = 1
    OBVIOUS
  <2>1. ~TableFull(tab1)
    BY <1>1
  <2>2. PICK k \in Fds : \A i \in Fds : tab2[i] = g <=> i = k
    BY <1>6, <2>1
  <2>3. \A u \in Thread, i \in Fds : Owns(u, i, g)' <=> (u = t /\ i = k)
    BY <1>1, <1>7, <1>10, <1>12, <1>13, <2>2 DEF Owns
  <2> QED BY <2>3, OwnedFirst DEF Owns
<1>16. Counted'
  <2>1. \A h \in File \ inUse' : ref'[h] = 0
    BY <1>1, <1>2 DEF Core, Counted
  <2>2. ASSUME NEW h \in inUse' \ lost', h # f, h # g
        PROVE  Cardinality(Owned(h)') + strays'[h] = ref'[h] + 1
    <3>1. h \in File /\ h \in inUse \ lost
      BY <1>1, <2>2 DEF FilesTypeOK
    <3>2. Owned(h)' = Owned(h)
      BY <1>7, <1>10, <2>2, <3>1, OwnedSame DEF Owns
    <3>3. ref'[h] = ref[h] /\ strays'[h] = strays[h]
      BY <1>1, <1>2, <2>2, <3>1 DEF FilesTypeOK
    <3>4. Cardinality(Owned(h)) + strays[h] = ref[h] + 1
      BY <1>1, <3>1 DEF Core, Counted
    <3> QED BY <3>2, <3>3, <3>4
  <2>3. strays'[f] = 0 /\ strays'[g] = 0 /\ ref'[f] = 0 /\ ref'[g] = 0
    BY <1>1, <1>2 DEF FilesTypeOK
  <2>4. f \notin lost' => Cardinality(Owned(f)') + strays'[f] = ref'[f] + 1
    BY <1>14, <2>3
  <2>5. g \notin lost' => Cardinality(Owned(g)') + strays'[g] = ref'[g] + 1
    BY <1>15, <2>3
  <2> QED BY <2>1, <2>2, <2>4, <2>5, Zenon DEF Counted
<1>17. \A u \in Thread, i \in Fds : SlotOK(u, i)'
  <2>1. \A u \in Thread, i \in Fds : SlotOK(u, i)
    BY <1>1 DEF Core
  <2>2. inUse \ lost \subseteq inUse' \ lost'
    BY <1>1
  <2>3. \A u \in Thread \ {t}, i \in Fds : SlotOK(u, i)'
    BY <1>1, <1>7, <2>1, <2>2 DEF SlotOK
  <2>4. ASSUME NEW i \in Fds PROVE SlotOK(t, i)'
    <3>1. CASE fd'[t][i] \in File \ {f, g}
      BY <1>1, <1>7, <2>1, <2>2, <3>1 DEF SlotOK
    <3>2. CASE fd'[t][i] = f
      <4>1. f \notin lost'
        <5>1. TableFull(fd[t]) => tab1 = fd[t]
          BY <1>1, <1>3, AddedSlots DEF FilesTypeOK, tab1
        <5>2. tab1[i] = f
          BY <1>1, <1>6, <1>7, <3>2
        <5>3. ~TableFull(fd[t])
          BY <1>3, <5>1, <5>2
        <5> QED BY <1>1, <5>3 DEF FilesTypeOK
      <4>2. f \in inUse' \ lost'
        BY <1>1, <4>1
      <4> QED BY <3>2, <4>2 DEF SlotOK
    <3>3. CASE fd'[t][i] = g
      <4>1. g \notin lost'
        <5>1. TableFull(tab1) => tab2 = tab1
          BY <1>4, <1>5, AddedSlots DEF tab2
        <5>2. ~TableFull(tab1)
          BY <1>5, <1>7, <3>3, <5>1
        <5> QED BY <1>1, <5>2 DEF FilesTypeOK
      <4>2. g \in inUse' \ lost'
        BY <1>1, <4>1
      <4> QED BY <3>3, <4>2 DEF SlotOK
    <3>4. fd'[t][i] \in File \cup {Null}
      BY <1>7
    <3> QED BY <3>1, <3>2, <3>3, <3>4 DEF SlotOK
  <2> QED BY <2>3, <2>4
<1> QED BY <1>8, <1>9, <1>11, <1>16, <1>17 DEF IInv, Core

LEMMA NextIInv == IInv /\ [FilesNext]_fileVars => IInv'
<1> SUFFICES ASSUME IInv, [FilesNext]_fileVars PROVE IInv'
  OBVIOUS
<1>1. CASE UNCHANGED fileVars
  BY <1>1 DEF fileVars, IInv, FilesTypeOK, FewForked, NoneEmpty, Core, CallOK, SlotOK,
              Counted, Owned, Pending, FileAt
<1>2. CASE FilesNext
  <2>1. ~raced
    BY <1>2 DEF FilesNext
  <2> QED BY <1>2, <2>1, OpenStep, OpenPipeStep, ForkStep, ExitStep, CloseStep, DupStep,
             CountLoadStep, CountStoreStep, CloseTestStep, DropStoreStep, ClearStep
          DEF FilesNext
<1> QED BY <1>1, <1>2

----------------------------------------------------------------------------
(* Every reachable state satisfies the inductive invariant. *)
THEOREM FilesInvariance == FilesSpec => []IInv
BY InitIInv, NextIInv, PTL DEF FilesSpec

(* Counts and tables keep their types; in particular no ref_cnt is lowered *)
(* from 0.                                                                 *)
THEOREM FilesTypeCorrect == FilesSpec => []FilesTypeOK
<1>1. IInv => FilesTypeOK
  BY DEF IInv
<1> QED BY <1>1, FilesInvariance, PTL

(* The calls in progress account for the difference between all the slots  *)
(* of a file and those that its count accounts for. *)
LEMMA OwnedAndPending ==
  ASSUME IInv, NEW f \in File, f # Null
  PROVE  Cardinality(Owned(f)) = Cardinality(Descriptors(f)) - Cardinality(Uncounted(f))
                                   - Cardinality(Dropped(f))
<1> DEFINE pending == Uncounted(f) \cup Dropped(f)
           slots   == {w \in Descriptors(f) : Pending(w[1], w[2])}
           at      == [t \in pending |-> <<t, call[t].fd>>]
<1>1. FilesTypeOK /\ FewForked /\ NoneEmpty
  BY DEF IInv
<1>2. \A t \in pending : /\ t \in Thread /\ call[t].fd \in Fds
                         /\ fd[t][call[t].fd] = f /\ Pending(t, call[t].fd)
  BY <1>1, CallTypes DEF Uncounted, Dropped, FileAt, Pending
<1>3. IsFiniteSet(Descriptors(f)) /\ IsFiniteSet(Owned(f))
  BY <1>1, FiniteSlots
<1>4. at \in Bijection(pending, slots)
  <2>1. at \in [pending -> slots]
    BY <1>2 DEF Descriptors
  <2>2. \A s, t \in pending : at[s] = at[t] => s = t
    OBVIOUS
  <2>3. ASSUME NEW w \in slots PROVE \E t \in pending : at[t] = w
    <3>1. w[1] \in Thread /\ w[2] \in Fds /\ w = <<w[1], w[2]>>
      BY DEF Descriptors
    <3>2. w[1] \in pending /\ call[w[1]].fd = w[2]
      BY <3>1 DEF Descriptors, Pending, Uncounted, Dropped, FileAt
    <3> QED BY <3>1, <3>2
  <2> HIDE DEF at, pending, slots
  <2> QED BY <2>1, <2>2, <2>3 DEF Bijection, Injection, IsInjective, Surjection
<1>5. IsFiniteSet(slots) /\ Cardinality(slots) \in Nat
  <2>1. slots \in SUBSET Descriptors(f)
    OBVIOUS
  <2> HIDE DEF slots
  <2> QED BY <1>3, <2>1, FS_Subset, FS_CardinalityType
<1>6. IsFiniteSet(pending) /\ Cardinality(pending) = Cardinality(slots)
  <2> HIDE DEF at, pending, slots
  <2>1. at \in Injection(pending, slots)
    BY <1>4 DEF Bijection
  <2>2. at \in Surjection(pending, slots)
    BY <1>4 DEF Bijection
  <2> QED BY <1>5, <2>1, <2>2, FS_Injection
<1>7. Cardinality(pending) = Cardinality(Uncounted(f)) + Cardinality(Dropped(f))
  <2>1. Uncounted(f) \in SUBSET pending /\ Dropped(f) \in SUBSET pending
    OBVIOUS
  <2>2. Uncounted(f) \cap Dropped(f) = {}
    BY DEF Uncounted, Dropped
  <2>3. IsFiniteSet(Uncounted(f)) /\ IsFiniteSet(Dropped(f))
    BY <1>6, <2>1, FS_Subset
  <2>4. Cardinality(Uncounted(f)) \in Nat /\ Cardinality(Dropped(f)) \in Nat
    BY <2>3, FS_CardinalityType
  <2>5. Cardinality(pending) = Cardinality(Uncounted(f)) + Cardinality(Dropped(f))
                                 - Cardinality({})
    BY <2>2, <2>3, FS_Union
  <2> QED BY <2>4, <2>5, FS_EmptySet
<1>8. Cardinality(Owned(f)) = Cardinality(Descriptors(f)) - Cardinality(slots)
  <2>1. Owned(f) = Descriptors(f) \ slots /\ Descriptors(f) \cap slots = slots
    BY DEF Owned, Descriptors, AllSlots
  <2> HIDE DEF slots
  <2> QED BY <1>3, <2>1, FS_Difference
<1>9. Cardinality(Uncounted(f)) \in Nat /\ Cardinality(Dropped(f)) \in Nat
  <2>1. Uncounted(f) \in SUBSET pending /\ Dropped(f) \in SUBSET pending
    OBVIOUS
  <2> HIDE DEF pending
  <2> QED BY <1>6, <2>1, FS_Subset, FS_CardinalityType
<1>10. Cardinality(Descriptors(f)) \in Nat
  BY <1>3, FS_CardinalityType
<1> HIDE DEF pending, slots, at
<1>11. Cardinality(Owned(f)) = Cardinality(Descriptors(f))
                                - (Cardinality(Uncounted(f)) + Cardinality(Dropped(f)))
  BY <1>6, <1>7, <1>8
<1> QED BY <1>9, <1>10, <1>11

(* A file lives exactly as long as its last descriptor, or for ever once   *)
(* dup2 has put it outside a table: until a count is raced for, ref_cnt is *)
(* the number of descriptors but one, and one more for each such dup2.     *)
THEOREM CountsExact == FilesSpec => []RefExact
<1>1. IInv => RefExact
  <2> SUFFICES ASSUME IInv, ~raced, NEW f \in inUse \ lost
               PROVE  ref[f] + 1 = Cardinality(Descriptors(f))
                        - Cardinality(Uncounted(f)) - Cardinality(Dropped(f)) + strays[f]
    BY DEF RefExact
  <2>1. f \in File /\ f # Null
    BY FilesAssumption DEF IInv, FilesTypeOK
  <2>2. Cardinality(Owned(f)) + strays[f] = ref[f] + 1
    BY DEF IInv, Core, Counted
  <2>3. Cardinality(Owned(f)) = Cardinality(Descriptors(f)) - Cardinality(Uncounted(f))
                                  - Cardinality(Dropped(f))
    BY <2>1, OwnedAndPending
  <2> QED BY <2>2, <2>3
<1> QED BY <1>1, FilesInvariance, PTL

(* No descriptor names a freed file but the one that sys_close is about to *)
(* clear.                                                                  *)
THEOREM NoneDangle == FilesSpec => []NoDangling
<1>1. IInv => NoDangling
  <2> SUFFICES ASSUME IInv, ~raced, NEW t \in Thread, NEW i \in Fds
               PROVE  \/ fd[t][i] \in inUse \cup {Null}
                      \/ call[t].at = "clearing" /\ call[t].fd = i
    BY DEF NoDangling
  <2>1. SlotOK(t, i)
    BY DEF IInv, Core
  <2> QED BY <2>1 DEF SlotOK
<1> QED BY <1>1, FilesInvariance, PTL

(***************************************************************************)
(* The table of a FAT32 volume.                                            *)
(***************************************************************************)

(* A table whose cache holds what the disk has of its group.  This, and    *)
(* not CacheAgrees, is what Load and SetValue hand on: they update records *)
(* and functions, so it also says which fields and which domain these have. *)
Sound(t) ==
  t = [disk |-> [e \in Entries |-> t.disk[e]], win |-> t.win,
       dat |-> [c \in InWindow(t.win) |-> t.disk[c]]]

(* A group that is read from the disk agrees with it. *)
LEMMA LoadSound ==
  ASSUME NEW D, NEW w0, NEW d0, NEW w
  PROVE  LET t == [disk |-> [e \in Entries |-> D[e]], win |-> w0, dat |-> d0]
         IN  Sound(Load(t, w)) /\ Load(t, w).disk = t.disk
<1> DEFINE t == [disk |-> [e \in Entries |-> D[e]], win |-> w0, dat |-> d0]
           u == [disk |-> [e \in Entries |-> D[e]], win |-> w,
                 dat |-> [c \in InWindow(w) |-> t.disk[c]]]
<1>1. Load(t, w) = u
  BY DEF Load
<1>2. u.disk = [e \in Entries |-> u.disk[e]]
  OBVIOUS
<1>3. u.dat = [c \in InWindow(u.win) |-> u.disk[c]]
  OBVIOUS
<1>4. Sound(u)
  BY <1>2, <1>3 DEF Sound
<1> QED  BY <1>1, <1>4

(* Moving the cache to another group keeps it sound. *)
LEMMA MovedSound ==
  ASSUME NEW t, NEW c, Sound(t)
  PROVE  Sound(MovedTo(t, c))
<1>1. CASE t.win = Base(c)
  BY <1>1 DEF MovedTo
<1>2. CASE t.win # Base(c)
  <2>1. Sound(Load([disk |-> [e \in Entries |-> t.disk[e]], win |-> t.win,
                    dat |-> [x \in InWindow(t.win) |-> t.disk[x]]], Base(c)))
    BY LoadSound
  <2>2. Sound(Load(t, Base(c)))
    BY <2>1 DEF Sound
  <2> QED  BY <1>2, <2>2 DEF MovedTo
<1> QED  BY <1>1, <1>2

(* So does an update, because it is written through. *)
LEMMA SetSound ==
  ASSUME NEW t, NEW c, NEW v, Sound(t)
  PROVE  Sound(SetValue(t, c, v))
<1> DEFINE u == MovedTo(t, c)
           d == [u.dat EXCEPT ![c] = v]
           D == [e \in Entries |-> IF Base(e) = u.win THEN d[e] ELSE u.disk[e]]
           r == [disk |-> D, win |-> u.win, dat |-> d]
<1>1. Sound(u)
  BY MovedSound
<1>2. u = [disk |-> [e \in Entries |-> u.disk[e]], win |-> u.win,
           dat |-> [x \in InWindow(u.win) |-> u.disk[x]]]
  BY <1>1 DEF Sound
<1>3. SetValue(t, c, v) = r
  BY DEF SetValue
<1>4. d = [e \in InWindow(u.win) |-> D[e]]
  <2>1. d = [e \in InWindow(u.win) |-> IF e = c THEN v ELSE u.disk[e]]
    BY <1>2
  <2>2. \A e \in InWindow(u.win) : e \in Entries /\ Base(e) = u.win
    BY DEF InWindow
  <2>3. \A e \in InWindow(u.win) : D[e] = d[e]
    BY <2>2
  <2> QED  BY <2>1, <2>3
<1>5. Sound(r)
  BY <1>4 DEF Sound
<1> QED  BY <1>3, <1>5

(* Walks along a chain only move the cache. *)
LEMMA WalkedSound ==
  ASSUME NEW t, NEW c, Sound(t)
  PROVE  Sound(Walked(t, c))
BY MovedSound DEF Walked

(* What fat_mount leaves behind is sound. *)
LEMMA MountedSound ==
  ASSUME NEW E, NEW D
  PROVE  Sound(Mounted([e \in Entries |-> E[e]], D).tab)
<1> DEFINE disk == [e \in Entries |-> E[e]]
           t0 == Load([disk |-> disk, win |-> 0, dat |-> <<>>], 0)
<1>1. Sound(t0)
  BY LoadSound
<1>2. \A c : Sound(Walked(t0, c))
  BY <1>1, WalkedSound
<1> QED  BY <1>2 DEF Mounted

(* The inductive invariant of module Fat. *)
TableSound == Sound(tab)

(* What is cached of the table is always what is on disk for those entries. *)
THEOREM TableStaysSound == Spec => []TableSound
<1>1. Init => TableSound
  <2>1. Blank = [e \in Entries |-> Blank[e]]
    BY DEF Blank
  <2>2. Sound(Mounted(Blank, NoData).tab)
    BY <2>1, MountedSound
  <2> QED  BY <2>2 DEF Init, TableSound
<1>2. TableSound /\ [Next]_vars => TableSound'
  <2> SUFFICES ASSUME Sound(tab), [Next]_vars
               PROVE  Sound(tab')
    BY DEF TableSound
  <2>1. CASE Mount
    <3>1. tab.disk = [e \in Entries |-> tab.disk[e]]
      BY DEF Sound
    <3>2. Sound(Mounted(tab.disk, data).tab)
      BY <3>1, MountedSound
    <3> QED  BY <2>1, <3>2 DEF Mount
  <2>2. CASE GrowStep
    <3>1. CASE tab' = MovedTo(tab, AtEnd(tab))
      BY <3>1, MovedSound
    <3>2. ASSUME NEW v \in Entries, tab' = SetValue(MovedTo(tab, v), op.at, v)
          PROVE  Sound(tab')
      BY <3>2, MovedSound, SetSound
    <3> QED  BY <2>2, <3>1, <3>2 DEF GrowStep
  <2>3. CASE GrowEnd
    BY <2>3, SetSound, WalkedSound DEF GrowEnd
  <2>4. CASE Add
    BY <2>4, MovedSound, SetSound DEF Add, Marked
  <2>5. CASE Enter
    BY <2>5, WalkedSound DEF Enter
  <2>6. CASE Put
    BY <2>6, WalkedSound DEF Put
  <2>7. CASE Flush
    BY <2>7, WalkedSound DEF Flush
  <2>8. ASSUME NEW f \in Files, Create(f)
        PROVE  Sound(tab')
    BY <2>8 DEF Create
  <2>9. ASSUME NEW f \in Files, Read(f)
        PROVE  Sound(tab')
    BY <2>9, WalkedSound DEF Read, LoadedTab
  <2>10. ASSUME NEW f \in Files, NEW p \in 0 .. MaxLen, Seek(f, p)
         PROVE  Sound(tab')
    BY <2>10 DEF Seek
  <2>11. ASSUME NEW f \in Files, NEW p \in 0 .. MaxLen, NEW n \in Lens, Write(f, p, n)
         PROVE  Sound(tab')
    BY <2>11, WalkedSound DEF Write, LoadedTab
  <2>12. CASE UNCHANGED vars
    BY <2>12 DEF vars
  <2> QED
    BY <2>1, <2>2, <2>3, <2>4, <2>5, <2>6, <2>7, <2>8, <2>9, <2>10, <2>11, <2>12 DEF Next
<1> QED  BY <1>1, <1>2, PTL DEF Spec

(* The cache of the table never disagrees with the disk: no search, walk,  *)
(* update or restart leaves it with entries that a later fat_set_cluster_  *)
(* value would write back over newer ones.                                 *)
THEOREM CacheAlwaysAgrees == Spec => []CacheAgrees
<1>1. TableSound => CacheAgrees
  <2> SUFFICES ASSUME Sound(tab) PROVE CacheAgrees
    BY DEF TableSound
  <2>1. tab.dat = [c \in InWindow(tab.win) |-> tab.disk[c]]
    BY DEF Sound
  <2> QED  BY <2>1 DEF CacheAgrees
<1> QED  BY <1>1, TableStaysSound, PTL

(* What the operators on a table do to what is on the disk. *)
LEMMA ValueIs ==
  ASSUME NEW t, Sound(t)
  PROVE  \A c \in Entries : ValueOf(t, c) = t.disk[c]
<1>1. t.dat = [c \in InWindow(t.win) |-> t.disk[c]]
  BY DEF Sound
<1> QED  BY <1>1 DEF ValueOf, InWindow

LEMMA MovedDisk ==
  ASSUME NEW t, NEW c
  PROVE  MovedTo(t, c).disk = t.disk /\ Walked(t, c).disk = t.disk
<1>1. \A d : MovedTo(t, d).disk = t.disk
  BY DEF MovedTo, Load
<1> QED  BY <1>1 DEF Walked

LEMMA SetDisk ==
  ASSUME NEW t, Sound(t), NEW c \in Entries, NEW v
  PROVE  SetValue(t, c, v).disk = [e \in Entries |-> IF e = c THEN v ELSE t.disk[e]]
<1> DEFINE u == MovedTo(t, c)
           d == [u.dat EXCEPT ![c] = v]
<1>1. u.win = Base(c) /\ u.disk = t.disk
  BY MovedDisk DEF MovedTo, Load
<1>2. u.dat = [e \in InWindow(Base(c)) |-> t.disk[e]]
  <2>1. Sound(u)
    BY MovedSound
  <2> QED  BY <1>1, <2>1 DEF Sound
<1>3. SetValue(t, c, v).disk = [e \in Entries |-> IF Base(e) = u.win THEN d[e] ELSE u.disk[e]]
  BY DEF SetValue
<1> HIDE DEF u
<1>4. ASSUME NEW e \in Entries
      PROVE  (IF Base(e) = Base(c) THEN d[e] ELSE t.disk[e]) = (IF e = c THEN v ELSE t.disk[e])
  <2>1. e \in InWindow(Base(c)) <=> Base(e) = Base(c)
    BY DEF InWindow
  <2>2. c \in InWindow(Base(c))
    BY DEF InWindow
  <2>3. Base(e) = Base(c) => d[e] = IF e = c THEN v ELSE t.disk[e]
    BY <1>2, <2>1, <2>2
  <2> QED  BY <2>3
<1> QED  BY <1>1, <1>3, <1>4

(***************************************************************************)
(* The chains of clusters.                                                 *)
(***************************************************************************)

(* The clusters of s are different and lead from one to the next in D. *)
Strung(D, s) ==
  /\ s \in Seq(Root .. NE - 1) /\ Len(s) > 0
  /\ \A i \in 1 .. Len(s) - 1 : D[s[i]] = s[i + 1]
  /\ \A i, j \in 1 .. Len(s) : s[i] = s[j] => i = j

LastOf(s) == s[Len(s)]

(* at goes along the chain from c, as the function in Chain. *)
Goes(at, t, c) ==
  at = [i \in 1 .. NE + 1 |->
          IF i = 1 THEN c ELSE [e \in 0 .. NE |-> IF e = NE THEN NE ELSE ValueOf(t, e)][at[i - 1]]]

Entry(t, e) == IF e = NE THEN NE ELSE ValueOf(t, e)

LEMMA GoesIs ==
  ASSUME NEW at, NEW t, NEW c
  PROVE  Goes(at, t, c) <=>
           at = [i \in 1 .. NE + 1 |-> IF i = 1 THEN c ELSE [e \in 0 .. NE |-> Entry(t, e)][at[i - 1]]]
BY DEF Goes, Entry

LEMMA StrungIs ==
  ASSUME NEW D, NEW s, Strung(D, s)
  PROVE  /\ Len(s) \in 1 .. NE
         /\ s = [i \in 1 .. Len(s) |-> s[i]]
         /\ \A i \in 1 .. Len(s) : s[i] \in Entries /\ s[i] \in Nat /\ s[i] >= Root /\ s[i] # NE
<1>1. PICK n \in Nat : n = Len(s)
  BY DEF Strung
<1>2. NE \in Nat /\ NE > 2 /\ Root = 2
  BY FatAssumption DEF Root
<1>3. s = [i \in 1 .. n |-> s[i]] /\ \A i \in 1 .. n : s[i] \in 2 .. NE - 1
  BY <1>1, <1>2 DEF Strung
<1>4. Entries = 0 .. NE - 1 /\ IsFiniteSet(Entries) /\ Cardinality(Entries) = NE
  <2>1. NE - 1 \in Int /\ 0 \in Int
    BY <1>2
  <2>2. IsFiniteSet(0 .. NE - 1) /\ Cardinality(0 .. NE - 1) = IF 0 > NE - 1 THEN 0 ELSE NE - 1 - 0 + 1
    BY <2>1, FS_Interval
  <2> QED  BY <1>2, <2>2 DEF Entries
<1>5. IsFiniteSet(1 .. n) /\ Cardinality(1 .. n) = n
  <2>1. IsFiniteSet(1 .. n) /\ Cardinality(1 .. n) = IF 1 > n THEN 0 ELSE n - 1 + 1
    <3>1. 1 \in Int /\ n \in Int
      BY <1>1
    <3> QED  BY <3>1, FS_Interval
  <2> QED  BY <1>1, <2>1
<1>6. s \in [1 .. n -> Entries]
  BY <1>2, <1>3, <1>4
<1>7. n <= NE
  <2> SUFFICES ASSUME NE < n PROVE FALSE
    BY <1>1, <1>2
  <2>1. \E i, j \in 1 .. n : i # j /\ s[i] = s[j]
    BY <1>4, <1>5, <1>6, FS_PigeonHole
  <2> QED  BY <1>1, <2>1 DEF Strung
<1>8. n > 0
  BY <1>1 DEF Strung
<1>9. \A i \in 1 .. n : s[i] \in Entries /\ s[i] \in Nat /\ s[i] >= Root /\ s[i] # NE
  BY <1>2, <1>3, <1>4
<1>10. n \in 1 .. NE
  BY <1>1, <1>2, <1>7, <1>8
<1> QED  BY <1>1, <1>3, <1>9, <1>10

(* Chain finds such clusters when the last one is marked as the last. *)
LEMMA ChainIs ==
  ASSUME NEW t, Sound(t), NEW s, Strung(t.disk, s), t.disk[LastOf(s)] = NE, NEW c, c = s[1]
  PROVE  Chain(t, c) = s
<1>1. PICK n \in 1 .. NE : n = Len(s) /\ s = [i \in 1 .. n |-> s[i]]
  BY StrungIs
<1>2. NE \in Nat /\ NE > 0 /\ n \in Nat /\ n >= 1 /\ n <= NE
  BY FatAssumption DEF Root
<1>3. \A i \in 1 .. n : s[i] \in Entries /\ s[i] # NE
  BY <1>1, StrungIs
<1> DEFINE nx == [e \in 0 .. NE |-> Entry(t, e)]
<1>4. nx[NE] = NE /\ \A e \in Entries : nx[e] = t.disk[e]
  <2>1. NE \in 0 .. NE /\ Entry(t, NE) = NE
    BY <1>2 DEF Entry
  <2>2. \A e \in Entries : e \in 0 .. NE /\ Entry(t, e) = t.disk[e]
    <3>1. \A e \in Entries : e \in 0 .. NE /\ e # NE
      BY <1>2 DEF Entries
    <3> QED  BY <3>1, ValueIs DEF Entry
  <2> QED  BY <2>1, <2>2
<1> HIDE DEF nx
<1>5. PICK g : g = [i \in 1 .. NE + 1 |-> IF i <= n THEN s[i] ELSE NE]
  OBVIOUS
<1>6. \A i \in 1 .. NE + 1 : g[i] = IF i <= n THEN s[i] ELSE NE
  BY <1>5
<1>7. ASSUME NEW i \in 1 .. NE + 1 PROVE g[i] = IF i = 1 THEN c ELSE nx[g[i - 1]]
  <2>0. i \in Nat /\ i >= 1 /\ i <= NE + 1
    BY <1>2
  <2>1. CASE i = 1
    BY <1>2, <1>6, <2>0, <2>1
  <2>2. CASE i > 1
    <3>1. PICK k \in Nat : i = k + 1 /\ k = i - 1 /\ k >= 1 /\ k <= NE
      BY <1>2, <2>0, <2>2
    <3>2. k \in 1 .. NE + 1
      BY <1>2, <3>1
    <3>3. CASE k < n
      <4>1. g[k] = s[k] /\ g[i] = s[k + 1]
        BY <1>2, <1>6, <3>1, <3>2, <3>3
      <4>2. k \in 1 .. n /\ k \in 1 .. n - 1
        BY <1>2, <3>1, <3>3
      <4>3. t.disk[s[k]] = s[k + 1] /\ s[k] \in Entries
        BY <1>1, <1>3, <4>2 DEF Strung
      <4> QED  BY <1>4, <2>2, <3>1, <4>1, <4>3
    <3>4. CASE k = n
      <4>1. g[k] = s[k] /\ g[i] = NE
        BY <1>2, <1>6, <2>0, <3>1, <3>2, <3>4
      <4>2. k \in 1 .. n
        BY <1>2, <3>1, <3>4
      <4>3. t.disk[s[k]] = NE /\ s[k] \in Entries
        BY <1>1, <1>3, <3>4, <4>2 DEF LastOf
      <4> QED  BY <1>4, <2>2, <3>1, <4>1, <4>3
    <3>5. CASE k > n
      <4>1. g[k] = NE /\ g[i] = NE
        BY <1>2, <1>6, <2>0, <3>1, <3>2, <3>5
      <4> QED  BY <1>4, <2>2, <3>1, <4>1
    <3> QED  BY <1>2, <3>1, <3>3, <3>4, <3>5
  <2> QED  BY <2>0, <2>1, <2>2
<1>8. Goes(g, t, c)
  <2>1. g = [i \in 1 .. NE + 1 |-> IF i = 1 THEN c ELSE nx[g[i - 1]]]
    BY <1>5, <1>7
  <2> QED  BY <2>1, GoesIs DEF nx
<1>9. ASSUME NEW h, Goes(h, t, c) PROVE h = g
  <2>1. h = [i \in 1 .. NE + 1 |-> IF i = 1 THEN c ELSE nx[h[i - 1]]]
    BY <1>9, GoesIs DEF nx
  <2>2. /\ h = [i \in 1 .. NE + 1 |-> h[i]]
        /\ \A i \in 1 .. NE + 1 : h[i] = IF i = 1 THEN c ELSE nx[h[i - 1]]
    BY <2>1
  <2>3. PICK T : T = {i \in 1 .. NE + 1 : h[i] # g[i]}
    OBVIOUS
  <2>4. ASSUME NEW m \in T, \A k \in T : m <= k PROVE FALSE
    <3>1. m \in 1 .. NE + 1 /\ m # 1
      BY <1>7, <2>2, <2>3, <2>4
    <3>2. PICK k \in 1 .. NE + 1 : k = m - 1 /\ ~(m <= k)
      BY <1>2, <3>1
    <3>3. k \notin T
      BY <2>4, <3>2
    <3>4. h[k] = g[k]
      BY <2>3, <3>3
    <3>5. h[m] = nx[h[k]] /\ g[m] = nx[g[k]]
      BY <1>7, <2>2, <3>1, <3>2
    <3> QED  BY <2>3, <2>4, <3>4, <3>5
  <2>5. T = {}
    <3>1. T \in SUBSET Nat
      BY <2>3
    <3> QED  BY <2>4, <3>1, LeastNat
  <2>6. \A i \in 1 .. NE + 1 : h[i] = g[i]
    BY <2>3, <2>5
  <2> QED  BY <1>5, <2>2, <2>6
<1>10. (CHOOSE h : Goes(h, t, c)) = g
  BY <1>8, <1>9
<1>11. {i \in 1 .. NE + 1 : g[i] # NE} = 1 .. n
  <2>1. \A i \in 1 .. NE + 1 : i \in 1 .. n <=> i <= n
    BY <1>2
  <2>2. 1 .. n \subseteq 1 .. NE + 1
    BY <1>2
  <2>3. ASSUME NEW i \in 1 .. NE + 1 PROVE g[i] # NE <=> i \in 1 .. n
    BY <1>3, <1>6, <2>1
  <2> QED  BY <2>2, <2>3
<1>12. Cardinality(1 .. n) = n
  <2>1. 1 \in Int /\ n \in Int
    BY <1>2
  <2>2. Cardinality(1 .. n) = IF 1 > n THEN 0 ELSE n - 1 + 1
    BY <2>1, FS_Interval
  <2> QED  BY <1>2, <2>2
<1>13. [i \in 1 .. n |-> g[i]] = s
  <2>1. \A i \in 1 .. n : i \in 1 .. NE + 1 /\ i <= n
    BY <1>2
  <2> QED  BY <1>1, <1>6, <2>1
<1>14. Chain(t, c) = LET at == CHOOSE h : Goes(h, t, c)
                     IN  [i \in 1 .. Cardinality({i \in 1 .. NE + 1 : at[i] # NE}) |-> at[i]]
  BY DEF Chain, Goes
<1> HIDE DEF nx
<1>15. Chain(t, c) = [i \in 1 .. Cardinality({i \in 1 .. NE + 1 : g[i] # NE}) |-> g[i]]
  BY <1>10, <1>14
<1> QED  BY <1>11, <1>12, <1>13, <1>15

(* A chain is as it was where the table is. *)
LEMMA StrungKept ==
  ASSUME NEW D, NEW E, NEW s, Strung(D, s), \A i \in 1 .. Len(s) - 1 : E[s[i]] = D[s[i]]
  PROVE  Strung(E, s)
BY DEF Strung

(* A chain is longer by the cluster its last one leads to. *)
\* r is s and one cluster more.
Linked(E, s, r, v) ==
  /\ Strung(E, r) /\ LastOf(r) = v /\ SetOf(r) = SetOf(s) \cup {v} /\ Len(r) = Len(s) + 1
  /\ \A i \in 1 .. Len(s) : r[i] = s[i]

LEMMA StrungLonger ==
  ASSUME NEW D, NEW E, NEW s, Strung(D, s), NEW v \in Entries, v >= Root, v \notin SetOf(s),
         \A i \in 1 .. Len(s) - 1 : E[s[i]] = D[s[i]], E[LastOf(s)] = v
  PROVE  Linked(E, s, Append(s, v), v)
<1>1. PICK n \in Nat : n = Len(s) /\ n >= 1
  BY StrungIs
<1>2. v \in Root .. NE - 1 /\ Root = 2 /\ NE \in Nat
  BY FatAssumption DEF Entries, Root
<1>3. s \in Seq(Root .. NE - 1)
  BY DEF Strung
<1> DEFINE r == Append(s, v)
<1>4. r \in Seq(Root .. NE - 1) /\ Len(r) = n + 1 /\ r[n + 1] = v /\ \A i \in 1 .. n : r[i] = s[i]
  BY <1>1, <1>2, <1>3
<1> HIDE DEF r
<1>5. ASSUME NEW i \in 1 .. n PROVE E[r[i]] = r[i + 1]
  <2>1. CASE i = n
    BY <1>1, <1>4, <2>1 DEF LastOf
  <2>2. CASE i # n
    <3>1. i \in 1 .. n - 1 /\ i + 1 \in 1 .. n
      BY <1>1, <2>2
    <3>2. E[s[i]] = D[s[i]] /\ D[s[i]] = s[i + 1]
      BY <1>1, <3>1 DEF Strung
    <3> QED  BY <1>4, <3>1, <3>2
  <2> QED  BY <2>1, <2>2
<1>6. \A i \in 1 .. n + 1 : i \in 1 .. n \/ i = n + 1
  BY <1>1
<1>7. \A i \in 1 .. n : s[i] # v
  BY <1>1 DEF SetOf
<1>8. \A i, j \in 1 .. n : s[i] = s[j] => i = j
  BY <1>1 DEF Strung
<1>9. \A i, j \in 1 .. n + 1 : r[i] = r[j] => i = j
  BY <1>4, <1>6, <1>7, <1>8
<1>10. 1 .. Len(r) = 1 .. n + 1 /\ 1 .. Len(r) - 1 = 1 .. n /\ Len(r) > 0 /\ n + 1 \in 1 .. n + 1
       /\ 1 .. n \subseteq 1 .. n + 1
  BY <1>1, <1>4
<1>11. Strung(E, r)
  BY <1>4, <1>5, <1>9, <1>10 DEF Strung
<1>12. LastOf(r) = v
  BY <1>4 DEF LastOf
<1>13. SetOf(r) = SetOf(s) \cup {v}
  <2>1. SetOf(r) = {r[i] : i \in 1 .. n + 1} /\ SetOf(s) = {s[i] : i \in 1 .. n}
    BY <1>1, <1>10 DEF SetOf
  <2>2. \A x \in SetOf(r) : x \in SetOf(s) \cup {v}
    BY <1>4, <1>6, <2>1
  <2>3. \A x \in SetOf(s) \cup {v} : x \in SetOf(r)
    BY <1>4, <1>10, <2>1
  <2> QED  BY <2>2, <2>3
<1>14. Linked(E, s, r, v)
  BY <1>1, <1>4, <1>11, <1>12, <1>13 DEF Linked
<1> QED  BY <1>14 DEF r

LEMMA StrungOne ==
  ASSUME NEW D, NEW v \in Entries, v >= Root
  PROVE  Strung(D, <<v>>) /\ LastOf(<<v>>) = v /\ SetOf(<<v>>) = {v} /\ Len(<<v>>) = 1 /\ <<v>>[1] = v
<1>1. v \in Root .. NE - 1
  BY FatAssumption DEF Entries, Root
<1>2. Len(<<v>>) = 1 /\ <<v>>[1] = v /\ <<v>> \in Seq(Root .. NE - 1)
  BY <1>1
<1>3. 1 .. 1 = {1} /\ 1 .. 1 - 1 = {} /\ 1 > 0
  OBVIOUS
<1>4. Strung(D, <<v>>)
  BY <1>2, <1>3 DEF Strung
<1>5. SetOf(<<v>>) = {v}
  BY <1>2, <1>3 DEF SetOf
<1> QED  BY <1>2, <1>4, <1>5 DEF LastOf

(* The cluster of a chain that has byte i of it, and where it has it, when *)
(* a cluster has n. *)
Part(n, i) == (i - 1) \div n + 1
Place(n, i) == ((i - 1) % n) + 1

\* Byte i is in the chain s; the chain is not longer than `size'; the byte.
Within(n, s, i) == i <= n * Len(s)
Covered(n, s, size) == n * Len(s) <= size
ByteAt(A, s, n, i) == A[s[Part(n, i)]][Place(n, i)]

LEMMA Divided ==
  ASSUME NEW x \in Nat, NEW n \in Nat, n >= 1
  PROVE  /\ x \div n \in Nat /\ x % n \in Nat /\ x % n < n
         /\ (x \div n) * n \in Nat /\ x = (x \div n) * n + (x % n)
OBVIOUS

LEMMA TimesMonotone ==
  ASSUME NEW a \in Nat, NEW b \in Nat, NEW n \in Nat, a <= b
  PROVE  a * n <= b * n /\ a * n \in Nat /\ b * n \in Nat
OBVIOUS

LEMMA TimesCommute ==
  ASSUME NEW a \in Nat, NEW b \in Nat
  PROVE  a * b = b * a
OBVIOUS

LEMMA Parted ==
  ASSUME NEW i \in Nat, i >= 1, NEW n \in Nat, n >= 1
  PROVE  /\ Part(n, i) \in Nat /\ Part(n, i) >= 1 /\ Place(n, i) \in 1 .. n
         /\ (Part(n, i) - 1) * n + Place(n, i) = i
         /\ \A L \in Nat : Part(n, i) <= L <=> i <= n * L
<1>1. PICK x \in Nat : x = i - 1 /\ i = x + 1
  OBVIOUS
<1>2. PICK q \in Nat : q = x \div n
  BY <1>1, Divided
<1>3. PICK r \in Nat : r = x % n
  BY <1>1, Divided
<1>4. r < n /\ x = q * n + r /\ q * n \in Nat
  BY <1>1, <1>2, <1>3, Divided
<1>5. Part(n, i) = q + 1 /\ Place(n, i) = r + 1
  BY <1>1, <1>2, <1>3 DEF Part, Place
<1>6. (q + 1 - 1) * n = q * n
  BY <1>2
<1>7. ASSUME NEW L \in Nat PROVE q + 1 <= L <=> i <= n * L
  <2>0. n * L = L * n /\ (q + 1) * n = q * n + n
    BY <1>2, <1>7
  <2>1. CASE q + 1 <= L
    <3>1. (q + 1) * n <= L * n
      BY <1>2, <2>1, TimesMonotone
    <3>2. L * n \in Nat
      BY <1>7
    <3> QED  BY <1>1, <1>4, <2>0, <2>1, <3>1, <3>2
  <2>2. CASE ~(q + 1 <= L)
    <3>1. L <= q
      BY <1>2, <2>2
    <3>2. L * n <= q * n /\ L * n \in Nat
      BY <1>2, <3>1, TimesMonotone
    <3> QED  BY <1>1, <1>4, <2>0, <2>2, <3>2
  <2> QED  BY <2>1, <2>2
<1>8. (q + 1) \in Nat /\ q + 1 >= 1 /\ r + 1 \in 1 .. n /\ (q + 1 - 1) * n + (r + 1) = i
  BY <1>1, <1>2, <1>3, <1>4, <1>6
<1> QED  BY <1>5, <1>7, <1>8

LEMMA PerNat == \A x : Per(x) \in Nat /\ Per(x) >= 1
BY FatAssumption DEF Per

OwnBytes(s, A, n, B) == \A k \in 1 .. Len(s) : A[s[k]] \in [1 .. n -> B]

(* What a closed chain of the table t is. *)
Closed(t, s) == Sound(t) /\ Strung(t.disk, s) /\ t.disk[LastOf(s)] = NE

(* A buffer gets the bytes of the chain, and what is behind it is not told. *)
FilledFrom(buf, size, A, s, n) ==
  buf = [i \in 1 .. size |-> IF Within(n, s, i) THEN ByteAt(A, s, n, i) ELSE Junk]

LEMMA BufferIs ==
  ASSUME NEW t, NEW s, Closed(t, s), NEW c, c = s[1], NEW D, NEW size \in Nat
  PROVE  FilledFrom(Buffer(t, D, c, size), size, D, s, Per(c))
<1>1. PICK n \in Nat : n = Per(c) /\ n >= 1
  BY PerNat
<1>2. PICK m \in Nat : m = Len(s)
  BY StrungIs DEF Closed
<1>3. Chain(t, c) = s
  BY ChainIs DEF Closed
<1>4. Buffer(t, D, c, size) =
        [i \in 1 .. size |-> IF Part(n, i) <= m THEN ByteAt(D, s, n, i) ELSE Junk]
  BY <1>1, <1>2, <1>3 DEF Buffer, Part, Place, ByteAt
<1>5. ASSUME NEW i \in 1 .. size PROVE Part(n, i) <= m <=> Within(n, s, i)
  <2>1. i \in Nat /\ i >= 1
    OBVIOUS
  <2>2. Part(n, i) <= m <=> i <= n * m
    BY <1>1, <1>2, <2>1, Parted
  <2> QED  BY <1>2, <2>2 DEF Within
<1> QED  BY <1>1, <1>4, <1>5 DEF FilledFrom

LEMMA FilledBytes ==
  ASSUME NEW size \in Nat, NEW buf, NEW A, NEW s, NEW n \in Nat,
         n >= 1, Len(s) \in Nat, FilledFrom(buf, size, A, s, n), NEW B, Junk \in B, OwnBytes(s, A, n, B)
  PROVE  buf \in [1 .. size -> B]
<1>1. ASSUME NEW i \in 1 .. size PROVE buf[i] \in B
  <2>1. buf[i] = IF Within(n, s, i) THEN ByteAt(A, s, n, i) ELSE Junk
    BY DEF FilledFrom
  <2>2. ASSUME Within(n, s, i) PROVE ByteAt(A, s, n, i) \in B
    <3>1. i \in Nat /\ i >= 1 /\ i <= n * Len(s)
      BY <2>2 DEF Within
    <3>2. Part(n, i) \in Nat /\ Part(n, i) >= 1 /\ Place(n, i) \in 1 .. n /\ Part(n, i) <= Len(s)
      BY <3>1, Parted
    <3>3. Part(n, i) \in 1 .. Len(s)
      BY <3>2
    <3> QED  BY <3>2, <3>3 DEF OwnBytes, ByteAt
  <2> QED  BY <2>1, <2>2
<1> QED  BY <1>1 DEF FilledFrom

OverEntries(A) == A = [e \in Entries |-> A[e]]

(* What is in a buffer for the cluster that is k-th, when one has n bytes. *)
Slice(buf, k, n) == [i \in 1 .. n |-> buf[(k - 1) * n + i]]

(* C is A with as much of buf as it has for whole clusters in those of s. *)
FlushedTo(C, A, s, n, buf) ==
  /\ OverEntries(C)
  /\ \A e \in Entries : e \notin SetOf(s) => C[e] = A[e]
  /\ \A k \in 1 .. Len(s) : C[s[k]] = IF Whole(k, n, Len(buf)) THEN Slice(buf, k, n) ELSE A[s[k]]

LEMMA FlushedIs ==
  ASSUME NEW t, NEW s, Closed(t, s), NEW c, c = s[1], NEW D, NEW buf
  PROVE  FlushedTo(Flushed(t, D, c, buf), D, s, Per(c), buf)
<1> DEFINE n == Per(c)
           at(e) == {k \in 1 .. Len(s) : s[k] = e /\ Whole(k, n, Len(buf))}
           last(e) == CHOOSE k \in at(e) : \A j \in at(e) : j <= k
<1>1. Chain(t, c) = s
  BY ChainIs DEF Closed
<1>2. Flushed(t, D, c, buf) =
        [e \in Entries |-> IF at(e) = {} THEN D[e] ELSE [i \in 1 .. n |-> buf[(last(e) - 1) * n + i]]]
  BY <1>1 DEF Flushed
<1>3. Flushed(t, D, c, buf) =
        [e \in Entries |-> IF at(e) = {} THEN D[e] ELSE Slice(buf, last(e), n)]
  BY <1>2 DEF Slice
<1>4. \A e \in Entries : e \notin SetOf(s) => at(e) = {}
  BY DEF SetOf
<1>5. ASSUME NEW k \in 1 .. Len(s)
      PROVE  Flushed(t, D, c, buf)[s[k]] =
               IF Whole(k, n, Len(buf)) THEN Slice(buf, k, n) ELSE D[s[k]]
  <2>1. s[k] \in Entries
    BY StrungIs DEF Closed
  <2>2. at(s[k]) = IF Whole(k, n, Len(buf)) THEN {k} ELSE {}
    BY DEF Closed, Strung
  <2>3. Whole(k, n, Len(buf)) => last(s[k]) = k
    <3>1. k <= k
      OBVIOUS
    <3> QED  BY <2>2, <3>1
  <2> HIDE DEF at, last, n
  <2> QED  BY <1>3, <2>1, <2>2, <2>3
<1> HIDE DEF at, last, n
<1>6. OverEntries(Flushed(t, D, c, buf))
  BY <1>3 DEF OverEntries
<1>7. \A e \in Entries : e \notin SetOf(s) => Flushed(t, D, c, buf)[e] = D[e]
  BY <1>3, <1>4
<1>8. FlushedTo(Flushed(t, D, c, buf), D, s, n, buf)
  BY <1>5, <1>6, <1>7 DEF FlushedTo
<1> QED  BY <1>8 DEF n

LEMMA SliceBytes ==
  ASSUME NEW k \in Nat, k >= 1, NEW n \in Nat, NEW size \in Nat, Whole(k, n, size),
         NEW B, NEW buf \in [1 .. size -> B]
  PROVE  Slice(buf, k, n) \in [1 .. n -> B]
<1>1. PICK j \in Nat : k = j + 1 /\ k - 1 = j
  OBVIOUS
<1>2. k * n <= size
  BY DEF Whole
<1>3. k * n = j * n + n /\ j * n \in Nat
  BY <1>1
<1>4. j * n + n <= size
  BY <1>2, <1>3
<1>5. ASSUME NEW i \in 1 .. n PROVE (k - 1) * n + i \in 1 .. size
  <2>1. PICK p \in Nat : p = j * n
    BY <1>3
  <2>2. p + i \in 1 .. size
    BY <1>4, <2>1
  <2> QED  BY <1>1, <2>1, <2>2
<1>6. \A i \in 1 .. n : buf[(k - 1) * n + i] \in B
  BY <1>5
<1> QED  BY <1>6 DEF Slice

LEMMA FlushedBytes ==
  ASSUME NEW C, NEW A, NEW s, NEW n \in Nat, NEW size \in Nat, NEW B, NEW buf \in [1 .. size -> B],
         Len(s) \in Nat, FlushedTo(C, A, s, n, buf), OwnBytes(s, A, n, B)
  PROVE  OwnBytes(s, C, n, B)
<1> SUFFICES ASSUME NEW k \in 1 .. Len(s) PROVE C[s[k]] \in [1 .. n -> B]
  BY DEF OwnBytes
<1>1. k \in Nat /\ k >= 1
  OBVIOUS
<1>2. Len(buf) = size
  OBVIOUS
<1>3. C[s[k]] = IF Whole(k, n, size) THEN Slice(buf, k, n) ELSE A[s[k]]
  BY <1>2 DEF FlushedTo
<1>4. Whole(k, n, size) => Slice(buf, k, n) \in [1 .. n -> B]
  BY <1>1, SliceBytes
<1> QED  BY <1>3, <1>4 DEF OwnBytes

LEMMA FlushedByte ==
  ASSUME NEW C, NEW A, NEW s, NEW n \in Nat, n >= 1, NEW size \in Nat,
         NEW buf, Len(buf) = size, Len(s) \in Nat, FlushedTo(C, A, s, n, buf),
         Covered(n, s, size), NEW i \in 1 .. size, Within(n, s, i)
  PROVE  ByteAt(C, s, n, i) = buf[i]
<1>1. PICK m \in Nat : m = Len(s)
  OBVIOUS
<1>2. i \in Nat /\ i >= 1 /\ i <= n * m /\ n * m <= size
  BY <1>1 DEF Within, Covered
<1>3. PICK k \in Nat : k = Part(n, i)
  BY <1>2, Parted
<1>4. PICK j \in Nat : j = Place(n, i)
  BY <1>2, Parted
<1>5. k >= 1 /\ j \in 1 .. n /\ (k - 1) * n + j = i /\ k <= m
  BY <1>1, <1>2, <1>3, <1>4, Parted
<1>6. k \in 1 .. Len(s)
  BY <1>1, <1>3, <1>5
<1>7. Whole(k, n, size)
  <2>1. k * n <= m * n /\ k * n \in Nat /\ m * n \in Nat
    BY <1>1, <1>3, <1>5, TimesMonotone
  <2>2. m * n = n * m
    BY <1>1
  <2> QED  BY <1>2, <2>1, <2>2 DEF Whole
<1>8. C[s[k]] = Slice(buf, k, n)
  BY <1>6, <1>7 DEF FlushedTo
<1>9. Slice(buf, k, n)[j] = buf[i]
  <2>1. Slice(buf, k, n)[j] = buf[(k - 1) * n + j]
    BY <1>5 DEF Slice
  <2> QED  BY <1>5, <2>1
<1> QED  BY <1>3, <1>4, <1>8, <1>9 DEF ByteAt

(***************************************************************************)
(* What the driver keeps true of the volume between two steps.  ch gives   *)
(* each file, and the directory, the clusters it owns: the chain in the    *)
(* table, except that a chain which an enlarge has made longer is not      *)
(* closed before the enlarge ends.  D is the table on disk, A the clusters *)
(* on disk, d the directory, m the inodes, o the call under way, lo the    *)
(* files that are shorter than their size.                                 *)
(***************************************************************************)
OwnersIn(m) == {Root} \cup {f \in Files : m[f] # NoFile}
FirstIn(m, x) == IF x = Root THEN Root ELSE m[x].fst
CacheIn(d, m, x) == IF x = Root THEN d ELSE m[x]
RootBytes(m) == {Zero, Junk} \cup {e \in Descs : m[e.name] # NoFile /\ e.fst = m[e.name].fst}
BytesIn(m, x) == IF x = Root THEN RootBytes(m) ELSE FileBytes

Growing(o, x) == o # Idle /\ o.do = "grow" /\ o.who = x
Unmarked(o, x) == Growing(o, x) /\ o.linked
Due(o) == IF Growing(o, Root) THEN o.left ELSE 0
More(o) == IF Growing(o, Root) THEN o.more ELSE 0

Shaped(A, d, m) ==
  /\ OverEntries(A)
  /\ m = [f \in Files |-> m[f]]
  /\ d = [lst |-> d.lst, size |-> d.size, buf |-> d.buf] /\ d.size \in Nat
  /\ \A f \in Files : m[f] # NoFile => m[f] \in Inodes

OwnChain(ch, D, m, o, x) ==
  /\ Strung(D, ch[x]) /\ ch[x][1] = FirstIn(m, x)
  /\ Unmarked(o, x) => LastOf(ch[x]) = o.at /\ D[o.at] \in {0, o.at}
  /\ ~Unmarked(o, x) => D[LastOf(ch[x])] = NE

Disjoint(S, T) == S \cap T = {}

Apart(ch, m) == \A x, y \in OwnersIn(m) : x # y => Disjoint(SetOf(ch[x]), SetOf(ch[y]))

RightSize(s, c, x, lo) == c.lst = LastOf(s) /\ (x \in lo \/ c.size = Per(x) * Len(s))

(* The entry of f, in the buffer of the directory and in its clusters *)
EntryOf(e, f) == e \in Descs /\ e.name = f
InSlot(s, A, d, q, f) ==
  /\ q \in 1 .. d.size /\ Within(DS, s, q)
  /\ EntryOf(d.buf[q], f) /\ EntryOf(ByteAt(A, s, DS, q), f)

Listing(s, A, d, m, due, more) ==
  /\ d.buf \in [1 .. d.size -> RootBytes(m)]
  /\ \A j \in 1 .. d.size : d.buf[j] = Zero => Within(DS, s, j)
  /\ DS * (Len(s) + due) <= d.size + more
  /\ \A f \in Files : m[f] # NoFile => InSlot(s, A, d, m[f].slot, f)

\* A directory that grows has no entry in a cluster linked last.
Spared(ch, m, o) ==
  Unmarked(o, Root) => \A f \in Files : m[f] # NoFile => ch[Root][Part(DS, m[f].slot)] # o.at

Volume(ch, D, A, d, m, o, lo) ==
  /\ Shaped(A, d, m)
  /\ \A x \in OwnersIn(m) : OwnChain(ch, D, m, o, x)
  /\ Apart(ch, m)
  /\ \A x \in OwnersIn(m) : ~Unmarked(o, x) => RightSize(ch[x], CacheIn(d, m, x), x, lo)
  /\ \A x \in OwnersIn(m) : OwnBytes(ch[x], A, Per(x), BytesIn(m, x))
  /\ Listing(ch[Root], A, d, m, Due(o), More(o))
  /\ Spared(ch, m, o)

(* What the call under way relies on *)
Onward(then, who, m) ==
  \/ who = Root /\ then.do = "add" /\ then \in [do : {"add"}, who : Files] /\ m[then.who] = NoFile
  \/ who # Root /\ then.do = "seek" /\ then \in [do : {"seek"}, p : 0 .. MaxLen]
  \/ /\ who # Root /\ then.do = "put" /\ then \in [do : {"put"}, who : {who}, p : Nat, n : Nat]
     /\ then.p + then.n <= MaxLen

Enlarging(o, ch, m) ==
  o \in Grows /\ o.who \in OwnersIn(m) /\ o.at = LastOf(ch[o.who]) /\ Onward(o.then, o.who, m)

Adding(o, m) == o \in [do : {"add"}, who : Files] /\ m[o.who] = NoFile

Entering(o, ch, D, A, m) ==
  /\ o \in [do : {"enter"}, who : Files, at : Entries] /\ m[o.who] = NoFile
  /\ o.at >= Root /\ D[o.at] = NE /\ A[o.at] \in [1 .. CS -> FileBytes]
  /\ \A x \in OwnersIn(m) : o.at \notin SetOf(ch[x])

Writing(o, m) ==
  /\ o \in [do : {"put"}, who : Files, p : Nat, n : Nat] /\ o.p + o.n <= MaxLen
  /\ m[o.who] # NoFile /\ m[o.who].buf \in Seq(FileBytes)

Flushing(o, m) ==
  o \in [do : {"flush"}, who : Files] /\ m[o.who] # NoFile /\ m[o.who].buf \in Seq(FileBytes)

Relied(o, ch, D, A, m) ==
  o = Idle \/ Enlarging(o, ch, m) \/ Adding(o, m) \/ Entering(o, ch, D, A, m)
  \/ Writing(o, m) \/ Flushing(o, m)

Good(ch, D, A, d, m, o, lo) == Volume(ch, D, A, d, m, o, lo) /\ Relied(o, ch, D, A, m)

VolumeInv == ~torn => \E ch : Good(ch, tab.disk, data, dir, mem, op, lossy)

----------------------------------------------------------------------------
LEMMA ValueFacts ==
  /\ Root = 2 /\ Root \in Nat /\ Root \in Entries /\ NE \in Nat /\ NE > Root /\ NE \notin Entries
  /\ Root \notin Files /\ Zero # Junk /\ Zero \in FileBytes /\ Junk \in FileBytes
  /\ Files \subseteq FileBytes
  /\ \A e \in Descs : e \notin FileBytes /\ IsEntry(e)
  /\ Per(Root) = DS /\ \A x : x # Root => Per(x) = CS
<1>1. Root = 2 /\ NE \in Nat /\ NE > 2
  BY FatAssumption DEF Root
<1>2. Root \in Entries /\ NE \notin Entries /\ Root \in Nat
  BY <1>1 DEF Entries
<1>3. \A e \in Descs : e \notin FileBytes /\ IsEntry(e)
  BY ValuesAssumption DEF IsEntry, FileBytes
<1>4. Zero # Junk /\ Root \notin Files
  BY ValuesAssumption
<1> QED  BY <1>1, <1>2, <1>3, <1>4 DEF FileBytes, Per

(* Files start elsewhere than the directory, so Per is right for them. *)
LEMMA FirstIs ==
  ASSUME NEW ch, NEW D, NEW A, NEW d, NEW m, NEW o, NEW lo, Volume(ch, D, A, d, m, o, lo),
         NEW x \in OwnersIn(m)
  PROVE  /\ FirstIn(m, x) = ch[x][1] /\ Per(FirstIn(m, x)) = Per(x)
         /\ FirstIn(m, x) \in SetOf(ch[x]) /\ FirstIn(m, x) \in Entries
         /\ x # Root => FirstIn(m, x) # Root
<1>1. \A y \in OwnersIn(m) : Strung(D, ch[y]) /\ ch[y][1] = FirstIn(m, y)
  BY DEF Volume, OwnChain
<1>2. \A y \in OwnersIn(m) : Len(ch[y]) \in Nat /\ Len(ch[y]) >= 1 /\ ch[y][1] \in Entries
  <2> TAKE y \in OwnersIn(m)
  <2>1. /\ Len(ch[y]) \in 1 .. NE
        /\ \A i \in 1 .. Len(ch[y]) : ch[y][i] \in Entries
    BY <1>1, StrungIs
  <2> QED  BY <2>1
<1>3. \A y \in OwnersIn(m) : FirstIn(m, y) \in SetOf(ch[y])
  <2> TAKE y \in OwnersIn(m)
  <2>1. 1 \in 1 .. Len(ch[y])
    BY <1>2
  <2> QED  BY <1>1, <2>1 DEF SetOf
<1>4. Root \in OwnersIn(m) /\ FirstIn(m, Root) = Root
  BY DEF OwnersIn, FirstIn
<1>5. x # Root => FirstIn(m, x) # Root
  <2>1. x # Root => SetOf(ch[x]) \cap SetOf(ch[Root]) = {}
    BY <1>4 DEF Volume, Apart, Disjoint
  <2> QED  BY <1>3, <1>4, <2>1
<1>6. Per(FirstIn(m, x)) = Per(x)
  BY <1>4, <1>5, ValueFacts
<1> QED  BY <1>1, <1>2, <1>3, <1>5, <1>6

LEMMA ClosedIs ==
  ASSUME NEW t, Sound(t), NEW ch, NEW A, NEW d, NEW m, NEW o, NEW lo,
         Volume(ch, t.disk, A, d, m, o, lo), NEW x \in OwnersIn(m), ~Unmarked(o, x)
  PROVE  Closed(t, ch[x]) /\ Chain(t, FirstIn(m, x)) = ch[x]
<1>1. Closed(t, ch[x]) /\ ch[x][1] = FirstIn(m, x)
  BY DEF Volume, OwnChain, Closed
<1> QED  BY <1>1, ChainIs DEF Closed

(* A free cluster is in no chain, but for one that has been linked and is *)
(* not marked yet. *)
LEMMA FreeApart ==
  ASSUME NEW ch, NEW D, NEW A, NEW d, NEW m, NEW o, NEW lo, Volume(ch, D, A, d, m, o, lo),
         NEW x \in OwnersIn(m), NEW v, D[v] = 0
  PROVE  v \in SetOf(ch[x]) => Unmarked(o, x) /\ v = o.at
<1> SUFFICES ASSUME v \in SetOf(ch[x]) PROVE Unmarked(o, x) /\ v = o.at
  OBVIOUS
<1>1. PICK n \in Nat : n = Len(ch[x]) /\ n >= 1
  BY StrungIs DEF Volume, OwnChain
<1>2. PICK k \in 1 .. n : v = ch[x][k]
  BY <1>1 DEF SetOf
<1>3. k = n
  <2> SUFFICES ASSUME k # n PROVE FALSE
    OBVIOUS
  <2>1. k \in 1 .. n - 1 /\ k + 1 \in 1 .. n
    BY <1>1
  <2>2. D[ch[x][k]] = ch[x][k + 1]
    BY <1>1, <2>1 DEF Volume, OwnChain, Strung
  <2>3. ch[x][k + 1] \in Nat /\ ch[x][k + 1] >= Root
    BY <1>1, <2>1, StrungIs DEF Volume, OwnChain
  <2> QED  BY <1>2, <2>2, <2>3, ValueFacts
<1>4. v = LastOf(ch[x])
  BY <1>1, <1>2, <1>3 DEF LastOf
<1>5. Unmarked(o, x)
  <2> SUFFICES ASSUME ~Unmarked(o, x) PROVE FALSE
    OBVIOUS
  <2>1. D[LastOf(ch[x])] = NE
    BY DEF Volume, OwnChain
  <2> QED  BY <1>4, <2>1, ValueFacts
<1> QED  BY <1>4, <1>5 DEF Volume, OwnChain

LEMMA FreeIs ==
  ASSUME NEW t, Sound(t), NEW v \in FreeFrom(t)
  PROVE  v \in Entries /\ v \in Nat /\ v > Root /\ t.disk[v] = 0
<1>1. v \in Entries /\ v >= 3 /\ ValueOf(t, v) = 0
  BY DEF FreeFrom
<1>2. v \in Nat
  BY <1>1 DEF Entries
<1> QED  BY <1>1, <1>2, ValueIs, ValueFacts

(* Calls that do not enlarge say nothing of the chains. *)
Apace(o) == o = Idle \/ o.do # "grow"

LEMMA SameVolume ==
  ASSUME NEW ch, NEW D, NEW A, NEW d, NEW m, NEW o, NEW p, NEW lo, Volume(ch, D, A, d, m, o, lo),
         Apace(o), Apace(p)
  PROVE  Volume(ch, D, A, d, m, p, lo)
<1>1. \A x : ~Growing(o, x) /\ ~Growing(p, x) /\ ~Unmarked(o, x) /\ ~Unmarked(p, x)
  BY DEF Growing, Unmarked, Apace
<1>2. Due(o) = 0 /\ Due(p) = 0 /\ More(o) = 0 /\ More(p) = 0
  BY <1>1 DEF Due, More
<1>3. \A x \in OwnersIn(m) : OwnChain(ch, D, m, p, x)
  BY <1>1 DEF Volume, OwnChain
<1>4. \A x \in OwnersIn(m) : ~Unmarked(p, x) => RightSize(ch[x], CacheIn(d, m, x), x, lo)
  BY <1>1 DEF Volume
<1>5. Spared(ch, m, p)
  BY <1>1 DEF Spared
<1> QED  BY <1>2, <1>3, <1>4, <1>5 DEF Volume

LEMMA ReliedIs ==
  ASSUME NEW o, NEW ch, NEW D, NEW A, NEW m, Relied(o, ch, D, A, m), o # Idle
  PROVE  /\ o.do = "grow" => Enlarging(o, ch, m)
         /\ o.do = "add" => Adding(o, m)
         /\ o.do = "enter" => Entering(o, ch, D, A, m)
         /\ o.do = "put" => Writing(o, m)
         /\ o.do = "flush" => Flushing(o, m)
         /\ o.do # "grow" => Apace(o)
<1>1. /\ Enlarging(o, ch, m) => o.do = "grow"
      /\ Adding(o, m) => o.do = "add"
      /\ Entering(o, ch, D, A, m) => o.do = "enter"
      /\ Writing(o, m) => o.do = "put"
      /\ Flushing(o, m) => o.do = "flush"
  BY DEF Enlarging, Adding, Entering, Writing, Flushing, Grows
<1> QED  BY <1>1 DEF Relied, Apace

(***************************************************************************)
(* Inodes, and calls that start.                                           *)
(***************************************************************************)
(* r stands for m[f] with another buffer or length. *)
SameInode(r, m, f) ==
  /\ r \in Inodes /\ r.fst = m[f].fst /\ r.lst = m[f].lst /\ r.size = m[f].size
  /\ r.slot = m[f].slot

WithInode(m, f, r) == [m EXCEPT ![f] = r]

LEMMA InodeKept ==
  ASSUME NEW ch, NEW D, NEW A, NEW d, NEW m, NEW o, NEW lo, Volume(ch, D, A, d, m, o, lo),
         NEW f \in Files, m[f] # NoFile, NEW r, SameInode(r, m, f)
  PROVE  /\ Volume(ch, D, A, d, WithInode(m, f, r), o, lo)
         /\ OwnersIn(WithInode(m, f, r)) = OwnersIn(m)
<1>1. PICK w : w = WithInode(m, f, r) /\ w = [m EXCEPT ![f] = r]
  BY DEF WithInode
<1>2. m = [g \in Files |-> m[g]]
  BY DEF Volume, Shaped
<1>3. w = [g \in Files |-> w[g]] /\ \A g \in Files : w[g] = IF g = f THEN r ELSE m[g]
  BY <1>1, <1>2
<1>4. r # NoFile
  BY ValuesAssumption DEF SameInode
<1>5. \A g \in Files : w[g] # NoFile <=> m[g] # NoFile
  BY <1>3, <1>4
<1>6. \A g \in Files : w[g].fst = m[g].fst /\ w[g].lst = m[g].lst /\ w[g].size = m[g].size
                      /\ w[g].slot = m[g].slot
  BY <1>3 DEF SameInode
<1>7. OwnersIn(w) = OwnersIn(m)
  BY <1>5 DEF OwnersIn
<1>8. RootBytes(w) = RootBytes(m)
  <2>1. \A e \in Descs : e.name \in Files
    BY DEF Descs
  <2> QED  BY <1>5, <1>6, <2>1 DEF RootBytes
<1>9. \A x \in OwnersIn(m) : FirstIn(w, x) = FirstIn(m, x) /\ BytesIn(w, x) = BytesIn(m, x)
  BY <1>6, <1>8 DEF FirstIn, BytesIn, OwnersIn
<1>10. \A x \in OwnersIn(m) : \A s :
         RightSize(s, CacheIn(d, w, x), x, lo) <=> RightSize(s, CacheIn(d, m, x), x, lo)
  BY <1>6 DEF RightSize, CacheIn, OwnersIn
<1>11. Shaped(A, d, w)
  BY <1>3 DEF Volume, Shaped, SameInode
<1>12. \A x \in OwnersIn(w) : OwnChain(ch, D, w, o, x)
  BY <1>7, <1>9 DEF Volume, OwnChain
<1>13. Apart(ch, w)
  BY <1>7 DEF Volume, Apart
<1>14. \A x \in OwnersIn(w) : ~Unmarked(o, x) => RightSize(ch[x], CacheIn(d, w, x), x, lo)
  BY <1>7, <1>10 DEF Volume
<1>15. \A x \in OwnersIn(w) : OwnBytes(ch[x], A, Per(x), BytesIn(w, x))
  BY <1>7, <1>9 DEF Volume
<1>16. Listing(ch[Root], A, d, w, Due(o), More(o))
  <2>1. \A g \in Files : w[g] # NoFile => InSlot(ch[Root], A, d, w[g].slot, g)
    BY <1>5, <1>6 DEF Volume, Listing
  <2> QED  BY <1>8, <2>1 DEF Volume, Listing
<1>17. Spared(ch, w, o)
  BY <1>5, <1>6 DEF Volume, Spared
<1> QED  BY <1>1, <1>7, <1>11, <1>12, <1>13, <1>14, <1>15, <1>16, <1>17 DEF Volume

(* A buffer that is loaded is one of bytes. *)
LEMMA LoadedIs ==
  ASSUME Sound(tab), NEW ch, Volume(ch, tab.disk, data, dir, mem, Idle, lossy),
         NEW f \in Files, mem[f] # NoFile
  PROVE  SameInode(Loaded(f), mem, f) /\ Loaded(f).buf \in Seq(FileBytes)
<1>1. mem[f] \in Inodes /\ f \in OwnersIn(mem) /\ f # Root
  BY ValueFacts DEF Volume, Shaped, OwnersIn
<1>2. ~Unmarked(Idle, f)
  BY DEF Unmarked, Growing
<1>3. Closed(tab, ch[f])
  BY <1>1, <1>2, ClosedIs
<1>4. mem[f].fst = ch[f][1] /\ Per(mem[f].fst) = CS /\ Per(f) = CS
  BY <1>1, FirstIs, ValueFacts DEF FirstIn
<1>5. OwnBytes(ch[f], data, CS, FileBytes) /\ Len(ch[f]) \in Nat
  BY <1>1, <1>3, <1>4, StrungIs DEF Volume, BytesIn, Closed
<1>6. mem[f].size \in Nat
  BY <1>1 DEF Inodes
<1>7. Buffer(tab, data, mem[f].fst, mem[f].size) \in [1 .. mem[f].size -> FileBytes]
  <2>1. PICK n \in Nat : n = mem[f].size
    BY <1>6
  <2>2. PICK B : B = Buffer(tab, data, mem[f].fst, n)
    OBVIOUS
  <2>3. FilledFrom(B, n, data, ch[f], CS)
    BY <1>3, <1>4, <2>2, BufferIs
  <2>4. Junk \in FileBytes /\ CS \in Nat /\ CS >= 1
    BY FatAssumption, ValueFacts
  <2>5. B \in [1 .. n -> FileBytes]
    BY <1>5, <2>3, <2>4, FilledBytes
  <2> QED  BY <2>1, <2>2, <2>5
<1>8. Buffer(tab, data, mem[f].fst, mem[f].size) \in Seq(FileBytes)
  BY <1>6, <1>7
<1>9. CASE mem[f].buf = NoBuf
  <2>1. Loaded(f) = [mem[f] EXCEPT !.buf = Buffer(tab, data, mem[f].fst, mem[f].size)]
    BY <1>9 DEF Loaded
  <2> HIDE DEF Loaded
  <2>2. PICK B \in Seq(FileBytes) : Loaded(f) = [mem[f] EXCEPT !.buf = B]
    BY <1>8, <2>1
  <2> QED  BY <1>1, <2>2 DEF Inodes, SameInode
<1>10. CASE mem[f].buf # NoBuf
  BY <1>1, <1>10 DEF Loaded, SameInode, Inodes
<1> QED  BY <1>9, <1>10

LEMMA LoadedTabIs ==
  ASSUME Sound(tab), NEW f
  PROVE  Sound(LoadedTab(f)) /\ LoadedTab(f).disk = tab.disk
BY WalkedSound, MovedDisk DEF LoadedTab

(* An enlarge that begins has linked nothing. *)
EnlargeOp(who, n, lst, then) ==
  [do |-> "grow", who |-> who, left |-> (n + Per(who) - 1) \div Per(who), at |-> lst,
   more |-> ((n + Per(who) - 1) \div Per(who)) * Per(who), linked |-> FALSE, then |-> then]

LEMMA EnlargeIs == ASSUME NEW who, NEW n, NEW lst, NEW then, Enlarge(who, n, lst, then)
                   PROVE  op' = EnlargeOp(who, n, lst, then)
BY DEF Enlarge, EnlargeOp

LEMMA Distributes ==
  ASSUME NEW a \in Nat, NEW b \in Nat, NEW k \in Nat
  PROVE  k * (a + b) = k * a + b * k
OBVIOUS

LEMMA Opened ==
  ASSUME NEW ch, NEW D, NEW A, NEW d, NEW m, NEW lo, Volume(ch, D, A, d, m, Idle, lo),
         NEW who \in OwnersIn(m), NEW n \in Nat, n >= 1, NEW lst, lst = CacheIn(d, m, who).lst,
         NEW then, Onward(then, who, m)
  PROVE  Good(ch, D, A, d, m, EnlargeOp(who, n, lst, then), lo)
<1>1. PICK o : o = EnlargeOp(who, n, lst, then)
  OBVIOUS
<1>2. PICK p \in Nat : p = Per(who) /\ p >= 1
  BY PerNat
<1>3. PICK q \in Nat : q = (n + p - 1) \div p
  <2>1. n + p - 1 \in Nat
    BY <1>2
  <2> QED  BY <1>2, <2>1, Divided
<1>4. o = [do |-> "grow", who |-> who, left |-> q, at |-> lst, more |-> q * p, linked |-> FALSE,
           then |-> then]
  BY <1>1, <1>2, <1>3 DEF EnlargeOp
<1>5. q * p \in Nat
  BY <1>2, <1>3
<1>6. \A x : ~Unmarked(o, x) /\ ~Unmarked(Idle, x)
  BY <1>4 DEF Unmarked, Growing
<1>7. lst = LastOf(ch[who])
  BY <1>6 DEF Volume, RightSize
<1>8. lst \in Entries
  BY <1>7, StrungIs DEF Volume, OwnChain, LastOf
<1>9. then \in [do : {"add"}, who : Files] \cup [do : {"seek"}, p : 0 .. MaxLen]
               \cup [do : {"put"}, who : Files, p : Nat, n : Nat]
  BY DEF Onward, OwnersIn
<1>10. Enlarging(o, ch, m)
  <2>1. who \in Files \cup {Root}
    BY DEF OwnersIn
  <2>2. o \in Grows
    BY <1>4, <1>5, <1>8, <1>9, <2>1 DEF Grows
  <2> QED  BY <1>4, <1>7, <2>2 DEF Enlarging
<1>11. \A x \in OwnersIn(m) : OwnChain(ch, D, m, o, x)
  BY <1>6 DEF Volume, OwnChain
<1>12. \A x \in OwnersIn(m) : ~Unmarked(o, x) => RightSize(ch[x], CacheIn(d, m, x), x, lo)
  BY <1>6 DEF Volume
<1>13. Listing(ch[Root], A, d, m, Due(o), More(o))
  <2>1. Due(Idle) = 0 /\ More(Idle) = 0
    BY DEF Due, More, Growing
  <2>2. PICK len \in Nat : len = Len(ch[Root])
    BY StrungIs DEF Volume, OwnChain, OwnersIn
  <2>3. d.size \in Nat /\ DS \in Nat /\ DS * len <= d.size
    <3>1. len + 0 = len
      BY <2>2
    <3>2. DS * (len + 0) <= d.size + 0
      BY <2>1, <2>2 DEF Volume, Listing
    <3> QED  BY <3>1, <3>2, FatAssumption DEF Volume, Shaped
  <2>4. DS * (len + Due(o)) <= d.size + More(o)
    <3>1. CASE Growing(o, Root)
      <4>1. Due(o) = q /\ More(o) = q * p /\ p = DS
        BY <1>2, <1>4, <3>1, ValueFacts DEF Due, More, Growing
      <4>2. DS * (len + q) = DS * len + q * DS
        BY <1>3, <2>2, <2>3, Distributes
      <4>3. DS * len \in Nat /\ q * DS \in Nat
        BY <1>3, <2>2, <2>3
      <4> QED  BY <2>3, <4>1, <4>2, <4>3
    <3>2. CASE ~Growing(o, Root)
      <4>1. Due(o) = 0 /\ More(o) = 0 /\ len + 0 = len
        BY <2>2, <3>2 DEF Due, More
      <4> QED  BY <2>3, <4>1
    <3> QED  BY <3>1, <3>2
  <2> QED  BY <2>2, <2>4 DEF Volume, Listing
<1>14. Spared(ch, m, o)
  BY <1>6 DEF Spared
<1>15. Volume(ch, D, A, d, m, o, lo)
  BY <1>11, <1>12, <1>13, <1>14 DEF Volume
<1> QED  BY <1>1, <1>10, <1>15 DEF Good, Relied

LEMMA CreateStep ==
  ASSUME VolumeInv, NEW f \in Files, Create(f)
  PROVE  VolumeInv'
<1>1. ~torn /\ op = Idle /\ mem[f] = NoFile
  BY DEF Create
<1>2. PICK ch : Good(ch, tab.disk, data, dir, mem, Idle, lossy)
  BY <1>1 DEF VolumeInv
<1>3. UNCHANGED <<tab, data, dir, mem, lossy, torn>>
  BY DEF Create
<1>4. CASE op' = [do |-> "add", who |-> f]
  <2>1. Apace(Idle) /\ Apace(op')
    BY <1>4 DEF Apace
  <2>2. Adding(op', mem)
    BY <1>1, <1>4 DEF Adding
  <2>3. Volume(ch, tab.disk, data, dir, mem, op', lossy)
    BY <1>2, <2>1, SameVolume DEF Good
  <2>4. Good(ch, tab.disk, data, dir, mem, op', lossy)
    BY <2>2, <2>3 DEF Good, Relied
  <2> QED  BY <1>3, <2>4 DEF VolumeInv
<1>5. ASSUME NEW k \in 1 .. DS + 1, Enlarge(Root, k, dir.lst, [do |-> "add", who |-> f])
      PROVE  VolumeInv'
  <2> DEFINE then == [do |-> "add", who |-> f]
  <2>1. op' = EnlargeOp(Root, k, dir.lst, then)
    BY <1>5, EnlargeIs
  <2>2. k \in Nat /\ k >= 1
    BY FatAssumption
  <2>3. Root \in OwnersIn(mem) /\ dir.lst = CacheIn(dir, mem, Root).lst
    BY DEF OwnersIn, CacheIn
  <2>4. Onward(then, Root, mem)
    BY <1>1 DEF Onward
  <2> HIDE DEF then
  <2>5. Good(ch, tab.disk, data, dir, mem, EnlargeOp(Root, k, dir.lst, then), lossy)
    BY <1>2, <2>2, <2>3, <2>4, Opened DEF Good
  <2> QED  BY <1>3, <2>1, <2>5 DEF VolumeInv
<1> QED  BY <1>4, <1>5 DEF Create

LEMMA SeekStep ==
  ASSUME VolumeInv, NEW f \in Files, NEW p \in 0 .. MaxLen, Seek(f, p)
  PROVE  VolumeInv'
<1>1. ~torn /\ op = Idle /\ mem[f] # NoFile /\ p + 1 > mem[f].size
      /\ Enlarge(f, p + 1 - mem[f].size, mem[f].lst, [do |-> "seek", p |-> p])
      /\ UNCHANGED <<tab, data, dir, mem, lossy, torn>>
  BY DEF Seek
<1>2. PICK ch : Good(ch, tab.disk, data, dir, mem, Idle, lossy)
  BY <1>1 DEF VolumeInv
<1>3. f \in OwnersIn(mem) /\ f # Root
  BY <1>1, ValueFacts DEF OwnersIn
<1>4. mem[f].size \in Nat
  BY <1>1, <1>2 DEF Good, Volume, Shaped, Inodes
<1>5. PICK n \in Nat : n = p + 1 - mem[f].size /\ n >= 1
  BY <1>1, <1>4
<1> DEFINE then == [do |-> "seek", p |-> p]
<1>6. op' = EnlargeOp(f, n, mem[f].lst, then)
  BY <1>1, <1>5, EnlargeIs
<1>7. Onward(then, f, mem)
  BY <1>3 DEF Onward
<1>8. mem[f].lst = CacheIn(dir, mem, f).lst
  BY <1>3 DEF CacheIn
<1> HIDE DEF then
<1>9. Good(ch, tab.disk, data, dir, mem, EnlargeOp(f, n, mem[f].lst, then), lossy)
  BY <1>2, <1>3, <1>5, <1>7, <1>8, Opened DEF Good
<1> QED  BY <1>1, <1>6, <1>9 DEF VolumeInv

(* A read, and the first part of a write. *)
LEMMA LoadStep ==
  ASSUME Sound(tab), NEW ch, Volume(ch, tab.disk, data, dir, mem, Idle, lossy),
         NEW f \in Files, mem[f] # NoFile,
         mem' = [mem EXCEPT ![f] = Loaded(f)]
  PROVE  /\ Volume(ch, tab.disk, data, dir, mem', Idle, lossy) /\ OwnersIn(mem') = OwnersIn(mem)
         /\ mem'[f] # NoFile /\ mem'[f].buf \in Seq(FileBytes) /\ mem'[f].lst = mem[f].lst
<1>1. SameInode(Loaded(f), mem, f) /\ Loaded(f).buf \in Seq(FileBytes)
  BY LoadedIs
<1>2. PICK r : r = Loaded(f)
  OBVIOUS
<1>3. mem'[f] = r /\ mem' = WithInode(mem, f, r)
  BY <1>2 DEF Volume, Shaped, WithInode
<1>4. r \in Inodes /\ r.lst = mem[f].lst
  BY <1>1, <1>2 DEF SameInode
<1>5. Volume(ch, tab.disk, data, dir, WithInode(mem, f, r), Idle, lossy)
      /\ OwnersIn(WithInode(mem, f, r)) = OwnersIn(mem)
  <2>1. SameInode(r, mem, f)
    BY <1>1, <1>2
  <2> QED  BY <2>1, InodeKept
<1> QED  BY <1>1, <1>2, <1>3, <1>4, <1>5, ValuesAssumption

LEMMA ReadStep ==
  ASSUME Sound(tab), VolumeInv, NEW f \in Files, Read(f)
  PROVE  VolumeInv'
<1>1. ~torn /\ op = Idle /\ mem[f] # NoFile /\ mem' = [mem EXCEPT ![f] = Loaded(f)]
      /\ tab' = LoadedTab(f) /\ UNCHANGED <<data, dir, op, lossy, torn>>
  BY DEF Read
<1>2. PICK ch : Good(ch, tab.disk, data, dir, mem, Idle, lossy)
  BY <1>1 DEF VolumeInv
<1>3. Volume(ch, tab.disk, data, dir, mem', Idle, lossy)
  BY <1>1, <1>2, LoadStep DEF Good
<1>4. tab'.disk = tab.disk
  BY <1>1, LoadedTabIs
<1>5. Good(ch, tab'.disk, data', dir', mem', op', lossy')
  BY <1>1, <1>3, <1>4 DEF Good, Relied
<1> QED  BY <1>5 DEF VolumeInv

LEMMA WriteStep ==
  ASSUME Sound(tab), VolumeInv, NEW f \in Files, NEW p \in 0 .. MaxLen, NEW n \in Lens, Write(f, p, n)
  PROVE  VolumeInv'
<1> DEFINE then == [do |-> "put", who |-> f, p |-> p, n |-> n]
<1>1. ~torn /\ op = Idle /\ mem[f] # NoFile /\ mem' = [mem EXCEPT ![f] = Loaded(f)]
      /\ p + n <= MaxLen /\ tab' = LoadedTab(f) /\ UNCHANGED <<data, dir, lossy, torn>>
  BY DEF Write, Reachable
<1>2. IF mem[f].size < p + n THEN Enlarge(f, p + n - mem[f].size, mem[f].lst, then) ELSE op' = then
  BY DEF Write
<1>3. PICK ch : Good(ch, tab.disk, data, dir, mem, Idle, lossy)
  BY <1>1 DEF VolumeInv
<1>4. /\ Volume(ch, tab.disk, data, dir, mem', Idle, lossy) /\ OwnersIn(mem') = OwnersIn(mem)
      /\ mem'[f] # NoFile /\ mem'[f].buf \in Seq(FileBytes) /\ mem'[f].lst = mem[f].lst
  BY <1>1, <1>3, LoadStep DEF Good
<1>5. tab'.disk = tab.disk
  BY <1>1, LoadedTabIs
<1>6. n \in Nat /\ p \in Nat
  BY FatAssumption
<1>7. mem[f].size \in Nat
  BY <1>1, <1>3 DEF Good, Volume, Shaped, Inodes
<1>8. CASE op' = then
  <2>1. Writing(op', mem')
    BY <1>1, <1>4, <1>6, <1>8 DEF Writing
  <2>2. Apace(Idle) /\ Apace(op')
    BY <1>8 DEF Apace
  <2>3. Volume(ch, tab.disk, data, dir, mem', op', lossy)
    BY <1>4, <2>2, SameVolume
  <2>4. Good(ch, tab'.disk, data', dir', mem', op', lossy')
    BY <1>1, <1>5, <2>1, <2>3 DEF Good, Relied
  <2> QED  BY <2>4 DEF VolumeInv
<1>9. CASE mem[f].size < p + n /\ Enlarge(f, p + n - mem[f].size, mem[f].lst, then)
  <2>1. PICK k \in Nat : k = p + n - mem[f].size /\ k >= 1
    BY <1>6, <1>7, <1>9
  <2>2. op' = EnlargeOp(f, k, mem[f].lst, then)
    BY <1>9, <2>1, EnlargeIs
  <2>3. f \in OwnersIn(mem') /\ f # Root /\ CacheIn(dir, mem', f).lst = mem[f].lst
    BY <1>4, ValueFacts DEF OwnersIn, CacheIn
  <2>4. Onward(then, f, mem')
    BY <1>1, <1>6, <2>3 DEF Onward
  <2> HIDE DEF then
  <2>5. Good(ch, tab.disk, data, dir, mem', EnlargeOp(f, k, mem[f].lst, then), lossy)
    BY <1>4, <2>1, <2>3, <2>4, Opened
  <2> QED  BY <1>1, <1>5, <2>2, <2>5 DEF VolumeInv
<1> HIDE DEF then
<1> QED  BY <1>2, <1>8, <1>9

(***************************************************************************)
(* Steps that write clusters, and leave the chains.                        *)
(***************************************************************************)
LEMMA BytesKept ==
  ASSUME NEW s, NEW A, NEW C, NEW n, NEW B, OwnBytes(s, A, n, B),
         \A e \in SetOf(s) : C[e] = A[e]
  PROVE  OwnBytes(s, C, n, B)
BY DEF OwnBytes, SetOf

LEMMA SlotKept ==
  ASSUME NEW D, NEW s, Strung(D, s), NEW A, NEW C, NEW d, d.size \in Nat, NEW q, NEW f,
         InSlot(s, A, d, q, f), \A e \in SetOf(s) : C[e] = A[e]
  PROVE  InSlot(s, C, d, q, f)
<1>1. PICK n \in Nat : n = Len(s)
  BY StrungIs
<1>2. q \in Nat /\ q >= 1 /\ q <= DS * n
  BY <1>1 DEF InSlot, Within
<1>3. DS \in Nat /\ DS >= 1
  BY FatAssumption
<1>4. Part(DS, q) \in Nat /\ Part(DS, q) >= 1 /\ Part(DS, q) <= n
  BY <1>1, <1>2, <1>3, Parted
<1>5. Part(DS, q) \in 1 .. Len(s)
  BY <1>1, <1>4
<1>6. s[Part(DS, q)] \in SetOf(s)
  BY <1>5 DEF SetOf
<1> QED  BY <1>6 DEF InSlot, ByteAt

LEMMA ClustersKept ==
  ASSUME NEW ch, NEW D, NEW A, NEW d, NEW m, NEW o, NEW lo, Volume(ch, D, A, d, m, o, lo),
         NEW C, OverEntries(C),
         \A x \in OwnersIn(m) : OwnBytes(ch[x], C, Per(x), BytesIn(m, x)),
         \A e \in SetOf(ch[Root]) : C[e] = A[e]
  PROVE  Volume(ch, D, C, d, m, o, lo)
<1>1. Strung(D, ch[Root]) /\ d.size \in Nat
  BY DEF Volume, OwnChain, OwnersIn, Shaped
<1>2. \A f \in Files : m[f] # NoFile => InSlot(ch[Root], C, d, m[f].slot, f)
  BY <1>1, SlotKept DEF Volume, Listing
<1>3. Listing(ch[Root], C, d, m, Due(o), More(o))
  BY <1>2 DEF Volume, Listing
<1>4. Shaped(C, d, m)
  BY DEF Volume, Shaped
<1> QED  BY <1>3, <1>4 DEF Volume

LEMMA FlushStep ==
  ASSUME Sound(tab), VolumeInv, Flush
  PROVE  VolumeInv'
<1>1. ~torn /\ op # Idle /\ op.do = "flush"
      /\ data' = Flushed(tab, data, mem[op.who].fst, mem[op.who].buf)
      /\ tab' = Walked(tab, mem[op.who].fst) /\ op' = Idle /\ UNCHANGED <<dir, mem, lossy, torn>>
  BY DEF Flush, Busy
<1>2. PICK ch : Good(ch, tab.disk, data, dir, mem, op, lossy)
  BY <1>1 DEF VolumeInv
<1>3. Flushing(op, mem) /\ Apace(op)
  BY <1>1, <1>2, ReliedIs DEF Good
<1>4. PICK f \in Files : f = op.who /\ mem[f] # NoFile /\ mem[f].buf \in Seq(FileBytes)
  BY <1>3 DEF Flushing
<1>5. f \in OwnersIn(mem) /\ f # Root /\ Root \in OwnersIn(mem)
  BY <1>4, ValueFacts DEF OwnersIn
<1>6. ~Unmarked(op, f)
  BY <1>1 DEF Unmarked, Growing
<1>7. Volume(ch, tab.disk, data, dir, mem, op, lossy)
  BY <1>2 DEF Good
<1>8. Closed(tab, ch[f])
  BY <1>5, <1>6, <1>7, ClosedIs
<1>9. mem[f].fst = ch[f][1] /\ Per(mem[f].fst) = CS /\ Per(f) = CS
  <2>1. FirstIn(mem, f) = ch[f][1] /\ Per(FirstIn(mem, f)) = Per(f)
    BY <1>5, <1>7, FirstIs
  <2> QED  BY <1>5, <2>1, ValueFacts DEF FirstIn
<1>10. PICK size \in Nat : size = Len(mem[f].buf)
  BY <1>4
<1>11. mem[f].buf \in [1 .. size -> FileBytes]
  BY <1>4, <1>10
<1>12. OwnBytes(ch[f], data, CS, FileBytes) /\ Len(ch[f]) \in Nat
  BY <1>5, <1>7, <1>8, <1>9, StrungIs DEF Volume, BytesIn, Closed
<1>13. PICK C : C = Flushed(tab, data, mem[f].fst, mem[f].buf)
  OBVIOUS
<1>14. FlushedTo(C, data, ch[f], CS, mem[f].buf)
  BY <1>8, <1>9, <1>13, FlushedIs
<1>15. OwnBytes(ch[f], C, CS, FileBytes)
  BY <1>11, <1>12, <1>14, FlushedBytes, FatAssumption
<1>16. ASSUME NEW x \in OwnersIn(mem), x # f PROVE \A e \in SetOf(ch[x]) : C[e] = data[e]
  <2>1. Disjoint(SetOf(ch[x]), SetOf(ch[f]))
    BY <1>5, <1>7, <1>16 DEF Volume, Apart
  <2>2. \A e \in SetOf(ch[x]) : e \in Entries
    BY <1>7, StrungIs DEF Volume, OwnChain, SetOf
  <2> QED  BY <1>14, <2>1, <2>2 DEF Disjoint, FlushedTo
<1>17. \A x \in OwnersIn(mem) : OwnBytes(ch[x], C, Per(x), BytesIn(mem, x))
  <2> TAKE x \in OwnersIn(mem)
  <2>1. OwnBytes(ch[x], data, Per(x), BytesIn(mem, x))
    BY <1>7 DEF Volume
  <2>2. CASE x = f
    BY <1>5, <1>9, <1>15, <2>2 DEF BytesIn
  <2>3. CASE x # f
    BY <1>16, <2>1, <2>3, BytesKept
  <2> QED  BY <2>2, <2>3
<1>18. \A e \in SetOf(ch[Root]) : C[e] = data[e]
  BY <1>5, <1>16
<1>19. OverEntries(C)
  BY <1>14 DEF FlushedTo
<1>20. Volume(ch, tab.disk, C, dir, mem, op, lossy)
  BY <1>7, <1>19, <1>17, <1>18, ClustersKept
<1>21. Volume(ch, tab.disk, C, dir, mem, Idle, lossy)
  BY <1>3, <1>20, SameVolume DEF Apace
<1>22. tab'.disk = tab.disk /\ data' = C
  BY <1>1, <1>4, <1>13, MovedDisk
<1>23. Good(ch, tab'.disk, data', dir', mem', op', lossy')
  BY <1>1, <1>21, <1>22 DEF Good, Relied
<1> QED  BY <1>23 DEF VolumeInv

(* The directory is flushed: all of its chain is written. *)
LEMMA DirFlushed ==
  ASSUME NEW t, NEW s, Closed(t, s), s[1] = Root, NEW A, NEW size \in Nat,
         Covered(DS, s, size), NEW B, NEW buf \in [1 .. size -> B], OwnBytes(s, A, DS, B),
         NEW C, C = Flushed(t, A, Root, buf)
  PROVE  FlushedTo(C, A, s, DS, buf) /\ OwnBytes(s, C, DS, B)
<1>1. Root = s[1] /\ Per(Root) = DS
  BY ValueFacts
<1>2. FlushedTo(C, A, s, DS, buf)
  BY <1>1, FlushedIs
<1>3. Len(s) \in Nat /\ DS \in Nat
  BY StrungIs, FatAssumption DEF Closed
<1> QED  BY <1>2, <1>3, FlushedBytes

LEMMA ListingIs ==
  ASSUME NEW ch, NEW D, NEW A, NEW d, NEW m, NEW o, NEW lo, Volume(ch, D, A, d, m, o, lo), Apace(o)
  PROVE  /\ Strung(D, ch[Root]) /\ D[LastOf(ch[Root])] = NE /\ ch[Root][1] = Root
         /\ Len(ch[Root]) \in Nat /\ d.size \in Nat /\ Covered(DS, ch[Root], d.size)
         /\ OwnBytes(ch[Root], A, DS, RootBytes(m))
         /\ Due(o) = 0 /\ More(o) = 0
<1>1. ~Growing(o, Root) /\ ~Unmarked(o, Root)
  BY DEF Apace, Growing, Unmarked
<1>2. Due(o) = 0 /\ More(o) = 0
  BY <1>1 DEF Due, More
<1>3. Root \in OwnersIn(m)
  BY DEF OwnersIn
<1>4. Strung(D, ch[Root]) /\ D[LastOf(ch[Root])] = NE /\ ch[Root][1] = Root
  BY <1>1, <1>3 DEF Volume, OwnChain, FirstIn
<1>5. PICK n \in Nat : n = Len(ch[Root])
  BY <1>4, StrungIs
<1>6. PICK z \in Nat : z = d.size
  BY DEF Volume, Shaped
<1>7. DS * (n + 0) <= z + 0
  BY <1>2, <1>5, <1>6 DEF Volume, Listing
<1>8. n + 0 = n /\ z + 0 = z
  BY <1>5, <1>6
<1>9. Covered(DS, ch[Root], d.size)
  BY <1>5, <1>6, <1>7, <1>8 DEF Covered
<1>10. OwnBytes(ch[Root], A, DS, RootBytes(m))
  BY <1>3, ValueFacts DEF Volume, BytesIn
<1> QED  BY <1>2, <1>4, <1>5, <1>6, <1>9, <1>10

(* Clusters that are not the directory's are left. *)
LEMMA DirOthers ==
  ASSUME NEW ch, NEW D, NEW A, NEW d, NEW m, NEW o, NEW lo, Volume(ch, D, A, d, m, o, lo),
         NEW C, NEW buf, FlushedTo(C, A, ch[Root], DS, buf), NEW x \in OwnersIn(m), x # Root
  PROVE  OwnBytes(ch[x], C, Per(x), BytesIn(m, x))
<1>1. Disjoint(SetOf(ch[x]), SetOf(ch[Root]))
  BY DEF Volume, Apart, OwnersIn
<1>2. \A e \in SetOf(ch[x]) : e \in Entries
  BY StrungIs DEF Volume, OwnChain, SetOf
<1>3. \A e \in SetOf(ch[x]) : C[e] = A[e]
  BY <1>1, <1>2 DEF Disjoint, FlushedTo
<1>4. OwnBytes(ch[x], A, Per(x), BytesIn(m, x))
  BY DEF Volume
<1> QED  BY <1>3, <1>4, BytesKept

LEMMA Relisted ==
  ASSUME NEW t, Sound(t), NEW ch, NEW A, NEW d, NEW m, NEW o, NEW lo,
         Volume(ch, t.disk, A, d, m, o, lo), Apace(o), NEW buf \in [1 .. d.size -> RootBytes(m)],
         \A j \in 1 .. d.size : buf[j] = Zero => Within(DS, ch[Root], j),
         \A f \in Files : m[f] # NoFile => EntryOf(buf[m[f].slot], f),
         NEW C, C = Flushed(t, A, Root, buf), NEW z, z = [d EXCEPT !.buf = buf]
  PROVE  Volume(ch, t.disk, C, z, m, o, lo)
<1> DEFINE s == ch[Root]
<1>1. /\ Strung(t.disk, s) /\ t.disk[LastOf(s)] = NE /\ s[1] = Root /\ Len(s) \in Nat
      /\ d.size \in Nat /\ Covered(DS, s, d.size) /\ OwnBytes(s, A, DS, RootBytes(m))
      /\ Due(o) = 0 /\ More(o) = 0
  BY ListingIs
<1>2. Closed(t, s)
  BY <1>1 DEF Closed
<1>3. FlushedTo(C, A, s, DS, buf) /\ OwnBytes(s, C, DS, RootBytes(m))
  BY <1>1, <1>2, DirFlushed
<1>4. z.lst = d.lst /\ z.size = d.size /\ z.buf = buf /\ z = [lst |-> z.lst, size |-> z.size, buf |-> z.buf]
  BY DEF Volume, Shaped
<1>5. Shaped(C, z, m)
  BY <1>3, <1>4 DEF Volume, Shaped, FlushedTo
<1>6. \A x \in OwnersIn(m) : OwnBytes(ch[x], C, Per(x), BytesIn(m, x))
  <2> TAKE x \in OwnersIn(m)
  <2>1. CASE x = Root
    BY <1>3, <2>1, ValueFacts DEF BytesIn
  <2>2. CASE x # Root
    BY <1>3, <2>2, DirOthers
  <2> QED  BY <2>1, <2>2
<1>7. \A x \in OwnersIn(m) : ~Unmarked(o, x) => RightSize(ch[x], CacheIn(z, m, x), x, lo)
  BY <1>4 DEF Volume, RightSize, CacheIn
<1>8. ASSUME NEW f \in Files, m[f] # NoFile PROVE InSlot(s, C, z, m[f].slot, f)
  <2>1. PICK q \in 1 .. d.size : q = m[f].slot /\ Within(DS, s, q)
    BY <1>8 DEF Volume, Listing, InSlot
  <2>2. EntryOf(buf[q], f)
    BY <1>8, <2>1
  <2>3. DS \in Nat /\ DS >= 1
    BY FatAssumption
  <2>4. ByteAt(C, s, DS, q) = buf[q]
    <3>1. PICK n \in Nat : n = d.size
      BY <1>1
    <3>2. Len(buf) = n /\ q \in 1 .. n /\ Covered(DS, s, n) /\ Len(s) \in Nat
      BY <1>1, <3>1
    <3>3. FlushedTo(C, A, s, DS, buf) /\ Within(DS, s, q)
      BY <1>3, <2>1
    <3> HIDE DEF s
    <3> QED  BY <2>3, <3>2, <3>3, FlushedByte
  <2> QED  BY <1>4, <2>1, <2>2, <2>4 DEF InSlot
<1>9. Listing(s, C, z, m, Due(o), More(o))
  BY <1>4, <1>8 DEF Volume, Listing
<1> QED  BY <1>5, <1>6, <1>7, <1>9 DEF Volume

LEMMA PutStep ==
  ASSUME Sound(tab), VolumeInv, Put
  PROVE  VolumeInv'
<1>1. ~torn /\ op # Idle /\ op.do = "put"
  BY DEF Put, Busy
<1>2. PICK ch : Good(ch, tab.disk, data, dir, mem, op, lossy)
  BY <1>1 DEF VolumeInv
<1>3. Volume(ch, tab.disk, data, dir, mem, op, lossy) /\ Writing(op, mem) /\ Apace(op)
  BY <1>1, <1>2, ReliedIs DEF Good
<1>4. PICK f \in Files : f = op.who /\ mem[f] # NoFile /\ mem[f].buf \in Seq(FileBytes)
  BY <1>3 DEF Writing
<1> DEFINE end == op.p + op.n
           B == [i \in 1 .. Len(mem[f].buf) |-> IF op.p < i /\ i <= end THEN f ELSE mem[f].buf[i]]
           ent == [dir.buf EXCEPT ![mem[f].slot].len = end]
<1>5. end \in 0 .. MaxLen
  BY <1>3, FatAssumption DEF Writing
<1>6. B \in Seq(FileBytes)
  BY <1>4, ValueFacts
<1>7. mem[f] \in Inodes
  BY <1>3, <1>4 DEF Volume, Shaped
<1>8. PICK b : b = B /\ b \in Seq(FileBytes)
  BY <1>6
<1>9. PICK l \in 0 .. MaxLen : l = end
  BY <1>5
<1>10. op' = [do |-> "flush", who |-> f] /\ UNCHANGED <<lossy, torn>>
  BY <1>4 DEF Put
<1>11. IF end > mem[f].len
       THEN /\ mem' = [mem EXCEPT ![f].buf = b, ![f].len = l]
            /\ dir' = [dir EXCEPT !.buf = ent]
            /\ data' = Flushed(tab, data, Root, ent)
            /\ tab' = Walked(tab, Root)
       ELSE mem' = [mem EXCEPT ![f].buf = b] /\ UNCHANGED <<dir, data, tab>>
  BY <1>4, <1>8, <1>9 DEF Put
<1> HIDE DEF B, end
<1>12. Apace(op')
  BY <1>10 DEF Apace
<1>13. ASSUME NEW A, NEW d, Volume(ch, tab.disk, A, d, mem, op, lossy), NEW r, SameInode(r, mem, f),
              r.buf = b, mem' = WithInode(mem, f, r), data' = A, dir' = d, tab'.disk = tab.disk
       PROVE  VolumeInv'
  <2>1. Volume(ch, tab.disk, A, d, mem', op, lossy)
    BY <1>4, <1>13, InodeKept
  <2>2. Volume(ch, tab.disk, A, d, mem', op', lossy)
    BY <1>3, <1>12, <2>1, SameVolume
  <2>3. mem'[f] = r
    BY <1>3, <1>13 DEF WithInode, Volume, Shaped
  <2>4. r # NoFile
    BY <1>13, ValuesAssumption DEF SameInode
  <2>5. Flushing(op', mem')
    BY <1>8, <1>10, <1>13, <2>3, <2>4 DEF Flushing
  <2>6. Good(ch, tab'.disk, data', dir', mem', op', lossy')
    BY <1>10, <1>13, <2>2, <2>5 DEF Good, Relied
  <2> QED  BY <2>6 DEF VolumeInv
<1>14. CASE end > mem[f].len
  <2>1. PICK r : r = [mem[f] EXCEPT !.buf = b, !.len = l]
    OBVIOUS
  <2>2. SameInode(r, mem, f) /\ r.buf = b
    BY <1>7, <1>8, <1>9, <2>1 DEF SameInode, Inodes
  <2>3. mem' = WithInode(mem, f, r)
    BY <1>11, <1>14, <2>1 DEF WithInode
  <2>4. PICK q \in 1 .. dir.size : q = mem[f].slot /\ EntryOf(dir.buf[q], f)
    BY <1>3, <1>4 DEF Volume, Listing, InSlot
  <2>5. dir.buf \in [1 .. dir.size -> RootBytes(mem)]
    BY <1>3 DEF Volume, Listing
  <2>6. PICK e : e = [dir.buf[q] EXCEPT !.len = l]
    OBVIOUS
  <2>7. ent = [dir.buf EXCEPT ![q] = e]
    BY <1>9, <2>4, <2>6
  <2>8. e \in Descs /\ e.name = f /\ e.fst = dir.buf[q].fst
    BY <1>9, <2>4, <2>6 DEF EntryOf, Descs
  <2>9. e \in RootBytes(mem)
    <3>1. dir.buf[q] \in RootBytes(mem) /\ dir.buf[q] \in Descs /\ dir.buf[q].name = f
      BY <2>4, <2>5 DEF EntryOf
    <3>2. dir.buf[q] \notin {Zero, Junk}
      BY <3>1, ValueFacts
    <3>3. dir.buf[q].fst = mem[f].fst
      BY <3>1, <3>2 DEF RootBytes
    <3> QED  BY <1>4, <2>8, <3>3 DEF RootBytes
  <2>10. PICK n \in [1 .. dir.size -> RootBytes(mem)] :
           n = ent /\ \A j \in 1 .. dir.size : n[j] = IF j = q THEN e ELSE dir.buf[j]
    BY <2>5, <2>7, <2>9
  <2>11. \A j \in 1 .. dir.size : n[j] = Zero => Within(DS, ch[Root], j)
    <3>1. e # Zero
      BY <2>8, ValueFacts
    <3> QED  BY <1>3, <2>10, <3>1 DEF Volume, Listing
  <2>12. \A g \in Files : mem[g] # NoFile => EntryOf(n[mem[g].slot], g)
    <3> SUFFICES ASSUME NEW g \in Files, mem[g] # NoFile PROVE EntryOf(n[mem[g].slot], g)
      OBVIOUS
    <3>1. PICK j \in 1 .. dir.size : j = mem[g].slot /\ EntryOf(dir.buf[j], g)
      BY <1>3 DEF Volume, Listing, InSlot
    <3>2. CASE j = q
      BY <2>4, <2>8, <2>10, <3>1, <3>2 DEF EntryOf
    <3>3. CASE j # q
      BY <2>10, <3>1, <3>3
    <3> QED  BY <3>2, <3>3
  <2>13. data' = Flushed(tab, data, Root, n) /\ dir' = [dir EXCEPT !.buf = n]
    BY <1>11, <1>14, <2>10
  <2>14. Volume(ch, tab.disk, data', dir', mem, op, lossy)
    BY <1>3, <2>11, <2>12, <2>13, Relisted
  <2>15. tab'.disk = tab.disk
    BY <1>11, <1>14, MovedDisk
  <2> QED  BY <1>13, <2>2, <2>3, <2>14, <2>15
<1>15. CASE ~(end > mem[f].len)
  <2>1. PICK r : r = [mem[f] EXCEPT !.buf = b]
    OBVIOUS
  <2>2. SameInode(r, mem, f) /\ r.buf = b
    BY <1>7, <1>8, <2>1 DEF SameInode, Inodes
  <2>3. mem' = WithInode(mem, f, r)
    BY <1>11, <1>15, <2>1 DEF WithInode
  <2> QED  BY <1>3, <1>11, <1>13, <1>15, <2>2, <2>3
<1> QED  BY <1>14, <1>15

LEMMA AddStep ==
  ASSUME Sound(tab), VolumeInv, Add
  PROVE  VolumeInv'
<1>1. ~torn /\ op # Idle /\ op.do = "add"
  BY DEF Add, Busy
<1>2. PICK ch : Good(ch, tab.disk, data, dir, mem, op, lossy)
  BY <1>1 DEF VolumeInv
<1>3. Volume(ch, tab.disk, data, dir, mem, op, lossy) /\ Adding(op, mem) /\ Apace(op)
  BY <1>1, <1>2, ReliedIs DEF Good
<1>4. UNCHANGED <<dir, mem, lossy, torn>>
  BY DEF Add
<1>5. ASSUME tab' = MovedTo(tab, AtEnd(tab)), op' = Idle, UNCHANGED data PROVE VolumeInv'
  <2>1. tab'.disk = tab.disk
    BY <1>5, MovedDisk
  <2>2. Volume(ch, tab.disk, data, dir, mem, Idle, lossy)
    BY <1>3, SameVolume DEF Apace
  <2>3. Good(ch, tab'.disk, data', dir', mem', op', lossy')
    BY <1>4, <1>5, <2>1, <2>2 DEF Good, Relied
  <2> QED  BY <2>3 DEF VolumeInv
<1>6. ASSUME NEW v \in Entries, IsFirst(FreeFrom(tab), v), tab' = Marked(tab, v),
             data' = [data EXCEPT ![v] = Zeros(op.who)],
             op' = [do |-> "enter", who |-> op.who, at |-> v]
      PROVE  VolumeInv'
  <2>1. v \in Nat /\ v > Root /\ tab.disk[v] = 0
    BY <1>6, FreeIs DEF IsFirst
  <2>2. Sound(MovedTo(tab, v)) /\ MovedTo(tab, v).disk = tab.disk
    BY MovedSound, MovedDisk
  <2>3. PICK E : E = [e \in Entries |-> IF e = v THEN NE ELSE tab.disk[e]] /\ tab'.disk = E
    <3>1. PICK u : u = MovedTo(tab, v)
      OBVIOUS
    <3>2. SetValue(u, v, NE).disk = [e \in Entries |-> IF e = v THEN NE ELSE u.disk[e]]
      BY <2>2, <3>1, SetDisk
    <3> QED  BY <1>6, <2>2, <3>1, <3>2 DEF Marked
  <2>4. \A x \in OwnersIn(mem) : v \notin SetOf(ch[x]) /\ ~Unmarked(op, x)
    <3> TAKE x \in OwnersIn(mem)
    <3>1. ~Unmarked(op, x)
      BY <1>3 DEF Apace, Unmarked, Growing
    <3> QED  BY <1>3, <2>1, <3>1, FreeApart
  <2>5. \A x \in OwnersIn(mem) : \A i \in 1 .. Len(ch[x]) : E[ch[x][i]] = tab.disk[ch[x][i]]
    <3> TAKE x \in OwnersIn(mem)
    <3> TAKE i \in 1 .. Len(ch[x])
    <3>1. ch[x][i] # v
      BY <2>4 DEF SetOf
    <3>2. ch[x][i] \in Entries
      BY <1>3, StrungIs DEF Volume, OwnChain
    <3> QED  BY <2>3, <3>1, <3>2
  <2>6. ASSUME NEW x \in OwnersIn(mem) PROVE OwnChain(ch, E, mem, op', x)
    <3>1. Strung(tab.disk, ch[x]) /\ ch[x][1] = FirstIn(mem, x) /\ tab.disk[LastOf(ch[x])] = NE
      BY <1>3, <2>4 DEF Volume, OwnChain
    <3>2. PICK n \in Nat : n = Len(ch[x]) /\ n >= 1
      BY <3>1, StrungIs
    <3>3. \A i \in 1 .. n - 1 : i \in 1 .. n
      BY <3>2
    <3>4. Strung(E, ch[x])
      BY <2>5, <3>1, <3>2, <3>3, StrungKept
    <3>5. E[LastOf(ch[x])] = NE
      BY <2>5, <3>1, <3>2 DEF LastOf
    <3>6. ~Unmarked(op', x)
      BY <1>6 DEF Unmarked, Growing
    <3> QED  BY <3>1, <3>4, <3>5, <3>6 DEF OwnChain
  <2>7. PICK C : C = [data EXCEPT ![v] = Zeros(op.who)]
    OBVIOUS
  <2>8. data = [e \in Entries |-> data[e]]
    BY <1>3 DEF Volume, Shaped, OverEntries
  <2>9. OverEntries(C) /\ \A e \in Entries : C[e] = IF e = v THEN Zeros(op.who) ELSE data[e]
    BY <2>7, <2>8 DEF OverEntries
  <2>10. \A x \in OwnersIn(mem) : \A e \in SetOf(ch[x]) : C[e] = data[e]
    <3> TAKE x \in OwnersIn(mem)
    <3>1. \A e \in SetOf(ch[x]) : e \in Entries /\ e # v
      BY <1>3, <2>4, StrungIs DEF Volume, OwnChain, SetOf
    <3> QED  BY <2>9, <3>1
  <2>11. \A x \in OwnersIn(mem) : OwnBytes(ch[x], C, Per(x), BytesIn(mem, x))
    BY <1>3, <2>10, BytesKept DEF Volume
  <2>12. Volume(ch, tab.disk, C, dir, mem, op, lossy)
    <3>1. \A e \in SetOf(ch[Root]) : C[e] = data[e]
      BY <2>10 DEF OwnersIn
    <3> QED  BY <1>3, <2>9, <2>11, <3>1, ClustersKept
  <2>13. Volume(ch, tab.disk, C, dir, mem, op', lossy)
    BY <1>3, <1>6, <2>12, SameVolume DEF Apace
  <2>14. Volume(ch, E, C, dir, mem, op', lossy)
    BY <2>6, <2>13 DEF Volume
  <2>15. Entering(op', ch, E, C, mem)
    <3>1. op.who \in Files /\ mem[op.who] = NoFile
      BY <1>3 DEF Adding
    <3>2. Per(op.who) = CS
      BY <3>1, ValueFacts
    <3>3. C[v] \in [1 .. CS -> FileBytes]
      BY <2>9, <3>2, ValueFacts DEF Zeros
    <3>4. E[v] = NE
      BY <2>3
    <3>5. v >= Root
      BY <2>1, ValueFacts
    <3> QED  BY <1>6, <2>4, <3>1, <3>3, <3>4, <3>5 DEF Entering
  <2>16. Good(ch, tab'.disk, data', dir', mem', op', lossy')
    BY <1>4, <1>6, <2>3, <2>7, <2>14, <2>15 DEF Good, Relied
  <2> QED  BY <2>16 DEF VolumeInv
<1> QED  BY <1>5, <1>6 DEF Add

LEMMA EnterStep ==
  ASSUME Sound(tab), VolumeInv, Enter
  PROVE  VolumeInv'
<1>1. ~torn /\ op # Idle /\ op.do = "enter"
  BY DEF Enter, Busy
<1>2. PICK ch : Good(ch, tab.disk, data, dir, mem, op, lossy)
  BY <1>1 DEF VolumeInv
<1>3. /\ Volume(ch, tab.disk, data, dir, mem, op, lossy) /\ Entering(op, ch, tab.disk, data, mem)
      /\ Apace(op)
  BY <1>1, <1>2, ReliedIs DEF Good
<1>4. PICK f \in Files : f = op.who /\ mem[f] = NoFile
  BY <1>3 DEF Entering
<1>5. PICK v \in Entries : v = op.at
  BY <1>3 DEF Entering
<1> DEFINE s == ch[Root]
           new == [name |-> f, fst |-> v, len |-> 0]
           ino(i) == [fst |-> v, lst |-> v, size |-> CS, buf |-> NoBuf, len |-> 0, slot |-> i]
<1>6. PICK i \in 1 .. Len(dir.buf) :
        /\ dir.buf[i] = Zero
        /\ dir' = [dir EXCEPT !.buf = [dir.buf EXCEPT ![i] = new]]
        /\ data' = Flushed(tab, data, Root, [dir.buf EXCEPT ![i] = new])
        /\ tab' = Walked(tab, Root)
        /\ mem' = [mem EXCEPT ![f] = ino(i)]
  BY <1>4, <1>5 DEF Enter, IsFirst
<1>7. op' = Idle /\ UNCHANGED lossy
  BY DEF Enter
<1>8. /\ Strung(tab.disk, s) /\ tab.disk[LastOf(s)] = NE /\ s[1] = Root /\ Len(s) \in Nat
      /\ dir.size \in Nat /\ Covered(DS, s, dir.size) /\ OwnBytes(s, data, DS, RootBytes(mem))
      /\ Due(op) = 0 /\ More(op) = 0
  BY <1>3, ListingIs
<1>9. dir.buf \in [1 .. dir.size -> RootBytes(mem)]
  BY <1>3 DEF Volume, Listing
<1>10. PICK size \in Nat : size = dir.size /\ Len(dir.buf) = size
  BY <1>8, <1>9
<1>11. i \in 1 .. size /\ i \in Nat \ {0}
  BY <1>6, <1>10
<1>12. PICK r : r = ino(i)
  OBVIOUS
<1>13. r \in Inodes /\ r # NoFile
  <2>1. CS \in Nat /\ 0 \in 0 .. MaxLen
    BY FatAssumption
  <2>2. r \in Inodes
    BY <1>11, <1>12, <2>1 DEF Inodes
  <2> QED  BY <2>2, ValuesAssumption
<1>14. mem = [g \in Files |-> mem[g]]
  BY <1>3 DEF Volume, Shaped
<1>15. mem' = [g \in Files |-> mem'[g]] /\ \A g \in Files : mem'[g] = IF g = f THEN r ELSE mem[g]
  BY <1>6, <1>12, <1>14
<1>16. OwnersIn(mem') = OwnersIn(mem) \cup {f} /\ f \notin OwnersIn(mem) /\ f # Root
  BY <1>4, <1>13, <1>15, ValueFacts DEF OwnersIn
<1>17. new \in Descs
  <2>1. 0 \in 0 .. MaxLen
    BY FatAssumption
  <2> QED  BY <2>1 DEF Descs
<1>18. new \in RootBytes(mem') /\ RootBytes(mem) \subseteq RootBytes(mem')
  <2>1. mem'[f] # NoFile /\ mem'[f].fst = v
    BY <1>12, <1>13, <1>15
  <2>2. new \in RootBytes(mem')
    BY <1>17, <2>1 DEF RootBytes
  <2>3. \A e \in Descs : mem[e.name] # NoFile => e.name \in Files /\ e.name # f
    BY <1>4 DEF Descs
  <2> QED  BY <1>15, <2>2, <2>3 DEF RootBytes
<1>19. PICK ent : ent = new
  OBVIOUS
<1>20. PICK buf \in [1 .. size -> RootBytes(mem')] :
         /\ buf = [dir.buf EXCEPT ![i] = new]
         /\ \A j \in 1 .. size : buf[j] = IF j = i THEN ent ELSE dir.buf[j]
  <2>1. [dir.buf EXCEPT ![i] = new] \in [1 .. size -> RootBytes(mem')]
    BY <1>9, <1>10, <1>18
  <2> QED  BY <1>9, <1>10, <1>19, <2>1
<1>21. EntryOf(ent, f) /\ ent # Zero
  BY <1>17, <1>19, ValueFacts DEF EntryOf
<1>22. Closed(tab, s)
  BY <1>8 DEF Closed
<1>23. OwnBytes(s, data, DS, RootBytes(mem'))
  <2>1. \A k \in 1 .. Len(s) : data[s[k]] \in [1 .. DS -> RootBytes(mem)]
    BY <1>8 DEF OwnBytes
  <2> QED  BY <1>18, <2>1 DEF OwnBytes
<1>24. data' = Flushed(tab, data, Root, buf)
  BY <1>6, <1>20
<1>25. FlushedTo(data', data, s, DS, buf) /\ OwnBytes(s, data', DS, RootBytes(mem'))
  <2>1. Covered(DS, s, size)
    BY <1>8, <1>10
  <2> HIDE DEF s
  <2> QED  BY <1>8, <1>22, <1>23, <1>24, <2>1, DirFlushed
<1>26. PICK h : h = [x \in OwnersIn(mem') |-> IF x = f THEN <<v>> ELSE ch[x]]
  OBVIOUS
<1>27. h[f] = <<v>> /\ h[Root] = s /\ \A x \in OwnersIn(mem) : h[x] = ch[x]
  <2>1. Root \in OwnersIn(mem)
    BY DEF OwnersIn
  <2> QED  BY <1>16, <1>26, <2>1
<1>28. /\ Strung(tab.disk, <<v>>) /\ LastOf(<<v>>) = v /\ SetOf(<<v>>) = {v} /\ Len(<<v>>) = 1
       /\ <<v>>[1] = v /\ tab.disk[v] = NE /\ data[v] \in [1 .. CS -> FileBytes]
       /\ \A x \in OwnersIn(mem) : v \notin SetOf(ch[x])
  <2>1. /\ v >= Root /\ tab.disk[v] = NE /\ data[v] \in [1 .. CS -> FileBytes]
        /\ \A x \in OwnersIn(mem) : v \notin SetOf(ch[x])
    BY <1>3, <1>5 DEF Entering
  <2> QED  BY <2>1, StrungOne
<1>29. \A x : ~Unmarked(Idle, x) /\ ~Unmarked(op, x)
  BY <1>1 DEF Unmarked, Growing
<1>30. dir'.lst = dir.lst /\ dir'.size = size /\ dir'.buf = buf
       /\ dir' = [lst |-> dir'.lst, size |-> dir'.size, buf |-> dir'.buf]
  BY <1>3, <1>6, <1>10, <1>20 DEF Volume, Shaped
<1>31. Shaped(data', dir', mem')
  <2>1. OverEntries(data')
    BY <1>25 DEF FlushedTo
  <2>2. \A g \in Files : mem'[g] # NoFile => mem'[g] \in Inodes
    BY <1>3, <1>13, <1>15 DEF Volume, Shaped
  <2> QED  BY <1>15, <1>30, <2>1, <2>2 DEF Shaped
<1>32. ASSUME NEW x \in OwnersIn(mem) PROVE FirstIn(mem', x) = FirstIn(mem, x)
  BY <1>15, <1>16 DEF FirstIn, OwnersIn
<1>33. FirstIn(mem', f) = v
  BY <1>12, <1>15, <1>16 DEF FirstIn
<1>34. \A x \in OwnersIn(mem') : OwnChain(h, tab.disk, mem', Idle, x)
  <2> TAKE x \in OwnersIn(mem')
  <2>1. CASE x = f
    BY <1>27, <1>28, <1>29, <1>33, <2>1 DEF OwnChain
  <2>2. CASE x # f
    <3>1. x \in OwnersIn(mem)
      BY <1>16, <2>2
    <3>2. OwnChain(ch, tab.disk, mem, op, x)
      BY <1>3, <3>1 DEF Volume
    <3> QED  BY <1>27, <1>29, <1>32, <3>1, <3>2 DEF OwnChain
  <2> QED  BY <2>1, <2>2
<1>35. Apart(h, mem')
  <2>1. \A x \in OwnersIn(mem) : Disjoint(SetOf(h[x]), SetOf(h[f])) /\ Disjoint(SetOf(h[f]), SetOf(h[x]))
    BY <1>27, <1>28 DEF Disjoint
  <2>2. \A x, y \in OwnersIn(mem) : x # y => Disjoint(SetOf(h[x]), SetOf(h[y]))
    BY <1>3, <1>27 DEF Volume, Apart
  <2> QED  BY <1>16, <2>1, <2>2 DEF Apart
<1>36. \A x \in OwnersIn(mem') : RightSize(h[x], CacheIn(dir', mem', x), x, lossy)
  <2> TAKE x \in OwnersIn(mem')
  <2>1. CASE x = f
    <3>1. CacheIn(dir', mem', x) = r /\ r.lst = v /\ r.size = CS
      BY <1>12, <1>15, <1>16, <2>1 DEF CacheIn
    <3>2. Per(x) * Len(h[x]) = CS
      <4>1. Per(x) = CS /\ Len(h[x]) = 1 /\ CS \in Nat
        BY <1>16, <1>27, <1>28, <2>1, ValueFacts, FatAssumption
      <4> QED  BY <4>1
    <3> QED  BY <1>27, <1>28, <2>1, <3>1, <3>2 DEF RightSize
  <2>2. CASE x # f
    <3>1. x \in OwnersIn(mem)
      BY <1>16, <2>2
    <3>2. RightSize(ch[x], CacheIn(dir, mem, x), x, lossy)
      BY <1>3, <1>29, <3>1 DEF Volume
    <3>3. CacheIn(dir', mem', x).lst = CacheIn(dir, mem, x).lst
          /\ CacheIn(dir', mem', x).size = CacheIn(dir, mem, x).size
      BY <1>10, <1>15, <1>30, <2>2, <3>1 DEF CacheIn, OwnersIn
    <3> QED  BY <1>27, <3>1, <3>2, <3>3 DEF RightSize
  <2> QED  BY <2>1, <2>2
<1>37. \A x \in OwnersIn(mem') : OwnBytes(h[x], data', Per(x), BytesIn(mem', x))
  <2> TAKE x \in OwnersIn(mem')
  <2>1. CASE x = f
    <3>1. data'[v] = data[v]
      <4>1. v \notin SetOf(s)
        BY <1>28 DEF OwnersIn
      <4> QED  BY <1>25, <4>1 DEF FlushedTo
    <3>2. \A k \in 1 .. Len(<<v>>) : <<v>>[k] = v
      BY <1>28
    <3> QED  BY <1>16, <1>27, <1>28, <2>1, <3>1, <3>2, ValueFacts DEF OwnBytes, BytesIn
  <2>2. CASE x = Root
    BY <1>25, <1>27, <2>2, ValueFacts DEF BytesIn
  <2>3. CASE x # f /\ x # Root
    <3>1. x \in OwnersIn(mem)
      BY <1>16, <2>3
    <3>2. OwnBytes(ch[x], data', Per(x), BytesIn(mem, x))
      BY <1>3, <1>25, <2>3, <3>1, DirOthers
    <3> QED  BY <1>27, <2>3, <3>1, <3>2 DEF BytesIn
  <2> QED  BY <2>1, <2>2, <2>3
<1>38. ASSUME NEW g, NEW q \in 1 .. size, Within(DS, s, q), EntryOf(buf[q], g)
       PROVE  InSlot(s, data', dir', q, g)
  <2>1. Covered(DS, s, size) /\ Len(buf) = size /\ DS \in Nat /\ DS >= 1
    BY <1>8, <1>10, FatAssumption
  <2>2. ByteAt(data', s, DS, q) = buf[q]
    <3> HIDE DEF s
    <3> QED  BY <1>8, <1>25, <1>38, <2>1, FlushedByte
  <2> QED  BY <1>30, <1>38, <2>2 DEF InSlot
<1>39. Listing(s, data', dir', mem', Due(Idle), More(Idle))
  <2>1. Due(Idle) = Due(op) /\ More(Idle) = More(op)
    BY <1>8 DEF Due, More, Growing
  <2>2. \A j \in 1 .. size : buf[j] = Zero => Within(DS, s, j)
    BY <1>3, <1>10, <1>20, <1>21 DEF Volume, Listing
  <2>3. ASSUME NEW g \in Files, mem'[g] # NoFile PROVE InSlot(s, data', dir', mem'[g].slot, g)
    <3>1. CASE g = f
      <4>1. mem'[g].slot = i /\ Within(DS, s, i) /\ EntryOf(buf[i], g)
        BY <1>3, <1>6, <1>10, <1>11, <1>12, <1>15, <1>20, <1>21, <3>1 DEF Volume, Listing
      <4> QED  BY <1>11, <1>38, <4>1
    <3>2. CASE g # f
      <4>1. mem'[g] = mem[g] /\ mem[g] # NoFile
        BY <1>15, <2>3, <3>2
      <4>2. PICK q \in 1 .. size : q = mem[g].slot /\ EntryOf(dir.buf[q], g) /\ Within(DS, s, q)
        BY <1>3, <1>10, <4>1 DEF Volume, Listing, InSlot
      <4>3. q # i
        BY <1>6, <4>2, ValueFacts DEF EntryOf
      <4>4. EntryOf(buf[q], g)
        BY <1>20, <4>2, <4>3
      <4> QED  BY <1>38, <4>1, <4>2, <4>4
    <3> QED  BY <3>1, <3>2
  <2>4. DS * (Len(s) + Due(op)) <= dir.size + More(op)
    BY <1>3 DEF Volume, Listing
  <2> HIDE DEF s
  <2> QED  BY <1>10, <1>20, <1>30, <2>1, <2>2, <2>3, <2>4 DEF Listing
<1>40. Volume(h, tab.disk, data', dir', mem', Idle, lossy)
  <2>1. Spared(h, mem', Idle)
    BY <1>29 DEF Spared
  <2> QED  BY <1>27, <1>31, <1>34, <1>35, <1>36, <1>37, <1>39, <2>1 DEF Volume
<1>41. tab'.disk = tab.disk
  BY <1>6, MovedDisk
<1>42. Good(h, tab'.disk, data', dir', mem', op', lossy')
  BY <1>7, <1>40, <1>41 DEF Good, Relied
<1> QED  BY <1>42 DEF VolumeInv

(* What fat_mount reads back: the directory whole, and the entry of every  *)
(* file whose chain is known. *)
LEMMA MountStep ==
  ASSUME Sound(tab), VolumeInv, Mount
  PROVE  VolumeInv'
<1>1. ~torn
  BY DEF Mount
<1>2. PICK ch : Good(ch, tab.disk, data, dir, mem, op, lossy)
  BY <1>1 DEF VolumeInv
<1>3. CASE op # Idle /\ op.do = "grow" /\ op.linked
  <2>1. torn'
    BY <1>3 DEF Mount
  <2> QED  BY <2>1 DEF VolumeInv
<1>4. CASE ~(op # Idle /\ op.do = "grow" /\ op.linked)
  <2> DEFINE s == ch[Root]
             t0 == Load([disk |-> tab.disk, win |-> 0, dat |-> <<>>], 0)
             rc == Chain(t0, Root)
             bf == Buffer(t0, data, Root, DS * Len(rc))
             has(f) == \E i \in Slots(bf) : bf[i].name = f
             slot(f) == CHOOSE i \in Slots(bf) : bf[i].name = f
  <2>1. /\ \E c : tab' = Walked(t0, c)
        /\ dir' = [lst |-> rc[Len(rc)], size |-> DS * Len(rc), buf |-> bf]
        /\ mem' = [f \in Files |-> IF has(f) THEN Inode(t0, bf, slot(f)) ELSE NoFile]
        /\ op' = Idle /\ UNCHANGED data
    BY DEF Mount, Mounted
  <2>2. \A x : ~Unmarked(op, x) /\ ~Unmarked(Idle, x)
    BY <1>4 DEF Unmarked, Growing
  <2>3. Volume(ch, tab.disk, data, dir, mem, op, lossy)
    BY <1>2 DEF Good
  <2>4. Sound(t0) /\ t0.disk = tab.disk
    <3>1. tab.disk = [e \in Entries |-> tab.disk[e]]
      BY DEF Sound
    <3> QED  BY <3>1, LoadSound
  <2>5. tab'.disk = tab.disk
    BY <2>1, <2>4, MovedDisk
  <2>6. PICK t : t = t0 /\ Sound(t) /\ t.disk = tab.disk
    BY <2>4
  <2>7. \A x \in OwnersIn(mem) : Closed(t, ch[x]) /\ Chain(t, FirstIn(mem, x)) = ch[x]
    <3>1. Volume(ch, t.disk, data, dir, mem, op, lossy)
      BY <2>3, <2>6
    <3> TAKE x \in OwnersIn(mem)
    <3>2. ~Unmarked(op, x) /\ Sound(t)
      BY <2>2, <2>6
    <3>3. Closed(t, ch[x])
      BY <3>1, <3>2, ClosedIs
    <3>4. ch[x][1] = FirstIn(mem, x)
      BY <2>3 DEF Volume, OwnChain
    <3>5. Chain(t, FirstIn(mem, x)) = ch[x]
      BY <3>3, <3>4, ChainIs DEF Closed
    <3> QED  BY <3>3, <3>5
  <2>8. Root \in OwnersIn(mem) /\ FirstIn(mem, Root) = Root
    BY DEF OwnersIn, FirstIn
  <2>9. rc = s /\ Closed(t, s) /\ s[1] = Root
    BY <2>3, <2>6, <2>7, <2>8 DEF Volume, OwnChain
  <2>10. PICK n \in Nat : n = Len(s)
    BY <2>9, StrungIs DEF Closed
  <2>11. DS \in Nat /\ DS >= 1 /\ CS \in Nat /\ CS >= 1 /\ Per(Root) = DS
    BY FatAssumption, ValueFacts
  <2>12. PICK size \in Nat : size = DS * n
    BY <2>10, <2>11
  <2>13. PICK buf : buf = bf /\ buf = Buffer(t, data, Root, size)
    BY <2>6, <2>9, <2>10, <2>12
  <2>14. FilledFrom(buf, size, data, s, DS)
    BY <2>9, <2>11, <2>13, BufferIs
  <2>15. OwnBytes(s, data, DS, RootBytes(mem)) /\ Junk \in RootBytes(mem)
    BY <2>3, <2>8, <2>11 DEF Volume, BytesIn, RootBytes
  <2>16. buf \in [1 .. size -> RootBytes(mem)]
    <3> HIDE DEF s
    <3> QED  BY <2>10, <2>11, <2>14, <2>15, FilledBytes
  <2>17. ASSUME NEW q \in 1 .. size PROVE Within(DS, s, q) /\ buf[q] = ByteAt(data, s, DS, q)
    <3>1. Within(DS, s, q)
      BY <2>10, <2>11, <2>12 DEF Within
    <3> QED  BY <2>14, <3>1 DEF FilledFrom
  <2>18. ASSUME NEW q \in Slots(buf)
         PROVE  /\ q \in 1 .. size /\ buf[q] \in Descs /\ buf[q].name \in Files
                /\ mem[buf[q].name] # NoFile /\ buf[q].fst = mem[buf[q].name].fst
    <3>1. q \in 1 .. size /\ IsEntry(buf[q])
      BY <2>16 DEF Slots
    <3>2. buf[q] \in RootBytes(mem) /\ buf[q] \notin {Zero, Junk}
      BY <2>16, <3>1 DEF IsEntry
    <3> QED  BY <3>1, <3>2 DEF RootBytes, Descs
  <2>19. ASSUME NEW f \in Files, mem[f] # NoFile
         PROVE  \E q \in Slots(buf) : buf[q].name = f
    <3>1. PICK q : q = mem[f].slot /\ InSlot(s, data, dir, q, f)
      BY <2>3, <2>19 DEF Volume, Listing
    <3>2. q \in 1 .. size
      <4>1. q \in Nat /\ q >= 1
        BY <2>3, <3>1 DEF InSlot, Volume, Shaped
      <4>2. q <= DS * n
        BY <2>10, <3>1 DEF InSlot, Within
      <4> QED  BY <2>12, <4>1, <4>2
    <3>3. EntryOf(buf[q], f)
      BY <2>17, <3>1, <3>2 DEF InSlot
    <3>4. IsEntry(buf[q]) /\ Len(buf) = size
      BY <2>16, <3>3, ValueFacts DEF EntryOf
    <3> QED  BY <3>2, <3>3, <3>4 DEF Slots, EntryOf
  <2>20. PICK at : at = [f \in Files |-> CHOOSE i \in Slots(buf) : buf[i].name = f]
    OBVIOUS
  <2>21. ASSUME NEW f \in Files, mem[f] # NoFile
         PROVE  at[f] \in Slots(buf) /\ buf[at[f]].name = f
    BY <2>19, <2>20, <2>21
  <2>22. mem' = [f \in Files |-> IF mem[f] # NoFile THEN Inode(t, buf, at[f]) ELSE NoFile]
    <3>1. \A f \in Files : (\E i \in Slots(buf) : buf[i].name = f) <=> mem[f] # NoFile
      BY <2>18, <2>19
    <3>2. mem' = [f \in Files |-> IF \E i \in Slots(buf) : buf[i].name = f
                                  THEN Inode(t, buf, at[f]) ELSE NoFile]
      BY <2>1, <2>6, <2>13, <2>20
    <3> QED  BY <3>1, <3>2
  <2>23. ASSUME NEW f \in Files, mem[f] # NoFile
         PROVE  /\ mem'[f] \in Inodes /\ mem'[f].fst = mem[f].fst /\ mem'[f].slot = at[f]
                /\ mem'[f].lst = LastOf(ch[f]) /\ mem'[f].size = CS * Len(ch[f])
    <3>1. PICK q \in Slots(buf) : q = at[f] /\ buf[q].name = f
      BY <2>21, <2>23
    <3>2. q \in 1 .. size /\ buf[q] \in Descs /\ buf[q].fst = mem[f].fst
      BY <2>18, <3>1
    <3>3. f \in OwnersIn(mem) /\ FirstIn(mem, f) = mem[f].fst
      BY <2>23, ValueFacts DEF OwnersIn, FirstIn
    <3>4. Chain(t, buf[q].fst) = ch[f]
      BY <2>7, <3>2, <3>3
    <3>5. mem'[f] = Inode(t, buf, q)
      BY <2>22, <2>23, <3>1
    <3>6. mem'[f] = [fst |-> buf[q].fst, lst |-> ch[f][Len(ch[f])], size |-> CS * Len(ch[f]),
                     buf |-> NoBuf, len |-> buf[q].len, slot |-> q]
      BY <3>4, <3>5 DEF Inode
    <3>7. ch[f][Len(ch[f])] \in Entries /\ CS * Len(ch[f]) \in Nat
      <4>1. PICK k \in Nat : k = Len(ch[f]) /\ k >= 1 /\ \A j \in 1 .. k : ch[f][j] \in Entries
        BY <2>7, <3>3, StrungIs DEF Closed
      <4> QED  BY <2>11, <4>1
    <3>8. buf[q].fst \in Entries /\ buf[q].len \in 0 .. MaxLen /\ q \in Nat \ {0}
      BY <3>2 DEF Descs
    <3> QED  BY <3>1, <3>2, <3>6, <3>7, <3>8 DEF Inodes, LastOf
  <2> HIDE DEF t0, rc, bf, has, slot
  <2>24. \A f \in Files : mem'[f] # NoFile <=> mem[f] # NoFile
    BY <2>22, <2>23, ValuesAssumption
  <2>25. mem' = [f \in Files |-> mem'[f]]
    BY <2>22
  <2>26. OwnersIn(mem') = OwnersIn(mem)
    BY <2>24 DEF OwnersIn
  <2>27. RootBytes(mem') = RootBytes(mem)
    <3>1. \A e \in Descs : e.name \in Files
      BY DEF Descs
    <3> QED  BY <2>23, <2>24, <3>1 DEF RootBytes
  <2>28. \A x \in OwnersIn(mem) : FirstIn(mem', x) = FirstIn(mem, x) /\ BytesIn(mem', x) = BytesIn(mem, x)
    BY <2>23, <2>27 DEF FirstIn, BytesIn, OwnersIn
  <2>29. dir' = [lst |-> LastOf(s), size |-> size, buf |-> buf]
    <3>1. rc = s /\ bf = buf /\ size = DS * Len(s)
      BY <2>9, <2>10, <2>12, <2>13
    <3> QED  BY <2>1, <3>1 DEF LastOf, t0, rc, bf
  <2>30. Shaped(data', dir', mem')
    BY <2>1, <2>3, <2>23, <2>24, <2>25, <2>29 DEF Shaped, Volume
  <2>31. \A x \in OwnersIn(mem') : OwnChain(ch, tab.disk, mem', Idle, x)
    BY <2>2, <2>3, <2>26, <2>28 DEF OwnChain, Volume
  <2>32. Apart(ch, mem')
    BY <2>3, <2>26 DEF Apart, Volume
  <2>33. \A x \in OwnersIn(mem') : RightSize(ch[x], CacheIn(dir', mem', x), x, lossy')
    <3> TAKE x \in OwnersIn(mem')
    <3>1. CASE x = Root
      BY <2>10, <2>11, <2>12, <2>29, <3>1 DEF RightSize, CacheIn
    <3>2. CASE x # Root
      BY <2>23, <2>24, <3>2, ValueFacts DEF RightSize, CacheIn, OwnersIn
    <3> QED  BY <3>1, <3>2
  <2>34. \A x \in OwnersIn(mem') : OwnBytes(ch[x], data, Per(x), BytesIn(mem', x))
    BY <2>3, <2>26, <2>28 DEF Volume
  <2>35. Listing(s, data, dir', mem', Due(Idle), More(Idle))
    <3>1. DS * (Len(s) + Due(Idle)) <= size + More(Idle)
      <4>1. Due(Idle) = 0 /\ More(Idle) = 0
        BY DEF Due, More, Growing
      <4>2. n + 0 = n /\ size + 0 = size /\ size <= size
        BY <2>10, <2>12
      <4> QED  BY <2>10, <2>12, <4>1, <4>2
    <3>2. ASSUME NEW f \in Files, mem[f] # NoFile PROVE InSlot(s, data, dir', mem'[f].slot, f)
      <4>1. PICK q \in Slots(buf) : q = mem'[f].slot /\ buf[q].name = f
        BY <2>21, <2>23, <3>2
      <4>2. q \in 1 .. size /\ EntryOf(buf[q], f)
        BY <2>18, <4>1 DEF EntryOf
      <4> QED  BY <2>17, <2>29, <4>1, <4>2 DEF InSlot
    <3>3. dir'.size = size /\ dir'.buf = buf
      BY <2>29
    <3> QED  BY <2>16, <2>17, <2>24, <2>27, <3>1, <3>2, <3>3 DEF Listing
  <2>36. Spared(ch, mem', Idle)
    BY <2>2 DEF Spared
  <2>37. Volume(ch, tab.disk, data, dir', mem', Idle, lossy')
    BY <2>1, <2>36, <2>30, <2>31, <2>32, <2>33, <2>34, <2>35 DEF Volume
  <2>38. Good(ch, tab'.disk, data', dir', mem', op', lossy')
    BY <2>1, <2>5, <2>37 DEF Good, Relied
  <2> QED  BY <2>38 DEF VolumeInv
<1> QED  BY <1>3, <1>4

LEMMA InitVolume ==
  ASSUME Init
  PROVE  VolumeInv
<1> DEFINE t0 == Load([disk |-> Blank, win |-> 0, dat |-> <<>>], 0)
           s == <<Root>>
           rc == Chain(t0, Root)
           bf == Buffer(t0, NoData, Root, DS * Len(rc))
<1>1. /\ \E c : tab = Walked(t0, c)
      /\ dir = [lst |-> rc[Len(rc)], size |-> DS * Len(rc), buf |-> bf]
      /\ data = NoData /\ op = Idle /\ lossy = {}
  BY DEF Init, Mounted
<1>2. \A f \in Files : mem[f] = NoFile
  BY DEF Init
<1>3. mem = [f \in Files |-> mem[f]]
  BY DEF Init
<1>4. Sound(t0) /\ t0.disk = Blank
  <2>1. Blank = [e \in Entries |-> Blank[e]]
    BY DEF Blank
  <2> QED  BY <2>1, LoadSound
<1>5. PICK t : t = t0 /\ Sound(t) /\ t.disk = Blank
  BY <1>4
<1>6. tab.disk = Blank
  BY <1>1, <1>4, MovedDisk
<1>7. Strung(Blank, s) /\ LastOf(s) = Root /\ SetOf(s) = {Root} /\ Len(s) = 1 /\ s[1] = Root
  <2>1. Root \in Entries /\ Root >= Root
    BY ValueFacts
  <2> QED  BY <2>1, StrungOne
<1>8. Blank[Root] = NE
  BY ValueFacts DEF Blank
<1>9. Closed(t, s)
  BY <1>5, <1>7, <1>8 DEF Closed
<1>10. rc = s
  BY <1>5, <1>7, <1>9, ChainIs DEF Closed
<1>11. DS \in Nat /\ DS >= 1 /\ Per(Root) = DS
  BY FatAssumption, ValueFacts
<1>12. PICK size \in Nat : size = DS * Len(s)
  BY <1>7, <1>11
<1>13. PICK buf : buf = bf /\ buf = Buffer(t, NoData, Root, size)
  BY <1>5, <1>10, <1>12
<1> HIDE DEF t0, s, bf
<1>14. FilledFrom(buf, size, NoData, s, DS)
  BY <1>7, <1>9, <1>11, <1>13, BufferIs
<1>15. OwnBytes(s, NoData, DS, RootBytes(mem)) /\ Junk \in RootBytes(mem)
  <2>1. NoData[Root] \in [1 .. DS -> RootBytes(mem)]
    BY <1>11, ValueFacts DEF NoData, Zeros, RootBytes
  <2>2. \A k \in 1 .. Len(s) : s[k] = Root
    BY <1>7 DEF s
  <2> QED  BY <2>1, <2>2 DEF OwnBytes, RootBytes
<1>16. buf \in [1 .. size -> RootBytes(mem)]
  <2>1. Len(s) \in Nat
    BY <1>7
  <2> QED  BY <1>11, <1>14, <1>15, <2>1, FilledBytes
<1>17. dir = [lst |-> Root, size |-> size, buf |-> buf]
  <2>1. rc[Len(rc)] = Root
    BY <1>7, <1>10 DEF LastOf
  <2> QED  BY <1>1, <1>10, <1>12, <1>13, <2>1
<1>18. OwnersIn(mem) = {Root}
  BY <1>2 DEF OwnersIn
<1>19. PICK ch : ch = [x \in {Root} |-> s]
  OBVIOUS
<1>20. \A x : ~Unmarked(Idle, x)
  BY DEF Unmarked, Growing
<1>21. OwnChain(ch, Blank, mem, Idle, Root)
  BY <1>7, <1>8, <1>19, <1>20 DEF OwnChain, FirstIn
<1>22. Shaped(NoData, dir, mem)
  BY <1>2, <1>3, <1>17 DEF Shaped, OverEntries, NoData
<1>23. RightSize(s, dir, Root, {})
  BY <1>7, <1>11, <1>12, <1>17 DEF RightSize
<1>24. Listing(s, NoData, dir, mem, Due(Idle), More(Idle))
  <2>1. \A j \in 1 .. size : Within(DS, s, j)
    BY <1>12 DEF Within
  <2>2. DS * (Len(s) + Due(Idle)) <= size + More(Idle)
    <3>1. Due(Idle) = 0 /\ More(Idle) = 0
      BY DEF Due, More, Growing
    <3>2. Len(s) + 0 = Len(s) /\ size + 0 = size /\ size <= size
      BY <1>7
    <3> QED  BY <1>12, <3>1, <3>2
  <2> QED  BY <1>2, <1>16, <1>17, <2>1, <2>2 DEF Listing
<1>25. Spared(ch, mem, Idle)
  BY <1>20 DEF Spared
<1>26. Volume(ch, Blank, NoData, dir, mem, Idle, {})
  <2>1. ch[Root] = s
    BY <1>19
  <2>2. Apart(ch, mem)
    BY <1>18 DEF Apart
  <2>3. CacheIn(dir, mem, Root) = dir /\ BytesIn(mem, Root) = RootBytes(mem)
    BY DEF CacheIn, BytesIn
  <2> QED  BY <1>11, <1>15, <1>18, <1>21, <1>22, <1>23, <1>24, <1>25, <2>1, <2>2, <2>3 DEF Volume
<1>27. Good(ch, tab.disk, data, dir, mem, op, lossy)
  BY <1>1, <1>6, <1>26 DEF Good, Relied
<1> QED  BY <1>27 DEF VolumeInv

(* A turn of fat_add_cluster_chain: the chain is a cluster longer, or ends *)
(* in one that leads to itself. *)
LEMMA GrowStepStep ==
  ASSUME Sound(tab), VolumeInv, GrowStep
  PROVE  VolumeInv'
<1>1. ~torn /\ op # Idle /\ op.do = "grow" /\ op.left > 0
  BY DEF GrowStep, Busy
<1>2. PICK ch : Good(ch, tab.disk, data, dir, mem, op, lossy)
  BY <1>1 DEF VolumeInv
<1>3. Volume(ch, tab.disk, data, dir, mem, op, lossy) /\ Enlarging(op, ch, mem)
  BY <1>1, <1>2, ReliedIs DEF Good
<1>4. UNCHANGED <<dir, mem, lossy>>
  BY DEF GrowStep
<1>5. CASE torn'
  BY <1>5 DEF VolumeInv
<1>6. ASSUME NEW v \in Entries, IsFirst(FreeFrom(tab), v),
             data' = [data EXCEPT ![v] = Zeros(op.who)],
             tab' = SetValue(MovedTo(tab, v), op.at, v),
             op' = [op EXCEPT !.left = @ - 1, !.at = v, !.linked = TRUE]
      PROVE  VolumeInv'
  <2>1. v \in Nat /\ v > Root /\ tab.disk[v] = 0
    BY <1>6, FreeIs DEF IsFirst
  <2>2. PICK w \in OwnersIn(mem) : w = op.who /\ op.at = LastOf(ch[w]) /\ Onward(op.then, w, mem)
    BY <1>3 DEF Enlarging
  <2>3. op \in Grows /\ op.at \in Entries /\ op.left \in Nat /\ op.left - 1 \in Nat
    <3>1. op \in Grows /\ op.at \in Entries /\ op.left \in Nat
      BY <1>3 DEF Enlarging, Grows
    <3> QED  BY <1>1, <3>1
  <2>4. PICK E : E = [e \in Entries |-> IF e = op.at THEN v ELSE tab.disk[e]] /\ tab'.disk = E
    <3>1. PICK u : u = MovedTo(tab, v)
      OBVIOUS
    <3>2. Sound(u) /\ u.disk = tab.disk
      BY <3>1, MovedSound, MovedDisk
    <3>3. SetValue(u, op.at, v).disk = [e \in Entries |-> IF e = op.at THEN v ELSE u.disk[e]]
      BY <2>3, <3>2, SetDisk
    <3> QED  BY <1>6, <3>1, <3>2, <3>3
  <2>5. /\ op' \in Grows /\ op'.do = "grow" /\ op'.who = w /\ op'.left = op.left - 1 /\ op'.at = v
        /\ op'.more = op.more /\ op'.linked = TRUE /\ op'.then = op.then
    BY <1>6, <2>2, <2>3 DEF Grows
  <2>6. op' # Idle
    BY <2>5, ValuesAssumption
  <2>7. \A x : (Growing(op', x) <=> x = w) /\ (Growing(op, x) <=> x = w) /\ (Unmarked(op', x) <=> x = w)
               /\ (Unmarked(op, x) => x = w)
    BY <1>1, <2>2, <2>5, <2>6 DEF Growing, Unmarked
  <2>8. \A x \in OwnersIn(mem) : x # w => v \notin SetOf(ch[x])
    BY <1>3, <2>1, <2>7, FreeApart
  <2>9. v \in SetOf(ch[w]) => v = op.at
    BY <1>3, <2>1, FreeApart
  <2>10. \A x \in OwnersIn(mem) : Strung(tab.disk, ch[x]) /\ ch[x][1] = FirstIn(mem, x)
    BY <1>3 DEF Volume, OwnChain
  <2>11. ASSUME NEW x \in OwnersIn(mem), NEW i \in 1 .. Len(ch[x]), x = w => i # Len(ch[x])
         PROVE  E[ch[x][i]] = tab.disk[ch[x][i]]
    <3>1. PICK n \in Nat : n = Len(ch[w]) /\ n >= 1
      BY <2>10, StrungIs
    <3>2. ch[x][i] \in Entries
      BY <2>10, StrungIs
    <3>3. ch[x][i] # op.at
      <4>1. CASE x = w
        <5>1. ch[w][n] = op.at /\ n \in 1 .. n
          BY <2>2, <3>1 DEF LastOf
        <5> QED  BY <2>10, <2>11, <3>1, <4>1, <5>1 DEF Strung
      <4>2. CASE x # w
        <5>1. op.at \in SetOf(ch[w])
          <6>1. n \in 1 .. n
            BY <3>1
          <6> QED  BY <2>2, <3>1, <6>1 DEF SetOf, LastOf
        <5>2. Disjoint(SetOf(ch[x]), SetOf(ch[w]))
          BY <1>3, <4>2 DEF Volume, Apart
        <5>3. ch[x][i] \in SetOf(ch[x])
          BY DEF SetOf
        <5> QED  BY <5>1, <5>2, <5>3 DEF Disjoint
      <4> QED  BY <4>1, <4>2
    <3> QED  BY <2>4, <3>2, <3>3
  <2>12. PICK s : s = IF v = op.at THEN ch[w] ELSE Append(ch[w], v)
    OBVIOUS
  <2>13. E[op.at] = v
    BY <2>3, <2>4
  <2>14. \A i \in 1 .. Len(ch[w]) - 1 : E[ch[w][i]] = tab.disk[ch[w][i]]
    <3>1. PICK n \in Nat : n = Len(ch[w]) /\ n >= 1
      BY <2>10, StrungIs
    <3>2. \A i \in 1 .. n - 1 : i \in 1 .. n /\ i # n
      BY <3>1
    <3> QED  BY <2>11, <3>1, <3>2
  <2>15. PICK n \in Nat : n = Len(ch[w]) /\ n >= 1
    BY <2>10, StrungIs
  <2>16. /\ Strung(E, s) /\ LastOf(s) = v /\ SetOf(s) = SetOf(ch[w]) \cup {v}
         /\ Len(s) \in {n, n + 1} /\ (\A i \in 1 .. n : s[i] = ch[w][i])
         /\ \A i \in 1 .. Len(s) : i \in 1 .. n \/ s[i] = v
    <3>1. CASE v = op.at
      <4>1. s = ch[w] /\ LastOf(s) = v
        BY <2>2, <2>12, <3>1
      <4>2. Strung(E, s)
        BY <2>10, <2>14, <4>1, StrungKept
      <4>3. v \in SetOf(ch[w])
        <5>1. n \in 1 .. n /\ ch[w][n] = v
          BY <2>2, <2>15, <3>1 DEF LastOf
        <5> QED  BY <2>15, <5>1 DEF SetOf
      <4> QED  BY <2>15, <4>1, <4>2, <4>3
    <3>2. CASE v # op.at
      <4>1. v \notin SetOf(ch[w]) /\ v >= Root /\ E[LastOf(ch[w])] = v
        BY <2>1, <2>2, <2>9, <2>13, <3>2, ValueFacts
      <4>2. /\ Strung(E, s) /\ LastOf(s) = v /\ SetOf(s) = SetOf(ch[w]) \cup {v}
            /\ Len(s) = n + 1 /\ (\A i \in 1 .. n : s[i] = ch[w][i])
        <5>1. Linked(E, ch[w], Append(ch[w], v), v)
          BY <2>10, <2>14, <4>1, StrungLonger
        <5>2. Linked(E, ch[w], s, v)
          BY <2>12, <3>2, <5>1
        <5> QED  BY <2>15, <5>2 DEF Linked
      <4>3. s[n + 1] = v
        BY <4>2 DEF LastOf
      <4>4. \A i \in 1 .. n + 1 : i \in 1 .. n \/ i = n + 1
        BY <2>15
      <4> QED  BY <4>2, <4>3, <4>4
    <3> QED  BY <3>1, <3>2
  <2>17. PICK h : h = [x \in OwnersIn(mem) |-> IF x = w THEN s ELSE ch[x]]
    OBVIOUS
  <2>18. h[w] = s /\ \A x \in OwnersIn(mem) : x # w => h[x] = ch[x]
    BY <2>17
  <2>19. ASSUME NEW x \in OwnersIn(mem) PROVE OwnChain(h, E, mem, op', x)
    <3>1. CASE x = w
      <4>1. s[1] = FirstIn(mem, w)
        <5>1. 1 \in 1 .. n
          BY <2>15
        <5> QED  BY <2>10, <2>16, <5>1
      <4>2. E[v] \in {0, v}
        BY <2>1, <2>4
      <4> QED  BY <2>5, <2>7, <2>16, <2>18, <3>1, <4>1, <4>2 DEF OwnChain
    <3>2. CASE x # w
      <4>1. PICK k \in Nat : k = Len(ch[x]) /\ k >= 1
        BY <2>10, StrungIs
      <4>2. \A i \in 1 .. k : E[ch[x][i]] = tab.disk[ch[x][i]]
        BY <2>11, <3>2, <4>1
      <4>3. \A i \in 1 .. k - 1 : i \in 1 .. k
        BY <4>1
      <4>4. Strung(E, ch[x])
        BY <2>10, <4>1, <4>2, <4>3, StrungKept
      <4>5. tab.disk[LastOf(ch[x])] = NE
        BY <1>3, <2>7, <3>2 DEF Volume, OwnChain
      <4>6. E[LastOf(ch[x])] = NE
        BY <4>1, <4>2, <4>5 DEF LastOf
      <4> QED  BY <2>7, <2>10, <2>18, <3>2, <4>4, <4>6 DEF OwnChain
    <3> QED  BY <3>1, <3>2
  <2>20. Apart(h, mem)
    <3>1. \A x \in OwnersIn(mem) : x # w => Disjoint(SetOf(h[x]), SetOf(h[w]))
                                           /\ Disjoint(SetOf(h[w]), SetOf(h[x]))
      <4> SUFFICES ASSUME NEW x \in OwnersIn(mem), x # w
                   PROVE  Disjoint(SetOf(h[x]), SetOf(h[w])) /\ Disjoint(SetOf(h[w]), SetOf(h[x]))
        OBVIOUS
      <4>1. Disjoint(SetOf(ch[x]), SetOf(ch[w])) /\ v \notin SetOf(ch[x])
        BY <1>3, <2>8 DEF Volume, Apart
      <4> QED  BY <2>16, <2>18, <4>1 DEF Disjoint
    <3>2. \A x, y \in OwnersIn(mem) : x # y => Disjoint(SetOf(ch[x]), SetOf(ch[y]))
      BY <1>3 DEF Volume, Apart
    <3> QED  BY <2>18, <3>1, <3>2 DEF Apart
  <2>21. \A x \in OwnersIn(mem) : ~Unmarked(op', x) => RightSize(h[x], CacheIn(dir, mem, x), x, lossy)
    BY <1>3, <2>7, <2>18 DEF Volume
  <2>22. PICK C : C = [data EXCEPT ![v] = Zeros(op.who)]
    OBVIOUS
  <2>23. data = [e \in Entries |-> data[e]]
    BY <1>3 DEF Volume, Shaped, OverEntries
  <2>24. OverEntries(C) /\ \A e \in Entries : C[e] = IF e = v THEN Zeros(w) ELSE data[e]
    BY <2>2, <2>22, <2>23 DEF OverEntries
  <2>25. ASSUME NEW x \in OwnersIn(mem) PROVE OwnBytes(h[x], C, Per(x), BytesIn(mem, x))
    <3>1. OwnBytes(ch[x], data, Per(x), BytesIn(mem, x))
      BY <1>3 DEF Volume
    <3>2. \A e \in SetOf(ch[x]) : e \in Entries
      BY <2>10, StrungIs DEF SetOf
    <3>3. CASE x # w
      <4>1. \A e \in SetOf(ch[x]) : C[e] = data[e]
        BY <2>8, <2>24, <3>2, <3>3
      <4> QED  BY <2>18, <3>1, <3>3, <4>1, BytesKept
    <3>4. CASE x = w
      <4>1. Zeros(w) \in [1 .. Per(w) -> BytesIn(mem, w)]
        BY ValueFacts DEF Zeros, BytesIn, RootBytes
      <4>2. ASSUME NEW i \in 1 .. Len(s) PROVE C[s[i]] \in [1 .. Per(w) -> BytesIn(mem, w)]
        <5>1. CASE s[i] = v
          BY <2>24, <4>1, <5>1
        <5>2. CASE s[i] # v
          <6>1. i \in 1 .. n /\ s[i] = ch[w][i]
            BY <2>16, <5>2
          <6>2. s[i] \in Entries
            BY <2>15, <3>2, <3>4, <6>1 DEF SetOf
          <6>3. C[s[i]] = data[ch[w][i]]
            BY <2>24, <5>2, <6>1, <6>2
          <6> QED  BY <2>15, <3>1, <3>4, <6>1, <6>3 DEF OwnBytes
        <5> QED  BY <5>1, <5>2
      <4> QED  BY <2>18, <3>4, <4>2 DEF OwnBytes
    <3> QED  BY <3>3, <3>4
  <2>26. Listing(h[Root], C, dir, mem, Due(op'), More(op')) /\ Spared(h, mem, op')
    <3>0. Root \in OwnersIn(mem)
      BY DEF OwnersIn
    <3>1. PICK k \in Nat : k = Len(ch[Root]) /\ k >= 1
      BY <2>10, <3>0, StrungIs
    <3>2. /\ dir.buf \in [1 .. dir.size -> RootBytes(mem)] /\ dir.size \in Nat
          /\ \A j \in 1 .. dir.size : dir.buf[j] = Zero => Within(DS, ch[Root], j)
          /\ DS * (k + Due(op)) <= dir.size + More(op)
          /\ \A f \in Files : mem[f] # NoFile => InSlot(ch[Root], data, dir, mem[f].slot, f)
          /\ Spared(ch, mem, op)
      BY <1>3, <3>1 DEF Volume, Listing, Shaped
    <3>3. PICK k2 \in Nat : k2 = Len(h[Root]) /\ k2 >= k
                            /\ (\A i \in 1 .. k : h[Root][i] = ch[Root][i])
                            /\ (Root = w => k2 \in {k, k + 1}) /\ (Root # w => k2 = k)
      <4>1. CASE Root = w
        <5>1. k = n /\ n <= n /\ n <= n + 1 /\ n \in Nat /\ n + 1 \in Nat
          BY <2>15, <3>1, <4>1
        <5> QED  BY <2>16, <2>18, <4>1, <5>1
      <4>2. CASE Root # w
        BY <2>18, <3>0, <3>1, <4>2
      <4> QED  BY <4>1, <4>2
    <3>4. ASSUME NEW j \in Nat, Within(DS, ch[Root], j) PROVE Within(DS, h[Root], j)
      <4>1. DS \in Nat /\ j <= DS * k
        BY <3>1, <3>4, FatAssumption DEF Within
      <4>2. k * DS <= k2 * DS /\ k * DS \in Nat /\ k2 * DS \in Nat
        BY <3>3, <4>1, TimesMonotone
      <4>3. k * DS = DS * k /\ k2 * DS = DS * k2
        BY <4>1
      <4> QED  BY <3>3, <4>1, <4>2, <4>3 DEF Within
    <3>5. ASSUME NEW f \in Files, mem[f] # NoFile, NEW q, q = mem[f].slot
          PROVE  InSlot(h[Root], C, dir, q, f) /\ h[Root][Part(DS, q)] # v
      <4>0. InSlot(ch[Root], data, dir, q, f)
        BY <3>2, <3>5
      <4>1. q \in Nat /\ q >= 1 /\ q <= DS * k /\ DS \in Nat /\ DS >= 1
        BY <3>1, <3>2, <4>0, FatAssumption DEF InSlot, Within
      <4>2. Part(DS, q) \in Nat /\ Part(DS, q) >= 1 /\ Part(DS, q) <= k
        BY <4>1, Parted
      <4>3. Part(DS, q) \in 1 .. k
        BY <4>2
      <4>4. PICK e : e = ch[Root][Part(DS, q)] /\ e = h[Root][Part(DS, q)] /\ e \in SetOf(ch[Root])
        BY <3>1, <3>3, <4>3 DEF SetOf
      <4>5. EntryOf(ByteAt(data, ch[Root], DS, q), f)
        BY <4>0 DEF InSlot
      <4>6. e # v
        <5> SUFFICES ASSUME e = v PROVE FALSE
          OBVIOUS
        <5>1. Root = w /\ v = op.at /\ Unmarked(op, Root)
          BY <1>3, <2>1, <2>8, <2>9, <3>0, <4>4, FreeApart
        <5>2. ch[Root][Part(DS, q)] # op.at
          BY <3>2, <3>5, <5>1 DEF Spared
        <5> QED  BY <4>4, <5>1, <5>2
      <4>7. e \in Entries
        BY <2>10, <3>0, <4>4, StrungIs DEF SetOf
      <4>8. ByteAt(C, h[Root], DS, q) = ByteAt(data, ch[Root], DS, q)
        BY <2>24, <4>4, <4>6, <4>7 DEF ByteAt
      <4>9. h[Root][Part(DS, q)] # v
        BY <4>4, <4>6
      <4> QED  BY <3>4, <4>0, <4>1, <4>5, <4>8, <4>9 DEF InSlot
    <3>6. \A j \in 1 .. dir.size : dir.buf[j] = Zero => Within(DS, h[Root], j)
      <4>1. \A j \in 1 .. dir.size : j \in Nat
        BY <3>2
      <4> QED  BY <3>2, <3>4, <4>1
    <3>7. DS * (Len(h[Root]) + Due(op')) <= dir.size + More(op')
      <4>1. CASE Root = w
        <5>1. Due(op) = op.left /\ Due(op') = op.left - 1 /\ More(op') = More(op)
          BY <2>5, <2>7, <4>1 DEF Due, More
        <5>2. PICK l \in Nat : l = op.left - 1 /\ op.left = l + 1
          BY <2>3
        <5>3. More(op) \in Nat /\ DS \in Nat
          BY <1>1, <1>3, <2>7, <4>1, FatAssumption DEF Enlarging, Grows, More
        <5>4. k2 + l <= k + (l + 1) /\ k2 + l \in Nat /\ k + (l + 1) \in Nat
          BY <3>1, <3>3, <4>1, <5>2
        <5>5. (k2 + l) * DS <= (k + (l + 1)) * DS /\ (k2 + l) * DS \in Nat /\ (k + (l + 1)) * DS \in Nat
          BY <5>3, <5>4, TimesMonotone
        <5>6. (k2 + l) * DS = DS * (k2 + l) /\ (k + (l + 1)) * DS = DS * (k + (l + 1))
          BY <5>3, <5>4, TimesCommute
        <5>7. DS * (k + (l + 1)) <= dir.size + More(op)
          BY <3>2, <5>1, <5>2
        <5>8. DS * (k2 + l) <= dir.size + More(op)
          <6>1. PICK a \in Nat : a = DS * (k2 + l)
            BY <5>5, <5>6
          <6>2. PICK b \in Nat : b = DS * (k + (l + 1))
            BY <5>5, <5>6
          <6>3. a <= b
            BY <5>5, <5>6, <6>1, <6>2
          <6>4. PICK c \in Nat : c = dir.size + More(op)
            BY <3>2, <5>3
          <6>5. b <= c
            BY <5>7, <6>2, <6>4
          <6>6. a <= c
            BY <6>3, <6>5
          <6> QED  BY <6>1, <6>4, <6>6
        <5> QED  BY <3>3, <5>1, <5>2, <5>8
      <4>2. CASE Root # w
        <5>1. Due(op') = Due(op) /\ More(op') = More(op)
          BY <2>7, <4>2 DEF Due, More
        <5> QED  BY <3>2, <3>3, <4>2, <5>1
      <4> QED  BY <4>1, <4>2
    <3>8. Spared(h, mem, op')
      BY <2>5, <3>5 DEF Spared
    <3>9. Listing(h[Root], C, dir, mem, Due(op'), More(op'))
      BY <3>2, <3>5, <3>6, <3>7 DEF Listing
    <3> QED  BY <3>8, <3>9
  <2>27. Shaped(C, dir, mem)
    BY <1>3, <2>24 DEF Volume, Shaped
  <2>28. Volume(h, E, C, dir, mem, op', lossy)
    BY <2>19, <2>20, <2>21, <2>25, <2>26, <2>27 DEF Volume
  <2>29. Enlarging(op', h, mem)
    BY <2>2, <2>5, <2>16, <2>18 DEF Enlarging
  <2>30. Good(h, tab'.disk, data', dir', mem', op', lossy')
    BY <1>4, <1>6, <2>4, <2>22, <2>28, <2>29 DEF Good, Relied
  <2> QED  BY <2>30 DEF VolumeInv
<1> QED  BY <1>5, <1>6 DEF GrowStep

(* The end of an enlarge: the chain is closed, the buffer as long as it    *)
(* was meant to be. *)
LEMMA GrowEndStep ==
  ASSUME Sound(tab), VolumeInv, GrowEnd
  PROVE  VolumeInv'
<1>1. ~torn /\ op # Idle /\ op.do = "grow" /\ op.left = 0
  BY DEF GrowEnd, Busy
<1>2. PICK ch : Good(ch, tab.disk, data, dir, mem, op, lossy)
  BY <1>1 DEF VolumeInv
<1>3. Volume(ch, tab.disk, data, dir, mem, op, lossy) /\ Enlarging(op, ch, mem)
  BY <1>1, <1>2, ReliedIs DEF Good
<1>4. PICK w \in OwnersIn(mem) : w = op.who /\ op.at = LastOf(ch[w]) /\ Onward(op.then, w, mem)
  BY <1>3 DEF Enlarging
<1>5. op \in Grows /\ op.at \in Entries /\ op.more \in Nat
  BY <1>3 DEF Enlarging, Grows
<1>6. PICK old : old = CacheIn(dir, mem, w)
  OBVIOUS
<1>7. PICK t : t = SetValue(tab, op.at, NE) /\ Sound(t)
               /\ t.disk = [e \in Entries |-> IF e = op.at THEN NE ELSE tab.disk[e]]
  BY <1>5, SetSound, SetDisk
<1>8. PICK fst : fst = FirstIn(mem, w)
  OBVIOUS
<1>9. PICK buf : buf = Buffer(t, data, fst, old.size + op.more)
  OBVIOUS
<1>10. PICK new : new = [Longer(old, op.at, op.more) EXCEPT !.buf = buf]
  OBVIOUS
<1>11. op.who = w /\ (op.who = Root <=> w = Root)
  BY <1>4
<1>12. /\ tab' = Walked(t, fst)
       /\ lossy' = IF new.size # Per(w) * Len(Chain(t, fst)) THEN lossy \cup {w} ELSE lossy
       /\ IF w = Root THEN dir' = new /\ UNCHANGED mem
          ELSE /\ UNCHANGED dir
               /\ mem' = [mem EXCEPT ![w] = IF op.then.do = "seek" THEN [new EXCEPT !.len = op.then.p]
                                            ELSE new]
       /\ op' = IF op.then.do = "seek" THEN Idle ELSE op.then
       /\ UNCHANGED <<data, torn>>
  BY <1>6, <1>7, <1>8, <1>9, <1>10, <1>11 DEF GrowEnd, CacheIn, FirstIn
<1>13. Apace(op') /\ \A x : ~Unmarked(op', x)
  <2>1. Apace(op')
    BY <1>4, <1>12 DEF Apace, Onward
  <2> QED  BY <2>1 DEF Apace, Unmarked, Growing
<1>14. \A x \in OwnersIn(mem) : Strung(tab.disk, ch[x]) /\ ch[x][1] = FirstIn(mem, x)
  BY <1>3 DEF Volume, OwnChain
<1>15. PICK n \in Nat : n = Len(ch[w]) /\ n >= 1
  BY <1>14, StrungIs
<1>16. ASSUME NEW x \in OwnersIn(mem), NEW i \in 1 .. Len(ch[x]), x = w => i # n
       PROVE  t.disk[ch[x][i]] = tab.disk[ch[x][i]]
  <2>1. n \in 1 .. n /\ ch[w][n] = op.at
    BY <1>4, <1>15 DEF LastOf
  <2>2. ch[x][i] \in Entries
    BY <1>14, StrungIs
  <2>3. CASE x = w
    BY <1>7, <1>14, <1>15, <1>16, <2>1, <2>2, <2>3 DEF Strung
  <2>4. CASE x # w
    <3>1. Disjoint(SetOf(ch[x]), SetOf(ch[w]))
      BY <1>3, <2>4 DEF Volume, Apart
    <3>2. ch[x][i] \in SetOf(ch[x]) /\ op.at \in SetOf(ch[w])
      BY <1>15, <2>1 DEF SetOf
    <3> QED  BY <1>7, <2>2, <3>1, <3>2 DEF Disjoint
  <2> QED  BY <2>3, <2>4
<1>17. \A x \in OwnersIn(mem) : Strung(t.disk, ch[x]) /\ t.disk[LastOf(ch[x])] = NE
  <2> TAKE x \in OwnersIn(mem)
  <2>1. PICK k \in Nat : k = Len(ch[x]) /\ k >= 1
    BY <1>14, StrungIs
  <2>2. \A i \in 1 .. k - 1 : i \in 1 .. k /\ i # k
    BY <2>1
  <2>3. \A i \in 1 .. k - 1 : t.disk[ch[x][i]] = tab.disk[ch[x][i]]
    BY <1>15, <1>16, <2>1, <2>2
  <2>4. Strung(t.disk, ch[x])
    BY <1>14, <2>1, <2>3, StrungKept
  <2>5. CASE x = w
    BY <1>4, <1>5, <1>7, <2>4, <2>5
  <2>6. CASE x # w
    <3>1. ~Unmarked(op, x)
      BY <1>4, <2>6 DEF Unmarked, Growing
    <3>2. tab.disk[LastOf(ch[x])] = NE
      BY <1>3, <3>1 DEF Volume, OwnChain
    <3>3. k \in 1 .. k
      BY <2>1
    <3> QED  BY <1>16, <2>1, <2>4, <2>6, <3>2, <3>3 DEF LastOf
  <2> QED  BY <2>5, <2>6
<1>18. Closed(t, ch[w]) /\ fst = ch[w][1] /\ Chain(t, fst) = ch[w]
  <2>1. Closed(t, ch[w]) /\ fst = ch[w][1]
    BY <1>7, <1>8, <1>14, <1>17 DEF Closed
  <2> QED  BY <2>1, ChainIs DEF Closed
<1>19. Per(fst) = Per(w) /\ Per(w) \in Nat /\ Per(w) >= 1
  BY <1>3, <1>8, FirstIs, PerNat
<1>20. w # Root => w \in Files /\ mem[w] # NoFile /\ mem[w] \in Inodes
  BY <1>3 DEF OwnersIn, Volume, Shaped
<1>21. old.size \in Nat
  <2>1. dir.size \in Nat
    BY <1>3 DEF Volume, Shaped
  <2>2. w # Root => mem[w].size \in Nat
    BY <1>20 DEF Inodes
  <2> QED  BY <1>6, <2>1, <2>2 DEF CacheIn
<1>22. PICK size \in Nat : size = old.size + op.more
  BY <1>5, <1>21
<1>23. FilledFrom(buf, size, data, ch[w], Per(w))
  BY <1>9, <1>18, <1>19, <1>22, BufferIs
<1>24. OwnBytes(ch[w], data, Per(w), BytesIn(mem, w)) /\ Junk \in BytesIn(mem, w)
  BY <1>3, ValueFacts DEF Volume, BytesIn, RootBytes
<1>25. buf \in [1 .. size -> BytesIn(mem, w)]
  BY <1>15, <1>19, <1>23, <1>24, FilledBytes
<1>26. /\ w = Root => new = [lst |-> op.at, size |-> size, buf |-> buf]
       /\ w # Root => new = [fst |-> mem[w].fst, lst |-> op.at, size |-> size, buf |-> buf,
                             len |-> mem[w].len, slot |-> mem[w].slot]
  <2>1. CASE w = Root
    <3>1. old = dir /\ dir = [lst |-> dir.lst, size |-> dir.size, buf |-> dir.buf]
      BY <1>3, <1>6, <2>1 DEF CacheIn, Volume, Shaped
    <3> QED  BY <1>10, <1>22, <2>1, <3>1 DEF Longer
  <2>2. CASE w # Root
    <3>1. old = mem[w] /\ old \in Inodes
      BY <1>6, <1>20, <2>2 DEF CacheIn
    <3> QED  BY <1>10, <1>22, <2>2, <3>1 DEF Longer, Inodes
  <2> QED  BY <2>1, <2>2
<1>27. ASSUME NEW x \in OwnersIn(mem), NEW m, FirstIn(m, x) = FirstIn(mem, x)
       PROVE  OwnChain(ch, t.disk, m, op', x)
  BY <1>13, <1>14, <1>17, <1>27 DEF OwnChain
<1>28. \A x \in OwnersIn(mem) : x # w => RightSize(ch[x], CacheIn(dir, mem, x), x, lossy')
  <2> SUFFICES ASSUME NEW x \in OwnersIn(mem), x # w
               PROVE  RightSize(ch[x], CacheIn(dir, mem, x), x, lossy')
    OBVIOUS
  <2>1. ~Unmarked(op, x)
    BY <1>4 DEF Unmarked, Growing
  <2>2. RightSize(ch[x], CacheIn(dir, mem, x), x, lossy)
    BY <1>3, <2>1 DEF Volume
  <2>3. lossy \subseteq lossy'
    BY <1>12
  <2> QED  BY <2>2, <2>3 DEF RightSize
<1>29. ASSUME NEW c, c.lst = op.at, c.size = size PROVE RightSize(ch[w], c, w, lossy')
  <2>1. new.size = size
    BY <1>26
  <2>2. w \in lossy' \/ size = Per(w) * Len(ch[w])
    BY <1>12, <1>18, <2>1
  <2> QED  BY <1>4, <1>29, <2>2 DEF RightSize
<1>30. ASSUME NEW m PROVE Spared(ch, m, op')
  BY <1>13 DEF Spared
<1>31. Due(op') = 0 /\ More(op') = 0
  BY <1>13 DEF Due, More, Growing, Apace
<1>32. tab'.disk = t.disk
  BY <1>12, MovedDisk
<1>33. Root \in OwnersIn(mem)
  BY DEF OwnersIn
<1>34. CASE w = Root
  <2>1. dir' = [lst |-> op.at, size |-> size, buf |-> buf] /\ mem' = mem /\ op' = op.then
    BY <1>4, <1>12, <1>26, <1>34 DEF Onward
  <2>2. dir'.lst = op.at /\ dir'.size = size /\ dir'.buf = buf
    BY <2>1
  <2>3. Shaped(data, dir', mem)
    BY <1>3, <2>1, <2>2 DEF Shaped, Volume
  <2>4. \A x \in OwnersIn(mem) : RightSize(ch[x], CacheIn(dir', mem, x), x, lossy')
    <3> TAKE x \in OwnersIn(mem)
    <3>1. CASE x = w
      BY <1>29, <1>34, <2>2, <3>1 DEF CacheIn
    <3>2. CASE x # w
      BY <1>28, <1>34, <3>2 DEF CacheIn
    <3> QED  BY <3>1, <3>2
  <2>5. Growing(op, Root)
    BY <1>1, <1>4, <1>34 DEF Growing
  <2>6. Covered(DS, ch[Root], size)
    <3>1. DS * (n + Due(op)) <= dir.size + More(op)
      BY <1>3, <1>15, <1>34 DEF Volume, Listing
    <3>2. Due(op) = 0 /\ More(op) = op.more /\ n + 0 = n
      BY <1>1, <1>15, <2>5 DEF Due, More
    <3>3. old = dir
      BY <1>6, <1>34 DEF CacheIn
    <3> QED  BY <1>15, <1>22, <1>34, <3>1, <3>2, <3>3 DEF Covered
  <2>7. ASSUME NEW q \in 1 .. size
        PROVE  buf[q] = IF Within(DS, ch[Root], q) THEN ByteAt(data, ch[Root], DS, q) ELSE Junk
    BY <1>23, <1>34, ValueFacts DEF FilledFrom
  <2>8. \A q \in 1 .. size : buf[q] = Zero => Within(DS, ch[Root], q)
    BY <2>7, ValueFacts
  <2>9. ASSUME NEW f \in Files, mem[f] # NoFile PROVE InSlot(ch[Root], data, dir', mem[f].slot, f)
    <3>1. PICK q : q = mem[f].slot /\ InSlot(ch[Root], data, dir, q, f)
      BY <1>3, <2>9 DEF Volume, Listing
    <3>2. q \in 1 .. size
      <4>1. q \in Nat /\ q >= 1
        BY <1>3, <3>1 DEF InSlot, Volume, Shaped
      <4>2. q <= DS * n
        BY <1>15, <1>34, <3>1 DEF InSlot, Within
      <4>3. DS * n <= size
        BY <1>15, <1>34, <2>6 DEF Covered
      <4>4. DS * n \in Nat
        BY <1>15, FatAssumption
      <4> QED  BY <4>1, <4>2, <4>3, <4>4
    <3>3. buf[q] = ByteAt(data, ch[Root], DS, q)
      BY <2>7, <3>1, <3>2 DEF InSlot
    <3> QED  BY <2>2, <3>1, <3>2, <3>3 DEF InSlot
  <2>10. Listing(ch[Root], data, dir', mem, Due(op'), More(op'))
    <3>1. DS * (Len(ch[Root]) + 0) <= size + 0
      <4>1. n + 0 = n /\ size + 0 = size /\ DS * n <= size
        BY <1>15, <1>34, <2>6 DEF Covered
      <4> QED  BY <1>15, <1>34, <4>1
    <3>2. buf \in [1 .. size -> RootBytes(mem)]
      BY <1>25, <1>34 DEF BytesIn
    <3> QED  BY <1>31, <2>2, <2>8, <2>9, <3>1, <3>2 DEF Listing
  <2>11. Volume(ch, t.disk, data, dir', mem, op', lossy')
    <3>1. \A x \in OwnersIn(mem) : OwnChain(ch, t.disk, mem, op', x)
      BY <1>27
    <3>2. Spared(ch, mem, op')
      BY <1>30
    <3>3. Apart(ch, mem) /\ \A x \in OwnersIn(mem) : OwnBytes(ch[x], data, Per(x), BytesIn(mem, x))
      BY <1>3 DEF Volume
    <3> QED  BY <2>3, <2>4, <2>10, <3>1, <3>2, <3>3 DEF Volume
  <2>12. Adding(op', mem)
    BY <1>4, <1>34, <2>1 DEF Onward, Adding
  <2>13. Good(ch, tab'.disk, data', dir', mem', op', lossy')
    BY <1>12, <1>32, <2>1, <2>11, <2>12 DEF Good, Relied
  <2> QED  BY <2>13 DEF VolumeInv
<1>35. CASE w # Root
  <2>1. PICK l \in 0 .. MaxLen : mem' = [mem EXCEPT ![w] = [fst |-> mem[w].fst, lst |-> op.at,
          size |-> size, buf |-> buf, len |-> l, slot |-> mem[w].slot]]
    <3>1. CASE op.then.do = "seek"
      <4>1. op.then.p \in 0 .. MaxLen
        BY <1>4, <1>35, <3>1 DEF Onward
      <4>2. [new EXCEPT !.len = op.then.p] = [fst |-> mem[w].fst, lst |-> op.at,
              size |-> size, buf |-> buf, len |-> op.then.p, slot |-> mem[w].slot]
        BY <1>26, <1>35
      <4> QED  BY <1>12, <1>35, <3>1, <4>1, <4>2
    <3>2. CASE op.then.do # "seek"
      <4>1. mem[w].len \in 0 .. MaxLen
        BY <1>20, <1>35 DEF Inodes
      <4> QED  BY <1>12, <1>26, <1>35, <3>2, <4>1
    <3> QED  BY <3>1, <3>2
  <2>2. PICK r : r = [fst |-> mem[w].fst, lst |-> op.at, size |-> size, buf |-> buf, len |-> l,
                      slot |-> mem[w].slot]
    OBVIOUS
  <2>3. buf \in Seq(FileBytes)
    BY <1>25, <1>35 DEF BytesIn
  <2>4. r \in Inodes /\ r # NoFile
    <3>1. r \in Inodes
      BY <1>5, <1>20, <1>35, <2>2, <2>3 DEF Inodes
    <3> QED  BY <3>1, ValuesAssumption
  <2>5. mem' = [g \in Files |-> mem'[g]] /\ \A g \in Files : mem'[g] = IF g = w THEN r ELSE mem[g]
    BY <1>3, <1>20, <1>35, <2>1, <2>2 DEF Volume, Shaped
  <2>6. dir' = dir
    BY <1>12, <1>35
  <2>7. OwnersIn(mem') = OwnersIn(mem)
    BY <1>20, <1>35, <2>4, <2>5 DEF OwnersIn
  <2>8. \A g \in Files : mem[g] # NoFile =>
          mem'[g] # NoFile /\ mem'[g].fst = mem[g].fst /\ mem'[g].slot = mem[g].slot
    BY <2>2, <2>4, <2>5
  <2>9. RootBytes(mem') = RootBytes(mem)
    <3>1. \A e \in Descs : e.name \in Files
      BY DEF Descs
    <3>2. \A g \in Files : mem'[g] # NoFile => mem[g] # NoFile
      BY <1>20, <1>35, <2>5
    <3> QED  BY <2>8, <3>1, <3>2 DEF RootBytes
  <2>10. \A x \in OwnersIn(mem) : FirstIn(mem', x) = FirstIn(mem, x) /\ BytesIn(mem', x) = BytesIn(mem, x)
    BY <2>8, <2>9 DEF FirstIn, BytesIn, OwnersIn
  <2>11. \A x \in OwnersIn(mem) : RightSize(ch[x], CacheIn(dir, mem', x), x, lossy')
    <3> TAKE x \in OwnersIn(mem)
    <3>1. CASE x = w
      <4>1. CacheIn(dir, mem', x) = r /\ r.lst = op.at /\ r.size = size
        BY <1>20, <1>35, <2>2, <2>5, <3>1 DEF CacheIn
      <4> QED  BY <1>29, <3>1, <4>1
    <3>2. CASE x # w
      <4>1. CacheIn(dir, mem', x) = CacheIn(dir, mem, x)
        BY <2>5, <3>2 DEF CacheIn, OwnersIn
      <4> QED  BY <1>28, <3>2, <4>1
    <3> QED  BY <3>1, <3>2
  <2>12. Shaped(data, dir, mem')
    <3>1. \A g \in Files : mem'[g] # NoFile => mem'[g] \in Inodes
      BY <1>3, <2>4, <2>5 DEF Volume, Shaped
    <3> QED  BY <1>3, <2>5, <3>1 DEF Volume, Shaped
  <2>13. Listing(ch[Root], data, dir, mem', Due(op'), More(op'))
    <3>1. ~Growing(op, Root)
      BY <1>4, <1>35 DEF Growing
    <3>2. Due(op) = 0 /\ More(op) = 0
      BY <3>1 DEF Due, More
    <3>3. \A g \in Files : mem'[g] # NoFile => InSlot(ch[Root], data, dir, mem'[g].slot, g)
      <4>1. \A g \in Files : mem'[g] # NoFile => mem[g] # NoFile
        BY <1>20, <1>35, <2>5
      <4> QED  BY <1>3, <2>8, <4>1 DEF Volume, Listing
    <3> QED  BY <1>3, <1>31, <2>9, <3>2, <3>3 DEF Volume, Listing
  <2>14. Volume(ch, t.disk, data, dir, mem', op', lossy')
    <3>1. \A x \in OwnersIn(mem') : OwnChain(ch, t.disk, mem', op', x)
      BY <1>27, <2>7, <2>10
    <3>2. Spared(ch, mem', op')
      BY <1>30
    <3>3. Apart(ch, mem')
      BY <1>3, <2>7 DEF Volume, Apart
    <3>4. \A x \in OwnersIn(mem') : OwnBytes(ch[x], data, Per(x), BytesIn(mem', x))
      BY <1>3, <2>7, <2>10 DEF Volume
    <3> QED  BY <2>7, <2>11, <2>12, <2>13, <3>1, <3>2, <3>3, <3>4 DEF Volume
  <2>15. op' = Idle \/ Writing(op', mem')
    <3>1. CASE op.then.do = "seek"
      BY <1>12, <3>1
    <3>2. CASE op.then.do # "seek"
      <4>1. op' = op.then
        BY <1>12, <3>2
      <4>2. op.then \in [do : {"put"}, who : {w}, p : Nat, n : Nat] /\ op.then.p + op.then.n <= MaxLen
        BY <1>4, <1>35, <3>2 DEF Onward
      <4>3. mem'[w] = r /\ r.buf = buf
        BY <1>20, <1>35, <2>2, <2>5
      <4> QED  BY <1>20, <1>35, <2>3, <2>4, <4>1, <4>2, <4>3 DEF Writing
    <3> QED  BY <3>1, <3>2
  <2>16. Good(ch, tab'.disk, data', dir', mem', op', lossy')
    BY <1>12, <1>32, <2>6, <2>14, <2>15 DEF Good, Relied
  <2> QED  BY <2>16 DEF VolumeInv
<1> QED  BY <1>34, <1>35

----------------------------------------------------------------------------
LEMMA NextVolume ==
  ASSUME Sound(tab), VolumeInv, [Next]_vars
  PROVE  VolumeInv'
<1>1. CASE Mount
  BY <1>1, MountStep
<1>2. CASE GrowStep
  BY <1>2, GrowStepStep
<1>3. CASE GrowEnd
  BY <1>3, GrowEndStep
<1>4. CASE Add
  BY <1>4, AddStep
<1>5. CASE Enter
  BY <1>5, EnterStep
<1>6. CASE Put
  BY <1>6, PutStep
<1>7. CASE Flush
  BY <1>7, FlushStep
<1>8. ASSUME NEW f \in Files, Create(f) PROVE VolumeInv'
  BY <1>8, CreateStep
<1>9. ASSUME NEW f \in Files, Read(f) PROVE VolumeInv'
  BY <1>9, ReadStep
<1>10. ASSUME NEW f \in Files, NEW p \in 0 .. MaxLen, Seek(f, p) PROVE VolumeInv'
  BY <1>10, SeekStep
<1>11. ASSUME NEW f \in Files, NEW p \in 0 .. MaxLen, NEW n \in Lens, Write(f, p, n)
       PROVE  VolumeInv'
  BY <1>11, WriteStep
<1>12. CASE UNCHANGED vars
  BY <1>12 DEF vars, VolumeInv, Good, Volume, Shaped, OverEntries, Listing, Relied,
               Enlarging, Adding, Entering, Writing, Flushing
<1> QED
  BY <1>1, <1>2, <1>3, <1>4, <1>5, <1>6, <1>7, <1>8, <1>9, <1>10, <1>11, <1>12 DEF Next

(* The chains of a volume at rest, as the invariant knows them. *)
LEMMA SettledChains ==
  ASSUME Sound(tab), VolumeInv, Settled
  PROVE  \E ch :
           /\ Volume(ch, tab.disk, data, dir, mem, op, lossy)
           /\ \A x \in Owners : /\ x \in OwnersIn(mem) /\ ~Unmarked(op, x)
                                /\ Strung(tab.disk, ch[x]) /\ tab.disk[LastOf(ch[x])] = NE
                                /\ Chain(tab, First(x)) = ch[x]
<1>1. PICK ch : Volume(ch, tab.disk, data, dir, mem, op, lossy)
  BY DEF VolumeInv, Settled, Good
<1>2. \A x : ~Unmarked(op, x)
  BY DEF Settled, Unmarked, Growing
<1>3. ASSUME NEW x \in Owners
      PROVE  x \in OwnersIn(mem) /\ First(x) = FirstIn(mem, x)
  BY DEF Owners, OwnersIn, First, FirstIn
<1>4. ASSUME NEW x \in Owners
      PROVE  Closed(tab, ch[x]) /\ Chain(tab, First(x)) = ch[x]
  <2>1. x \in OwnersIn(mem) /\ ~Unmarked(op, x)
    BY <1>2, <1>3
  <2>2. Closed(tab, ch[x])
    BY <1>1, <2>1, ClosedIs
  <2>3. First(x) = ch[x][1]
    BY <1>1, <1>3, <2>1 DEF Volume, OwnChain
  <2>4. Chain(tab, First(x)) = ch[x]
    BY <2>2, <2>3, ChainIs DEF Closed
  <2> QED  BY <2>2, <2>4
<1> QED  BY <1>1, <1>2, <1>3, <1>4 DEF Closed

LEMMA StrungSize ==
  ASSUME NEW D, NEW s, Strung(D, s)
  PROVE  Cardinality(SetOf(s)) = Len(s)
<1>1. PICK n \in Nat : n = Len(s)
  BY StrungIs
<1> DEFINE f == [i \in 1 .. n |-> s[i]]
<1>2. \A i, j \in 1 .. n : f[i] = f[j] => i = j
  BY <1>1 DEF Strung
<1>3. f \in Bijection(1 .. n, SetOf(s))
  <2>1. f \in [1 .. n -> SetOf(s)] /\ \A v \in SetOf(s) : \E i \in 1 .. n : f[i] = v
    BY <1>1 DEF SetOf
  <2> QED  BY <1>2, <2>1 DEF Bijection, Injection, IsInjective, Surjection
<1> QED  BY <1>1, <1>3, FS_CountingElements DEF ExistsBijection

(* A cluster of a chain that is closed is not free. *)
LEMMA StrungUsed ==
  ASSUME NEW D, NEW s, Strung(D, s), D[LastOf(s)] = NE, NEW c \in SetOf(s)
  PROVE  D[c] # 0
<1>1. PICK n \in Nat : n = Len(s) /\ n >= 1
  BY StrungIs
<1>2. PICK k \in 1 .. n : c = s[k]
  BY <1>1 DEF SetOf
<1>3. CASE k = n
  BY <1>1, <1>2, <1>3, ValueFacts DEF LastOf
<1>4. CASE k # n
  <2>1. k \in 1 .. n - 1 /\ k + 1 \in 1 .. n
    BY <1>1, <1>4
  <2>2. D[c] = s[k + 1]
    BY <1>1, <1>2, <2>1 DEF Strung
  <2>3. s[k + 1] \in Nat /\ s[k + 1] >= Root
    BY <1>1, <2>1, StrungIs
  <2> QED  BY <2>2, <2>3, ValueFacts
<1> QED  BY <1>3, <1>4

LEMMA ApartFollows ==
  ASSUME Sound(tab), VolumeInv
  PROVE  ChainsApart
<1> SUFFICES ASSUME Settled
             PROVE  /\ \A x \in Owners :
                         /\ Cardinality(SetOf(Chain(tab, First(x)))) = Len(Chain(tab, First(x)))
                         /\ \A c \in SetOf(Chain(tab, First(x))) : ValueOf(tab, c) # 0
                    /\ \A x, y \in Owners : x # y =>
                         SetOf(Chain(tab, First(x))) \cap SetOf(Chain(tab, First(y))) = {}
  BY DEF ChainsApart
<1>1. PICK ch :
        /\ Volume(ch, tab.disk, data, dir, mem, op, lossy)
        /\ \A x \in Owners : /\ x \in OwnersIn(mem) /\ ~Unmarked(op, x)
                             /\ Strung(tab.disk, ch[x]) /\ tab.disk[LastOf(ch[x])] = NE
                             /\ Chain(tab, First(x)) = ch[x]
  BY SettledChains
<1>2. ASSUME NEW x \in Owners
      PROVE  /\ Cardinality(SetOf(Chain(tab, First(x)))) = Len(Chain(tab, First(x)))
             /\ \A c \in SetOf(Chain(tab, First(x))) : ValueOf(tab, c) # 0
  <2>1. \A c \in SetOf(ch[x]) : c \in Entries
    BY <1>1, StrungIs DEF SetOf
  <2>2. \A c \in SetOf(ch[x]) : tab.disk[c] # 0
    BY <1>1, StrungUsed
  <2>3. \A c \in SetOf(ch[x]) : ValueOf(tab, c) # 0
    BY <2>1, <2>2, ValueIs
  <2> QED  BY <1>1, <2>3, StrungSize
<1>3. ASSUME NEW x \in Owners, NEW y \in Owners, x # y
      PROVE  SetOf(Chain(tab, First(x))) \cap SetOf(Chain(tab, First(y))) = {}
  BY <1>1, <1>3 DEF Volume, Apart, Disjoint
<1> QED  BY <1>2, <1>3

LEMMA SizeFollows ==
  ASSUME Sound(tab), VolumeInv
  PROVE  SizeIsChain
<1> SUFFICES ASSUME Settled, NEW x \in Owners
             PROVE  LET s == Chain(tab, First(x))
                        c == IF x = Root THEN dir ELSE mem[x]
                    IN  c.lst = s[Len(s)] /\ (x \in lossy \/ c.size = Per(x) * Len(s))
  BY DEF SizeIsChain
<1>1. PICK ch :
        /\ Volume(ch, tab.disk, data, dir, mem, op, lossy)
        /\ \A y \in Owners : /\ y \in OwnersIn(mem) /\ ~Unmarked(op, y)
                             /\ Strung(tab.disk, ch[y]) /\ tab.disk[LastOf(ch[y])] = NE
                             /\ Chain(tab, First(y)) = ch[y]
  BY SettledChains
<1>2. RightSize(ch[x], CacheIn(dir, mem, x), x, lossy)
  BY <1>1 DEF Volume
<1> QED  BY <1>1, <1>2 DEF RightSize, LastOf, CacheIn

(* The inductive invariant of the volume. *)
THEOREM VolumeStaysWhole == Spec => []VolumeInv
<1>1. Init => VolumeInv
  BY InitVolume
<1>2. TableSound /\ VolumeInv /\ [Next]_vars => VolumeInv'
  BY NextVolume DEF TableSound
<1> QED  BY <1>1, <1>2, TableStaysSound, PTL DEF Spec

(* No two files, nor a file and the directory, ever share a cluster; no    *)
(* chain closes on itself or leads to a free cluster once the call that    *)
(* made it longer has ended, although searches stop short, clusters are    *)
(* found twice, and the machine stops between any two writes.              *)
THEOREM ChainsStayApart == Spec => []ChainsApart
<1>1. TableSound /\ VolumeInv => ChainsApart
  BY ApartFollows DEF TableSound
<1> QED  BY <1>1, TableStaysSound, VolumeStaysWhole, PTL

(* lst_fat and size_byte, kept apart from the table, are the end and the   *)
(* length of the chain, but for files an enlarge has left too short.       *)
THEOREM SizesAreChains == Spec => []SizeIsChain
<1>1. TableSound /\ VolumeInv => SizeIsChain
  BY SizeFollows DEF TableSound
<1> QED  BY <1>1, TableStaysSound, VolumeStaysWhole, PTL
=============================================================================
