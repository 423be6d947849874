----------------------------- MODULE VfsProofs -----------------------------
(***************************************************************************)
(* Proofs about module Vfs, for any discs, names, threads and descriptors. *)
(* First that what refers to a dentry or an element refers to one that is  *)
(* there (InPlace), with what each step does to dents; then that           *)
(* refer_count is the number of open files of a name (CountOK), until two  *)
(* calls change it at once; then that a file read, written or moved        *)
(* without a call on the same name between keeps its own offset (PosOK).   *)
(***************************************************************************)
EXTENDS Vfs, FiniteSetTheorems, TLAPS

(* Every set of natural numbers has a least element. *)
LEMMA LeastNat ==
  ASSUME NEW T \in SUBSET Nat, T # {}
  PROVE  \E m \in T : \A n \in T : m <= n
<1> DEFINE R == {p \in Nat \X Nat : p[1] < p[2]}
<1>1. IsWellFoundedOn(R, Nat)
  BY NatLessThanWellFounded DEF OpToRel
<1>2. PICK m \in T : \A n \in T : <<n, m>> \notin R
  <2> HIDE DEF R
  <2> QED BY <1>1, WFMin
<1>3. \A n \in T : <<n, m>> \in Nat \X Nat
  OBVIOUS
<1>4. \A n \in T : ~(n < m)
  BY <1>2, <1>3
<1> QED BY <1>4

(* That an element is there, and is of a file *)
There(e) == e[1] \in DOMAIN dents /\ e[2] \in DOMAIN dents[e[1]].elems

FileAt(e) == There(e) /\ At(e).is = NoDir

DentsOK ==
  /\ dents \in Seq(Dentries) /\ dents # <<>>
  /\ \A d \in DOMAIN dents :
       /\ dents[d].up \in DOMAIN dents
       /\ \A i \in DOMAIN dents[d].elems : dents[d].elems[i].sub \in {0} \cup DOMAIN dents

FilesOK ==
  /\ files \in [Slots -> Opened \cup {Free}]
  /\ \A f \in Slots : files[f] # Free => FileAt(files[f].e)

LeaksOK == leaks \in Seq(Places) /\ \A i \in DOMAIN leaks : There(leaks[i])

(* What a call has looked up is there. *)
DoingOK(c) ==
  /\ c.do \in {"walk", "listed", "create", "copy", "link", "load"} => c.d \in DOMAIN dents
  /\ c.do \in {"copy", "link", "load"} => c.rest # <<>>
  /\ c.do \in {"opened", "count", "drop", "copy", "link", "load"} => There(c.e)
  /\ c.do \in {"copy", "link", "load"} => At(c.e).is \in Dirs
  /\ c.do \in {"opened", "count"} => FileAt(c.e)
  /\ c.do \in {"link", "load"} => At(c.e).sub # 0
  /\ c.do = "load" => c.into \in DOMAIN dents
  /\ c.do \in {"act", "unpark"} => files[c.f] # Free

PcOK ==
  /\ pc \in [Threads -> Doings \cup {Idle}]
  /\ \A t \in Threads : pc[t] # Idle => DoingOK(pc[t])

RestOK ==
  /\ disc \in [Dirs -> Seq(Entries)] /\ crossed \in BOOLEAN /\ astray \in BOOLEAN /\ drift \subseteq Places
  /\ halted \in BOOLEAN /\ calls \in Nat

InPlace == DentsOK /\ FilesOK /\ LeaksOK /\ PcOK /\ RestOK

LEMMA InPlaceTypes == InPlace => VfsTypeOK
BY DEF InPlace, DentsOK, FilesOK, LeaksOK, PcOK, RestOK, VfsTypeOK

(* Dentries and elements are added, never removed or renamed. *)
Grows ==
  \A d \in DOMAIN dents :
    /\ d \in DOMAIN dents' /\ dents'[d].dir = dents[d].dir /\ dents'[d].up = dents[d].up
    /\ \A i \in DOMAIN dents[d].elems :
         /\ i \in DOMAIN dents'[d].elems
         /\ dents'[d].elems[i].name = dents[d].elems[i].name
         /\ dents'[d].elems[i].is = dents[d].elems[i].is
         /\ dents[d].elems[i].sub # 0 => dents'[d].elems[i].sub # 0

LEMMA DoingIs ==
  ASSUME NEW c \in Doings
  PROVE  /\ c # Idle
         /\ c.do \in {"walk", "create", "copy", "link", "load", "listed", "opened", "count"} => c.o \in Opens
         /\ c.do \in {"walk", "create", "copy", "link", "load", "listed"} => c.d \in Nat
         /\ c.do \in {"walk", "copy", "link", "load"} => c.rest \in Seq(Parts)
         /\ c.do \in {"copy", "link", "load", "opened", "count", "drop"} => c.e \in Places
         /\ c.do = "create" => c.name \in Names /\ c.seen \in Nat
         /\ c.do = "load" => c.into \in Nat /\ c.k \in Nat /\ c.from \in Nat /\ c.on \in Seq(Entries)
         /\ c.do = "load" => c \in Loads
         /\ c.do \in {"copy", "link"} => c.seen \in Nat
         /\ c.do \in {"count", "drop"} => c.r \in Nat
         /\ c.do \in {"act", "unpark"} => c.f \in Slots /\ c.op \in Ops
         /\ c.do \in {"walk", "create", "copy", "link", "load", "listed", "failed", "opened", "count",
                      "drop", "act", "unpark"}
BY VfsAssumption DEF Doings, Loads

LEMMA FileIs ==
  ASSUME NEW x \in Opened
  PROVE  /\ x # Free /\ x.e \in Places /\ x.pos \in Nat /\ x.o \in Opens /\ x.own \in Nat
         /\ x.mixed \in BOOLEAN
BY VfsAssumption DEF Opened

(* What a call has looked up stays there. *)
LEMMA ThereStays ==
  ASSUME Grows, NEW e, There(e)
  PROVE  There(e)' /\ (At(e).sub # 0 => At(e)'.sub # 0) /\ At(e)'.is = At(e).is /\ At(e)'.name = At(e).name
BY DEF Grows, There, At

LEMMA FileStays ==
  ASSUME Grows, NEW e, FileAt(e)
  PROVE  FileAt(e)'
BY ThereStays DEF FileAt

LEMMA DoingStays ==
  ASSUME Grows, NEW c \in Doings, DoingOK(c), c.do \in {"act", "unpark"} => files'[c.f] # Free
  PROVE  DoingOK(c)'
BY ThereStays, FileStays DEF DoingOK, Grows, There

(* A step of t, that is doing c after it *)
Does(t, c) == pc' = [pc EXCEPT ![t] = c]

LEMMA Moves ==
  ASSUME InPlace, Grows, DentsOK', FilesOK', LeaksOK', RestOK',
         NEW t \in Threads, NEW c \in Doings \cup {Idle}, Does(t, c),
         c # Idle => DoingOK(c)',
         \A u \in Threads \ {t} :
           pc[u] # Idle /\ pc[u].do \in {"act", "unpark"} => files'[pc[u].f] # Free
  PROVE  InPlace'
<1>1. pc \in [Threads -> Doings \cup {Idle}] /\ \A u \in Threads : pc[u] # Idle => DoingOK(pc[u])
  BY DEF InPlace, PcOK
<1>2. pc'[t] = c /\ \A u \in Threads \ {t} : pc'[u] = pc[u]
  BY <1>1 DEF Does
<1>3. pc' \in [Threads -> Doings \cup {Idle}]
  BY <1>1 DEF Does
<1>4. ASSUME NEW u \in Threads, pc'[u] # Idle
      PROVE  DoingOK(pc[u])'
  <2>1. CASE u = t
    BY <1>2, <1>4, <2>1
  <2>2. CASE u # t
    <3>1. PICK x : x = pc[u]
      OBVIOUS
    <3>2. x \in Doings /\ DoingOK(x) /\ (x.do \in {"act", "unpark"} => files'[x.f] # Free)
      BY <1>1, <1>2, <1>4, <2>2, <3>1
    <3>3. DoingOK(x)'
      BY <3>2, DoingStays
    <3> QED BY <1>2, <2>2, <3>1, <3>3
  <2> QED BY <2>1, <2>2
<1> QED BY <1>3, <1>4 DEF InPlace, PcOK

LEMMA IsSeq ==
  ASSUME NEW S, NEW n \in Nat, NEW f \in [1 .. n -> S]
  PROVE  f \in Seq(S) /\ Len(f) = n
OBVIOUS

LEMMA AppendIs ==
  ASSUME NEW S, NEW s \in Seq(S), NEW z \in S
  PROVE  /\ Append(s, z) \in Seq(S) /\ Len(Append(s, z)) = Len(s) + 1
         /\ DOMAIN Append(s, z) = 1 .. (Len(s) + 1) /\ Append(s, z)[Len(s) + 1] = z
         /\ \A i \in 1 .. Len(s) : Append(s, z)[i] = s[i]
OBVIOUS

LEMMA ElemIs ==
  ASSUME NEW n \in Entries, NEW x \in Nat
  PROVE  /\ Elem(n, x) \in Elements /\ Elem(n, x).name = n.name /\ Elem(n, x).is = n.is
         /\ Elem(n, x).sub = x /\ Elem(n, x).refer = 0
<1>1. n.name \in Names /\ n.is \in Dirs \cup {NoDir} /\ n.size \in Nat /\ CS \in Nat \ {0}
  BY VfsAssumption DEF Entries
<1>2. ((n.size + CS - 1) \div CS) * CS \in Nat
  <2>1. PICK a \in Nat : a = n.size + CS - 1
    BY <1>1
  <2>2. a \div CS \in Nat
    BY <1>1
  <2>3. (a \div CS) * CS \in Nat
    BY <1>1, <2>2
  <2> QED BY <2>1, <2>3
<1> QED BY <1>1, <1>2 DEF Elem, Elements

LEMMA BootIs ==
  ASSUME NEW x
  PROVE  BootIndex(x) \in {0} \cup DOMAIN Booted /\ (x \in BootDirs => BootIndex(x) # 0 /\ Booted[BootIndex(x)] = x)
         /\ (BootIndex(x) # 0 => Booted[BootIndex(x)] = x)
BY VfsAssumption DEF BootIndex, BootDirs

LEMMA InitDents ==
  ASSUME VfsInit
  PROVE  /\ DentsOK /\ Len(dents) = Len(Booted)
         /\ \A j \in DOMAIN dents :
              /\ dents[j].dir = Booted[j] /\ dents[j].set
              /\ dents[j].up = (IF Kind[Booted[j]] = "null" THEN 1 ELSE j)
              /\ Len(dents[j].elems) = Len(Disc[Booted[j]])
              /\ \A i \in DOMAIN dents[j].elems :
                   dents[j].elems[i] = Elem(Disc[Booted[j]][i], BootIndex(Disc[Booted[j]][i].is))
<1>1. Booted \in Seq(Dirs) /\ Len(Booted) \in Nat \ {0} /\ DOMAIN Booted = 1 .. Len(Booted)
  BY VfsAssumption
<1> DEFINE els(j) == [i \in DOMAIN Disc[Booted[j]] |-> Elem(Disc[Booted[j]][i], BootIndex(Disc[Booted[j]][i].is))]
           up(j) == IF Kind[Booted[j]] = "null" THEN 1 ELSE j
           dent(j) == [dir |-> Booted[j], set |-> TRUE, up |-> up(j), elems |-> els(j)]
<1>2. dents = [j \in 1 .. Len(Booted) |-> dent(j)]
  BY <1>1 DEF VfsInit
<1>3. ASSUME NEW j \in 1 .. Len(Booted)
      PROVE  els(j) \in Seq(Elements) /\ Len(els(j)) = Len(Disc[Booted[j]])
  <2>1. Booted[j] \in Dirs /\ Disc[Booted[j]] \in Seq(Entries)
    BY <1>1, VfsAssumption
  <2>2. PICK n \in Nat : n = Len(Disc[Booted[j]]) /\ DOMAIN Disc[Booted[j]] = 1 .. n
    BY <2>1
  <2>3. \A i \in 1 .. n : Elem(Disc[Booted[j]][i], BootIndex(Disc[Booted[j]][i].is)) \in Elements
    <3> TAKE i \in 1 .. n
    <3>1. Disc[Booted[j]][i] \in Entries /\ BootIndex(Disc[Booted[j]][i].is) \in Nat
      BY <1>1, <2>1, <2>2, BootIs
    <3> QED BY <3>1, ElemIs
  <2>4. els(j) \in [1 .. n -> Elements]
    BY <2>2, <2>3
  <2> QED BY <2>2, <2>4, IsSeq
<1>4. ASSUME NEW j \in 1 .. Len(Booted)
      PROVE  dent(j) \in Dentries
  <2> HIDE DEF els
  <2> QED BY <1>1, <1>3, <1>4 DEF Dentries
<1>5. dents \in Seq(Dentries) /\ Len(dents) = Len(Booted)
  <2> HIDE DEF dent
  <2> QED BY <1>1, <1>2, <1>4, IsSeq
<1>6. \A j \in 1 .. Len(Booted) : dents[j] = dent(j)
  BY <1>2
<1>7. \A j \in DOMAIN dents :
        /\ dents[j].dir = Booted[j] /\ dents[j].set /\ dents[j].up = up(j)
        /\ Len(dents[j].elems) = Len(Disc[Booted[j]])
        /\ \A i \in DOMAIN dents[j].elems :
              dents[j].elems[i] = Elem(Disc[Booted[j]][i], BootIndex(Disc[Booted[j]][i].is))
  <2> TAKE j \in DOMAIN dents
  <2>1. j \in 1 .. Len(Booted)
    BY <1>5
  <2>2. /\ dents[j].dir = Booted[j] /\ dents[j].set /\ dents[j].up = up(j) /\ dents[j].elems = els(j)
    <3>1. PICK a, b : a = els(j) /\ b = up(j)
      OBVIOUS
    <3>2. dents[j] = [dir |-> Booted[j], set |-> TRUE, up |-> b, elems |-> a]
      BY <1>6, <2>1, <3>1
    <3> HIDE DEF els, up
    <3> QED BY <3>1, <3>2
  <2>3. els(j) \in Seq(Elements) /\ Len(els(j)) = Len(Disc[Booted[j]])
    BY <1>3, <2>1
  <2>4. \A i \in DOMAIN els(j) : els(j)[i] = Elem(Disc[Booted[j]][i], BootIndex(Disc[Booted[j]][i].is))
    OBVIOUS
  <2> HIDE DEF els, up
  <2> QED BY <2>2, <2>3, <2>4
<1>8. ASSUME NEW j \in DOMAIN dents, NEW i \in DOMAIN dents[j].elems
      PROVE  dents[j].elems[i].sub \in {0} \cup DOMAIN dents
  <2>1. j \in 1 .. Len(Booted) /\ Booted[j] \in Dirs /\ Disc[Booted[j]] \in Seq(Entries)
    BY <1>1, <1>5, VfsAssumption
  <2>2. i \in 1 .. Len(Disc[Booted[j]])
    BY <1>5, <1>7, <2>1 DEF Dentries
  <2>3. Disc[Booted[j]][i] \in Entries
    BY <2>1, <2>2
  <2>4. BootIndex(Disc[Booted[j]][i].is) \in {0} \cup DOMAIN dents
    BY <1>1, <1>5, BootIs
  <2>5. BootIndex(Disc[Booted[j]][i].is) \in Nat
    BY <1>1, <1>5, <2>4
  <2> QED BY <1>7, <2>3, <2>4, <2>5, ElemIs
<1>9. \A j \in DOMAIN dents : dents[j].up \in DOMAIN dents
  BY <1>1, <1>5, <1>7
<1> QED BY <1>1, <1>5, <1>7, <1>8, <1>9 DEF DentsOK

LEMMA InitInPlace == VfsInit => InPlace
<1> SUFFICES ASSUME VfsInit PROVE InPlace
  OBVIOUS
<1>1. DentsOK
  BY InitDents
<1>2. FilesOK /\ LeaksOK
  BY DEF VfsInit, FilesOK, LeaksOK
<1>3. PcOK /\ RestOK
  BY VfsAssumption DEF VfsInit, PcOK, RestOK
<1> QED BY <1>1, <1>2, <1>3 DEF InPlace
----------------------------------------------------------------------------
(***************************************************************************)
(* How a step changes the dentries                                         *)
(***************************************************************************)
(* The fields of a dentry and of an element *)
LEMMA DentIs ==
  ASSUME DentsOK, NEW d \in DOMAIN dents
  PROVE  /\ dents[d].dir \in Dirs /\ dents[d].up \in DOMAIN dents /\ dents[d].set \in BOOLEAN
         /\ dents[d].elems \in Seq(Elements) /\ d \in Nat \ {0}
         /\ Len(dents[d].elems) \in Nat /\ DOMAIN dents[d].elems = 1 .. Len(dents[d].elems)
         /\ \A i \in DOMAIN dents[d].elems :
              /\ dents[d].elems[i] \in Elements /\ i \in Nat \ {0}
              /\ dents[d].elems[i].sub \in {0} \cup DOMAIN dents
<1>1. dents \in Seq(Dentries) /\ d \in 1 .. Len(dents) /\ dents[d] \in Dentries
  BY DEF DentsOK
<1>2. PICK x \in Dentries : x = dents[d]
  BY <1>1
<1>3. x.dir \in Dirs /\ x.set \in BOOLEAN /\ x.elems \in Seq(Elements)
  BY DEF Dentries
<1>4. /\ Len(x.elems) \in Nat /\ DOMAIN x.elems = 1 .. Len(x.elems)
      /\ \A i \in DOMAIN x.elems : x.elems[i] \in Elements /\ i \in Nat \ {0}
  BY <1>3
<1>5. dents[d].up \in DOMAIN dents /\ d \in Nat \ {0}
  BY <1>1 DEF DentsOK
<1>6. \A i \in DOMAIN dents[d].elems : dents[d].elems[i].sub \in {0} \cup DOMAIN dents
  BY DEF DentsOK
<1> QED BY <1>2, <1>3, <1>4, <1>5, <1>6

LEMMA AtIs ==
  ASSUME DentsOK, NEW e, There(e)
  PROVE  /\ At(e) \in Elements /\ At(e).sub \in {0} \cup DOMAIN dents /\ KindOf(e) \in {"iso", "fat", "null"}
         /\ At(e).seek \in Nat /\ At(e).size \in Nat /\ At(e).cap \in Nat /\ At(e).refer \in Nat
         /\ At(e).name \in Names /\ At(e).is \in Dirs \cup {NoDir} /\ e[1] \in Nat /\ e[2] \in Nat
<1>1. At(e) \in Elements /\ At(e).sub \in {0} \cup DOMAIN dents /\ dents[e[1]].dir \in Dirs
  BY DentIs DEF There, At
<1>2. \A d \in Dirs : Kind[d] \in {"iso", "fat", "null"}
  BY VfsAssumption
<1>3. KindOf(e) \in {"iso", "fat", "null"}
  BY <1>1, <1>2 DEF KindOf
<1>4. e[1] \in Nat /\ e[2] \in Nat
  BY DentIs DEF There
<1>5. \A y \in Elements : /\ y.seek \in Nat /\ y.size \in Nat /\ y.cap \in Nat /\ y.refer \in Nat
                         /\ y.name \in Names /\ y.is \in Dirs \cup {NoDir}
  BY DEF Elements
<1> QED BY <1>1, <1>3, <1>4, <1>5

(* An element of one dentry becomes y. *)
Put(D, d, k, y) == [D EXCEPT ![d].elems[k] = y]

LEMMA PutIs ==
  ASSUME NEW D \in Seq(Dentries), NEW d \in DOMAIN D, NEW k \in DOMAIN D[d].elems, NEW y \in Elements,
         NEW E, E = Put(D, d, k, y)
  PROVE  /\ E \in Seq(Dentries) /\ Len(E) = Len(D) /\ DOMAIN E = DOMAIN D
         /\ \A c \in DOMAIN D :
              /\ E[c].dir = D[c].dir /\ E[c].up = D[c].up /\ E[c].set = D[c].set
              /\ Len(E[c].elems) = Len(D[c].elems) /\ DOMAIN E[c].elems = DOMAIN D[c].elems
              /\ \A i \in DOMAIN D[c].elems : E[c].elems[i] = IF c = d /\ i = k THEN y ELSE D[c].elems[i]
<1>1. PICK q : q = [D[d].elems EXCEPT ![k] = y]
  OBVIOUS
<1>2. PICK x \in Dentries : x = D[d]
  OBVIOUS
<1>3. x.elems \in Seq(Elements)
  BY DEF Dentries
<1>4. q \in Seq(Elements) /\ DOMAIN q = DOMAIN x.elems /\ Len(q) = Len(x.elems)
      /\ \A i \in DOMAIN q : q[i] = IF i = k THEN y ELSE x.elems[i]
  BY <1>1, <1>2, <1>3
<1>5. PICK p : p = [x EXCEPT !.elems = q]
  OBVIOUS
<1>6. p \in Dentries /\ p.dir = x.dir /\ p.up = x.up /\ p.set = x.set /\ p.elems = q
  BY <1>4, <1>5 DEF Dentries
<1>7. E = [D EXCEPT ![d] = p]
  BY <1>1, <1>2, <1>5 DEF Put
<1>8. PICK n \in Nat : n = Len(D) /\ DOMAIN D = 1 .. n /\ D \in [1 .. n -> Dentries]
  OBVIOUS
<1>9. E \in [1 .. n -> Dentries] /\ \A c \in 1 .. n : E[c] = IF c = d THEN p ELSE D[c]
  BY <1>6, <1>7, <1>8
<1>10. E \in Seq(Dentries) /\ Len(E) = n /\ DOMAIN E = 1 .. n
  BY <1>9, IsSeq
<1> QED BY <1>2, <1>4, <1>6, <1>8, <1>9, <1>10

(* An element becomes y, which leads to as many dentries. *)
LEMMA ElemChanges ==
  ASSUME DentsOK, NEW d \in DOMAIN dents, NEW k \in DOMAIN dents[d].elems, NEW y \in Elements,
         y.sub = dents[d].elems[k].sub, y.name = dents[d].elems[k].name, y.is = dents[d].elems[k].is,
         dents' = Put(dents, d, k, y)
  PROVE  /\ DentsOK' /\ Grows /\ DOMAIN dents' = DOMAIN dents
         /\ \A c \in DOMAIN dents :
              /\ dents'[c].set = dents[c].set /\ dents'[c].dir = dents[c].dir
              /\ Len(dents'[c].elems) = Len(dents[c].elems)
              /\ DOMAIN dents'[c].elems = DOMAIN dents[c].elems
              /\ \A i \in DOMAIN dents[c].elems :
                   dents'[c].elems[i] = IF c = d /\ i = k THEN y ELSE dents[c].elems[i]
<1>1. PICK D, E : D = dents /\ E = dents'
  OBVIOUS
<1>2. D \in Seq(Dentries) /\ E = Put(D, d, k, y)
  BY <1>1 DEF DentsOK, Put
<1>3. /\ E \in Seq(Dentries) /\ Len(E) = Len(D) /\ DOMAIN E = DOMAIN D
      /\ \A c \in DOMAIN D :
              /\ E[c].dir = D[c].dir /\ E[c].up = D[c].up /\ E[c].set = D[c].set
              /\ Len(E[c].elems) = Len(D[c].elems) /\ DOMAIN E[c].elems = DOMAIN D[c].elems
              /\ \A i \in DOMAIN D[c].elems : E[c].elems[i] = IF c = d /\ i = k THEN y ELSE D[c].elems[i]
  <2>1. d \in DOMAIN D /\ k \in DOMAIN D[d].elems
    BY <1>1
  <2> QED BY <1>2, <2>1, PutIs
<1>6. dents' \in Seq(Dentries) /\ DOMAIN dents' = DOMAIN dents
  BY <1>1, <1>3
<1>7. \A c \in DOMAIN dents :
        /\ dents'[c].set = dents[c].set /\ dents'[c].dir = dents[c].dir
        /\ Len(dents'[c].elems) = Len(dents[c].elems)
        /\ DOMAIN dents'[c].elems = DOMAIN dents[c].elems
        /\ \A i \in DOMAIN dents[c].elems :
              dents'[c].elems[i] = IF c = d /\ i = k THEN y ELSE dents[c].elems[i]
  BY <1>1, <1>3
<1>8. \A c \in DOMAIN dents : dents'[c].up = dents[c].up
  BY <1>1, <1>3
<1>9. DentsOK'
  <2>1. dents # <<>> /\ dents' # <<>>
    BY <1>6 DEF DentsOK
  <2>2. ASSUME NEW c \in DOMAIN dents'
        PROVE  /\ dents'[c].up \in DOMAIN dents'
               /\ \A i \in DOMAIN dents'[c].elems : dents'[c].elems[i].sub \in {0} \cup DOMAIN dents'
    <3>1. c \in DOMAIN dents
      BY <1>6
    <3>2. dents[c].up \in DOMAIN dents
          /\ \A i \in DOMAIN dents[c].elems : dents[c].elems[i].sub \in {0} \cup DOMAIN dents
      BY <3>1 DEF DentsOK
    <3>3. \A i \in DOMAIN dents[c].elems : dents'[c].elems[i].sub = dents[c].elems[i].sub
      BY <1>7, <3>1
    <3> QED BY <1>6, <1>7, <1>8, <3>1, <3>2, <3>3
  <2> QED BY <1>6, <2>1, <2>2 DEF DentsOK
<1>10. Grows
  BY <1>6, <1>7, <1>8 DEF Grows
<1> QED BY <1>6, <1>7, <1>9, <1>10

(* An element is added to a dentry. *)
WithElem(D, d, y) == [D EXCEPT ![d].elems = Append(@, y)]

LEMMA ElemAdded ==
  ASSUME DentsOK, NEW d \in DOMAIN dents, NEW y \in Elements, y.sub = 0,
         dents' = WithElem(dents, d, y)
  PROVE  /\ DentsOK' /\ Grows /\ DOMAIN dents' = DOMAIN dents
         /\ \A c \in DOMAIN dents :
              /\ dents'[c].set = dents[c].set /\ dents'[c].dir = dents[c].dir
              /\ Len(dents'[c].elems) = (IF c = d THEN Len(dents[c].elems) + 1 ELSE Len(dents[c].elems))
              /\ \A i \in DOMAIN dents[c].elems : dents'[c].elems[i] = dents[c].elems[i]
         /\ dents'[d].elems[Len(dents[d].elems) + 1] = y
<1>1. PICK x \in Dentries : x = dents[d]
  BY DEF DentsOK
<1>2. x.elems \in Seq(Elements)
  BY DEF Dentries
<1>3. PICK q : q = Append(x.elems, y)
  OBVIOUS
<1>4. q \in Seq(Elements) /\ Len(q) = Len(x.elems) + 1 /\ q[Len(q)] = y
      /\ \A i \in DOMAIN x.elems : q[i] = x.elems[i]
  BY <1>2, <1>3
<1>5. PICK p : p = [x EXCEPT !.elems = q]
  OBVIOUS
<1>6. p \in Dentries /\ p.dir = x.dir /\ p.up = x.up /\ p.set = x.set /\ p.elems = q
  BY <1>4, <1>5 DEF Dentries
<1>7. dents' = [dents EXCEPT ![d] = p]
  BY <1>1, <1>3, <1>5 DEF WithElem
<1>8. PICK n \in Nat : n = Len(dents) /\ DOMAIN dents = 1 .. n /\ dents \in [1 .. n -> Dentries]
  BY DEF DentsOK
<1>9. dents' \in [1 .. n -> Dentries] /\ \A c \in 1 .. n : dents'[c] = IF c = d THEN p ELSE dents[c]
  BY <1>6, <1>7, <1>8
<1>10. dents' \in Seq(Dentries) /\ DOMAIN dents' = DOMAIN dents
  BY <1>8, <1>9, IsSeq
<1>11. dents'[d] = p /\ \A c \in DOMAIN dents : c # d => dents'[c] = dents[c]
  BY <1>8, <1>9
<1>12. \A c \in DOMAIN dents :
        /\ dents'[c].set = dents[c].set /\ dents'[c].dir = dents[c].dir /\ dents'[c].up = dents[c].up
        /\ Len(dents'[c].elems) = (IF c = d THEN Len(dents[c].elems) + 1 ELSE Len(dents[c].elems))
        /\ \A i \in DOMAIN dents[c].elems : dents'[c].elems[i] = dents[c].elems[i]
  BY <1>1, <1>4, <1>6, <1>11
<1>13. dents'[d].elems[Len(dents[d].elems) + 1] = y
  BY <1>1, <1>4, <1>6, <1>11
<1>14. \A c \in DOMAIN dents : /\ DOMAIN dents[c].elems = 1 .. Len(dents[c].elems) /\ Len(dents[c].elems) \in Nat
                               /\ dents'[c].elems \in Seq(Elements)
                               /\ DOMAIN dents'[c].elems = 1 .. Len(dents'[c].elems)
  <2> TAKE c \in DOMAIN dents
  <2>1. dents[c].elems \in Seq(Elements)
    BY DentIs
  <2>2. dents'[c] \in Dentries
    BY <1>8, <1>9
  <2>3. dents'[c].elems \in Seq(Elements)
    BY <2>2 DEF Dentries
  <2> QED BY <2>1, <2>3
<1>15. DentsOK'
  <2>1. dents' # <<>>
    BY <1>10, <1>11
  <2>2. ASSUME NEW c \in DOMAIN dents'
        PROVE  /\ dents'[c].up \in DOMAIN dents'
               /\ \A i \in DOMAIN dents'[c].elems : dents'[c].elems[i].sub \in {0} \cup DOMAIN dents'
    <3>1. c \in DOMAIN dents /\ dents'[c].up \in DOMAIN dents'
      BY <1>10, <1>12, DentIs
    <3>2. ASSUME NEW i \in DOMAIN dents'[c].elems
          PROVE  dents'[c].elems[i].sub \in {0} \cup DOMAIN dents'
      <4>1. CASE i \in DOMAIN dents[c].elems
        <5>1. dents'[c].elems[i] = dents[c].elems[i]
          BY <1>12, <3>1, <4>1
        <5>2. dents[c].elems[i].sub \in {0} \cup DOMAIN dents
          BY <3>1, <4>1, DentIs
        <5> QED BY <1>10, <5>1, <5>2
      <4>2. CASE i \notin DOMAIN dents[c].elems
        <5>1. c = d /\ i = Len(dents[c].elems) + 1
          BY <1>12, <1>14, <3>1, <3>2, <4>2
        <5> QED BY <1>13, <5>1
      <4> QED BY <4>1, <4>2
    <3> QED BY <3>1, <3>2
  <2> QED BY <1>10, <2>1, <2>2 DEF DentsOK
<1>16. Grows
  <2>1. \A c \in DOMAIN dents : \A i \in DOMAIN dents[c].elems : i \in DOMAIN dents'[c].elems
    BY <1>12, <1>14
  <2> QED BY <1>10, <1>12, <2>1 DEF Grows
<1> QED BY <1>10, <1>12, <1>13, <1>15, <1>16

(* An element gets a dentry, which is empty. *)
WithDent(D, d, k, dir) == Append([D EXCEPT ![d].elems[k].sub = Len(D) + 1], Copied(d, dir))

LEMMA DentAdded ==
  ASSUME DentsOK, NEW d \in DOMAIN dents, NEW k \in DOMAIN dents[d].elems, NEW dir \in Dirs,
         dents' = WithDent(dents, d, k, dir)
  PROVE  /\ DentsOK' /\ Grows /\ Len(dents') = Len(dents) + 1 /\ dents'[Len(dents')] = Copied(d, dir)
         /\ \A c \in DOMAIN dents :
              /\ c \in DOMAIN dents'
              /\ dents'[c].set = dents[c].set /\ dents'[c].dir = dents[c].dir
              /\ Len(dents'[c].elems) = Len(dents[c].elems)
              /\ DOMAIN dents'[c].elems = DOMAIN dents[c].elems
              /\ \A i \in DOMAIN dents[c].elems :
                   /\ dents'[c].elems[i].name = dents[c].elems[i].name
                   /\ dents'[c].elems[i].is = dents[c].elems[i].is
                   /\ dents'[c].elems[i].refer = dents[c].elems[i].refer
                   /\ dents'[c].elems[i].seek = dents[c].elems[i].seek
                   /\ dents'[c].elems[i].sub = IF c = d /\ i = k THEN Len(dents') ELSE dents[c].elems[i].sub
<1>1. PICK n \in Nat : n = Len(dents) /\ DOMAIN dents = 1 .. n /\ dents \in Seq(Dentries)
  BY DEF DentsOK
<1>2. PICK x \in Elements : x = dents[d].elems[k]
  BY DentIs
<1>3. PICK y : y = [x EXCEPT !.sub = n + 1]
  OBVIOUS
<1>4. /\ y \in Elements /\ y.sub = n + 1 /\ y.name = x.name /\ y.is = x.is /\ y.refer = x.refer
      /\ y.seek = x.seek
  <2>1. /\ x.name \in Names /\ x.is \in Dirs \cup {NoDir} /\ x.seek \in Nat /\ x.refer \in Nat
        /\ x.size \in Nat /\ x.cap \in Nat
    BY DEF Elements
  <2>2. y \in [name : {x.name}, is : {x.is}, sub : {n + 1}, seek : {x.seek}, refer : {x.refer},
               size : {x.size}, cap : {x.cap}]
    BY <1>3 DEF Elements
  <2>3. /\ y.sub = n + 1 /\ y.name = x.name /\ y.is = x.is /\ y.refer = x.refer /\ y.seek = x.seek
    BY <2>2
  <2> QED BY <2>1, <2>2, <2>3 DEF Elements
<1>5. PICK E : E = Put(dents, d, k, y)
  OBVIOUS
<1>6. /\ E \in Seq(Dentries) /\ Len(E) = n /\ DOMAIN E = 1 .. n
      /\ \A c \in 1 .. n :
              /\ E[c].dir = dents[c].dir /\ E[c].up = dents[c].up /\ E[c].set = dents[c].set
              /\ Len(E[c].elems) = Len(dents[c].elems) /\ DOMAIN E[c].elems = DOMAIN dents[c].elems
              /\ \A i \in DOMAIN dents[c].elems :
                   E[c].elems[i] = IF c = d /\ i = k THEN y ELSE dents[c].elems[i]
  <2>1. d \in DOMAIN dents /\ k \in DOMAIN dents[d].elems
    OBVIOUS
  <2>2. PICK D : D = dents
    OBVIOUS
  <2>3. D \in Seq(Dentries) /\ d \in DOMAIN D /\ k \in DOMAIN D[d].elems /\ E = Put(D, d, k, y)
    BY <1>1, <1>5, <2>1, <2>2
  <2>4. y \in Elements
    BY <1>4
  <2>5. /\ E \in Seq(Dentries) /\ Len(E) = Len(D) /\ DOMAIN E = DOMAIN D
        /\ \A c \in DOMAIN D :
              /\ E[c].dir = D[c].dir /\ E[c].up = D[c].up /\ E[c].set = D[c].set
              /\ Len(E[c].elems) = Len(D[c].elems) /\ DOMAIN E[c].elems = DOMAIN D[c].elems
              /\ \A i \in DOMAIN D[c].elems : E[c].elems[i] = IF c = d /\ i = k THEN y ELSE D[c].elems[i]
    BY <2>3, <2>4, PutIs
  <2> QED BY <1>1, <2>2, <2>5
<1>7. PICK z : z = Copied(d, dir)
  OBVIOUS
<1>8. z \in Dentries /\ z.elems = <<>> /\ z.up = d
  BY <1>7, DentIs DEF Copied, Dentries
<1>9. dents' = Append(E, z)
  BY <1>1, <1>2, <1>3, <1>5, <1>7 DEF Put, WithDent
<1>10. /\ dents' \in Seq(Dentries) /\ Len(dents') = n + 1 /\ DOMAIN dents' = 1 .. (n + 1)
       /\ dents'[n + 1] = z /\ \A c \in 1 .. n : dents'[c] = E[c]
  <2>1. E \in Seq(Dentries) /\ Len(E) = n /\ z \in Dentries
    BY <1>6, <1>8
  <2>2. PICK F : F = Append(E, z)
    OBVIOUS
  <2>3. /\ F \in Seq(Dentries) /\ Len(F) = n + 1 /\ DOMAIN F = 1 .. (n + 1)
        /\ F[n + 1] = z /\ \A c \in 1 .. n : F[c] = E[c]
    BY <2>1, <2>2, AppendIs
  <2>4. dents' = F
    BY <1>9, <2>2
  <2> QED BY <2>3, <2>4
<1>11. \A c \in 1 .. n :
        /\ c \in 1 .. (n + 1)
        /\ dents'[c].set = dents[c].set /\ dents'[c].dir = dents[c].dir /\ dents'[c].up = dents[c].up
        /\ Len(dents'[c].elems) = Len(dents[c].elems)
        /\ DOMAIN dents'[c].elems = DOMAIN dents[c].elems
        /\ \A i \in DOMAIN dents[c].elems :
              dents'[c].elems[i] = IF c = d /\ i = k THEN y ELSE dents[c].elems[i]
  <2> TAKE c \in 1 .. n
  <2>1. dents'[c] = E[c]
    BY <1>10
  <2>2. /\ E[c].dir = dents[c].dir /\ E[c].up = dents[c].up /\ E[c].set = dents[c].set
        /\ Len(E[c].elems) = Len(dents[c].elems) /\ DOMAIN E[c].elems = DOMAIN dents[c].elems
    BY <1>6
  <2>3. \A i \in DOMAIN dents[c].elems : E[c].elems[i] = IF c = d /\ i = k THEN y ELSE dents[c].elems[i]
    BY <1>6
  <2>4. c \in 1 .. (n + 1)
    OBVIOUS
  <2> QED BY <2>1, <2>2, <2>3, <2>4
<1>12. \A c \in 1 .. n : \A i \in DOMAIN dents[c].elems :
              /\ dents'[c].elems[i].name = dents[c].elems[i].name
              /\ dents'[c].elems[i].is = dents[c].elems[i].is
              /\ dents'[c].elems[i].refer = dents[c].elems[i].refer
              /\ dents'[c].elems[i].seek = dents[c].elems[i].seek
              /\ dents'[c].elems[i].sub = IF c = d /\ i = k THEN n + 1 ELSE dents[c].elems[i].sub
  BY <1>2, <1>4, <1>11
<1>13. DentsOK'
  <2>1. ASSUME NEW c \in DOMAIN dents'
        PROVE  /\ dents'[c].up \in DOMAIN dents'
               /\ \A i \in DOMAIN dents'[c].elems : dents'[c].elems[i].sub \in {0} \cup DOMAIN dents'
    <3>1. CASE c = n + 1
      BY <1>1, <1>8, <1>10, <3>1
    <3>2. CASE c \in 1 .. n
      <4>1. \A i \in DOMAIN dents[c].elems : dents[c].elems[i].sub \in {0} \cup 1 .. n
        BY <1>1, <3>2, DentIs
      <4>2. dents[c].up \in 1 .. n
        BY <1>1, <3>2, DentIs
      <4> QED BY <1>10, <1>11, <1>12, <3>2, <4>1, <4>2
    <3> QED BY <1>10, <2>1, <3>1, <3>2
  <2>2. dents' # <<>>
    BY <1>10
  <2> QED BY <1>10, <2>1, <2>2 DEF DentsOK
<1>14. Grows
  <2>1. n + 1 # 0
    OBVIOUS
  <2> QED BY <1>1, <1>10, <1>11, <1>12, <2>1 DEF Grows
<1> QED BY <1>1, <1>7, <1>10, <1>11, <1>12, <1>13, <1>14

(* The flag of a dentry is set. *)
LEMMA FlagSet ==
  ASSUME DentsOK, NEW d \in DOMAIN dents, dents' = [dents EXCEPT ![d].set = TRUE]
  PROVE  /\ DentsOK' /\ Grows /\ DOMAIN dents' = DOMAIN dents /\ dents'[d].set
         /\ \A c \in DOMAIN dents :
              /\ dents'[c].dir = dents[c].dir /\ dents'[c].elems = dents[c].elems
              /\ c # d => dents'[c].set = dents[c].set
<1>1. PICK x \in Dentries : x = dents[d]
  BY DEF DentsOK
<1>2. PICK p : p = [x EXCEPT !.set = TRUE]
  OBVIOUS
<1>3. p \in Dentries /\ p.dir = x.dir /\ p.up = x.up /\ p.set = TRUE /\ p.elems = x.elems
  BY <1>2 DEF Dentries
<1>4. dents' = [dents EXCEPT ![d] = p]
  BY <1>1, <1>2
<1>5. PICK n \in Nat : n = Len(dents) /\ DOMAIN dents = 1 .. n /\ dents \in [1 .. n -> Dentries]
  BY DEF DentsOK
<1>6. dents' \in [1 .. n -> Dentries] /\ \A c \in 1 .. n : dents'[c] = IF c = d THEN p ELSE dents[c]
  BY <1>3, <1>4, <1>5
<1>7. dents' \in Seq(Dentries) /\ DOMAIN dents' = DOMAIN dents
  BY <1>5, <1>6, IsSeq
<1>8. /\ dents'[d].set
      /\ \A c \in DOMAIN dents :
            /\ dents'[c].dir = dents[c].dir /\ dents'[c].elems = dents[c].elems
            /\ dents'[c].up = dents[c].up /\ (c # d => dents'[c].set = dents[c].set)
  BY <1>1, <1>3, <1>5, <1>6
<1>9. DentsOK'
  <2>1. dents' # <<>>
    BY <1>5, <1>6
  <2>2. ASSUME NEW c \in DOMAIN dents'
        PROVE  /\ dents'[c].up \in DOMAIN dents'
               /\ \A i \in DOMAIN dents'[c].elems : dents'[c].elems[i].sub \in {0} \cup DOMAIN dents'
    <3>1. c \in DOMAIN dents /\ dents'[c].up = dents[c].up /\ dents'[c].elems = dents[c].elems
      BY <1>7, <1>8
    <3>2. /\ dents[c].up \in DOMAIN dents
          /\ \A i \in DOMAIN dents[c].elems : dents[c].elems[i].sub \in {0} \cup DOMAIN dents
      BY <3>1 DEF DentsOK
    <3> QED BY <1>7, <3>1, <3>2
  <2> QED BY <1>7, <2>1, <2>2 DEF DentsOK
<1>10. Grows
  BY <1>7, <1>8 DEF Grows
<1> QED BY <1>7, <1>8, <1>9, <1>10
----------------------------------------------------------------------------
(***************************************************************************)
(* Types, and what is there                                                *)
(***************************************************************************)
LEMMA Now ==
  ASSUME InPlace, NEW t \in Threads, pc[t] # Idle
  PROVE  pc[t] \in Doings /\ DoingOK(pc[t])
BY DEF InPlace, PcOK

LEMMA SameGrows == UNCHANGED dents => Grows
BY DEF Grows

LEMMA SameDents ==
  ASSUME InPlace, UNCHANGED <<dents, files, leaks>>
  PROVE  Grows /\ DentsOK' /\ FilesOK' /\ LeaksOK'
BY DEF InPlace, DentsOK, FilesOK, FileAt, LeaksOK, There, At, Grows

(* A step that only moves t *)
LEMMA OnlyMoves ==
  ASSUME InPlace, UNCHANGED <<dents, files, leaks>>, RestOK',
         NEW t \in Threads, NEW c \in Doings \cup {Idle}, Does(t, c),
         c # Idle => DoingOK(c)
  PROVE  InPlace' /\ Grows
<1>1. Grows /\ DentsOK' /\ FilesOK' /\ LeaksOK'
  BY SameDents
<1>2. c # Idle => DoingOK(c)'
  BY DEF DoingOK, FileAt, There, At
<1>3. \A u \in Threads \ {t} : pc[u] # Idle /\ pc[u].do \in {"act", "unpark"} => files'[pc[u].f] # Free
  BY Now DEF DoingOK
<1> QED BY <1>1, <1>2, <1>3, Moves

LEMMA FirstIs ==
  ASSUME DentsOK, NEW d \in DOMAIN dents, NEW n, Matches(d, n) # {}
  PROVE  /\ Find(d, n) \in DOMAIN dents[d].elems /\ dents[d].elems[Find(d, n)].name = n
         /\ <<d, Find(d, n)>> \in Places
<1>1. Matches(d, n) \in SUBSET Nat /\ Matches(d, n) # {}
  BY DentIs DEF Matches
<1>2. \E i \in Matches(d, n) : \A j \in Matches(d, n) : i <= j
  BY <1>1, LeastNat
<1>3. Find(d, n) \in Matches(d, n)
  BY <1>2 DEF Find
<1>4. d \in Nat /\ Find(d, n) \in Nat
  BY <1>1, <1>3, DentIs
<1> QED BY <1>3, <1>4 DEF Matches, Places

LEMMA RestKept ==
  ASSUME InPlace, UNCHANGED <<disc, drift, calls>>, crossed' \in BOOLEAN, astray' \in BOOLEAN,
         halted' \in BOOLEAN
  PROVE  RestOK'
BY DEF InPlace, RestOK

LEMMA BeginStep ==
  ASSUME InPlace, NEW t \in Threads, Begin(t)
  PROVE  InPlace' /\ Grows
<1>1. PICK o \in Opens : pc' = [pc EXCEPT ![t] = [do |-> "walk", o |-> o, rest |-> o.path, d |-> 1]]
  BY DEF Begin
<1>2. PICK c : c = [do |-> "walk", o |-> o, rest |-> o.path, d |-> 1]
  OBVIOUS
<1>3. o.path \in Seq(Parts)
  BY VfsAssumption
<1>4. c \in Doings /\ c.do = "walk" /\ c.d = 1
  BY <1>2, <1>3 DEF Doings
<1>5. 1 \in DOMAIN dents
  BY DEF InPlace, DentsOK
<1>6. DoingOK(c)
  BY <1>4, <1>5 DEF DoingOK
<1>7. RestOK'
  BY DEF InPlace, RestOK, Begin, Call
<1>8. Does(t, c)
  BY <1>1, <1>2 DEF Does
<1> QED BY <1>4, <1>6, <1>7, <1>8, OnlyMoves DEF Begin

LEMMA StopIs ==
  ASSUME NEW t \in Threads, NEW why \in Reasons, Stop(t, why),
         pc \in [Threads -> Doings \cup {Idle}]
  PROVE  \E c \in Doings : /\ Does(t, c) /\ c.do = "failed" /\ c.why = why
                          /\ c.was = IF pc[t].o.list THEN IsDir(pc[t].o.path) ELSE IsFile(pc[t].o.path)
<1>1. PICK w : w = IF pc[t].o.list THEN IsDir(pc[t].o.path) ELSE IsFile(pc[t].o.path)
  OBVIOUS
<1>2. w \in BOOLEAN
  BY <1>1 DEF IsDir, IsFile
<1>3. PICK c : c = [do |-> "failed", why |-> why, was |-> w]
  OBVIOUS
<1>4. c \in Doings /\ c.do = "failed" /\ c.why = why /\ c.was = w
  BY <1>2, <1>3 DEF Doings
<1>5. Does(t, c)
  BY <1>1, <1>3 DEF Stop, Does
<1> QED BY <1>1, <1>4, <1>5

LEMMA StopStep ==
  ASSUME InPlace, UNCHANGED <<dents, files, leaks>>, RestOK', NEW t \in Threads,
         NEW why \in Reasons, Stop(t, why)
  PROVE  InPlace' /\ Grows
<1>1. PICK c \in Doings : Does(t, c) /\ c.do = "failed"
  BY StopIs DEF InPlace, PcOK
<1>2. DoingOK(c)
  BY <1>1 DEF DoingOK
<1> QED BY <1>1, <1>2, OnlyMoves

LEMMA WalkEndStep ==
  ASSUME InPlace, NEW t \in Threads, WalkEnd(t)
  PROVE  InPlace' /\ Grows
<1>1. pc[t] \in Doings /\ DoingOK(pc[t]) /\ pc[t].do = "walk"
  BY Now DEF WalkEnd, Doing
<1>2. RestOK'
  BY RestKept DEF WalkEnd, InPlace, RestOK
<1>3. CASE Stop(t, "not a file")
  BY <1>2, <1>3, StopStep DEF WalkEnd, Reasons
<1>4. CASE pc' = [pc EXCEPT ![t] = [do |-> "listed", o |-> @.o, d |-> @.d]]
  <2>1. PICK c : c = [do |-> "listed", o |-> pc[t].o, d |-> pc[t].d]
    OBVIOUS
  <2>2. c \in Doings /\ c.do = "listed" /\ c.d = pc[t].d
    BY <1>1, <2>1, DoingIs DEF Doings
  <2>3. DoingOK(c)
    BY <1>1, <2>2 DEF DoingOK
  <2>4. Does(t, c)
    BY <1>4, <2>1 DEF Does
  <2> QED BY <1>2, <2>2, <2>3, <2>4, OnlyMoves DEF WalkEnd
<1> QED BY <1>3, <1>4 DEF WalkEnd

LEMMA DeeperIs ==
  ASSUME InPlace, NEW t \in Threads, pc[t] \in Doings, pc[t].do \in {"walk", "load"},
         pc[t].rest # <<>>, NEW d \in DOMAIN dents,
         Deeper(t, d)
  PROVE  \E c \in Doings : /\ Does(t, c) /\ c.do = "walk" /\ c.d = d
                          /\ c.o = pc[t].o /\ c.rest = Tail(pc[t].rest)
<1>1. PICK c : c = [do |-> "walk", o |-> pc[t].o, rest |-> Tail(pc[t].rest), d |-> d]
  OBVIOUS
<1>2. pc[t].rest \in Seq(Parts) /\ pc[t].o \in Opens
  BY DoingIs
<1>3. Tail(pc[t].rest) \in Seq(Parts)
  BY <1>2
<1>4. d \in Nat
  BY DentIs DEF InPlace
<1>5. c \in Doings /\ c.do = "walk" /\ c.d = d /\ c.o = pc[t].o /\ c.rest = Tail(pc[t].rest)
  BY <1>1, <1>2, <1>3, <1>4 DEF Doings
<1>6. Does(t, c)
  BY <1>1 DEF Does, Deeper
<1> QED BY <1>5, <1>6

LEMMA WalkDotsStep ==
  ASSUME InPlace, NEW t \in Threads, WalkDots(t)
  PROVE  InPlace' /\ Grows
<1>1. pc[t] \in Doings /\ DoingOK(pc[t]) /\ pc[t].do = "walk" /\ pc[t].rest # <<>>
  BY Now DEF WalkDots, Reads, Doing
<1>2. RestOK'
  BY RestKept DEF WalkDots, InPlace, RestOK
<1>3. pc[t].d \in DOMAIN dents
  BY <1>1 DEF DoingOK
<1>4. dents[pc[t].d].up \in DOMAIN dents
  BY <1>3, DentIs DEF InPlace
<1>5. PICK d \in DOMAIN dents : Deeper(t, d)
  BY <1>3, <1>4 DEF WalkDots
<1>6. PICK c \in Doings : Does(t, c) /\ c.do = "walk" /\ c.d = d
  BY <1>1, <1>5, DeeperIs
<1>7. DoingOK(c)
  BY <1>6 DEF DoingOK
<1> QED BY <1>2, <1>6, <1>7, OnlyMoves DEF WalkDots

LEMMA WalkMissingStep ==
  ASSUME InPlace, NEW t \in Threads, WalkMissing(t)
  PROVE  InPlace' /\ Grows
<1>1. pc[t] \in Doings /\ DoingOK(pc[t]) /\ pc[t].do = "walk"
  BY Now DEF WalkMissing, Reads, Doing
<1>2. UNCHANGED <<disc, dents, files, astray, drift, leaks, halted, calls>> /\ crossed' \in BOOLEAN
  BY DEF WalkMissing, InPlace, RestOK
<1>3. RestOK'
  BY <1>2, RestKept DEF InPlace, RestOK
<1>4. CASE Stop(t, "missing")
  BY <1>2, <1>3, <1>4, StopStep DEF Reasons
<1>5. CASE ~Stop(t, "missing")
  <2>1. PICK n \in Names : pc' = [pc EXCEPT ![t] = [do |-> "create", o |-> @.o, d |-> @.d, name |-> n,
                                                  seen |-> Len(dents[@.d].elems)]]
    BY <1>5 DEF WalkMissing
  <2>2. PICK c : c = [do |-> "create", o |-> pc[t].o, d |-> pc[t].d, name |-> n,
                      seen |-> Len(dents[pc[t].d].elems)]
    OBVIOUS
  <2>3. Len(dents[pc[t].d].elems) \in Nat /\ pc[t].d \in DOMAIN dents
    BY <1>1, DentIs DEF DoingOK, InPlace
  <2>4. c \in Doings /\ c.do = "create" /\ c.d = pc[t].d
    BY <1>1, <2>2, <2>3, DoingIs DEF Doings
  <2>5. DoingOK(c)
    BY <2>3, <2>4 DEF DoingOK
  <2>6. Does(t, c)
    BY <2>1, <2>2 DEF Does
  <2> QED BY <1>2, <1>3, <2>4, <2>5, <2>6, OnlyMoves
<1> QED BY <1>4, <1>5

LEMMA WalkFileStep ==
  ASSUME InPlace, NEW t \in Threads, WalkFile(t)
  PROVE  InPlace' /\ Grows
<1>1. pc[t] \in Doings /\ DoingOK(pc[t]) /\ pc[t].do = "walk"
  BY Now DEF WalkFile, Reads, Doing
<1>2. UNCHANGED <<disc, dents, files, crossed, astray, drift, leaks, halted, calls>>
  BY DEF WalkFile
<1>3. RestOK'
  BY <1>2, RestKept DEF InPlace, RestOK
<1>4. CASE Stop(t, "not a directory")
  BY <1>2, <1>3, <1>4, StopStep DEF Reasons
<1>5. CASE ~Stop(t, "not a directory")
  <2>1. PICK n \in Names : /\ Matches(pc[t].d, n) # {} /\ At(<<pc[t].d, Find(pc[t].d, n)>>).is = NoDir
                          /\ pc' = [pc EXCEPT ![t] = [do |-> "opened", o |-> @.o,
                                                      e |-> <<pc[t].d, Find(pc[t].d, n)>>]]
    BY <1>5 DEF WalkFile
  <2>2. PICK e : e = <<pc[t].d, Find(pc[t].d, n)>>
    OBVIOUS
  <2>3. FileAt(e) /\ There(e) /\ e \in Places
    BY <1>1, <2>1, <2>2, FirstIs DEF DoingOK, InPlace, There, FileAt
  <2>4. PICK c : c = [do |-> "opened", o |-> pc[t].o, e |-> e]
    OBVIOUS
  <2>5. c \in Doings /\ c.do = "opened" /\ c.e = e
    BY <1>1, <2>3, <2>4, DoingIs DEF Doings
  <2>6. DoingOK(c)
    BY <2>3, <2>5 DEF DoingOK
  <2>7. Does(t, c)
    BY <2>1, <2>2, <2>4 DEF Does
  <2> QED BY <1>2, <1>3, <2>5, <2>6, <2>7, OnlyMoves
<1> QED BY <1>4, <1>5

LEMMA WalkDirStep ==
  ASSUME InPlace, NEW t \in Threads, WalkDir(t)
  PROVE  InPlace' /\ Grows
<1>1. pc[t] \in Doings /\ DoingOK(pc[t]) /\ pc[t].do = "walk" /\ pc[t].rest # <<>>
  BY Now DEF WalkDir, Reads, Doing
<1>2. UNCHANGED <<disc, dents, files, crossed, astray, drift, leaks, calls>> /\ halted' \in BOOLEAN
  BY DEF WalkDir, InPlace, RestOK
<1>3. RestOK'
  BY <1>2, RestKept DEF InPlace, RestOK
<1>4. PICK n \in Names :
        /\ Matches(pc[t].d, n) # {} /\ At(<<pc[t].d, Find(pc[t].d, n)>>).is # NoDir
        /\ LET e == <<pc[t].d, Find(pc[t].d, n)>>
           IN  \/ Known(At(e)) /\ Deeper(t, At(e).sub)
               \/ pc' = [pc EXCEPT ![t] = [do |-> "copy", o |-> @.o, rest |-> @.rest, d |-> @.d,
                                           e |-> e, seen |-> At(e).sub]]
  BY DEF WalkDir
<1>5. PICK e : e = <<pc[t].d, Find(pc[t].d, n)>>
  OBVIOUS
<1>6. There(e) /\ e \in Places
  BY <1>1, <1>4, <1>5, FirstIs DEF DoingOK, InPlace, There
<1>7. At(e).sub \in {0} \cup DOMAIN dents /\ At(e).sub \in Nat /\ At(e).is \in Dirs
  BY <1>4, <1>5, <1>6, AtIs, DentIs DEF InPlace, Elements
<1>8. CASE Known(At(e)) /\ Deeper(t, At(e).sub)
  <2>1. PICK d \in DOMAIN dents : d = At(e).sub
    BY <1>7, <1>8 DEF Known
  <2>2. PICK c \in Doings : Does(t, c) /\ c.do = "walk" /\ c.d = d
    BY <1>1, <1>8, <2>1, DeeperIs
  <2>3. DoingOK(c)
    BY <2>2 DEF DoingOK
  <2> QED BY <1>2, <1>3, <2>2, <2>3, OnlyMoves
<1>9. CASE pc' = [pc EXCEPT ![t] = [do |-> "copy", o |-> @.o, rest |-> @.rest, d |-> @.d,
                                    e |-> e, seen |-> At(e).sub]]
  <2>1. PICK c : c = [do |-> "copy", o |-> pc[t].o, rest |-> pc[t].rest, d |-> pc[t].d,
                      e |-> e, seen |-> At(e).sub]
    OBVIOUS
  <2>2. c \in Doings /\ c.do = "copy" /\ c.d = pc[t].d /\ c.e = e /\ c.rest = pc[t].rest
    BY <1>1, <1>6, <1>7, <2>1, DoingIs DEF Doings
  <2>3. DoingOK(c)
    BY <1>1, <1>6, <1>7, <2>2 DEF DoingOK
  <2>4. Does(t, c)
    BY <1>9, <2>1 DEF Does
  <2> QED BY <1>2, <1>3, <2>2, <2>3, <2>4, OnlyMoves
<1> QED BY <1>4, <1>5, <1>8, <1>9

LEMMA FilesKept ==
  ASSUME InPlace, Grows, UNCHANGED <<files, leaks>>
  PROVE  /\ FilesOK' /\ LeaksOK'
         /\ \A u \in Threads : pc[u] # Idle /\ pc[u].do \in {"act", "unpark"} => files'[pc[u].f] # Free
<1>1. FilesOK'
  BY DEF InPlace, FilesOK, FileAt, Grows, There, At
<1>2. LeaksOK'
  BY DEF InPlace, LeaksOK, Grows, There
<1>3. \A u \in Threads : pc[u] # Idle /\ pc[u].do \in {"act", "unpark"} => files'[pc[u].f] # Free
  BY Now DEF DoingOK
<1> QED BY <1>1, <1>2, <1>3

LEMMA CopyIs ==
  ASSUME InPlace, NEW t \in Threads, Copy(t)
  PROVE  \E d, k : \E c \in Doings :
           /\ d \in DOMAIN dents /\ k \in DOMAIN dents[d].elems
           /\ pc[t] \in Doings /\ DoingOK(pc[t]) /\ pc[t].do = "copy"
           /\ pc[t].e = <<d, k>> /\ At(pc[t].e) = dents[d].elems[k]
           /\ dents' = WithDent(dents, d, k, dents[d].elems[k].is)
           /\ Does(t, c) /\ c.do = "link" /\ c.o = pc[t].o /\ c.rest = pc[t].rest /\ c.d = pc[t].d
           /\ c.e = pc[t].e
<1>1. pc[t] \in Doings /\ DoingOK(pc[t]) /\ pc[t].do = "copy"
  BY Now DEF Copy, Doing
<1>2. pc[t].e \in Places /\ There(pc[t].e)
  BY <1>1, DoingIs DEF DoingOK
<1>3. PICK d, k : pc[t].e = <<d, k>>
  BY <1>2 DEF Places
<1>4. d \in DOMAIN dents /\ k \in DOMAIN dents[d].elems /\ At(pc[t].e) = dents[d].elems[k]
  BY <1>2, <1>3 DEF There, At
<1>5. PICK c : c = [pc[t] EXCEPT !.do = "link"]
  OBVIOUS
<1>6. PICK x \in Doings : x = pc[t]
  BY <1>1
<1>7. x \in [do : {"copy", "link"}, o : Opens, rest : Seq(Parts), d : Nat, e : Places, seen : Nat]
  BY <1>1, <1>6 DEF Doings, Loads
<1>8. /\ c \in [do : {"copy", "link"}, o : Opens, rest : Seq(Parts), d : Nat, e : Places, seen : Nat]
      /\ c.do = "link" /\ c.o = x.o /\ c.rest = x.rest /\ c.d = x.d /\ c.e = x.e
  BY <1>5, <1>6, <1>7
<1>9. c \in Doings
  BY <1>8 DEF Doings
<1>10. Does(t, c)
  BY <1>5 DEF Copy, Does
<1>11. dents' = WithDent(dents, d, k, dents[d].elems[k].is)
  BY <1>3, <1>4 DEF Copy, WithDent
<1> QED BY <1>1, <1>3, <1>4, <1>6, <1>8, <1>9, <1>10, <1>11

LEMMA LinkIs ==
  ASSUME InPlace, NEW t \in Threads, Link(t)
  PROVE  \E d \in DOMAIN dents : \E c \in Doings :
           /\ pc[t] \in Doings /\ DoingOK(pc[t]) /\ pc[t].do = "link" /\ d = At(pc[t].e).sub
           /\ dents' = [dents EXCEPT ![d].set = TRUE]
           /\ Does(t, c) /\ c.do = "load" /\ c.o = pc[t].o /\ c.rest = pc[t].rest /\ c.d = pc[t].d
           /\ c.e = pc[t].e /\ c.into = d /\ c.k = 0 /\ c.from = 0
<1>1. pc[t] \in Doings /\ DoingOK(pc[t]) /\ pc[t].do = "link"
  BY Now DEF Link, Doing
<1>2. PICK d \in DOMAIN dents : d = At(pc[t].e).sub
  BY <1>1, AtIs DEF DoingOK, InPlace
<1>3. PICK c : c = [do |-> "load", o |-> pc[t].o, rest |-> pc[t].rest, d |-> pc[t].d,
                    e |-> pc[t].e, into |-> d, k |-> 0, from |-> 0, on |-> <<>>,
                    got |-> IF Kind[dents[d].dir] = "iso" THEN "nothing" ELSE "bytes"]
  OBVIOUS
<1>4. d \in Nat
  BY DentIs DEF InPlace
<1>5. c \in Doings /\ c.do = "load" /\ c.o = pc[t].o /\ c.rest = pc[t].rest /\ c.d = pc[t].d
      /\ c.e = pc[t].e /\ c.into = d /\ c.k = 0 /\ c.from = 0
  BY <1>1, <1>3, <1>4, DoingIs DEF Doings, Loads
<1>6. Does(t, c)
  BY <1>2, <1>3 DEF Link, Does
<1>7. dents' = [dents EXCEPT ![d].set = TRUE]
  BY <1>2 DEF Link
<1> QED BY <1>1, <1>2, <1>5, <1>6, <1>7

(* A call that is loading does c next, and is loading. *)
Reading(t, c) ==
  /\ pc[t] \in Doings /\ DoingOK(pc[t]) /\ pc[t].do = "load"
  /\ Does(t, c) /\ c \in Doings /\ c.do = "load" /\ c.o = pc[t].o /\ c.rest = pc[t].rest
  /\ c.d = pc[t].d /\ c.e = pc[t].e /\ c.into = pc[t].into

LEMMA AskIs ==
  ASSUME InPlace, NEW t \in Threads, Ask(t)
  PROVE  \E c \in Doings : /\ Reading(t, c) /\ pc[t].got = "nothing" /\ c.got = "place"
                          /\ c.from = At(pc[t].e).seek /\ c.k = pc[t].k
<1>1. pc[t] \in Doings /\ DoingOK(pc[t]) /\ pc[t].do = "load" /\ pc[t].got = "nothing"
  BY Now DEF Ask, Doing
<1>2. PICK n \in Nat : n = At(pc[t].e).seek
  BY <1>1, AtIs DEF DoingOK, InPlace
<1>3. PICK c : c = [pc[t] EXCEPT !.got = "place", !.from = n]
  OBVIOUS
<1>4. PICK x \in Loads : x = pc[t]
  BY <1>1, DoingIs
<1>5. /\ c \in Loads /\ c.do = "load" /\ c.o = x.o /\ c.rest = x.rest /\ c.d = x.d /\ c.e = x.e
      /\ c.into = x.into /\ c.k = x.k /\ c.got = "place" /\ c.from = n
  BY <1>3, <1>4 DEF Loads
<1>6. c \in Doings
  BY <1>5 DEF Doings
<1>7. Does(t, c)
  BY <1>2, <1>3 DEF Ask, Does
<1> QED BY <1>1, <1>2, <1>4, <1>5, <1>6, <1>7 DEF Reading

(* The element of the directory that is read *)
LEMMA ReadOn ==
  ASSUME NEW x \in Elements
  PROVE  /\ Read("iso", x, x.size) \in Elements /\ Read("iso", x, x.size).sub = x.sub
         /\ Read("iso", x, x.size).name = x.name /\ Read("iso", x, x.size).is = x.is
         /\ Read("iso", x, x.size).refer = x.refer
<1>1. x.seek \in Nat /\ x.size \in Nat /\ x.seek + x.size \in Nat
  BY DEF Elements
<1>2. Read("iso", x, x.size) = [x EXCEPT !.seek = x.seek + x.size]
  BY <1>1 DEF Read, Least
<1>3. PICK n \in Nat : n = x.seek + x.size
  BY <1>1
<1> QED BY <1>2, <1>3 DEF Elements

LEMMA FetchIs ==
  ASSUME InPlace, NEW t \in Threads, Fetch(t)
  PROVE  \E d, k : \E y \in Elements : \E c \in Doings :
           /\ d \in DOMAIN dents /\ k \in DOMAIN dents[d].elems
           /\ Reading(t, c) /\ pc[t].got = "place" /\ c.got = "bytes"
           /\ c.from = pc[t].from /\ c.k = pc[t].k
           /\ pc[t].e = <<d, k>> /\ At(pc[t].e) = dents[d].elems[k] /\ dents[d].elems[k].is \in Dirs
           /\ y.sub = dents[d].elems[k].sub /\ y.name = dents[d].elems[k].name
           /\ y.is = dents[d].elems[k].is /\ y.refer = dents[d].elems[k].refer /\ y.sub # 0
           /\ dents' = Put(dents, d, k, y)
<1>1. pc[t] \in Doings /\ DoingOK(pc[t]) /\ pc[t].do = "load" /\ pc[t].got = "place"
  BY Now DEF Fetch, Doing
<1>2. /\ pc[t].e \in Places /\ There(pc[t].e) /\ At(pc[t].e) \in Elements
      /\ At(pc[t].e).is \in Dirs /\ At(pc[t].e).sub # 0
  BY <1>1, DoingIs, AtIs DEF DoingOK, InPlace
<1>3. PICK d, k : pc[t].e = <<d, k>>
  BY <1>2 DEF Places
<1>4. /\ d \in DOMAIN dents /\ k \in DOMAIN dents[d].elems /\ At(pc[t].e) = dents[d].elems[k]
      /\ dents[d].elems[k] \in Elements /\ dents[d].elems[k].is \in Dirs /\ dents[d].elems[k].sub # 0
  BY <1>2, <1>3 DEF There, At
<1>5. PICK y : y = Read("iso", dents[d].elems[k], dents[d].elems[k].size)
  OBVIOUS
<1>6. /\ y \in Elements /\ y.sub = dents[d].elems[k].sub /\ y.name = dents[d].elems[k].name
      /\ y.is = dents[d].elems[k].is /\ y.refer = dents[d].elems[k].refer
  BY <1>4, <1>5, ReadOn
<1>7. dents' = Put(dents, d, k, y)
  BY <1>3, <1>4, <1>5 DEF Fetch, Put
<1>8. PICK x \in Loads : x = pc[t]
  BY <1>1, DoingIs
<1>9. PICK on \in Seq(Entries) : pc' = [pc EXCEPT ![t] = [x EXCEPT !.got = "bytes", !.on = on]]
  <2>1. CASE pc' = [pc EXCEPT ![t].got = "bytes"]
    <3>1. x.on \in Seq(Entries) /\ [x EXCEPT !.got = "bytes"] = [x EXCEPT !.got = "bytes", !.on = x.on]
      BY <1>8 DEF Loads
    <3> QED BY <1>8, <2>1, <3>1
  <2>2. CASE \E on \in Behind : pc' = [pc EXCEPT ![t].got = "bytes", ![t].on = on]
    <3>1. PICK on \in Behind : pc' = [pc EXCEPT ![t].got = "bytes", ![t].on = on]
      BY <2>2
    <3>2. on \in Seq(Entries)
      BY VfsAssumption
    <3>3. pc' = [pc EXCEPT ![t] = [x EXCEPT !.got = "bytes", !.on = on]]
      BY <1>8, <3>1
    <3> QED BY <3>2, <3>3
  <2> QED BY <2>1, <2>2 DEF Fetch
<1>10. PICK c : c = [x EXCEPT !.got = "bytes", !.on = on]
  OBVIOUS
<1>11. /\ c \in Loads /\ c.do = "load" /\ c.o = x.o /\ c.rest = x.rest /\ c.d = x.d /\ c.e = x.e
       /\ c.into = x.into /\ c.k = x.k /\ c.got = "bytes" /\ c.from = x.from
  BY <1>8, <1>10 DEF Loads
<1>12. c \in Doings
  BY <1>11 DEF Doings
<1>13. Does(t, c)
  BY <1>9, <1>10 DEF Does
<1>14. Reading(t, c)
  BY <1>1, <1>8, <1>11, <1>12, <1>13 DEF Reading
<1> QED BY <1>1, <1>3, <1>4, <1>6, <1>7, <1>8, <1>11, <1>12, <1>14

LEMMA SourceIs ==
  ASSUME InPlace, NEW t \in Threads, pc[t] \in Doings, DoingOK(pc[t]), pc[t].do = "load"
  PROVE  Source(pc[t]) \in Seq(Entries)
<1>1. pc[t].into \in DOMAIN dents /\ pc[t].on \in Seq(Entries)
  BY DoingIs DEF DoingOK
<1>2. disc[dents[pc[t].into].dir] \in Seq(Entries)
  BY <1>1, DentIs DEF InPlace, RestOK
<1> QED BY <1>1, <1>2 DEF Source

LEMMA LoadIs ==
  ASSUME InPlace, NEW t \in Threads, Load(t)
  PROVE  \E d \in DOMAIN dents : \E k \in Nat : \E c \in Doings : \E z \in Entries :
           /\ Reading(t, c) /\ d = pc[t].into /\ c.k = k /\ c.from = pc[t].from /\ c.got = "bytes"
           /\ pc[t].got = "bytes" /\ k = pc[t].k + 1 /\ k <= Len(Source(pc[t])) /\ z = Source(pc[t])[k]
           /\ dents' = WithElem(dents, d, Elem(z, 0))
<1>1. pc[t] \in Doings /\ DoingOK(pc[t]) /\ pc[t].do = "load" /\ pc[t].got = "bytes"
  BY Now DEF Load, Doing
<1>2. PICK d \in DOMAIN dents : d = pc[t].into
  BY <1>1 DEF DoingOK
<1>3. PICK k \in Nat : k = pc[t].k + 1 /\ k > 0
  BY <1>1, DoingIs
<1>4. k <= Len(Source(pc[t]))
  BY <1>3 DEF Load
<1>5. Source(pc[t]) \in Seq(Entries)
  BY <1>1, SourceIs
<1>6. PICK z \in Entries : z = Source(pc[t])[k]
  BY <1>3, <1>4, <1>5
<1>7. dents' = WithElem(dents, d, Elem(z, 0))
  BY <1>2, <1>3, <1>6 DEF Load, WithElem
<1>8. PICK c : c = [pc[t] EXCEPT !.k = k]
  OBVIOUS
<1>9. PICK x \in Loads : x = pc[t]
  BY <1>1, DoingIs
<1>10. /\ c \in Loads /\ c.do = "load" /\ c.o = x.o /\ c.rest = x.rest /\ c.d = x.d /\ c.e = x.e
       /\ c.into = x.into /\ c.k = k /\ c.from = x.from /\ c.got = x.got
  BY <1>8, <1>9 DEF Loads
<1>11. c \in Doings
  BY <1>10 DEF Doings
<1>12. Does(t, c)
  BY <1>3, <1>8 DEF Load, Does
<1>13. Reading(t, c)
  BY <1>1, <1>9, <1>10, <1>11, <1>12 DEF Reading
<1> QED BY <1>1, <1>2, <1>3, <1>4, <1>6, <1>7, <1>9, <1>10, <1>11, <1>13

LEMMA CopyStep ==
  ASSUME InPlace, NEW t \in Threads, Copy(t)
  PROVE  InPlace' /\ Grows
<1>1. PICK d, k, c :
        /\ d \in DOMAIN dents /\ k \in DOMAIN dents[d].elems /\ c \in Doings
        /\ pc[t] \in Doings /\ DoingOK(pc[t]) /\ pc[t].do = "copy"
        /\ pc[t].e = <<d, k>> /\ At(pc[t].e) = dents[d].elems[k]
        /\ dents' = WithDent(dents, d, k, dents[d].elems[k].is)
        /\ Does(t, c) /\ c.do = "link" /\ c.o = pc[t].o /\ c.rest = pc[t].rest /\ c.d = pc[t].d
        /\ c.e = pc[t].e
  BY CopyIs
<1>2. PICK dir \in Dirs : dir = dents[d].elems[k].is
  BY <1>1 DEF DoingOK
<1>3. DentsOK' /\ Grows /\ Len(dents') = Len(dents) + 1
      /\ \A i \in DOMAIN dents[d].elems : i = k => dents'[d].elems[i].sub = Len(dents')
  <2>1. dents' = WithDent(dents, d, k, dir)
    BY <1>1, <1>2
  <2>2. d \in DOMAIN dents /\ k \in DOMAIN dents[d].elems /\ DentsOK
    BY <1>1 DEF InPlace
  <2> QED BY <1>2, <2>1, <2>2, DentAdded
<1>4. RestOK'
  BY RestKept DEF Copy, InPlace, RestOK
<1>5. /\ FilesOK' /\ LeaksOK'
      /\ \A u \in Threads : pc[u] # Idle /\ pc[u].do \in {"act", "unpark"} => files'[pc[u].f] # Free
  BY <1>3, FilesKept DEF Copy
<1>6. PICK x : x = pc[t].e
  OBVIOUS
<1>7. There(x) /\ At(x).is \in Dirs /\ pc[t].rest # <<>> /\ pc[t].d \in DOMAIN dents
  BY <1>1, <1>6 DEF DoingOK
<1>8. There(x)' /\ At(x)'.is = At(x).is
  BY <1>3, <1>7, ThereStays
<1>9. At(x)'.sub # 0
  <2>1. At(x)'.sub = Len(dents')
    BY <1>1, <1>3, <1>6 DEF At
  <2>2. Len(dents) \in Nat
    BY DEF InPlace, DentsOK
  <2> QED BY <1>3, <2>1, <2>2
<1>10. pc[t].d \in DOMAIN dents'
  BY <1>3, <1>7 DEF Grows
<1>11. DoingOK(c)'
  BY <1>1, <1>6, <1>7, <1>8, <1>9, <1>10 DEF DoingOK
<1> QED BY <1>1, <1>3, <1>4, <1>5, <1>11, Moves

LEMMA LinkStep ==
  ASSUME InPlace, NEW t \in Threads, Link(t)
  PROVE  InPlace' /\ Grows
<1>1. PICK d \in DOMAIN dents, c \in Doings :
        /\ pc[t] \in Doings /\ DoingOK(pc[t]) /\ pc[t].do = "link" /\ d = At(pc[t].e).sub
        /\ dents' = [dents EXCEPT ![d].set = TRUE]
        /\ Does(t, c) /\ c.do = "load" /\ c.o = pc[t].o /\ c.rest = pc[t].rest /\ c.d = pc[t].d
        /\ c.e = pc[t].e /\ c.into = d /\ c.k = 0
  BY LinkIs
<1>2. DentsOK' /\ Grows /\ DOMAIN dents' = DOMAIN dents
  BY <1>1, FlagSet DEF InPlace
<1>3. RestOK'
  BY RestKept DEF Link, InPlace, RestOK
<1>4. /\ FilesOK' /\ LeaksOK'
      /\ \A u \in Threads : pc[u] # Idle /\ pc[u].do \in {"act", "unpark"} => files'[pc[u].f] # Free
  BY <1>2, FilesKept DEF Link
<1>5. PICK x : x = pc[t].e
  OBVIOUS
<1>6. There(x) /\ At(x).sub # 0 /\ At(x).is \in Dirs /\ pc[t].rest # <<>> /\ pc[t].d \in DOMAIN dents
  BY <1>1, <1>5 DEF DoingOK
<1>7. There(x)' /\ At(x)'.sub # 0 /\ At(x)'.is = At(x).is
  BY <1>2, <1>6, ThereStays
<1>8. DoingOK(c)'
  BY <1>1, <1>2, <1>5, <1>6, <1>7 DEF DoingOK
<1> QED BY <1>1, <1>2, <1>3, <1>4, <1>8, Moves

(* A call that has read goes on reading. *)
LEMMA ReadingOn ==
  ASSUME InPlace, Grows, DOMAIN dents' = DOMAIN dents, NEW t \in Threads, NEW c, Reading(t, c)
  PROVE  DoingOK(c)'
<1>1. PICK x : x = pc[t].e
  OBVIOUS
<1>2. /\ There(x) /\ At(x).sub # 0 /\ At(x).is \in Dirs /\ pc[t].rest # <<>> /\ pc[t].d \in DOMAIN dents
      /\ pc[t].into \in DOMAIN dents
  BY <1>1 DEF DoingOK, Reading
<1>3. There(x)' /\ At(x)'.sub # 0 /\ At(x)'.is = At(x).is
  BY <1>2, ThereStays
<1> QED BY <1>1, <1>2, <1>3 DEF DoingOK, Reading

LEMMA AskStep ==
  ASSUME InPlace, NEW t \in Threads, Ask(t)
  PROVE  InPlace' /\ Grows
<1>1. PICK c \in Doings : Reading(t, c)
  BY AskIs
<1>2. RestOK'
  BY RestKept DEF Ask, InPlace, RestOK
<1>3. DoingOK(c)
  BY <1>1 DEF Reading, DoingOK
<1> QED BY <1>1, <1>2, <1>3, OnlyMoves DEF Ask, Reading

LEMMA FetchStep ==
  ASSUME InPlace, NEW t \in Threads, Fetch(t)
  PROVE  InPlace' /\ Grows
<1>1. PICK d, k, y, c :
        /\ d \in DOMAIN dents /\ k \in DOMAIN dents[d].elems /\ y \in Elements /\ c \in Doings
        /\ Reading(t, c) /\ y.sub = dents[d].elems[k].sub /\ y.name = dents[d].elems[k].name
        /\ y.is = dents[d].elems[k].is /\ dents' = Put(dents, d, k, y)
  BY FetchIs
<1>2. DentsOK' /\ Grows /\ DOMAIN dents' = DOMAIN dents
  BY <1>1, ElemChanges DEF InPlace
<1>3. RestOK'
  <2>1. astray' \in BOOLEAN
    BY DEF Fetch
  <2> QED BY <2>1, RestKept DEF Fetch, InPlace, RestOK
<1>4. /\ FilesOK' /\ LeaksOK'
      /\ \A u \in Threads : pc[u] # Idle /\ pc[u].do \in {"act", "unpark"} => files'[pc[u].f] # Free
  BY <1>2, FilesKept DEF Fetch
<1>5. DoingOK(c)'
  BY <1>1, <1>2, ReadingOn
<1> QED BY <1>1, <1>2, <1>3, <1>4, <1>5, Moves DEF Reading

LEMMA LoadStep ==
  ASSUME InPlace, NEW t \in Threads, Load(t)
  PROVE  InPlace' /\ Grows
<1>1. PICK d \in DOMAIN dents, k \in Nat, c \in Doings, z \in Entries :
        Reading(t, c) /\ dents' = WithElem(dents, d, Elem(z, 0))
  BY LoadIs
<1>2. PICK y \in Elements : y = Elem(z, 0) /\ y.sub = 0
  BY <1>1, ElemIs
<1>3. DentsOK' /\ Grows /\ DOMAIN dents' = DOMAIN dents
  <2>1. dents' = WithElem(dents, d, y)
    BY <1>1, <1>2
  <2> QED BY <1>2, <2>1, ElemAdded DEF InPlace
<1>4. RestOK'
  BY RestKept DEF Load, InPlace, RestOK
<1>5. /\ FilesOK' /\ LeaksOK'
      /\ \A u \in Threads : pc[u] # Idle /\ pc[u].do \in {"act", "unpark"} => files'[pc[u].f] # Free
  BY <1>3, FilesKept DEF Load
<1>6. DoingOK(c)'
  BY <1>1, <1>3, ReadingOn
<1> QED BY <1>1, <1>3, <1>4, <1>5, <1>6, Moves DEF Reading

LEMMA GarbledStep ==
  ASSUME InPlace, NEW t \in Threads, Garbled(t)
  PROVE  InPlace' /\ Grows
<1>1. RestOK'
  BY RestKept DEF Garbled, InPlace, RestOK
<1> QED BY <1>1, StopStep DEF Garbled, Reasons

LEMMA LoadedStep ==
  ASSUME InPlace, NEW t \in Threads, Loaded(t)
  PROVE  InPlace' /\ Grows
<1>1. pc[t] \in Doings /\ DoingOK(pc[t]) /\ pc[t].do = "load" /\ pc[t].rest # <<>>
  BY Now DEF Loaded, Doing, DoingOK
<1>2. RestOK'
  BY RestKept DEF Loaded, InPlace, RestOK
<1>3. PICK d \in DOMAIN dents : d = At(pc[t].e).sub
  BY <1>1, AtIs DEF DoingOK, InPlace
<1>4. Deeper(t, d)
  BY <1>3 DEF Loaded, Deeper
<1>5. PICK c \in Doings : Does(t, c) /\ c.do = "walk" /\ c.d = d
  BY <1>1, <1>4, DeeperIs
<1>6. DoingOK(c)
  BY <1>5 DEF DoingOK
<1> QED BY <1>2, <1>5, <1>6, OnlyMoves DEF Loaded

LEMMA FailStep ==
  ASSUME InPlace, NEW t \in Threads, Fail(t)
  PROVE  InPlace' /\ Grows
<1>1. RestOK'
  BY RestKept DEF Fail, InPlace, RestOK
<1>2. Does(t, Idle)
  BY DEF Fail, Does
<1> QED BY <1>1, <1>2, OnlyMoves DEF Fail

(* An entry is added to a directory on disc. *)
WithEntry(on, d, x) == [on EXCEPT ![d] = Append(@, x)]

LEMMA CreateIs ==
  ASSUME InPlace, NEW t \in Threads, Create(t)
  PROVE  /\ pc[t] \in Doings /\ DoingOK(pc[t]) /\ pc[t].do = "create" /\ pc[t].d \in DOMAIN dents
         /\ UNCHANGED <<files, astray, drift, leaks, calls>>
         /\ \/ UNCHANGED <<disc, dents, crossed, pc>> /\ halted' = TRUE
            \/ UNCHANGED <<disc, dents, crossed, halted>> /\ Stop(t, "no room")
            \/ \E d, y, new, c :
                 /\ d = pc[t].d /\ CanAdd(d)
                 /\ new \in Entries /\ new.name = pc[t].name /\ new.is = NoDir
                 /\ disc' = WithEntry(disc, dents[d].dir, new)
                 /\ y \in Elements /\ y.sub = 0 /\ y.name = pc[t].name /\ y.is = NoDir /\ y.refer = 0
                 /\ dents' = WithElem(dents, d, y)
                 /\ crossed' = (crossed \/ Len(dents[d].elems) # pc[t].seen) /\ halted' = halted
                 /\ c \in Doings /\ Does(t, c) /\ c.do = "opened" /\ c.o = pc[t].o
                 /\ c.e = <<d, Len(dents[d].elems) + 1>>
<1>1. pc[t] \in Doings /\ DoingOK(pc[t]) /\ pc[t].do = "create"
  BY Now DEF Create, Doing
<1>2. pc[t].d \in DOMAIN dents /\ pc[t].name \in Names /\ pc[t].o \in Opens
  BY <1>1, DoingIs DEF DoingOK
<1>3. UNCHANGED <<files, astray, drift, leaks, calls>>
  BY DEF Create
<1>4. PICK d : d = pc[t].d
  OBVIOUS
<1>5. PICK new : new = [name |-> pc[t].name, is |-> NoDir, size |-> 0]
  OBVIOUS
<1>6. PICK y : y = [Elem(new, 0) EXCEPT !.cap = CS]
  OBVIOUS
<1>7. new \in Entries /\ new.name = pc[t].name /\ new.is = NoDir
  BY <1>2, <1>5 DEF Entries
<1>8. y \in Elements /\ y.sub = 0 /\ y.name = pc[t].name /\ y.is = NoDir /\ y.refer = 0
  <2>1. PICK x \in Elements : x = Elem(new, 0) /\ x.sub = 0 /\ x.name = new.name /\ x.is = NoDir /\ x.refer = 0
    BY <1>7, ElemIs
  <2>2. y = [x EXCEPT !.cap = CS] /\ CS \in Nat
    BY <1>6, <2>1, VfsAssumption
  <2>3. y \in Elements /\ y.sub = x.sub /\ y.name = x.name /\ y.is = x.is /\ y.refer = x.refer
    BY <2>2 DEF Elements
  <2> QED BY <1>7, <2>1, <2>3
<1>9. PICK n : n = Len(dents[d].elems) + 1
  OBVIOUS
<1>10. n \in Nat /\ d \in Nat
  <2>1. d \in DOMAIN dents /\ DentsOK
    BY <1>2, <1>4 DEF InPlace
  <2>2. d \in Nat /\ Len(dents[d].elems) \in Nat
    BY <2>1, DentIs
  <2> QED BY <1>9, <2>2
<1>11. PICK e \in Places : e = <<d, n>>
  BY <1>10 DEF Places
<1>12. PICK c : /\ c = [do |-> "opened", o |-> pc[t].o, e |-> e] /\ c \in Doings
                /\ c.do = "opened" /\ c.e = e /\ c.o = pc[t].o
  <2>1. PICK c : c = [do |-> "opened", o |-> pc[t].o, e |-> e]
    OBVIOUS
  <2>2. c.do = "opened" /\ c.e = e /\ c.o = pc[t].o
    BY <2>1
  <2>3. c \in [do : {"opened"}, o : Opens, e : Places]
    BY <1>2, <1>11, <2>1
  <2> QED BY <2>1, <2>2, <2>3 DEF Doings
<1>13. \/ UNCHANGED <<disc, dents, crossed, pc>> /\ halted' = TRUE
       \/ UNCHANGED <<disc, dents, crossed, halted>> /\ Stop(t, "no room")
       \/ /\ CanAdd(d)
          /\ disc' = WithEntry(disc, dents[d].dir, new)
          /\ dents' = [dents EXCEPT ![d].elems = Append(@, y)]
          /\ pc' = [pc EXCEPT ![t] = [do |-> "opened", o |-> @.o, e |-> <<d, n>>]]
          /\ crossed' = (crossed \/ Len(dents[d].elems) # pc[t].seen)
          /\ UNCHANGED halted
  BY <1>4, <1>5, <1>6, <1>9 DEF Create, WithEntry
<1>14. ASSUME dents' = [dents EXCEPT ![d].elems = Append(@, y)],
              pc' = [pc EXCEPT ![t] = [do |-> "opened", o |-> @.o, e |-> <<d, n>>]]
       PROVE  dents' = WithElem(dents, d, y) /\ Does(t, c)
  BY <1>11, <1>12, <1>14 DEF WithElem, Does
<1>15. c.e = <<d, Len(dents[d].elems) + 1>>
  BY <1>9, <1>11, <1>12
<1>16. ASSUME /\ CanAdd(d)
              /\ disc' = WithEntry(disc, dents[d].dir, new)
              /\ dents' = WithElem(dents, d, y) /\ Does(t, c)
              /\ crossed' = (crossed \/ Len(dents[d].elems) # pc[t].seen)
              /\ UNCHANGED halted
       PROVE  \E d2, y2, new2, c2 :
                 /\ d2 = pc[t].d /\ CanAdd(d2)
                 /\ new2 \in Entries /\ new2.name = pc[t].name /\ new2.is = NoDir
                 /\ disc' = WithEntry(disc, dents[d2].dir, new2)
                 /\ y2 \in Elements /\ y2.sub = 0 /\ y2.name = pc[t].name /\ y2.is = NoDir /\ y2.refer = 0
                 /\ dents' = WithElem(dents, d2, y2)
                 /\ crossed' = (crossed \/ Len(dents[d2].elems) # pc[t].seen) /\ halted' = halted
                 /\ c2 \in Doings /\ Does(t, c2) /\ c2.do = "opened" /\ c2.o = pc[t].o
                 /\ c2.e = <<d2, Len(dents[d2].elems) + 1>>
  <2> WITNESS d, y, new, c
  <2> QED BY <1>4, <1>7, <1>8, <1>12, <1>15, <1>16
<1> QED BY <1>1, <1>2, <1>3, <1>13, <1>14, <1>16

LEMMA CreateStep ==
  ASSUME InPlace, NEW t \in Threads, Create(t)
  PROVE  InPlace' /\ Grows
<1>1. /\ pc[t] \in Doings /\ DoingOK(pc[t]) /\ pc[t].do = "create" /\ pc[t].d \in DOMAIN dents
      /\ UNCHANGED <<files, astray, drift, leaks, calls>>
  BY CreateIs
<1>2. CASE UNCHANGED <<disc, dents, crossed, pc>> /\ halted' = TRUE
  <2>1. RestOK'
    BY <1>1, <1>2, RestKept DEF InPlace, RestOK
  <2>2. PICK c \in Doings : c = pc[t]
    BY <1>1
  <2>3. Does(t, c)
    BY <1>2, <2>2 DEF Does, InPlace, PcOK
  <2> QED BY <1>1, <1>2, <2>1, <2>2, <2>3, OnlyMoves
<1>3. CASE UNCHANGED <<disc, dents, crossed, halted>> /\ Stop(t, "no room")
  <2>1. RestOK'
    BY <1>1, <1>3, RestKept DEF InPlace, RestOK
  <2> QED BY <1>1, <1>3, <2>1, StopStep DEF Reasons
<1>4. ASSUME NEW d, NEW y, NEW new, NEW c,
             d = pc[t].d, new \in Entries, y \in Elements, y.sub = 0, y.is = NoDir,
             disc' = WithEntry(disc, dents[d].dir, new),
             dents' = WithElem(dents, d, y), halted' = halted, crossed' \in BOOLEAN,
             c \in Doings, Does(t, c), c.do = "opened", c.e = <<d, Len(dents[d].elems) + 1>>
      PROVE  InPlace' /\ Grows
  <2>1. d \in DOMAIN dents
    BY <1>1, <1>4
  <2>2. DentsOK' /\ Grows /\ DOMAIN dents' = DOMAIN dents
        /\ Len(dents'[d].elems) = Len(dents[d].elems) + 1 /\ dents'[d].elems[Len(dents[d].elems) + 1] = y
    BY <1>4, <2>1, ElemAdded DEF InPlace
  <2>3. FileAt(c.e)'
    <3>1. d \in DOMAIN dents' /\ dents'[d].elems \in Seq(Elements)
      <4>1. d \in DOMAIN dents' /\ dents' \in Seq(Dentries)
        BY <2>1, <2>2 DEF DentsOK
      <4>2. dents'[d] \in Dentries
        BY <4>1
      <4> QED BY <4>1, <4>2 DEF Dentries
    <3>2. Len(dents[d].elems) \in Nat
      BY <2>1, DentIs DEF InPlace
    <3>3. Len(dents[d].elems) + 1 \in DOMAIN dents'[d].elems
      BY <2>2, <3>1, <3>2
    <3> QED BY <1>4, <2>2, <3>1, <3>3 DEF There, FileAt, At
  <2>4. DoingOK(c)'
    BY <1>4, <2>3 DEF DoingOK, FileAt
  <2>5. RestOK'
    <3>1. dents[d].dir \in Dirs /\ disc \in [Dirs -> Seq(Entries)]
      BY <2>1, DentIs DEF InPlace, RestOK
    <3>2. Append(disc[dents[d].dir], new) \in Seq(Entries)
      BY <1>4, <3>1
    <3>3. disc' \in [Dirs -> Seq(Entries)]
      BY <1>4, <3>1, <3>2 DEF WithEntry
    <3> QED BY <1>1, <1>4, <3>3 DEF InPlace, RestOK
  <2>6. /\ FilesOK' /\ LeaksOK'
        /\ \A u \in Threads : pc[u] # Idle /\ pc[u].do \in {"act", "unpark"} => files'[pc[u].f] # Free
    BY <1>1, <2>2, FilesKept
  <2> QED BY <1>4, <2>2, <2>4, <2>5, <2>6, Moves
<1>5. crossed' \in BOOLEAN
  BY DEF Create, Stop, InPlace, RestOK
<1>6. CASE \E d, y, new, c :
             /\ d = pc[t].d /\ CanAdd(d)
             /\ new \in Entries /\ new.name = pc[t].name /\ new.is = NoDir
             /\ disc' = WithEntry(disc, dents[d].dir, new)
             /\ y \in Elements /\ y.sub = 0 /\ y.name = pc[t].name /\ y.is = NoDir /\ y.refer = 0
             /\ dents' = WithElem(dents, d, y)
             /\ crossed' = (crossed \/ Len(dents[d].elems) # pc[t].seen) /\ halted' = halted
             /\ c \in Doings /\ Does(t, c) /\ c.do = "opened" /\ c.o = pc[t].o
             /\ c.e = <<d, Len(dents[d].elems) + 1>>
  BY <1>4, <1>5, <1>6
<1> QED BY <1>2, <1>3, <1>6, CreateIs

(* The element that a call counts or acts on *)
LEMMA PutElem ==
  ASSUME DentsOK, NEW e \in Places, There(e), NEW y \in Elements,
         y.sub = At(e).sub, y.name = At(e).name, y.is = At(e).is,
         dents' = Put(dents, e[1], e[2], y)
  PROVE  /\ DentsOK' /\ Grows /\ DOMAIN dents' = DOMAIN dents
         /\ \A c \in DOMAIN dents :
              /\ dents'[c].set = dents[c].set /\ dents'[c].dir = dents[c].dir
              /\ DOMAIN dents'[c].elems = DOMAIN dents[c].elems
              /\ \A i \in DOMAIN dents[c].elems :
                   dents'[c].elems[i] = IF <<c, i>> = e THEN y ELSE dents[c].elems[i]
<1>1. PICK d, k : e = <<d, k>> /\ d \in DOMAIN dents /\ k \in DOMAIN dents[d].elems
                  /\ At(e) = dents[d].elems[k]
  BY DEF Places, There, At
<1>2. dents' = Put(dents, d, k, y)
  BY <1>1
<1>3. /\ DentsOK' /\ Grows /\ DOMAIN dents' = DOMAIN dents
      /\ \A c \in DOMAIN dents :
              /\ dents'[c].set = dents[c].set /\ dents'[c].dir = dents[c].dir
              /\ DOMAIN dents'[c].elems = DOMAIN dents[c].elems
              /\ \A i \in DOMAIN dents[c].elems :
                   dents'[c].elems[i] = IF c = d /\ i = k THEN y ELSE dents[c].elems[i]
  BY <1>1, <1>2, ElemChanges
<1> QED BY <1>1, <1>3

LEMMA OpenLoadIs ==
  ASSUME InPlace, NEW t \in Threads, OpenLoad(t)
  PROVE  \E c \in Doings :
           /\ pc[t] \in Doings /\ DoingOK(pc[t]) /\ pc[t].do = "opened"
           /\ Does(t, c) /\ c.do = "count" /\ c.o = pc[t].o /\ c.e = pc[t].e /\ c.r = At(pc[t].e).refer
<1>1. pc[t] \in Doings /\ DoingOK(pc[t]) /\ pc[t].do = "opened"
  BY Now DEF OpenLoad, Doing
<1>2. PICK e : e = pc[t].e
  OBVIOUS
<1>3. e \in Places /\ There(e) /\ pc[t].o \in Opens
  BY <1>1, <1>2, DoingIs DEF DoingOK
<1>4. PICK r : r = At(e).refer
  OBVIOUS
<1>5. r \in Nat
  BY <1>3, <1>4, AtIs DEF InPlace
<1>6. PICK c : c = [do |-> "count", o |-> pc[t].o, e |-> e, r |-> r]
  OBVIOUS
<1>7. c \in Doings /\ c.do = "count" /\ c.o = pc[t].o /\ c.e = e /\ c.r = r
  BY <1>3, <1>5, <1>6 DEF Doings
<1>8. Does(t, c)
  BY <1>2, <1>4, <1>6 DEF OpenLoad, Does
<1> QED BY <1>1, <1>2, <1>4, <1>7, <1>8

LEMMA OpenLoadStep ==
  ASSUME InPlace, NEW t \in Threads, OpenLoad(t)
  PROVE  InPlace' /\ Grows
<1>1. PICK c \in Doings :
        /\ pc[t] \in Doings /\ DoingOK(pc[t]) /\ pc[t].do = "opened"
        /\ Does(t, c) /\ c.do = "count" /\ c.o = pc[t].o /\ c.e = pc[t].e /\ c.r = At(pc[t].e).refer
  BY OpenLoadIs
<1>2. DoingOK(c)
  BY <1>1 DEF DoingOK
<1>3. drift' \subseteq Places
  BY <1>1, DoingIs DEF OpenLoad, Drifts, InPlace, RestOK
<1>4. RestOK'
  BY <1>3 DEF OpenLoad, InPlace, RestOK
<1> QED BY <1>1, <1>2, <1>4, OnlyMoves DEF OpenLoad

LEMMA OpenStoreIs ==
  ASSUME InPlace, NEW t \in Threads, OpenStore(t)
  PROVE  \E y \in Elements, x \in Opened :
           /\ pc[t] \in Doings /\ DoingOK(pc[t]) /\ pc[t].do = "count" /\ Does(t, Idle)
           /\ y.sub = At(pc[t].e).sub /\ y.name = At(pc[t].e).name /\ y.is = At(pc[t].e).is
           /\ y.seek = At(pc[t].e).seek /\ y.refer = pc[t].r + 1
           /\ dents' = Put(dents, pc[t].e[1], pc[t].e[2], y)
           /\ x.e = pc[t].e /\ x.o = pc[t].o /\ x.pos = 0 /\ x.own = 0 /\ x.mixed = FALSE
           /\ \/ leaks' = leaks /\ \E f \in Slots : files[f] = Free /\ files' = [files EXCEPT ![f] = x]
              \/ leaks' = Append(leaks, pc[t].e) /\ files' = files
<1>1. pc[t] \in Doings /\ DoingOK(pc[t]) /\ pc[t].do = "count"
  BY Now DEF OpenStore, Doing
<1>2. PICK e : e = pc[t].e
  OBVIOUS
<1>3. e \in Places /\ There(e) /\ pc[t].o \in Opens /\ pc[t].r \in Nat
  BY <1>1, <1>2, DoingIs DEF DoingOK
<1>4. PICK w \in Elements : w = At(e)
  BY <1>3, AtIs DEF InPlace
<1>5. PICK r \in Nat : r = pc[t].r + 1
  BY <1>3
<1>6. PICK y : y = [w EXCEPT !.refer = r]
  OBVIOUS
<1>7. y \in Elements /\ y.sub = w.sub /\ y.name = w.name /\ y.is = w.is /\ y.seek = w.seek /\ y.refer = r
  BY <1>6 DEF Elements
<1>8. dents' = Put(dents, e[1], e[2], y)
  BY <1>2, <1>4, <1>5, <1>6 DEF OpenStore, Raised, Put, At
<1>9. PICK x : x = [e |-> e, pos |-> 0, o |-> pc[t].o, own |-> 0, mixed |-> FALSE]
  OBVIOUS
<1>10. x \in Opened /\ x.e = e /\ x.o = pc[t].o /\ x.pos = 0 /\ x.own = 0 /\ x.mixed = FALSE
  BY <1>3, <1>9 DEF Opened
<1>11. \/ leaks' = leaks /\ \E f \in Slots : files[f] = Free /\ files' = [files EXCEPT ![f] = x]
       \/ leaks' = Append(leaks, e) /\ files' = files
  BY <1>2, <1>9 DEF OpenStore
<1>12. Does(t, Idle)
  BY DEF OpenStore, Does
<1> QED BY <1>1, <1>2, <1>4, <1>5, <1>7, <1>8, <1>10, <1>11, <1>12

LEMMA OpenStoreStep ==
  ASSUME InPlace, NEW t \in Threads, OpenStore(t)
  PROVE  InPlace' /\ Grows
<1>1. PICK y \in Elements, x \in Opened :
           /\ pc[t] \in Doings /\ DoingOK(pc[t]) /\ pc[t].do = "count" /\ Does(t, Idle)
           /\ y.sub = At(pc[t].e).sub /\ y.name = At(pc[t].e).name /\ y.is = At(pc[t].e).is
           /\ y.seek = At(pc[t].e).seek /\ y.refer = pc[t].r + 1
           /\ dents' = Put(dents, pc[t].e[1], pc[t].e[2], y)
           /\ x.e = pc[t].e /\ x.o = pc[t].o /\ x.pos = 0 /\ x.own = 0 /\ x.mixed = FALSE
           /\ \/ leaks' = leaks /\ \E f \in Slots : files[f] = Free /\ files' = [files EXCEPT ![f] = x]
              \/ leaks' = Append(leaks, pc[t].e) /\ files' = files
  BY OpenStoreIs
<1>2. PICK e : e = pc[t].e
  OBVIOUS
<1>3. e \in Places /\ There(e) /\ FileAt(e)
  BY <1>1, <1>2, DoingIs DEF DoingOK
<1>4. DentsOK' /\ Grows
  BY <1>1, <1>2, <1>3, PutElem DEF InPlace
<1>5. \A q : There(q) => There(q)'
  BY <1>4, ThereStays
<1>6. x # Free /\ files \in [Slots -> Opened \cup {Free}] /\ leaks \in Seq(Places)
  BY FileIs DEF InPlace, FilesOK, LeaksOK
<1>7. FilesOK'
  <2>1. files' \in [Slots -> Opened \cup {Free}]
    BY <1>1, <1>6
  <2>2. ASSUME NEW f \in Slots, files'[f] # Free PROVE FileAt(files[f].e)'
    <3>1. files'[f] = files[f] \/ files'[f] = x
      BY <1>1, <1>6
    <3>2. PICK q : q = files'[f].e
      OBVIOUS
    <3>3. FileAt(q)
      BY <1>1, <1>2, <1>3, <2>2, <3>1, <3>2 DEF InPlace, FilesOK
    <3> QED BY <1>4, <3>2, <3>3, FileStays
  <2> QED BY <2>1, <2>2 DEF FilesOK
<1>8. LeaksOK'
  <2>1. \A i \in DOMAIN leaks : \A q : q = leaks[i] => There(q)'
    BY <1>5 DEF InPlace, LeaksOK
  <2>2. CASE leaks' = leaks
    BY <1>6, <2>1, <2>2 DEF LeaksOK
  <2>3. CASE leaks' = Append(leaks, pc[t].e)
    <3>1. PICK L : L = leaks'
      OBVIOUS
    <3>2. L \in Seq(Places) /\ \A i \in DOMAIN L : L[i] = e \/ (i \in DOMAIN leaks /\ L[i] = leaks[i])
      BY <1>2, <1>3, <1>6, <2>3, <3>1, AppendIs
    <3>3. \A i \in DOMAIN L : \A q : q = L[i] => There(q)'
      BY <1>3, <1>5, <2>1, <3>2
    <3> QED BY <3>1, <3>2, <3>3 DEF LeaksOK
  <2> QED BY <1>1, <2>2, <2>3
<1>9. RestOK'
  BY RestKept DEF OpenStore, InPlace, RestOK
<1>10. \A u \in Threads : pc[u] # Idle /\ pc[u].do \in {"act", "unpark"} => files'[pc[u].f] # Free
  BY <1>1, <1>6, Now, DoingIs DEF DoingOK
<1> QED BY <1>1, <1>4, <1>7, <1>8, <1>9, <1>10, Moves

LEMMA CloseLoadIs ==
  ASSUME InPlace, NEW t \in Threads, NEW f \in Slots, CloseLoad(t, f)
  PROVE  \E c \in Doings :
           /\ files[f] # Free /\ files[f] \in Opened /\ There(files[f].e)
           /\ files' = [files EXCEPT ![f] = Free]
           /\ Does(t, c) /\ c.do = "drop" /\ c.e = files[f].e /\ c.r = At(files[f].e).refer
<1>1. files[f] # Free /\ files[f] \in Opened /\ There(files[f].e)
  BY DEF CloseLoad, InPlace, FilesOK, FileAt
<1>2. PICK e : e = files[f].e
  OBVIOUS
<1>3. e \in Places /\ There(e)
  BY <1>1, <1>2, FileIs
<1>4. PICK r : r = At(e).refer
  OBVIOUS
<1>5. r \in Nat
  BY <1>3, <1>4, AtIs DEF InPlace
<1>6. PICK c : c = [do |-> "drop", e |-> e, r |-> r]
  OBVIOUS
<1>7. c \in Doings /\ c.do = "drop" /\ c.e = e /\ c.r = r
  BY <1>3, <1>5, <1>6 DEF Doings
<1>8. Does(t, c) /\ files' = [files EXCEPT ![f] = Free]
  BY <1>2, <1>4, <1>6 DEF CloseLoad, Does
<1> QED BY <1>1, <1>2, <1>4, <1>7, <1>8

LEMMA CloseLoadStep ==
  ASSUME InPlace, NEW t \in Threads, NEW f \in Slots, CloseLoad(t, f)
  PROVE  InPlace' /\ Grows
<1>1. PICK c \in Doings :
           /\ files[f] # Free /\ files[f] \in Opened /\ There(files[f].e)
           /\ files' = [files EXCEPT ![f] = Free]
           /\ Does(t, c) /\ c.do = "drop" /\ c.e = files[f].e /\ c.r = At(files[f].e).refer
  BY CloseLoadIs
<1>2. UNCHANGED <<disc, dents, crossed, astray, leaks, halted>> /\ Using(f) = {}
  BY DEF CloseLoad
<1>3. Grows /\ DentsOK' /\ LeaksOK' /\ \A q : (FileAt(q) => FileAt(q)') /\ (There(q) => There(q)')
  BY <1>2 DEF InPlace, Grows, DentsOK, LeaksOK, FileAt, There, At
<1>4. FilesOK'
  <2>1. files \in [Slots -> Opened \cup {Free}] /\ \A g \in Slots : files[g] # Free => FileAt(files[g].e)
    BY DEF InPlace, FilesOK, FileAt
  <2>2. \A g \in Slots : files'[g] = IF g = f THEN Free ELSE files[g]
    BY <1>1, <2>1
  <2>3. files' \in [Slots -> Opened \cup {Free}]
    BY <1>1, <2>1
  <2>4. \A g \in Slots : files'[g] # Free => FileAt(files'[g].e)
    BY <2>1, <2>2
  <2>5. \A g \in Slots : files'[g] # Free => FileAt(files[g].e)'
    BY <1>2, <2>4 DEF There, FileAt, At
  <2> QED BY <2>3, <2>5 DEF FilesOK
<1>5. RestOK'
  <2>1. drift' \subseteq Places /\ calls' \in Nat
    BY <1>1, FileIs DEF CloseLoad, Call, Drifts, InPlace, RestOK
  <2> QED BY <1>2, <2>1 DEF InPlace, RestOK
<1>6. \A u \in Threads : pc[u] # Idle /\ pc[u].do \in {"act", "unpark"} => files'[pc[u].f] # Free
  <2> SUFFICES ASSUME NEW u \in Threads, pc[u] # Idle, pc[u].do \in {"act", "unpark"}
               PROVE  files'[pc[u].f] # Free
    OBVIOUS
  <2>1. pc[u].f \in Slots /\ files[pc[u].f] # Free
    BY Now, DoingIs DEF DoingOK
  <2>2. pc[u].f # f
    BY <1>2 DEF Using
  <2> QED BY <1>1, <2>1, <2>2 DEF InPlace, FilesOK
<1>7. DoingOK(c)'
  <2>1. PICK e : e = files[f].e
    OBVIOUS
  <2>2. There(e)'
    BY <1>1, <1>3, <2>1
  <2> QED BY <1>1, <2>1, <2>2 DEF DoingOK
<1> QED BY <1>1, <1>3, <1>4, <1>5, <1>6, <1>7, Moves

LEMMA CloseStoreIs ==
  ASSUME InPlace, NEW t \in Threads, CloseStore(t)
  PROVE  \E y \in Elements :
           /\ pc[t] \in Doings /\ DoingOK(pc[t]) /\ pc[t].do = "drop" /\ Does(t, Idle)
           /\ y.sub = At(pc[t].e).sub /\ y.name = At(pc[t].e).name /\ y.is = At(pc[t].e).is
           /\ y.seek = At(pc[t].e).seek /\ y.refer = Lowered(pc[t].r)
           /\ dents' = Put(dents, pc[t].e[1], pc[t].e[2], y)
<1>1. pc[t] \in Doings /\ DoingOK(pc[t]) /\ pc[t].do = "drop"
  BY Now DEF CloseStore, Doing
<1>2. PICK e : e = pc[t].e
  OBVIOUS
<1>3. e \in Places /\ There(e) /\ pc[t].r \in Nat
  BY <1>1, <1>2, DoingIs DEF DoingOK
<1>4. PICK w \in Elements : w = At(e)
  BY <1>3, AtIs DEF InPlace
<1>5. PICK r \in Nat : r = Lowered(pc[t].r)
  BY <1>3 DEF Lowered
<1>6. PICK y : y = [w EXCEPT !.refer = r]
  OBVIOUS
<1>7. y \in Elements /\ y.sub = w.sub /\ y.name = w.name /\ y.is = w.is /\ y.seek = w.seek /\ y.refer = r
  BY <1>6 DEF Elements
<1>8. dents' = Put(dents, e[1], e[2], y)
  BY <1>2, <1>4, <1>5, <1>6 DEF CloseStore, Put, At
<1>9. Does(t, Idle)
  BY DEF CloseStore, Does
<1> QED BY <1>1, <1>2, <1>4, <1>5, <1>7, <1>8, <1>9

LEMMA CloseStoreStep ==
  ASSUME InPlace, NEW t \in Threads, CloseStore(t)
  PROVE  InPlace' /\ Grows
<1>1. PICK y \in Elements :
           /\ pc[t] \in Doings /\ DoingOK(pc[t]) /\ pc[t].do = "drop" /\ Does(t, Idle)
           /\ y.sub = At(pc[t].e).sub /\ y.name = At(pc[t].e).name /\ y.is = At(pc[t].e).is
           /\ y.seek = At(pc[t].e).seek /\ y.refer = Lowered(pc[t].r)
           /\ dents' = Put(dents, pc[t].e[1], pc[t].e[2], y)
  BY CloseStoreIs
<1>2. pc[t].e \in Places /\ There(pc[t].e)
  BY <1>1, DoingIs DEF DoingOK
<1>3. DentsOK' /\ Grows
  <2>1. PICK e : e = pc[t].e
    OBVIOUS
  <2> QED BY <1>1, <1>2, <2>1, PutElem DEF InPlace
<1>4. RestOK'
  BY RestKept DEF CloseStore, InPlace, RestOK
<1>5. /\ FilesOK' /\ LeaksOK'
      /\ \A u \in Threads : pc[u] # Idle /\ pc[u].do \in {"act", "unpark"} => files'[pc[u].f] # Free
  BY <1>3, FilesKept DEF CloseStore
<1> QED BY <1>1, <1>3, <1>4, <1>5, Moves

(* A call parks the offset of f in the inode. *)
Parks(t, f, op, y, c, e) ==
  /\ files[f] # Free /\ files[f] \in Opened /\ e = files[f].e /\ There(e)
  /\ y.sub = At(e).sub /\ y.name = At(e).name /\ y.is = At(e).is
  /\ y.seek = files[f].pos /\ y.refer = At(e).refer
  /\ dents' = Put(dents, e[1], e[2], y)
  /\ Does(t, c) /\ c.do = "act" /\ c.f = f /\ c.op = op
  /\ DOMAIN files' = Slots
  /\ \A g \in Slots :
       /\ files'[g] \in Opened \cup {Free} /\ (files'[g] = Free <=> files[g] = Free)
       /\ files[g] # Free =>
            /\ files'[g].e = files[g].e /\ files'[g].pos = files[g].pos /\ files'[g].own = files[g].own
            /\ files'[g].o = files[g].o
            /\ files'[g].mixed = (files[g].mixed \/ (Overlap(e) # {} /\ g \in Overlap(e) \cup {f}))

LEMMA ParkIs ==
  ASSUME InPlace, NEW t \in Threads, NEW f \in Slots, NEW op \in Ops, Park(t, f, op)
  PROVE  \E y \in Elements, c \in Doings, e \in Places : Parks(t, f, op, y, c, e)
<1>1. files[f] # Free /\ files[f] \in Opened /\ There(files[f].e)
  BY DEF Park, InPlace, FilesOK, FileAt
<1>2. PICK e : e = files[f].e
  OBVIOUS
<1>3. e \in Places /\ There(e) /\ files[f].pos \in Nat
  BY <1>1, <1>2, FileIs
<1>4. PICK w \in Elements : w = At(e)
  BY <1>3, AtIs DEF InPlace
<1>5. PICK p \in Nat : p = files[f].pos
  BY <1>3
<1>6. PICK y : y = [w EXCEPT !.seek = p]
  OBVIOUS
<1>7. y \in Elements /\ y.sub = w.sub /\ y.name = w.name /\ y.is = w.is /\ y.seek = p /\ y.refer = w.refer
  BY <1>6 DEF Elements
<1>8. dents' = Put(dents, e[1], e[2], y)
  BY <1>2, <1>4, <1>5, <1>6 DEF Park, Parked, Put, At
<1>9. PICK c : c = [do |-> "act", f |-> f, op |-> op]
  OBVIOUS
<1>10. c \in Doings /\ c.do = "act" /\ c.f = f /\ c.op = op
  BY <1>9 DEF Doings
<1>11. Does(t, c)
  BY <1>9 DEF Park, Does
<1>12. PICK mix : mix = IF Overlap(e) = {} THEN {} ELSE Overlap(e) \cup {f}
  OBVIOUS
<1>13. files' = [g \in Slots |-> IF g \in mix THEN [files[g] EXCEPT !.mixed = TRUE] ELSE files[g]]
  BY <1>2, <1>12 DEF Park
<1>14. ASSUME NEW g \in Slots
       PROVE  /\ files'[g] \in Opened \cup {Free} /\ (files'[g] = Free <=> files[g] = Free)
              /\ files[g] # Free =>
                     /\ files'[g].e = files[g].e /\ files'[g].pos = files[g].pos /\ files'[g].own = files[g].own
                     /\ files'[g].o = files[g].o
                     /\ files'[g].mixed = (files[g].mixed \/ (Overlap(e) # {} /\ g \in Overlap(e) \cup {f}))
  <2>1. g \in mix <=> (Overlap(e) # {} /\ g \in Overlap(e) \cup {f})
    BY <1>12
  <2>2. files[g] \in Opened \cup {Free}
    BY DEF InPlace, FilesOK, FileAt
  <2>3. CASE g \notin mix
    <3>1. files'[g] = files[g]
      BY <1>13, <2>3
    <3>2. files[g] # Free => files[g].mixed \in BOOLEAN
      BY <2>2, FileIs
    <3> QED BY <2>1, <2>2, <2>3, <3>1, <3>2
  <2>4. CASE g \in mix
    <3>1. files[g] # Free
      BY <1>1, <1>12, <2>4 DEF Overlap
    <3>2. PICK x \in Opened : x = files[g]
      BY <2>2, <3>1
    <3>3. PICK z : z = [x EXCEPT !.mixed = TRUE]
      OBVIOUS
    <3>4. /\ z \in Opened /\ z.e = x.e /\ z.pos = x.pos /\ z.own = x.own /\ z.o = x.o /\ z.mixed = TRUE
      BY <3>3 DEF Opened
    <3>5. files'[g] = z
      BY <1>13, <2>4, <3>2, <3>3
    <3>6. z # Free
      BY <3>4, FileIs
    <3> QED BY <2>1, <2>4, <3>1, <3>2, <3>4, <3>5, <3>6
  <2> QED BY <2>3, <2>4
<1>15. DOMAIN files' = Slots
  BY <1>13
<1>16. Parks(t, f, op, y, c, e)
  BY <1>1, <1>2, <1>4, <1>5, <1>7, <1>8, <1>10, <1>11, <1>14, <1>15 DEF Parks
<1> QED BY <1>3, <1>7, <1>10, <1>16

LEMMA ParkStep ==
  ASSUME InPlace, NEW t \in Threads, NEW f \in Slots, NEW op \in Ops, Park(t, f, op)
  PROVE  InPlace' /\ Grows
<1>0. PICK y \in Elements, c \in Doings, e \in Places : Parks(t, f, op, y, c, e)
  BY ParkIs
<1>1. /\ files[f] # Free /\ files[f] \in Opened /\ e = files[f].e /\ There(e)
      /\ y.sub = At(e).sub /\ y.name = At(e).name /\ y.is = At(e).is
      /\ y.seek = files[f].pos /\ y.refer = At(e).refer
      /\ dents' = Put(dents, e[1], e[2], y)
      /\ Does(t, c) /\ c.do = "act" /\ c.f = f /\ c.op = op
      /\ DOMAIN files' = Slots
      /\ \A g \in Slots :
           /\ files'[g] \in Opened \cup {Free} /\ (files'[g] = Free <=> files[g] = Free)
           /\ files[g] # Free =>
                /\ files'[g].e = files[g].e /\ files'[g].pos = files[g].pos /\ files'[g].own = files[g].own
                /\ files'[g].o = files[g].o
                /\ files'[g].mixed = (files[g].mixed \/ (Overlap(e) # {} /\ g \in Overlap(e) \cup {f}))
  BY <1>0 DEF Parks
<1>2. DentsOK' /\ Grows
  BY <1>1, PutElem DEF InPlace
<1>3. \A q : There(q) => There(q)'
  BY <1>2, ThereStays
<1>4. FilesOK'
  <2>1. files' \in [Slots -> Opened \cup {Free}]
    <3>1. files' = [g \in Slots |-> files'[g]]
      BY DEF Park
    <3> QED BY <1>1, <3>1
  <2>2. ASSUME NEW g \in Slots, files'[g] # Free PROVE FileAt(files[g].e)'
    <3>1. PICK q : q = files'[g].e
      OBVIOUS
    <3>2. FileAt(q)
      BY <1>1, <2>2, <3>1 DEF InPlace, FilesOK
    <3> QED BY <1>2, <3>1, <3>2, FileStays
  <2> QED BY <2>1, <2>2 DEF FilesOK
<1>5. LeaksOK'
  BY <1>3 DEF Park, InPlace, LeaksOK, There
<1>6. RestOK'
  BY DEF Park, Call, InPlace, RestOK
<1>7. \A u \in Threads : pc[u] # Idle /\ pc[u].do \in {"act", "unpark"} => files'[pc[u].f] # Free
  BY <1>1, Now, DoingIs DEF DoingOK
<1>8. DoingOK(c)'
  BY <1>1 DEF DoingOK
<1> QED BY <1>1, <1>2, <1>4, <1>5, <1>6, <1>7, <1>8, Moves

(* Of an inode, a call changes the offset, the size and the buffer. *)
LEMMA EffectIs ==
  ASSUME NEW k \in {"iso", "fat", "null"}, NEW x \in Elements, NEW op \in Ops
  PROVE  LET y == Effect(k, x, op)
         IN  y \in Elements /\ y.sub = x.sub /\ y.name = x.name /\ y.is = x.is /\ y.refer = x.refer
<1> DEFINE same(y) == y \in Elements /\ y.sub = x.sub /\ y.name = x.name /\ y.is = x.is /\ y.refer = x.refer
<1>1. x.seek \in Nat /\ x.size \in Nat /\ x.cap \in Nat /\ op.n \in Nat /\ CS \in Nat \ {0}
      /\ op.do \in {"read", "write", "seek", "end"}
  <2>1. x.seek \in Nat /\ x.size \in Nat /\ x.cap \in Nat
    BY DEF Elements
  <2>2. op.n \in Sizes \cup Offsets \cup {0} /\ op.do \in {"read", "write", "seek", "end"}
    BY DEF Ops
  <2>3. Sizes \subseteq Nat /\ Offsets \subseteq Nat /\ CS \in Nat \ {0}
    BY VfsAssumption
  <2>4. PICK n : n = op.n
    OBVIOUS
  <2>5. n \in Nat
    <3>1. n \in Sizes \cup Offsets \cup {0}
      BY <2>2, <2>4
    <3>2. Sizes \subseteq Nat /\ Offsets \subseteq Nat
      BY <2>3
    <3>3. CASE n \in Sizes \cup Offsets
      BY <3>2, <3>3
    <3>4. CASE n = 0
      BY <3>4
    <3> QED BY <3>1, <3>3, <3>4
  <2> HIDE DEF same
  <2> QED BY <2>1, <2>2, <2>3, <2>4, <2>5
<1>2. \A n \in Nat : same([x EXCEPT !.seek = n])
  BY DEF Elements
<1>3. \A n, m, l \in Nat : same([x EXCEPT !.seek = n, !.size = m, !.cap = l])
  BY DEF Elements
<1>4. \A n \in Nat : Grown(x, n) \in Nat
  <2> TAKE n \in Nat
  <2>1. CASE n <= x.cap
    BY <1>1, <2>1 DEF Grown
  <2>2. CASE ~(n <= x.cap)
    <3>1. PICK a \in Nat : a = n - x.cap + CS - 1
      BY <1>1, <2>2
    <3>2. a \div CS \in Nat
      BY <1>1
    <3>3. (a \div CS) * CS \in Nat
      BY <1>1, <3>2
    <3>4. Grown(x, n) = x.cap + (a \div CS) * CS
      BY <2>2, <3>1 DEF Grown
    <3> QED BY <1>1, <3>3, <3>4
  <2> QED BY <2>1, <2>2
<1>5. same(x)
  OBVIOUS
<1>6. \A n \in Nat : same(Read(k, x, n))
  <2> TAKE n \in Nat
  <2>1. x.seek + Least(n, x.size) \in Nat /\ x.seek + n \in Nat /\ Least(x.seek + n, x.size) \in Nat
    BY <1>1 DEF Least
  <2>2. CASE k = "iso"
    <3>1. Read(k, x, n) = [x EXCEPT !.seek = x.seek + Least(n, x.size)]
      BY <2>2 DEF Read
    <3> HIDE DEF same
    <3> QED BY <1>2, <2>1, <3>1
  <2>3. CASE k = "fat"
    <3>1. PICK m \in Nat : m = IF x.seek > x.size THEN x.seek + n ELSE Least(x.seek + n, x.size)
      BY <2>1
    <3>2. Read(k, x, n) = [x EXCEPT !.seek = m]
      BY <2>3, <3>1 DEF Read
    <3> HIDE DEF same
    <3> QED BY <1>2, <3>2
  <2>4. CASE k = "null"
    <3>1. Read(k, x, n) = x
      BY <2>4 DEF Read
    <3> QED BY <3>1
  <2> QED BY <2>2, <2>3, <2>4
<1>7. \A n \in Nat : same(Write(k, x, n))
  <2> TAKE n \in Nat
  <2>1. PICK m \in Nat : m = x.seek + n
    BY <1>1
  <2>2. PICK s \in Nat : s = Most(x.size, m)
    BY <1>1 DEF Most
  <2>3. PICK g \in Nat : g = Grown(x, m)
    BY <1>4
  <2>4. CASE k = "fat"
    <3>1. Write(k, x, n) = [x EXCEPT !.seek = m, !.size = s, !.cap = g]
      BY <2>1, <2>2, <2>3, <2>4 DEF Write
    <3>2. same([x EXCEPT !.seek = m, !.size = s, !.cap = g])
      <4> HIDE DEF same
      <4> QED BY <1>3
    <3> QED BY <3>1, <3>2
  <2>5. CASE k # "fat"
    <3>1. Write(k, x, n) = x
      BY <2>5 DEF Write
    <3> QED BY <3>1
  <2> QED BY <2>4, <2>5
<1>8. \A n \in Nat : same(Seek(k, x, n))
  <2> TAKE n \in Nat
  <2>1. PICK g \in Nat : g = Grown(x, n + 1)
    BY <1>4
  <2>2. CASE k = "fat" /\ n + 1 > x.cap
    <3>1. Seek(k, x, n) = [x EXCEPT !.seek = n, !.size = n, !.cap = g]
      BY <1>1, <2>1, <2>2 DEF Seek
    <3>2. same([x EXCEPT !.seek = n, !.size = n, !.cap = g])
      <4> HIDE DEF same
      <4> QED BY <1>3
    <3> QED BY <3>1, <3>2
  <2>3. CASE ~(k = "fat" /\ n + 1 > x.cap)
    <3>1. Seek(k, x, n) = [x EXCEPT !.seek = n]
      <4> HIDE DEF same
      <4> QED BY <2>3, Zenon DEF Seek
    <3>2. same([x EXCEPT !.seek = n])
      BY <1>2
    <3> HIDE DEF same
    <3> QED BY <3>1, <3>2
  <2> QED BY <2>2, <2>3
<1> HIDE DEF same
<1>9. same(Effect(k, x, op))
  BY <1>1, <1>6, <1>7, <1>8 DEF Effect
<1> QED BY <1>9 DEF same

(* A call does what it is for to the inode. *)
Acts(t, y, c, e, x, f) ==
  /\ f = pc[t].f /\ files[f] # Free /\ e = files[f].e /\ There(e)
  /\ y = Effect(KindOf(e), At(e), pc[t].op)
  /\ y.sub = At(e).sub /\ y.name = At(e).name /\ y.is = At(e).is /\ y.refer = At(e).refer
  /\ dents' = Put(dents, e[1], e[2], y)
  /\ x.e = e /\ x.o = files[f].o /\ x.pos = files[f].pos /\ x.mixed = files[f].mixed
  /\ (files[f].own = At(e).seek => x.own = y.seek)
  /\ files' = [files EXCEPT ![f] = x]
  /\ Does(t, c) /\ c.do = "unpark" /\ c.f = f /\ halted' = halted

LEMMA ActIs ==
  ASSUME InPlace, NEW t \in Threads, Act(t)
  PROVE  /\ pc[t] \in Doings /\ DoingOK(pc[t]) /\ pc[t].do = "act"
         /\ \/ halted' = TRUE /\ UNCHANGED <<dents, files, pc>>
            \/ \E y \in Elements, c \in Doings, e \in Places, x \in Opened, f \in Slots : Acts(t, y, c, e, x, f)
<1>1. pc[t] \in Doings /\ DoingOK(pc[t]) /\ pc[t].do = "act"
  BY Now DEF Act, Doing
<1>2. PICK f \in Slots : f = pc[t].f
  BY <1>1, DoingIs
<1>3. PICK v \in Opened : v = files[f] /\ files[f] # Free
  BY <1>1, <1>2 DEF DoingOK, InPlace, FilesOK
<1>4. PICK e \in Places : e = files[f].e
  BY <1>3, FileIs
<1>5. There(e)
  BY <1>3, <1>4 DEF InPlace, FilesOK, FileAt
<1>6. PICK op \in Ops : op = pc[t].op
  BY <1>1, DoingIs
<1>7. PICK w \in Elements : w = At(e)
  BY <1>5, AtIs DEF InPlace
<1>8. PICK k \in {"iso", "fat", "null"} : k = KindOf(e)
  BY <1>5, AtIs DEF InPlace
<1>9. PICK y : y = Effect(k, w, op)
  OBVIOUS
<1>10. y \in Elements /\ y.sub = w.sub /\ y.name = w.name /\ y.is = w.is /\ y.refer = w.refer
  BY <1>9, EffectIs
<1>11. PICK z : z = [w EXCEPT !.seek = v.own]
  OBVIOUS
<1>12. z \in Elements /\ (v.own = w.seek => z = w)
  BY <1>11, FileIs DEF Elements
<1>13. PICK n : n = Effect(k, z, op).seek
  OBVIOUS
<1>14. n \in Nat /\ (v.own = w.seek => n = y.seek)
  <2>1. Effect(k, z, op) \in Elements
    BY <1>12, EffectIs
  <2>2. n \in Nat
    BY <1>13, <2>1 DEF Elements
  <2> QED BY <1>9, <1>12, <1>13, <2>2
<1>15. PICK x : x = [v EXCEPT !.own = n]
  OBVIOUS
<1>16. x \in Opened /\ x.e = v.e /\ x.o = v.o /\ x.pos = v.pos /\ x.mixed = v.mixed /\ x.own = n
  BY <1>14, <1>15 DEF Opened
<1>17. PICK q \in Doings : q = pc[t]
  BY <1>1
<1>18. PICK c : c = [q EXCEPT !.do = "unpark"]
  OBVIOUS
<1>19. q \in [do : {"act", "unpark"}, f : Slots, op : Ops]
  BY <1>1, <1>17 DEF Doings, Loads
<1>20. c \in [do : {"act", "unpark"}, f : Slots, op : Ops] /\ c.do = "unpark" /\ c.f = q.f
  BY <1>18, <1>19
<1>21. c \in Doings
  BY <1>20 DEF Doings
<1>22. \/ halted' = TRUE /\ UNCHANGED <<dents, files, pc>>
       \/ /\ dents' = [dents EXCEPT ![e[1]].elems[e[2]] = y]
          /\ files' = [files EXCEPT ![f].own = n]
          /\ pc' = [pc EXCEPT ![t].do = "unpark"]
          /\ UNCHANGED halted
  BY <1>2, <1>3, <1>4, <1>6, <1>7, <1>8, <1>9, <1>11, <1>13 DEF Act
<1>23. CASE /\ dents' = [dents EXCEPT ![e[1]].elems[e[2]] = y]
            /\ files' = [files EXCEPT ![f].own = n]
            /\ pc' = [pc EXCEPT ![t].do = "unpark"]
            /\ UNCHANGED halted
  <2>1. dents' = Put(dents, e[1], e[2], y)
    BY <1>23 DEF Put
  <2>2. files' = [files EXCEPT ![f] = x]
    BY <1>3, <1>15, <1>23
  <2>3. Does(t, c)
    BY <1>17, <1>18, <1>23 DEF Does
  <2>4. y = Effect(KindOf(e), At(e), pc[t].op)
    BY <1>6, <1>7, <1>8, <1>9
  <2>5. Acts(t, y, c, e, x, f)
    <3>1. f = pc[t].f /\ files[f] # Free /\ e = files[f].e /\ There(e)
      BY <1>2, <1>3, <1>4, <1>5
    <3>2. y.sub = At(e).sub /\ y.name = At(e).name /\ y.is = At(e).is /\ y.refer = At(e).refer
      BY <1>7, <1>10
    <3>3. x.e = e /\ x.o = files[f].o /\ x.pos = files[f].pos /\ x.mixed = files[f].mixed
      BY <1>3, <1>4, <1>16
    <3>4. files[f].own = At(e).seek => x.own = y.seek
      BY <1>3, <1>7, <1>14, <1>16
    <3>5. c.do = "unpark" /\ c.f = f
      BY <1>2, <1>17, <1>20
    <3> QED BY <1>23, <2>1, <2>2, <2>3, <2>4, <3>1, <3>2, <3>3, <3>4, <3>5 DEF Acts
  <2> QED BY <1>1, <1>10, <1>16, <1>21, <2>5
<1> QED BY <1>1, <1>22, <1>23

LEMMA ActStep ==
  ASSUME InPlace, NEW t \in Threads, Act(t)
  PROVE  InPlace' /\ Grows
<1>1. pc[t] \in Doings /\ DoingOK(pc[t]) /\ pc[t].do = "act"
  BY ActIs
<1>2. CASE halted' = TRUE /\ UNCHANGED <<dents, files, pc>>
  <2>1. UNCHANGED <<disc, dents, files, pc, crossed, astray, drift, leaks, calls>> /\ halted' \in BOOLEAN
    BY <1>2 DEF Act
  <2>2. Grows /\ DentsOK' /\ FilesOK' /\ LeaksOK'
    BY <2>1, SameDents
  <2>3. RestOK'
    BY <2>1 DEF InPlace, RestOK
  <2>4. PcOK'
    BY <2>1 DEF InPlace, PcOK, DoingOK, FileAt, There, At
  <2> QED BY <2>2, <2>3, <2>4 DEF InPlace
<1>3. CASE ~(halted' = TRUE /\ UNCHANGED <<dents, files, pc>>)
  <2>act. PICK y \in Elements, c \in Doings, e \in Places, x \in Opened, f \in Slots : Acts(t, y, c, e, x, f)
    BY <1>3, ActIs
  <2>0. /\ f = pc[t].f /\ files[f] # Free /\ e = files[f].e /\ There(e)
        /\ y = Effect(KindOf(e), At(e), pc[t].op)
        /\ y.sub = At(e).sub /\ y.name = At(e).name /\ y.is = At(e).is /\ y.refer = At(e).refer
        /\ dents' = Put(dents, e[1], e[2], y)
        /\ x.e = e /\ x.o = files[f].o /\ x.pos = files[f].pos /\ x.mixed = files[f].mixed
        /\ (files[f].own = At(e).seek => x.own = y.seek)
        /\ files' = [files EXCEPT ![f] = x]
        /\ Does(t, c) /\ c.do = "unpark" /\ c.f = f /\ halted' = halted
    BY <2>act DEF Acts
  <2>1. DentsOK' /\ Grows
    BY <2>0, PutElem DEF InPlace
  <2>2. \A q : There(q) => There(q)'
    BY <2>1, ThereStays
  <2>3. files \in [Slots -> Opened \cup {Free}] /\ x # Free
    BY FileIs DEF InPlace, FilesOK
  <2>4. files' \in [Slots -> Opened \cup {Free}] /\ \A g \in Slots : files'[g] = IF g = f THEN x ELSE files[g]
    BY <2>0, <2>3
  <2>5. ASSUME NEW g \in Slots, files'[g] # Free PROVE FileAt(files[g].e)'
    <3>1. PICK q : q = files'[g].e
      OBVIOUS
    <3>2. FileAt(q)
      BY <2>0, <2>4, <2>5, <3>1 DEF InPlace, FilesOK
    <3> QED BY <2>1, <3>1, <3>2, FileStays
  <2>6. FilesOK'
    BY <2>4, <2>5 DEF FilesOK
  <2>7. LeaksOK'
    BY <2>2 DEF Act, InPlace, LeaksOK, There
  <2>8. RestOK'
    BY <2>0 DEF Act, InPlace, RestOK
  <2>9. \A u \in Threads : pc[u] # Idle /\ pc[u].do \in {"act", "unpark"} => files'[pc[u].f] # Free
    BY <2>3, <2>4, Now, DoingIs DEF DoingOK
  <2>10. DoingOK(c)'
    BY <2>0, <2>3, <2>4 DEF DoingOK
  <2> QED BY <2>0, <2>1, <2>6, <2>7, <2>8, <2>9, <2>10, Moves
<1> QED BY <1>2, <1>3

LEMMA UnparkIs ==
  ASSUME InPlace, NEW t \in Threads, Unpark(t)
  PROVE  \E x \in Opened, f \in Slots :
           /\ pc[t] \in Doings /\ DoingOK(pc[t]) /\ pc[t].do = "unpark" /\ f = pc[t].f
           /\ files[f] \in Opened /\ There(files[f].e)
           /\ x.e = files[f].e /\ x.o = files[f].o /\ x.own = files[f].own /\ x.mixed = files[f].mixed
           /\ x.pos = At(files[f].e).seek
           /\ files' = [files EXCEPT ![f] = x] /\ Does(t, Idle)
<1>1. pc[t] \in Doings /\ DoingOK(pc[t]) /\ pc[t].do = "unpark"
  BY Now DEF Unpark, Doing
<1>2. PICK f \in Slots : f = pc[t].f
  BY <1>1, DoingIs
<1>3. PICK v \in Opened : v = files[f]
  BY <1>1, <1>2 DEF DoingOK, InPlace, FilesOK
<1>4. PICK e \in Places : e = v.e
  BY FileIs
<1>5. There(e)
  BY <1>3, <1>4, FileIs DEF InPlace, FilesOK, FileAt
<1>6. PICK n \in Nat : n = At(e).seek
  BY <1>5, AtIs DEF InPlace
<1>7. PICK x : x = [v EXCEPT !.pos = n]
  OBVIOUS
<1>8. x \in Opened /\ x.e = v.e /\ x.o = v.o /\ x.own = v.own /\ x.mixed = v.mixed /\ x.pos = n
  BY <1>7 DEF Opened
<1>9. files' = [files EXCEPT ![f] = x]
  BY <1>2, <1>3, <1>4, <1>6, <1>7 DEF Unpark
<1>10. Does(t, Idle)
  BY DEF Unpark, Does
<1> QED BY <1>1, <1>2, <1>3, <1>4, <1>5, <1>6, <1>8, <1>9, <1>10

LEMMA UnparkStep ==
  ASSUME InPlace, NEW t \in Threads, Unpark(t)
  PROVE  InPlace' /\ Grows
<1>1. PICK x \in Opened, f \in Slots :
           /\ pc[t] \in Doings /\ DoingOK(pc[t]) /\ pc[t].do = "unpark" /\ f = pc[t].f
           /\ files[f] \in Opened /\ There(files[f].e)
           /\ x.e = files[f].e /\ x.o = files[f].o /\ x.own = files[f].own /\ x.mixed = files[f].mixed
           /\ x.pos = At(files[f].e).seek
           /\ files' = [files EXCEPT ![f] = x] /\ Does(t, Idle)
  BY UnparkIs
<1>2. UNCHANGED <<disc, dents, crossed, astray, drift, leaks, halted, calls>>
  BY DEF Unpark
<1>3. Grows /\ DentsOK' /\ LeaksOK' /\ RestOK'
  BY <1>2 DEF InPlace, Grows, DentsOK, LeaksOK, There, RestOK
<1>4. files \in [Slots -> Opened \cup {Free}] /\ x # Free
  BY FileIs DEF InPlace, FilesOK
<1>5. files' \in [Slots -> Opened \cup {Free}] /\ \A g \in Slots : files'[g] = IF g = f THEN x ELSE files[g]
  BY <1>1, <1>4
<1>6. \A g \in Slots : files'[g] # Free => FileAt(files'[g].e)
  BY <1>1, <1>4, <1>5, FileIs DEF InPlace, FilesOK
<1>7. \A g \in Slots : files'[g] # Free => FileAt(files[g].e)'
  BY <1>2, <1>6 DEF There, FileAt, At
<1>8. FilesOK'
  BY <1>5, <1>7 DEF FilesOK
<1>9. \A u \in Threads : pc[u] # Idle /\ pc[u].do \in {"act", "unpark"} => files'[pc[u].f] # Free
  BY <1>4, <1>5, Now, DoingIs DEF DoingOK
<1> QED BY <1>1, <1>3, <1>8, <1>9, Moves

(* One lemma for each action has shown that. *)
LEMMA NextInPlace ==
  ASSUME InPlace, [VfsNext]_vfsVars
  PROVE  InPlace' /\ Grows
<1>1. CASE UNCHANGED vfsVars
  BY <1>1 DEF vfsVars, InPlace, DentsOK, FilesOK, LeaksOK, PcOK, RestOK, DoingOK, FileAt, There, At, Grows
<1>2. ASSUME NEW t \in Threads,
             \/ Begin(t) \/ WalkEnd(t) \/ WalkDots(t) \/ WalkMissing(t) \/ WalkFile(t) \/ WalkDir(t)
      PROVE  InPlace' /\ Grows
  BY <1>2, BeginStep, WalkEndStep, WalkDotsStep, WalkMissingStep, WalkFileStep, WalkDirStep
<1>3. ASSUME NEW t \in Threads,
             \/ Copy(t) \/ Link(t) \/ Ask(t) \/ Fetch(t) \/ Load(t) \/ Garbled(t) \/ Loaded(t)
             \/ Create(t) \/ Fail(t)
      PROVE  InPlace' /\ Grows
  BY <1>3, CopyStep, LinkStep, AskStep, FetchStep, LoadStep, GarbledStep, LoadedStep, CreateStep, FailStep
<1>4. ASSUME NEW t \in Threads,
             OpenLoad(t) \/ OpenStore(t) \/ CloseStore(t) \/ Act(t) \/ Unpark(t)
      PROVE  InPlace' /\ Grows
  BY <1>4, OpenLoadStep, OpenStoreStep, CloseStoreStep, ActStep, UnparkStep
<1>5. ASSUME NEW t \in Threads, NEW f \in Slots, CloseLoad(t, f) \/ \E op \in Ops : Park(t, f, op)
      PROVE  InPlace' /\ Grows
  BY <1>5, CloseLoadStep, ParkStep
<1> QED BY <1>1, <1>2, <1>3, <1>4, <1>5 DEF VfsNext

(* The variables keep their types, and whatever a lookup, a descriptor or  *)
(* a call has hold of, a dentry, an element, a file, is there.             *)
THEOREM NamesStay == VfsSpec => [](VfsTypeOK /\ InPlace)
<1>1. VfsSpec => []InPlace
  BY InitInPlace, NextInPlace, PTL DEF VfsSpec
<1> QED BY <1>1, InPlaceTypes, PTL

(* No step takes a dentry or an element away, renames one, or takes a      *)
(* loaded directory from its name: the search of a path, load_inode_dirs   *)
(* and fs_create only add, so what a preempted call points at stays good.  *)
THEOREM ElementsStay == VfsSpec => [][Grows]_vfsVars
<1>1. VfsSpec => []InPlace
  BY InitInPlace, NextInPlace, PTL DEF VfsSpec
<1>2. InPlace /\ [VfsNext]_vfsVars => [Grows]_vfsVars
  BY NextInPlace
<1> QED BY <1>1, <1>2, PTL DEF VfsSpec

(***************************************************************************)
(* The count of an inode.  Until two calls have had it at once, at most    *)
(* one is between its load and its store, and that one holds what it is.   *)
(***************************************************************************)
Holders(F, e) == {f \in Slots : F[f] # Free /\ F[f].e = e}
Left(L, e) == {i \in DOMAIN L : L[i] = e}
Over(e) == At(e).refer - Held(e)

CountAt(e) ==
  (Kind[dents[e[1]].dir] # "null" /\ e \notin drift) =>
     /\ Counting(e) = {} => Over(e) \in {0, 1}
     /\ \A t \in Counting(e) :
          /\ Counting(e) = {t} /\ pc[t].r = At(e).refer
          /\ pc[t].do = "count" => Over(e) \in {0, 1}
          /\ pc[t].do = "drop" => Over(e) \in {1, 2}

CountOK == \A e \in Places : There(e) => CountAt(e)

LEMMA HeldIs ==
  /\ \A e : Held(e) = Cardinality(Holders(files, e)) + Cardinality(Left(leaks, e))
  /\ \A e : Held(e)' = Cardinality(Holders(files', e)) + Cardinality(Left(leaks', e))
BY DEF Held, Holders, Left

LEMMA HoldersFinite ==
  ASSUME NEW F, NEW e
  PROVE  IsFiniteSet(Holders(F, e)) /\ Cardinality(Holders(F, e)) \in Nat
<1>1. IsFiniteSet(Slots) /\ Holders(F, e) \subseteq Slots
  BY VfsAssumption DEF Holders
<1> QED BY <1>1, FS_Subset, FS_CardinalityType

LEMMA LeftFinite ==
  ASSUME NEW L \in Seq(Places), NEW e
  PROVE  IsFiniteSet(Left(L, e)) /\ Cardinality(Left(L, e)) \in Nat
<1>1. Len(L) \in Nat /\ DOMAIN L = 1 .. Len(L)
  OBVIOUS
<1>2. IsFiniteSet(1 .. Len(L))
  BY <1>1, FS_Interval
<1>3. Left(L, e) \subseteq 1 .. Len(L)
  BY <1>1 DEF Left
<1> QED BY <1>2, <1>3, FS_Subset, FS_CardinalityType

(* One more, or one fewer, descriptor or leak *)
LEMMA HolderAdded ==
  ASSUME NEW F, NEW G, NEW f \in Slots, NEW x, F[f] = Free, x # Free,
         \A g \in Slots : G[g] = IF g = f THEN x ELSE F[g]
  PROVE  /\ Cardinality(Holders(G, x.e)) = Cardinality(Holders(F, x.e)) + 1
         /\ \A e : e # x.e => Holders(G, e) = Holders(F, e)
<1>1. Holders(G, x.e) = Holders(F, x.e) \cup {f} /\ f \notin Holders(F, x.e)
  BY DEF Holders
<1>2. \A e : e # x.e => Holders(G, e) = Holders(F, e)
  BY DEF Holders
<1> QED BY <1>1, <1>2, HoldersFinite, FS_AddElement

LEMMA HolderLeaves ==
  ASSUME NEW F, NEW G, NEW f \in Slots, F[f] # Free,
         \A g \in Slots : G[g] = IF g = f THEN Free ELSE F[g]
  PROVE  /\ Cardinality(Holders(G, F[f].e)) = Cardinality(Holders(F, F[f].e)) - 1
         /\ \A e : e # F[f].e => Holders(G, e) = Holders(F, e)
<1>1. Holders(G, F[f].e) = Holders(F, F[f].e) \ {f} /\ f \in Holders(F, F[f].e)
  BY DEF Holders
<1>2. \A e : e # F[f].e => Holders(G, e) = Holders(F, e)
  BY DEF Holders
<1> QED BY <1>1, <1>2, HoldersFinite, FS_RemoveElement

LEMMA LeftSame ==
  ASSUME NEW L \in Seq(Places), NEW x \in Places, NEW e, e # x
  PROVE  Left(Append(L, x), e) = Left(L, e)
<1>0. PICK K : K = Append(L, x)
  OBVIOUS
<1>1. PICK n \in Nat : n = Len(L) /\ DOMAIN L = 1 .. n
  OBVIOUS
<1>2. DOMAIN K = 1 .. (n + 1) /\ K[n + 1] = x /\ \A i \in 1 .. n : K[i] = L[i]
  BY <1>0, <1>1
<1>3. \A i : i \in 1 .. (n + 1) <=> i \in 1 .. n \/ i = n + 1
  BY <1>1
<1>4. Left(K, e) = Left(L, e)
  BY <1>1, <1>2, <1>3 DEF Left
<1> QED BY <1>0, <1>4

LEMMA LeftMore ==
  ASSUME NEW L \in Seq(Places), NEW x \in Places
  PROVE  Cardinality(Left(Append(L, x), x)) = Cardinality(Left(L, x)) + 1
<1>0. PICK K : K = Append(L, x)
  OBVIOUS
<1>1. PICK n \in Nat : n = Len(L) /\ DOMAIN L = 1 .. n
  OBVIOUS
<1>2. DOMAIN K = 1 .. (n + 1) /\ K[n + 1] = x /\ \A i \in 1 .. n : K[i] = L[i]
  BY <1>0, <1>1
<1>3. /\ \A i : i \in 1 .. (n + 1) <=> i \in 1 .. n \/ i = n + 1
      /\ n + 1 \notin 1 .. n
  BY <1>1
<1>4. Left(K, x) = Left(L, x) \cup {n + 1} /\ n + 1 \notin Left(L, x)
  BY <1>1, <1>2, <1>3 DEF Left
<1>5. Cardinality(Left(K, x)) = Cardinality(Left(L, x)) + 1
  BY <1>4, LeftFinite, FS_AddElement
<1> QED BY <1>0, <1>5

(* Nobody has hold of what is not there. *)
LEMMA NobodysFresh ==
  ASSUME InPlace, NEW e \in Places, ~There(e)
  PROVE  Holders(files, e) = {} /\ Left(leaks, e) = {} /\ Counting(e) = {}
<1>1. \A f \in Slots : files[f] # Free => files[f].e # e
  BY DEF InPlace, FilesOK, FileAt
<1>2. \A i \in DOMAIN leaks : leaks[i] # e
  BY DEF InPlace, LeaksOK
<1>3. \A t \in Threads : pc[t] # Idle /\ pc[t].do \in {"count", "drop"} => pc[t].e # e
  BY Now DEF DoingOK
<1> QED BY <1>1, <1>2, <1>3 DEF Holders, Left, Counting

(* The count of a place, when a step leaves what it is about alone *)
LEMMA CountKept ==
  ASSUME Grows, NEW e \in Places, There(e), CountAt(e),
         e \in drift => e \in drift', At(e)'.refer = At(e).refer,
         Holders(files', e) = Holders(files, e), Left(leaks', e) = Left(leaks, e),
         Counting(e)' = Counting(e), \A t \in Counting(e) : pc'[t] = pc[t]
  PROVE  CountAt(e)'
<1>1. Held(e)' = Held(e)
  BY HeldIs
<1>2. Over(e)' = Over(e)
  BY <1>1 DEF Over
<1>3. dents'[e[1]].dir = dents[e[1]].dir
  BY DEF Grows, There
<1> QED BY <1>2, <1>3 DEF CountAt

(* Of a place that has come about *)
LEMMA CountFresh ==
  ASSUME InPlace, NEW e \in Places, ~There(e), At(e)'.refer = 0,
         Holders(files', e) = Holders(files, e), Left(leaks', e) = Left(leaks, e), Counting(e)' = Counting(e)
  PROVE  CountAt(e)'
<1>1. Cardinality({}) = 0
  BY FS_EmptySet
<1>2. Held(e)' = 0 /\ Counting(e)' = {}
  BY <1>1, HeldIs, NobodysFresh
<1>3. Over(e)' = 0
  BY <1>2 DEF Over
<1> QED BY <1>2, <1>3 DEF CountAt

(* Who counts on an inode, when t moves to c *)
LEMMA CountingIs ==
  ASSUME InPlace, NEW t \in Threads, NEW c \in Doings \cup {Idle}, Does(t, c), NEW e
  PROVE  /\ Counting(e)' = (Counting(e) \ {t})
              \cup {u \in {t} : c # Idle /\ c.do \in {"count", "drop"} /\ c.e = e}
         /\ \A u \in Threads \ {t} : pc'[u] = pc[u]
         /\ pc'[t] = c
<1>1. pc'[t] = c /\ \A u \in Threads \ {t} : pc'[u] = pc[u]
  BY DEF Does, InPlace, PcOK
<1> QED BY <1>1 DEF Counting

(* A step that counts nothing *)
LEMMA CountQuiet ==
  ASSUME InPlace, CountOK, Grows, UNCHANGED <<leaks, drift>>,
         NEW t \in Threads, NEW c \in Doings \cup {Idle}, Does(t, c),
         c # Idle => c.do \notin {"count", "drop"},
         pc[t] # Idle => pc[t].do \notin {"count", "drop"},
         \A f \in Slots : (files'[f] = Free <=> files[f] = Free) /\ (files[f] # Free => files'[f].e = files[f].e),
         \A e \in Places : There(e) => At(e)'.refer = At(e).refer,
         \A e \in Places : There(e)' /\ ~There(e) => At(e)'.refer = 0
  PROVE  CountOK'
<1> SUFFICES ASSUME NEW e \in Places, There(e)' PROVE CountAt(e)'
  BY DEF CountOK
<1>1. Counting(e)' = Counting(e) /\ \A u \in Counting(e) : pc'[u] = pc[u]
  <2>1. t \notin Counting(e)
    BY DEF Counting
  <2>2. {u \in {t} : c # Idle /\ c.do \in {"count", "drop"} /\ c.e = e} = {}
    OBVIOUS
  <2>3. Counting(e)' = Counting(e)
    BY <2>1, <2>2, CountingIs
  <2>4. \A u \in Counting(e) : pc'[u] = pc[u]
    BY <2>1, CountingIs DEF Counting
  <2> QED BY <2>3, <2>4
<1>2. Holders(files', e) = Holders(files, e)
  BY DEF Holders
<1>3. Left(leaks', e) = Left(leaks, e)
  OBVIOUS
<1>4. CASE There(e)
  BY <1>1, <1>2, <1>3, <1>4, CountKept DEF CountOK
<1>5. CASE ~There(e)
  BY <1>1, <1>2, <1>3, <1>5, CountFresh
<1> QED BY <1>4, <1>5

(***************************************************************************)
(* The steps of a lookup, and of a call that fails, count and move nothing *)
(***************************************************************************)
Looks(t) ==
  \/ Begin(t) \/ WalkEnd(t) \/ WalkDots(t) \/ WalkMissing(t) \/ WalkFile(t) \/ WalkDir(t)
  \/ Copy(t) \/ Link(t) \/ Ask(t) \/ Fetch(t) \/ Load(t) \/ Garbled(t) \/ Loaded(t)
  \/ Create(t) \/ Fail(t)

Resting(c) == c = Idle \/ c.do \notin {"count", "drop", "act", "unpark"}

Rests(t) == Resting(pc[t]) /\ Resting(pc'[t]) /\ \A u \in Threads \ {t} : pc'[u] = pc[u]

MarksKept ==
  \A e \in Places :
    /\ There(e) => At(e)'.refer = At(e).refer /\ (At(e).is = NoDir => At(e)'.seek = At(e).seek)
    /\ ~There(e) /\ There(e)' => At(e)'.refer = 0

LEMMA WalkRests ==
  ASSUME InPlace, NEW t \in Threads,
         \/ Begin(t) \/ WalkEnd(t) \/ WalkDots(t) \/ WalkMissing(t) \/ WalkFile(t) \/ WalkDir(t)
         \/ Garbled(t) \/ Loaded(t) \/ Fail(t)
  PROVE  Rests(t)
<1>0. pc \in [Threads -> Doings \cup {Idle}]
  BY DEF InPlace, PcOK
<1>1. CASE Begin(t)
  <2>1. PICK o : pc' = [pc EXCEPT ![t] = [do |-> "walk", o |-> o, rest |-> o.path, d |-> 1]]
    BY <1>1 DEF Begin
  <2> QED BY <1>0, <1>1, <2>1 DEF Begin, Call, Rests, Resting
<1>2. ASSUME NEW why, Stop(t, why), Resting(pc[t]) PROVE Rests(t)
  BY <1>0, <1>2 DEF Stop, Rests, Resting
<1>3. ASSUME NEW d, Deeper(t, d), Resting(pc[t]) PROVE Rests(t)
  BY <1>0, <1>3 DEF Deeper, Rests, Resting
<1>4. CASE WalkEnd(t)
  <2>1. CASE pc' = [pc EXCEPT ![t] = [do |-> "listed", o |-> @.o, d |-> @.d]]
    BY <1>0, <1>4, <2>1 DEF WalkEnd, Doing, Rests, Resting
  <2> QED BY <1>2, <1>4, <2>1 DEF WalkEnd, Doing, Resting
<1>5. CASE WalkDots(t)
  BY <1>3, <1>5 DEF WalkDots, Reads, Doing, Resting
<1>6. CASE WalkMissing(t)
  <2>1. PICK n \in Names : \/ Stop(t, "missing")
                          \/ pc' = [pc EXCEPT ![t] = [do |-> "create", o |-> @.o, d |-> @.d, name |-> n,
                                                     seen |-> Len(dents[@.d].elems)]]
    BY <1>6 DEF WalkMissing
  <2>2. CASE pc' = [pc EXCEPT ![t] = [do |-> "create", o |-> @.o, d |-> @.d, name |-> n,
                                      seen |-> Len(dents[@.d].elems)]]
    BY <1>0, <1>6, <2>2 DEF WalkMissing, Reads, Doing, Rests, Resting
  <2> QED BY <1>2, <1>6, <2>1, <2>2 DEF WalkMissing, Reads, Doing, Resting
<1>7. CASE WalkFile(t)
  <2>1. PICK n \in Names : \/ Stop(t, "not a directory")
                          \/ pc' = [pc EXCEPT ![t] = [do |-> "opened", o |-> @.o,
                                                     e |-> <<pc[t].d, Find(pc[t].d, n)>>]]
    BY <1>7 DEF WalkFile
  <2>2. CASE pc' = [pc EXCEPT ![t] = [do |-> "opened", o |-> @.o, e |-> <<pc[t].d, Find(pc[t].d, n)>>]]
    BY <1>0, <1>7, <2>2 DEF WalkFile, Reads, Doing, Rests, Resting
  <2> QED BY <1>2, <1>7, <2>1, <2>2 DEF WalkFile, Reads, Doing, Resting
<1>8. CASE WalkDir(t)
  <2>1. PICK e : \/ Deeper(t, At(e).sub)
                 \/ pc' = [pc EXCEPT ![t] = [do |-> "copy", o |-> @.o, rest |-> @.rest, d |-> @.d,
                                             e |-> e, seen |-> At(e).sub]]
    BY <1>8 DEF WalkDir
  <2>2. CASE pc' = [pc EXCEPT ![t] = [do |-> "copy", o |-> @.o, rest |-> @.rest, d |-> @.d,
                                      e |-> e, seen |-> At(e).sub]]
    BY <1>0, <1>8, <2>2 DEF WalkDir, Reads, Doing, Rests, Resting
  <2> QED BY <1>3, <1>8, <2>1, <2>2 DEF WalkDir, Reads, Doing, Resting
<1>9. CASE Loaded(t)
  BY <1>0, <1>9 DEF Loaded, Doing, Rests, Resting
<1>10. CASE Fail(t)
  BY <1>0, <1>10 DEF Fail, Doing, Rests, Resting
<1>11. CASE Garbled(t)
  BY <1>2, <1>11 DEF Garbled, Doing, Resting
<1> QED BY <1>1, <1>4, <1>5, <1>6, <1>7, <1>8, <1>9, <1>10, <1>11

LEMMA LooksRest ==
  ASSUME InPlace, NEW t \in Threads, Looks(t)
  PROVE  Rests(t) /\ UNCHANGED <<files, leaks, drift>>
<1>1. UNCHANGED <<files, leaks, drift>>
  BY DEF Looks, Begin, WalkEnd, WalkDots, WalkMissing, WalkFile, WalkDir, Copy, Link, Ask, Fetch,
         Load, Garbled, Loaded, Create, Fail
<1>2. ASSUME NEW c, Does(t, c), Resting(c), Resting(pc[t]) PROVE Rests(t)
  BY <1>2 DEF Does, Rests, InPlace, PcOK
<1>3. CASE Copy(t)
  <2>1. PICK d, k, c : pc[t].do = "copy" /\ Does(t, c) /\ c.do = "link"
    BY <1>3, CopyIs
  <2>2. Resting(c) /\ Resting(pc[t])
    BY <2>1 DEF Resting
  <2> QED BY <1>1, <1>2, <2>1, <2>2
<1>4. CASE Link(t)
  <2>1. PICK d, c : pc[t].do = "link" /\ Does(t, c) /\ c.do = "load"
    BY <1>4, LinkIs
  <2>2. Resting(c) /\ Resting(pc[t])
    BY <2>1 DEF Resting
  <2> QED BY <1>1, <1>2, <2>1, <2>2
<1>5. CASE Ask(t) \/ Fetch(t) \/ Load(t)
  <2>1. PICK c : Reading(t, c)
    <3>1. CASE Ask(t)
      BY <3>1, AskIs
    <3>2. CASE Fetch(t)
      BY <3>2, FetchIs
    <3>3. CASE Load(t)
      BY <3>3, LoadIs
    <3> QED BY <1>5, <3>1, <3>2, <3>3
  <2>2. Resting(c) /\ Resting(pc[t])
    BY <2>1 DEF Resting, Reading
  <2> QED BY <1>1, <1>2, <2>1, <2>2 DEF Reading
<1>6. CASE Create(t)
  <2>1. Resting(pc[t])
    BY <1>6, CreateIs DEF Resting
  <2>2. CASE UNCHANGED pc
    BY <1>1, <2>1, <2>2 DEF Rests, Resting
  <2>3. CASE Stop(t, "no room")
    <3>1. pc'[t].do = "failed" /\ \A u \in Threads \ {t} : pc'[u] = pc[u]
      BY <2>3 DEF Stop, InPlace, PcOK
    <3>2. Resting(pc'[t])
      BY <3>1 DEF Resting
    <3> QED BY <1>1, <2>1, <3>1, <3>2 DEF Rests
  <2>4. CASE pc' # pc /\ ~Stop(t, "no room")
    <3>1. PICK c : Does(t, c) /\ c.do = "opened"
      BY <1>6, <2>4, CreateIs
    <3>2. Resting(c)
      BY <3>1 DEF Resting
    <3> QED BY <1>1, <1>2, <2>1, <3>1, <3>2
  <2> QED BY <2>2, <2>3, <2>4
<1> QED BY <1>1, <1>3, <1>4, <1>5, <1>6, WalkRests DEF Looks

LEMMA LooksMark ==
  ASSUME InPlace, NEW t \in Threads, Looks(t)
  PROVE  MarksKept
<1>0. DentsOK
  BY DEF InPlace
<1>1. CASE UNCHANGED dents
  BY <1>1 DEF MarksKept, There, At
<1>2. CASE Copy(t)
  <2>1. PICK d, k, c :
        /\ d \in DOMAIN dents /\ k \in DOMAIN dents[d].elems /\ DoingOK(pc[t]) /\ pc[t].do = "copy"
        /\ pc[t].e = <<d, k>> /\ At(pc[t].e) = dents[d].elems[k]
        /\ dents' = WithDent(dents, d, k, dents[d].elems[k].is)
    BY <1>2, CopyIs
  <2>2. PICK dir \in Dirs : dir = dents[d].elems[k].is
    BY <2>1 DEF DoingOK
  <2>3. dents' = WithDent(dents, d, k, dir)
    BY <2>1, <2>2
  <2>4. /\ Len(dents') = Len(dents) + 1 /\ dents'[Len(dents')] = Copied(d, dir) /\ DentsOK'
        /\ \A x \in DOMAIN dents :
              /\ DOMAIN dents'[x].elems = DOMAIN dents[x].elems
              /\ \A i \in DOMAIN dents[x].elems :
                   /\ dents'[x].elems[i].refer = dents[x].elems[i].refer
                   /\ dents'[x].elems[i].seek = dents[x].elems[i].seek
    <3>1. d \in DOMAIN dents /\ k \in DOMAIN dents[d].elems
      BY <2>1
    <3>2. Len(dents') = Len(dents) + 1 /\ dents'[Len(dents')] = Copied(d, dir) /\ DentsOK'
      BY <1>0, <2>2, <2>3, <3>1, DentAdded
    <3>3. \A x \in DOMAIN dents : DOMAIN dents'[x].elems = DOMAIN dents[x].elems
      BY <1>0, <2>2, <2>3, <3>1, DentAdded
    <3>4. \A x \in DOMAIN dents : \A i \in DOMAIN dents[x].elems :
            /\ dents'[x].elems[i].refer = dents[x].elems[i].refer
            /\ dents'[x].elems[i].seek = dents[x].elems[i].seek
      BY <1>0, <2>2, <2>3, <3>1, DentAdded
    <3> QED BY <3>2, <3>3, <3>4
  <2>5. dents'[Len(dents')].elems = <<>>
    BY <2>4 DEF Copied
  <2>6. \A x \in DOMAIN dents' : x \in DOMAIN dents \/ x = Len(dents')
    BY <1>0, <2>4 DEF DentsOK
  <2>7. \A e : There(e)' => There(e)
    BY <2>4, <2>5, <2>6 DEF There
  <2>8. \A e : There(e) => At(e)'.refer = At(e).refer /\ At(e)'.seek = At(e).seek
    BY <2>4 DEF There, At
  <2> QED BY <2>7, <2>8 DEF MarksKept
<1>3. CASE Link(t)
  <2>1. PICK d \in DOMAIN dents : dents' = [dents EXCEPT ![d].set = TRUE]
    BY <1>3, LinkIs
  <2>2. DOMAIN dents' = DOMAIN dents /\ \A c \in DOMAIN dents : dents'[c].elems = dents[c].elems
    BY <1>0, <2>1, FlagSet
  <2> QED BY <2>2 DEF MarksKept, There, At
<1>4. ASSUME NEW d \in DOMAIN dents, NEW y \in Elements, y.sub = 0, y.refer = 0, dents' = WithElem(dents, d, y)
      PROVE  MarksKept
  <2>1. /\ DOMAIN dents' = DOMAIN dents /\ DentsOK'
        /\ \A c \in DOMAIN dents :
              /\ Len(dents'[c].elems) = (IF c = d THEN Len(dents[c].elems) + 1 ELSE Len(dents[c].elems))
              /\ \A i \in DOMAIN dents[c].elems : dents'[c].elems[i] = dents[c].elems[i]
        /\ dents'[d].elems[Len(dents[d].elems) + 1] = y
    BY <1>0, <1>4, ElemAdded
  <2>2. \A c \in DOMAIN dents : \A i \in DOMAIN dents'[c].elems :
          i \in DOMAIN dents[c].elems \/ (c = d /\ i = Len(dents[c].elems) + 1)
    <3> SUFFICES ASSUME NEW c \in DOMAIN dents, NEW i \in DOMAIN dents'[c].elems
                 PROVE  i \in DOMAIN dents[c].elems \/ (c = d /\ i = Len(dents[c].elems) + 1)
      OBVIOUS
    <3>1. DOMAIN dents[c].elems = 1 .. Len(dents[c].elems) /\ Len(dents[c].elems) \in Nat
      BY <1>0, DentIs
    <3>2. dents'[c].elems \in Seq(Elements)
      <4>1. dents'[c] \in Dentries
        BY <2>1 DEF DentsOK
      <4> QED BY <4>1 DEF Dentries
    <3>3. i \in 1 .. Len(dents'[c].elems)
      BY <3>2
    <3> QED BY <2>1, <3>1, <3>3
  <2>3. ASSUME NEW e \in Places, There(e) PROVE At(e)'.refer = At(e).refer /\ At(e)'.seek = At(e).seek
    BY <2>1, <2>3 DEF There, At
  <2>4. ASSUME NEW e \in Places, ~There(e), There(e)' PROVE At(e)'.refer = 0
    <3>1. e[1] = d /\ e[2] = Len(dents[d].elems) + 1
      BY <2>1, <2>2, <2>4 DEF There
    <3>2. At(e)' = y
      BY <2>1, <3>1 DEF At
    <3> QED BY <1>4, <3>2
  <2> QED BY <2>3, <2>4 DEF MarksKept
<1>5. CASE Load(t)
  <2>1. PICK d \in DOMAIN dents, n \in Entries : dents' = WithElem(dents, d, Elem(n, 0))
    BY <1>5, LoadIs
  <2>2. PICK y \in Elements : y = Elem(n, 0) /\ y.sub = 0 /\ y.refer = 0
    BY ElemIs
  <2> QED BY <1>4, <2>1, <2>2
<1>6. CASE Create(t) /\ dents' # dents
  <2>1. PICK d, y, new, c :
                 /\ d = pc[t].d /\ CanAdd(d)
                 /\ new \in Entries /\ new.name = pc[t].name /\ new.is = NoDir
                 /\ disc' = WithEntry(disc, dents[d].dir, new)
                 /\ y \in Elements /\ y.sub = 0 /\ y.name = pc[t].name /\ y.is = NoDir /\ y.refer = 0
                 /\ dents' = WithElem(dents, d, y)
                 /\ crossed' = (crossed \/ Len(dents[d].elems) # pc[t].seen) /\ halted' = halted
                 /\ c \in Doings /\ Does(t, c) /\ c.do = "opened" /\ c.o = pc[t].o
                 /\ c.e = <<d, Len(dents[d].elems) + 1>>
    <3>1. ~(UNCHANGED <<disc, dents, crossed, pc>> /\ halted' = TRUE)
          /\ ~(UNCHANGED <<disc, dents, crossed, halted>> /\ Stop(t, "no room"))
      BY <1>6
    <3> QED BY <1>6, <3>1, CreateIs
  <2>2. d \in DOMAIN dents
    BY <1>6, <2>1, CreateIs
  <2> QED BY <1>4, <2>1, <2>2
<1>7. CASE Begin(t) \/ WalkEnd(t) \/ WalkDots(t) \/ WalkMissing(t) \/ WalkFile(t) \/ WalkDir(t)
           \/ Ask(t) \/ Garbled(t) \/ Loaded(t) \/ Fail(t)
  <2>1. UNCHANGED dents
    BY <1>7 DEF Begin, WalkEnd, WalkDots, WalkMissing, WalkFile, WalkDir, Ask, Garbled, Loaded, Fail
  <2> QED BY <1>1, <2>1
<1>8. CASE Fetch(t)
  <2>1. PICK d, k, y :
          /\ d \in DOMAIN dents /\ k \in DOMAIN dents[d].elems /\ y \in Elements
          /\ dents[d].elems[k].is # NoDir /\ y.sub = dents[d].elems[k].sub
          /\ y.name = dents[d].elems[k].name /\ y.is = dents[d].elems[k].is
          /\ y.refer = dents[d].elems[k].refer /\ dents' = Put(dents, d, k, y)
    BY <1>8, FetchIs, VfsAssumption
  <2>2. /\ DOMAIN dents' = DOMAIN dents
        /\ \A c \in DOMAIN dents :
             /\ DOMAIN dents'[c].elems = DOMAIN dents[c].elems
             /\ \A i \in DOMAIN dents[c].elems :
                  dents'[c].elems[i] = IF c = d /\ i = k THEN y ELSE dents[c].elems[i]
    BY <1>0, <2>1, ElemChanges
  <2> QED BY <2>1, <2>2 DEF MarksKept, There, At
<1> QED BY <1>1, <1>2, <1>3, <1>5, <1>6, <1>7, <1>8 DEF Looks

(* Hence a lookup keeps the counts as they should be. *)
LEMMA LooksCount ==
  ASSUME InPlace, InPlace', Grows, CountOK, NEW t \in Threads, Looks(t)
  PROVE  CountOK'
<1>1. Rests(t) /\ UNCHANGED <<files, leaks, drift>>
  BY LooksRest
<1>2. PICK c : c = pc'[t]
  OBVIOUS
<1>3. c \in Doings \cup {Idle} /\ Resting(c) /\ Resting(pc[t])
  BY <1>1, <1>2 DEF Rests, InPlace, PcOK
<1>4. Does(t, c)
  <2>1. pc \in [Threads -> Doings \cup {Idle}] /\ pc' \in [Threads -> Doings \cup {Idle}]
    BY DEF InPlace, PcOK
  <2> QED BY <1>1, <1>2, <2>1 DEF Does, Rests
<1>5. \A f \in Slots : (files'[f] = Free <=> files[f] = Free) /\ (files[f] # Free => files'[f].e = files[f].e)
  BY <1>1
<1>6. /\ c # Idle => c.do \notin {"count", "drop"}
      /\ pc[t] # Idle => pc[t].do \notin {"count", "drop"}
  BY <1>3 DEF Resting
<1> QED BY <1>1, <1>3, <1>4, <1>5, <1>6, LooksMark, CountQuiet DEF MarksKept

LEMMA OpenLoadCount ==
  ASSUME InPlace, Grows, CountOK, NEW t \in Threads, OpenLoad(t)
  PROVE  CountOK'
<1>1. PICK c \in Doings :
        /\ pc[t] \in Doings /\ DoingOK(pc[t]) /\ pc[t].do = "opened"
        /\ Does(t, c) /\ c.do = "count" /\ c.o = pc[t].o /\ c.e = pc[t].e /\ c.r = At(pc[t].e).refer
  BY OpenLoadIs
<1>2. PICK q : q = pc[t].e
  OBVIOUS
<1>3. UNCHANGED <<dents, files, leaks>> /\ drift' = Drifts(t, q)
  BY <1>2 DEF OpenLoad
<1>4. \A e : At(e)' = At(e) /\ Held(e)' = Held(e) /\ (There(e)' => There(e))
  BY <1>3 DEF At, Held, There
<1>5. \A e : /\ Counting(e)' = (Counting(e) \ {t}) \cup {u \in {t} : c # Idle /\ c.do \in {"count", "drop"} /\ c.e = e}
             /\ t \notin Counting(e)
  <2>1. \A e : t \notin Counting(e)
    BY <1>1 DEF Counting
  <2>2. \A e : Counting(e)' = (Counting(e) \ {t})
                               \cup {u \in {t} : c # Idle /\ c.do \in {"count", "drop"} /\ c.e = e}
    BY <1>1, CountingIs
  <2> QED BY <2>1, <2>2
<1>6. pc'[t] = c /\ \A u \in Threads \ {t} : pc'[u] = pc[u]
  BY <1>1, CountingIs
<1> SUFFICES ASSUME NEW e \in Places, There(e)' PROVE CountAt(e)'
  BY DEF CountOK
<1>7. There(e) /\ CountAt(e) /\ drift \subseteq drift'
  BY <1>3, <1>4 DEF CountOK, Drifts
<1>8. CASE e # q
  <2>1. {u \in {t} : c # Idle /\ c.do \in {"count", "drop"} /\ c.e = e} = {}
    BY <1>1, <1>2, <1>8
  <2>2. Counting(e)' = Counting(e)
    BY <1>5, <2>1
  <2>3. \A u \in Counting(e) : pc'[u] = pc[u]
    BY <1>5, <1>6 DEF Counting
  <2>4. At(e)'.refer = At(e).refer /\ Holders(files', e) = Holders(files, e) /\ Left(leaks', e) = Left(leaks, e)
    BY <1>3, <1>4
  <2> QED BY <1>7, <2>2, <2>3, <2>4, CountKept
<1>9. CASE e = q
  <2>1. Counting(e)' = Counting(e) \cup {t}
    BY <1>1, <1>2, <1>5, <1>9, DoingIs
  <2>2. CASE Counting(e) # {}
    <3>1. e \in drift'
      BY <1>3, <1>5, <1>9, <2>2 DEF Drifts
    <3> QED BY <3>1 DEF CountAt
  <2>3. CASE Counting(e) = {}
    <3>1. Counting(e)' = {t}
      BY <2>1, <2>3
    <3>2. c.r = At(e).refer /\ Over(e)' = Over(e)
      BY <1>1, <1>2, <1>4, <1>9 DEF Over
    <3>3. (Kind[dents[e[1]].dir] # "null" /\ e \notin drift) => Over(e) \in {0, 1}
      BY <1>7, <2>3 DEF CountAt
    <3>4. pc'[t].r = At(e)'.refer /\ pc'[t].do = "count"
      BY <1>1, <1>4, <1>6, <3>2
    <3> QED BY <1>3, <1>7, <3>1, <3>2, <3>3, <3>4 DEF CountAt
  <2> QED BY <2>2, <2>3
<1> QED BY <1>8, <1>9

(* Where t holds a count, it is the one that does. *)
LEMMA OneCounts ==
  ASSUME CountOK, NEW t \in Threads, pc[t] # Idle, pc[t].do \in {"count", "drop"}, NEW e \in Places,
         e = pc[t].e, There(e), Kind[dents[e[1]].dir] # "null", e \notin drift
  PROVE  /\ Counting(e) = {t} /\ pc[t].r = At(e).refer
         /\ pc[t].do = "count" => Over(e) \in {0, 1}
         /\ pc[t].do = "drop" => Over(e) \in {1, 2}
<1>1. t \in Counting(e)
  BY DEF Counting
<1> QED BY <1>1 DEF CountOK, CountAt

LEMMA OpenStoreCount ==
  ASSUME InPlace, Grows, CountOK, NEW t \in Threads, OpenStore(t)
  PROVE  CountOK'
<1>1. PICK y \in Elements, x \in Opened :
           /\ pc[t] \in Doings /\ DoingOK(pc[t]) /\ pc[t].do = "count" /\ Does(t, Idle)
           /\ y.sub = At(pc[t].e).sub /\ y.name = At(pc[t].e).name /\ y.is = At(pc[t].e).is
           /\ y.seek = At(pc[t].e).seek /\ y.refer = pc[t].r + 1
           /\ dents' = Put(dents, pc[t].e[1], pc[t].e[2], y)
           /\ x.e = pc[t].e /\ x.o = pc[t].o /\ x.pos = 0 /\ x.own = 0 /\ x.mixed = FALSE
           /\ \/ leaks' = leaks /\ \E f \in Slots : files[f] = Free /\ files' = [files EXCEPT ![f] = x]
              \/ leaks' = Append(leaks, pc[t].e) /\ files' = files
  BY OpenStoreIs
<1>2. PICK q : q = pc[t].e
  OBVIOUS
<1>3. q \in Places /\ There(q) /\ pc[t] # Idle
  BY <1>1, <1>2, DoingIs DEF DoingOK
<1>4. /\ DOMAIN dents' = DOMAIN dents
      /\ \A c \in DOMAIN dents :
              /\ dents'[c].dir = dents[c].dir
              /\ DOMAIN dents'[c].elems = DOMAIN dents[c].elems
              /\ \A i \in DOMAIN dents[c].elems :
                   dents'[c].elems[i] = IF <<c, i>> = q THEN y ELSE dents[c].elems[i]
  <2>1. DentsOK /\ dents' = Put(dents, q[1], q[2], y) /\ y.sub = At(q).sub /\ y.name = At(q).name /\ y.is = At(q).is
    BY <1>1, <1>2 DEF InPlace
  <2> QED BY <1>3, <2>1, PutElem
<1>5. \A e \in Places : /\ There(e)' <=> There(e)
                        /\ There(e) => At(e)' = IF e = q THEN y ELSE At(e)
  BY <1>4 DEF There, At, Places
<1>6. x # Free /\ leaks \in Seq(Places) /\ files \in [Slots -> Opened \cup {Free}]
  BY FileIs DEF InPlace, LeaksOK, FilesOK
<1>7. /\ Cardinality(Holders(files', q)) + Cardinality(Left(leaks', q))
            = Cardinality(Holders(files, q)) + Cardinality(Left(leaks, q)) + 1
      /\ \A e : e # q => Holders(files', e) = Holders(files, e) /\ Left(leaks', e) = Left(leaks, e)
  <2>1. Cardinality(Holders(files, q)) \in Nat /\ Cardinality(Left(leaks, q)) \in Nat
    BY <1>6, HoldersFinite, LeftFinite
  <2>2. CASE leaks' = leaks /\ \E f \in Slots : files[f] = Free /\ files' = [files EXCEPT ![f] = x]
    <3>1. PICK f \in Slots : files[f] = Free /\ files' = [files EXCEPT ![f] = x]
      BY <2>2
    <3>2. \A g \in Slots : files'[g] = IF g = f THEN x ELSE files[g]
      BY <1>6, <3>1
    <3>3. PICK F, G : F = files /\ G = files'
      OBVIOUS
    <3>4. /\ Cardinality(Holders(G, x.e)) = Cardinality(Holders(F, x.e)) + 1
          /\ \A e : e # x.e => Holders(G, e) = Holders(F, e)
      <4>1. F[f] = Free /\ \A g \in Slots : G[g] = IF g = f THEN x ELSE F[g]
        BY <3>1, <3>2, <3>3
      <4> QED BY <1>6, <4>1, HolderAdded
    <3>5. x.e = q
      BY <1>1, <1>2
    <3>6. Cardinality(Holders(files', q)) = Cardinality(Holders(files, q)) + 1
      BY <3>3, <3>4, <3>5
    <3>7. \A e : e # q => Holders(files', e) = Holders(files, e)
      BY <3>3, <3>4, <3>5
    <3>8. \A e : Left(leaks', e) = Left(leaks, e)
      BY <2>2
    <3>9. Left(leaks', q) = Left(leaks, q)
      BY <3>8
    <3>10. Cardinality(Holders(files', q)) + Cardinality(Left(leaks', q))
              = Cardinality(Holders(files, q)) + Cardinality(Left(leaks, q)) + 1
      BY <2>1, <3>6, <3>9
    <3> QED BY <3>7, <3>8, <3>10
  <2>3. CASE leaks' = Append(leaks, pc[t].e) /\ files' = files
    <3>1. leaks' = Append(leaks, q) /\ q \in Places
      BY <1>2, <1>3, <2>3
    <3>2. Cardinality(Left(leaks', q)) = Cardinality(Left(leaks, q)) + 1
      BY <1>6, <3>1, LeftMore
    <3>3. ASSUME NEW e, e # q PROVE Left(leaks', e) = Left(leaks, e)
      BY <1>6, <3>1, <3>3, LeftSame
    <3>4. \A e : Holders(files', e) = Holders(files, e)
      BY <2>3
    <3> QED BY <2>1, <3>2, <3>3, <3>4
  <2> QED BY <1>1, <2>2, <2>3
<1>8. drift' = drift
  BY DEF OpenStore
<1>9. \A e : Counting(e)' = Counting(e) \ {t}
  BY <1>1, CountingIs
<1>10. \A u \in Threads \ {t} : pc'[u] = pc[u]
  BY <1>1, CountingIs
<1> SUFFICES ASSUME NEW e \in Places, There(e)' PROVE CountAt(e)'
  BY DEF CountOK
<1>11. There(e) /\ CountAt(e)
  BY <1>5 DEF CountOK
<1>12. CASE e # q
  <2>1. t \notin Counting(e)
    BY <1>2, <1>12 DEF Counting
  <2>2. Counting(e)' = Counting(e) /\ \A u \in Counting(e) : pc'[u] = pc[u]
    BY <1>9, <1>10, <2>1 DEF Counting
  <2>3. At(e)'.refer = At(e).refer
    BY <1>5, <1>11, <1>12
  <2> QED BY <1>7, <1>8, <1>11, <1>12, <2>2, <2>3, CountKept
<1>13. CASE e = q
  <2>1. ASSUME Kind[dents[e[1]].dir] # "null", e \notin drift PROVE Counting(e)' = {} /\ Over(e)' \in {0, 1}
    <3>1. Counting(e) = {t} /\ pc[t].r = At(e).refer /\ Over(e) \in {0, 1}
      BY <1>1, <1>2, <1>3, <1>13, <2>1, OneCounts
    <3>2. At(e)'.refer = At(e).refer + 1
      BY <1>1, <1>5, <1>11, <1>13, <3>1
    <3>3. Held(e)' = Held(e) + 1 /\ Held(e) \in Nat
      BY <1>6, <1>7, <1>13, HeldIs, HoldersFinite, LeftFinite
    <3>4. Over(e)' = Over(e)
      <4>1. At(e).refer \in Nat
        BY <1>11, AtIs DEF InPlace
      <4>2. Over(e) = At(e).refer - Held(e) /\ Over(e)' = At(e)'.refer - Held(e)'
        BY DEF Over
      <4> QED BY <3>2, <3>3, <4>1, <4>2
    <3> QED BY <1>9, <3>1, <3>4
  <2>2. dents'[e[1]].dir = dents[e[1]].dir
    BY <1>4, <1>11 DEF There
  <2> QED BY <1>8, <2>1, <2>2 DEF CountAt
<1> QED BY <1>12, <1>13

LEMMA CloseLoadCount ==
  ASSUME InPlace, Grows, CountOK, NEW t \in Threads, NEW f \in Slots, CloseLoad(t, f)
  PROVE  CountOK'
<1>1. PICK c \in Doings :
           /\ files[f] # Free /\ files[f] \in Opened /\ There(files[f].e)
           /\ files' = [files EXCEPT ![f] = Free]
           /\ Does(t, c) /\ c.do = "drop" /\ c.e = files[f].e /\ c.r = At(files[f].e).refer
  BY CloseLoadIs
<1>2. PICK q : q = files[f].e
  OBVIOUS
<1>3. q \in Places /\ There(q) /\ c.e = q /\ c.r = At(q).refer
  BY <1>1, <1>2, FileIs
<1>4. UNCHANGED <<dents, leaks>> /\ drift' = Drifts(t, q) /\ pc[t] = Idle
  BY <1>2 DEF CloseLoad, Call
<1>5. \A e : At(e)' = At(e) /\ (There(e)' => There(e))
  BY <1>4 DEF At, There
<1>6. \A e : /\ Counting(e)' = (Counting(e) \ {t}) \cup {u \in {t} : c # Idle /\ c.do \in {"count", "drop"} /\ c.e = e}
             /\ t \notin Counting(e)
  <2>1. \A e : t \notin Counting(e)
    BY <1>4 DEF Counting
  <2>2. \A e : Counting(e)' = (Counting(e) \ {t})
                               \cup {u \in {t} : c # Idle /\ c.do \in {"count", "drop"} /\ c.e = e}
    BY <1>1, CountingIs
  <2> QED BY <2>1, <2>2
<1>7. pc'[t] = c /\ \A u \in Threads \ {t} : pc'[u] = pc[u]
  BY <1>1, CountingIs
<1>8. /\ Cardinality(Holders(files', q)) = Cardinality(Holders(files, q)) - 1
      /\ \A e : e # q => Holders(files', e) = Holders(files, e)
  <2>1. \A g \in Slots : files'[g] = IF g = f THEN Free ELSE files[g]
    BY <1>1 DEF InPlace, FilesOK
  <2>2. PICK F, G : F = files /\ G = files'
    OBVIOUS
  <2>3. F[f] # Free /\ \A g \in Slots : G[g] = IF g = f THEN Free ELSE F[g]
    BY <1>1, <2>1, <2>2
  <2>4. /\ Cardinality(Holders(G, F[f].e)) = Cardinality(Holders(F, F[f].e)) - 1
        /\ \A e : e # F[f].e => Holders(G, e) = Holders(F, e)
    BY <2>3, HolderLeaves
  <2>5. F[f].e = q
    BY <1>2, <2>2
  <2>6. Cardinality(Holders(files', q)) = Cardinality(Holders(files, q)) - 1
    BY <2>2, <2>4, <2>5
  <2>7. \A e : e # q => Holders(files', e) = Holders(files, e)
    BY <2>2, <2>4, <2>5
  <2> QED BY <2>6, <2>7
<1> SUFFICES ASSUME NEW e \in Places, There(e)' PROVE CountAt(e)'
  BY DEF CountOK
<1>9. There(e) /\ CountAt(e) /\ drift \subseteq drift'
  BY <1>4, <1>5 DEF CountOK, Drifts
<1>10. CASE e # q
  <2>1. {u \in {t} : c # Idle /\ c.do \in {"count", "drop"} /\ c.e = e} = {}
    BY <1>3, <1>10
  <2>2. Counting(e)' = Counting(e)
    BY <1>6, <2>1
  <2>3. \A u \in Counting(e) : pc'[u] = pc[u]
    BY <1>6, <1>7 DEF Counting
  <2>4. At(e)'.refer = At(e).refer /\ Holders(files', e) = Holders(files, e) /\ Left(leaks', e) = Left(leaks, e)
    BY <1>4, <1>5, <1>8, <1>10
  <2> QED BY <1>9, <2>2, <2>3, <2>4, CountKept
<1>11. CASE e = q
  <2>1. Counting(e)' = Counting(e) \cup {t}
    BY <1>1, <1>3, <1>6, <1>11, DoingIs
  <2>2. CASE Counting(e) # {}
    <3>1. e \in drift'
      BY <1>4, <1>6, <1>11, <2>2 DEF Drifts
    <3> QED BY <3>1 DEF CountAt
  <2>3. CASE Counting(e) = {}
    <3>1. Counting(e)' = {t}
      BY <2>1, <2>3
    <3>2. ASSUME Kind[dents[e[1]].dir] # "null", e \notin drift PROVE Over(e)' \in {1, 2}
      <4>1. Over(e) \in {0, 1}
        BY <1>9, <2>3, <3>2 DEF CountAt
      <4>2. Held(e)' = Held(e) - 1 /\ Held(e) \in Nat
        <5>1. leaks \in Seq(Places) /\ leaks' = leaks
          BY <1>4 DEF InPlace, LeaksOK
        <5> QED BY <1>8, <1>11, <5>1, HeldIs, HoldersFinite, LeftFinite
      <4>3. At(e).refer \in Nat /\ At(e)'.refer = At(e).refer
        BY <1>5, <1>9, AtIs DEF InPlace
      <4>4. Over(e) = At(e).refer - Held(e) /\ Over(e)' = At(e)'.refer - Held(e)'
        BY DEF Over
      <4> QED BY <4>1, <4>2, <4>3, <4>4
    <3>3. pc'[t].r = At(e)'.refer /\ pc'[t].do = "drop"
      BY <1>1, <1>3, <1>5, <1>7, <1>11
    <3> QED BY <1>4, <1>9, <3>1, <3>2, <3>3 DEF CountAt
  <2> QED BY <2>2, <2>3
<1> QED BY <1>10, <1>11

LEMMA CloseStoreCount ==
  ASSUME InPlace, Grows, CountOK, NEW t \in Threads, CloseStore(t)
  PROVE  CountOK'
<1>1. PICK y \in Elements :
           /\ pc[t] \in Doings /\ DoingOK(pc[t]) /\ pc[t].do = "drop" /\ Does(t, Idle)
           /\ y.sub = At(pc[t].e).sub /\ y.name = At(pc[t].e).name /\ y.is = At(pc[t].e).is
           /\ y.seek = At(pc[t].e).seek /\ y.refer = Lowered(pc[t].r)
           /\ dents' = Put(dents, pc[t].e[1], pc[t].e[2], y)
  BY CloseStoreIs
<1>2. PICK q : q = pc[t].e
  OBVIOUS
<1>3. q \in Places /\ There(q) /\ pc[t] # Idle
  BY <1>1, <1>2, DoingIs DEF DoingOK
<1>4. /\ DOMAIN dents' = DOMAIN dents
      /\ \A c \in DOMAIN dents :
              /\ dents'[c].dir = dents[c].dir
              /\ DOMAIN dents'[c].elems = DOMAIN dents[c].elems
              /\ \A i \in DOMAIN dents[c].elems :
                   dents'[c].elems[i] = IF <<c, i>> = q THEN y ELSE dents[c].elems[i]
  <2>1. DentsOK /\ dents' = Put(dents, q[1], q[2], y) /\ y.sub = At(q).sub /\ y.name = At(q).name /\ y.is = At(q).is
    BY <1>1, <1>2 DEF InPlace
  <2> QED BY <1>3, <2>1, PutElem
<1>5. \A e \in Places : /\ There(e)' <=> There(e)
                        /\ There(e) => At(e)' = IF e = q THEN y ELSE At(e)
  BY <1>4 DEF There, At, Places
<1>6. UNCHANGED <<files, leaks, drift>>
  BY DEF CloseStore
<1>7. \A e : Held(e)' = Held(e) /\ Holders(files', e) = Holders(files, e) /\ Left(leaks', e) = Left(leaks, e)
  BY <1>6, HeldIs
<1>8. \A e : Counting(e)' = Counting(e) \ {t}
  BY <1>1, CountingIs
<1>9. \A u \in Threads \ {t} : pc'[u] = pc[u]
  BY <1>1, CountingIs
<1> SUFFICES ASSUME NEW e \in Places, There(e)' PROVE CountAt(e)'
  BY DEF CountOK
<1>10. There(e) /\ CountAt(e)
  BY <1>5 DEF CountOK
<1>11. CASE e # q
  <2>1. t \notin Counting(e)
    BY <1>2, <1>11 DEF Counting
  <2>2. Counting(e)' = Counting(e) /\ \A u \in Counting(e) : pc'[u] = pc[u]
    BY <1>8, <1>9, <2>1 DEF Counting
  <2>3. At(e)'.refer = At(e).refer
    BY <1>5, <1>10, <1>11
  <2> QED BY <1>6, <1>7, <1>10, <2>2, <2>3, CountKept
<1>12. CASE e = q
  <2>1. ASSUME Kind[dents[e[1]].dir] # "null", e \notin drift PROVE Counting(e)' = {} /\ Over(e)' \in {0, 1}
    <3>1. Counting(e) = {t} /\ pc[t].r = At(e).refer /\ Over(e) \in {1, 2}
      BY <1>1, <1>2, <1>3, <1>12, <2>1, OneCounts
    <3>2. At(e)'.refer = Lowered(At(e).refer)
      BY <1>1, <1>5, <1>10, <1>12, <3>1
    <3>3. Held(e)' = Held(e) /\ Held(e) \in Nat
      <4>1. leaks \in Seq(Places)
        BY DEF InPlace, LeaksOK
      <4> QED BY <1>7, <4>1, HeldIs, HoldersFinite, LeftFinite
    <3>4. At(e).refer \in Nat
      BY <1>10, AtIs DEF InPlace
    <3>5. Over(e) = At(e).refer - Held(e) /\ Over(e)' = At(e)'.refer - Held(e)'
      BY DEF Over
    <3>6. Over(e)' \in {0, 1}
      BY <3>1, <3>2, <3>3, <3>4, <3>5 DEF Lowered
    <3> QED BY <1>8, <3>1, <3>6
  <2>2. dents'[e[1]].dir = dents[e[1]].dir
    BY <1>4, <1>10 DEF There
  <2> QED BY <1>6, <2>1, <2>2 DEF CountAt
<1> QED BY <1>11, <1>12

(* Every other element stays as it is. *)
LEMMA PutAt ==
  ASSUME DentsOK, NEW q \in Places, There(q), NEW y \in Elements,
         y.sub = At(q).sub, y.name = At(q).name, y.is = At(q).is,
         dents' = Put(dents, q[1], q[2], y)
  PROVE  \A e \in Places : (There(e)' <=> There(e)) /\ (There(e) => At(e)' = IF e = q THEN y ELSE At(e))
<1>1. /\ DOMAIN dents' = DOMAIN dents
      /\ \A c \in DOMAIN dents :
              /\ DOMAIN dents'[c].elems = DOMAIN dents[c].elems
              /\ \A i \in DOMAIN dents[c].elems :
                   dents'[c].elems[i] = IF <<c, i>> = q THEN y ELSE dents[c].elems[i]
  BY PutElem
<1> QED BY <1>1 DEF There, At, Places

(* A read, a write and a seek count nothing either. *)
LEMMA UsesCount ==
  ASSUME InPlace, InPlace', Grows, CountOK, NEW t \in Threads,
         Act(t) \/ Unpark(t) \/ \E f \in Slots, op \in Ops : Park(t, f, op)
  PROVE  CountOK'
<1>0. DentsOK
  BY DEF InPlace
<1>1. ASSUME NEW q \in Places, There(q), NEW y \in Elements, NEW c \in Doings,
             y.sub = At(q).sub, y.name = At(q).name, y.is = At(q).is, y.refer = At(q).refer,
             dents' = Put(dents, q[1], q[2], y),
             Does(t, c), c.do \notin {"count", "drop"}, pc[t] # Idle => pc[t].do \notin {"count", "drop"},
             UNCHANGED <<leaks, drift>>,
             \A f \in Slots : (files'[f] = Free <=> files[f] = Free) /\ (files[f] # Free => files'[f].e = files[f].e)
      PROVE  CountOK'
  <2>1. \A e \in Places : (There(e)' <=> There(e)) /\ (There(e) => At(e)' = IF e = q THEN y ELSE At(e))
    BY <1>0, <1>1, PutAt
  <2>2. \A e \in Places : There(e) => At(e)'.refer = At(e).refer
    BY <1>1, <2>1
  <2>3. \A e \in Places : There(e)' /\ ~There(e) => At(e)'.refer = 0
    BY <2>1
  <2> QED BY <1>1, <2>2, <2>3, CountQuiet
<1>2. CASE Act(t)
  <2>1. pc[t].do = "act" /\ UNCHANGED <<leaks, drift>>
    BY <1>2, ActIs DEF Act
  <2>2. CASE halted' = TRUE /\ UNCHANGED <<dents, files, pc>>
    BY <2>1, <2>2 DEF CountOK, CountAt, There, At, Over, Held, Counting
  <2>3. CASE ~(halted' = TRUE /\ UNCHANGED <<dents, files, pc>>)
    <3>act. PICK y \in Elements, c \in Doings, e \in Places, x \in Opened, f \in Slots : Acts(t, y, c, e, x, f)
      BY <1>2, <2>3, ActIs
    <3>1. /\ f = pc[t].f /\ files[f] # Free /\ e = files[f].e /\ There(e)
          /\ y = Effect(KindOf(e), At(e), pc[t].op)
          /\ y.sub = At(e).sub /\ y.name = At(e).name /\ y.is = At(e).is /\ y.refer = At(e).refer
          /\ dents' = Put(dents, e[1], e[2], y)
          /\ x.e = e /\ x.o = files[f].o /\ x.pos = files[f].pos /\ x.mixed = files[f].mixed
          /\ (files[f].own = At(e).seek => x.own = y.seek)
          /\ files' = [files EXCEPT ![f] = x]
          /\ Does(t, c) /\ c.do = "unpark" /\ c.f = f /\ halted' = halted
      BY <3>act DEF Acts
    <3>2. \A g \in Slots : files'[g] = IF g = f THEN x ELSE files[g]
      BY <3>1 DEF InPlace, FilesOK
    <3>3. \A g \in Slots : (files'[g] = Free <=> files[g] = Free) /\ (files[g] # Free => files'[g].e = files[g].e)
      BY <3>1, <3>2, FileIs
    <3> QED BY <1>1, <2>1, <3>1, <3>3
  <2> QED BY <2>2, <2>3
<1>3. CASE Unpark(t)
  <2>1. UNCHANGED <<dents, leaks, drift>>
    BY <1>3 DEF Unpark
  <2>2. PICK x \in Opened, f \in Slots :
           /\ pc[t] \in Doings /\ DoingOK(pc[t]) /\ pc[t].do = "unpark" /\ f = pc[t].f
           /\ files[f] \in Opened /\ There(files[f].e)
           /\ x.e = files[f].e /\ x.o = files[f].o /\ x.own = files[f].own /\ x.mixed = files[f].mixed
           /\ x.pos = At(files[f].e).seek
           /\ files' = [files EXCEPT ![f] = x] /\ Does(t, Idle)
    BY <1>3, UnparkIs
  <2>3. \A g \in Slots : files'[g] = IF g = f THEN x ELSE files[g]
    BY <2>2 DEF InPlace, FilesOK
  <2>4. \A g \in Slots : (files'[g] = Free <=> files[g] = Free) /\ (files[g] # Free => files'[g].e = files[g].e)
    BY <2>2, <2>3, FileIs
  <2>5. \A e \in Places : /\ There(e) => At(e)'.refer = At(e).refer
                          /\ There(e)' /\ ~There(e) => At(e)'.refer = 0
    BY <2>1 DEF There, At
  <2> QED BY <2>1, <2>2, <2>4, <2>5, CountQuiet
<1>4. ASSUME NEW f \in Slots, NEW op \in Ops, Park(t, f, op) PROVE CountOK'
  <2>0. PICK y \in Elements, c \in Doings, e \in Places : Parks(t, f, op, y, c, e)
    BY <1>4, ParkIs
  <2>1. /\ files[f] # Free /\ files[f] \in Opened /\ e = files[f].e /\ There(e)
        /\ y.sub = At(e).sub /\ y.name = At(e).name /\ y.is = At(e).is
        /\ y.seek = files[f].pos /\ y.refer = At(e).refer
        /\ dents' = Put(dents, e[1], e[2], y)
        /\ Does(t, c) /\ c.do = "act" /\ c.f = f /\ c.op = op
        /\ DOMAIN files' = Slots
        /\ \A g \in Slots :
             /\ files'[g] \in Opened \cup {Free} /\ (files'[g] = Free <=> files[g] = Free)
             /\ files[g] # Free =>
                  /\ files'[g].e = files[g].e /\ files'[g].pos = files[g].pos /\ files'[g].own = files[g].own
                  /\ files'[g].o = files[g].o
                  /\ files'[g].mixed = (files[g].mixed \/ (Overlap(e) # {} /\ g \in Overlap(e) \cup {f}))
    BY <2>0 DEF Parks
  <2>2. pc[t] = Idle /\ UNCHANGED <<leaks, drift>>
    BY <1>4 DEF Park, Call
  <2>3. \A g \in Slots : (files'[g] = Free <=> files[g] = Free) /\ (files[g] # Free => files'[g].e = files[g].e)
    BY <2>1
  <2> QED BY <1>1, <2>1, <2>2, <2>3
<1> QED BY <1>2, <1>3, <1>4

LEMMA InitCount == VfsInit => CountOK
<1> SUFFICES ASSUME VfsInit, NEW e \in Places, There(e) PROVE CountAt(e)
  BY DEF CountOK
<1>1. At(e).refer = 0
  <2>1. PICK n, x : At(e) = Elem(n, x)
    BY InitDents DEF There, At
  <2> QED BY <2>1 DEF Elem
<1>2. Holders(files, e) = {} /\ Left(leaks, e) = {} /\ Counting(e) = {}
  BY DEF VfsInit, Holders, Left, Counting
<1>3. Held(e) = 0
  BY <1>2, HeldIs, FS_EmptySet
<1>4. Over(e) = 0
  BY <1>1, <1>3 DEF Over
<1> QED BY <1>2, <1>4 DEF CountAt

LEMMA NextCount ==
  ASSUME InPlace, InPlace', Grows, CountOK, [VfsNext]_vfsVars
  PROVE  CountOK'
<1>1. CASE UNCHANGED vfsVars
  BY <1>1 DEF vfsVars, CountOK, CountAt, There, At, Over, Held, Counting
<1>2. ASSUME NEW t \in Threads, Looks(t) PROVE CountOK'
  BY <1>2, LooksCount
<1>3. ASSUME NEW t \in Threads, OpenLoad(t) \/ OpenStore(t) \/ CloseStore(t) \/ Act(t) \/ Unpark(t)
      PROVE  CountOK'
  BY <1>3, OpenLoadCount, OpenStoreCount, CloseStoreCount, UsesCount
<1>4. ASSUME NEW t \in Threads, NEW f \in Slots, CloseLoad(t, f) \/ \E op \in Ops : Park(t, f, op)
      PROVE  CountOK'
  BY <1>4, CloseLoadCount, UsesCount
<1> QED BY <1>1, <1>2, <1>3, <1>4 DEF VfsNext, Looks

(* refer_count is what is open on the inode, or one more, as long as no    *)
(* two calls have been between its load and its store at once.             *)
THEOREM CountsFollow == VfsSpec => []ReferCounts
<1>1. VfsInit => InPlace /\ CountOK
  BY InitInPlace, InitCount
<1>2. InPlace /\ CountOK /\ [VfsNext]_vfsVars => (InPlace /\ CountOK)'
  BY NextInPlace, NextCount
<1>3. InPlace /\ CountOK => ReferCounts
  <2> SUFFICES ASSUME InPlace, CountOK, NEW d \in DOMAIN dents, NEW i \in DOMAIN dents[d].elems,
                      NEW e, e = <<d, i>>, Kind[dents[d].dir] # "null", e \notin drift, Counting(e) = {}
               PROVE  At(e).refer - Held(e) \in {0, 1}
    BY DEF ReferCounts
  <2>1. e \in Places /\ There(e)
    BY DentIs DEF Places, There, InPlace
  <2> QED BY <2>1 DEF CountOK, CountAt, Over
<1> QED BY <1>1, <1>2, <1>3, PTL DEF VfsSpec

(***************************************************************************)
(* The offset of a descriptor.  A call on it that is the only one on the   *)
(* file finds in the inode what it parked there.                           *)
(***************************************************************************)
PosAt(f) ==
  (files[f] # Free /\ ~files[f].mixed) =>
     /\ Using(f) = {} => files[f].pos = files[f].own
     /\ \A t \in Using(f) :
          /\ Using(f) = {t}
          /\ \A e : e = files[f].e => Overlap(e) = {f} /\ At(e).seek = files[f].own

PosOK == \A f \in Slots : PosAt(f)

LEMMA UsingIs ==
  ASSUME InPlace, NEW t \in Threads, NEW c \in Doings \cup {Idle}, Does(t, c), NEW f
  PROVE  Using(f)' = (Using(f) \ {t}) \cup {u \in {t} : c # Idle /\ c.do \in {"act", "unpark"} /\ c.f = f}
<1>1. pc'[t] = c /\ \A u \in Threads \ {t} : pc'[u] = pc[u]
  BY CountingIs
<1> QED BY <1>1 DEF Using

LEMMA PosKept ==
  ASSUME NEW f \in Slots, PosAt(f), files[f] # Free => files'[f] = files[f], Using(f)' = Using(f),
         files'[f] # Free => files[f] # Free,
         \A e : (files[f] # Free /\ e = files[f].e /\ f \in Overlap(e)) =>
                   Overlap(e)' = Overlap(e) /\ At(e)'.seek = At(e).seek
  PROVE  PosAt(f)'
<1>1. CASE files'[f] = Free
  BY <1>1 DEF PosAt
<1>2. CASE files'[f] # Free
  <2>1. files[f] # Free /\ files'[f] = files[f]
    BY <1>2
  <2>2. \A e : (e = files[f].e /\ Using(f) # {}) => f \in Overlap(e)
    BY <2>1 DEF Overlap
  <2> QED BY <2>1, <2>2 DEF PosAt
<1> QED BY <1>1, <1>2

(* What is in use is there. *)
LEMMA UsedIs ==
  ASSUME InPlace, NEW f \in Slots
  PROVE  /\ Using(f) # {} => files[f] # Free
         /\ files[f] # Free => files[f] \in Opened /\ files[f].e \in Places /\ There(files[f].e)
                             /\ FileAt(files[f].e)
<1>1. Using(f) # {} => files[f] # Free
  BY Now DEF Using, DoingOK
<1>2. files[f] # Free => files[f] \in Opened /\ There(files[f].e) /\ FileAt(files[f].e)
  BY DEF InPlace, FilesOK, FileAt
<1> QED BY <1>1, <1>2, FileIs

(* Steps that use no descriptor *)
LEMMA PosQuiet ==
  ASSUME InPlace, PosOK, NEW t \in Threads, NEW c \in Doings \cup {Idle}, Does(t, c),
         c # Idle => c.do \notin {"act", "unpark"},
         pc[t] # Idle => pc[t].do \notin {"act", "unpark"},
         UNCHANGED files,
         \A e \in Places : FileAt(e) => At(e)'.seek = At(e).seek
  PROVE  PosOK'
<1>1. \A g : Using(g)' = Using(g)
  <2> SUFFICES ASSUME NEW g PROVE Using(g)' = Using(g)
    OBVIOUS
  <2>1. t \notin Using(g) /\ {u \in {t} : c # Idle /\ c.do \in {"act", "unpark"} /\ c.f = g} = {}
    BY DEF Using
  <2> QED BY <2>1, UsingIs
<1>2. \A e : Overlap(e)' = Overlap(e)
  BY <1>1 DEF Overlap
<1> SUFFICES ASSUME NEW f \in Slots PROVE PosAt(f)'
  BY DEF PosOK
<1>3. \A e : files[f] # Free /\ e = files[f].e => Overlap(e)' = Overlap(e) /\ At(e)'.seek = At(e).seek
  BY <1>2, UsedIs
<1> QED BY <1>1, <1>3, PosKept DEF PosOK

LEMMA LooksPos ==
  ASSUME InPlace, InPlace', PosOK, NEW t \in Threads, Looks(t)
  PROVE  PosOK'
<1>1. Rests(t) /\ UNCHANGED <<files, leaks, drift>>
  BY LooksRest
<1>2. PICK c : c = pc'[t]
  OBVIOUS
<1>3. c \in Doings \cup {Idle} /\ Resting(c) /\ Resting(pc[t])
  BY <1>1, <1>2 DEF Rests, InPlace, PcOK
<1>4. Does(t, c)
  <2>1. pc \in [Threads -> Doings \cup {Idle}] /\ pc' \in [Threads -> Doings \cup {Idle}]
    BY DEF InPlace, PcOK
  <2> QED BY <1>1, <1>2, <2>1 DEF Does, Rests
<1>5. /\ c # Idle => c.do \notin {"act", "unpark"}
      /\ pc[t] # Idle => pc[t].do \notin {"act", "unpark"}
  BY <1>3 DEF Resting
<1> QED BY <1>1, <1>3, <1>4, <1>5, LooksMark, PosQuiet DEF MarksKept, FileAt

LEMMA OpenLoadPos ==
  ASSUME InPlace, PosOK, NEW t \in Threads, OpenLoad(t)
  PROVE  PosOK'
<1>1. PICK c \in Doings : pc[t].do = "opened" /\ Does(t, c) /\ c.do = "count"
  BY OpenLoadIs
<1>2. UNCHANGED <<dents, files>>
  BY DEF OpenLoad
<1> QED BY <1>1, <1>2, PosQuiet DEF At

LEMMA CloseStorePos ==
  ASSUME InPlace, PosOK, NEW t \in Threads, CloseStore(t)
  PROVE  PosOK'
<1>1. PICK y \in Elements :
           /\ pc[t] \in Doings /\ DoingOK(pc[t]) /\ pc[t].do = "drop" /\ Does(t, Idle)
           /\ y.sub = At(pc[t].e).sub /\ y.name = At(pc[t].e).name /\ y.is = At(pc[t].e).is
           /\ y.seek = At(pc[t].e).seek /\ y.refer = Lowered(pc[t].r)
           /\ dents' = Put(dents, pc[t].e[1], pc[t].e[2], y)
  BY CloseStoreIs
<1>2. PICK q \in Places : q = pc[t].e /\ There(q)
  BY <1>1, DoingIs DEF DoingOK
<1>3. \A e \in Places : There(e) => At(e)' = IF e = q THEN y ELSE At(e)
  <2>1. DentsOK /\ dents' = Put(dents, q[1], q[2], y) /\ y.sub = At(q).sub /\ y.name = At(q).name /\ y.is = At(q).is
    BY <1>1, <1>2 DEF InPlace
  <2> QED BY <1>2, <2>1, PutAt
<1>4. \A e \in Places : There(e) => At(e)'.seek = At(e).seek
  BY <1>1, <1>2, <1>3
<1> QED BY <1>1, <1>4, PosQuiet DEF CloseStore, FileAt

LEMMA OpenStorePos ==
  ASSUME InPlace, PosOK, NEW t \in Threads, OpenStore(t)
  PROVE  PosOK'
<1>1. PICK y \in Elements, x \in Opened :
           /\ pc[t] \in Doings /\ DoingOK(pc[t]) /\ pc[t].do = "count" /\ Does(t, Idle)
           /\ y.sub = At(pc[t].e).sub /\ y.name = At(pc[t].e).name /\ y.is = At(pc[t].e).is
           /\ y.seek = At(pc[t].e).seek /\ y.refer = pc[t].r + 1
           /\ dents' = Put(dents, pc[t].e[1], pc[t].e[2], y)
           /\ x.e = pc[t].e /\ x.o = pc[t].o /\ x.pos = 0 /\ x.own = 0 /\ x.mixed = FALSE
           /\ \/ leaks' = leaks /\ \E f \in Slots : files[f] = Free /\ files' = [files EXCEPT ![f] = x]
              \/ leaks' = Append(leaks, pc[t].e) /\ files' = files
  BY OpenStoreIs
<1>2. PICK q \in Places : q = pc[t].e /\ There(q)
  BY <1>1, DoingIs DEF DoingOK
<1>3. \A e \in Places : There(e) => At(e)'.seek = At(e).seek
  <2>1. DentsOK /\ dents' = Put(dents, q[1], q[2], y) /\ y.sub = At(q).sub /\ y.name = At(q).name /\ y.is = At(q).is
    BY <1>1, <1>2 DEF InPlace
  <2>2. \A e \in Places : There(e) => At(e)' = IF e = q THEN y ELSE At(e)
    BY <1>2, <2>1, PutAt
  <2> QED BY <1>1, <1>2, <2>2
<1>4. CASE files' = files
  BY <1>1, <1>3, <1>4, PosQuiet DEF FileAt
<1>5. CASE \E f \in Slots : files[f] = Free /\ files' = [files EXCEPT ![f] = x]
  <2>1. PICK f \in Slots : files[f] = Free /\ files' = [files EXCEPT ![f] = x]
    BY <1>5
  <2>2. \A g \in Slots : files'[g] = IF g = f THEN x ELSE files[g]
    BY <2>1 DEF InPlace, FilesOK
  <2>3. \A g : Using(g)' = Using(g)
    <3> SUFFICES ASSUME NEW g PROVE Using(g)' = Using(g)
      OBVIOUS
    <3>1. t \notin Using(g)
      BY <1>1 DEF Using
    <3>2. Using(g)' = (Using(g) \ {t}) \cup {u \in {t} : Idle # Idle /\ Idle.do \in {"act", "unpark"} /\ Idle.f = g}
      BY <1>1, UsingIs
    <3> QED BY <3>1, <3>2
  <2>4. Using(f) = {}
    BY <2>1, UsedIs
  <2>5. \A e : Overlap(e)' = Overlap(e)
    BY <2>1, <2>2, <2>3, <2>4 DEF Overlap
  <2> SUFFICES ASSUME NEW g \in Slots PROVE PosAt(g)'
    BY DEF PosOK
  <2>6. CASE g = f
    BY <1>1, <2>2, <2>3, <2>4, <2>6 DEF PosAt
  <2>7. CASE g # f
    <3>1. \A e : files[g] # Free /\ e = files[g].e => Overlap(e)' = Overlap(e) /\ At(e)'.seek = At(e).seek
      BY <1>3, <2>5, UsedIs
    <3> QED BY <2>2, <2>3, <2>7, <3>1, PosKept DEF PosOK
  <2> QED BY <2>6, <2>7
<1> QED BY <1>1, <1>4, <1>5

LEMMA CloseLoadPos ==
  ASSUME InPlace, PosOK, NEW t \in Threads, NEW f \in Slots, CloseLoad(t, f)
  PROVE  PosOK'
<1>1. PICK c \in Doings :
           /\ files[f] # Free /\ files[f] \in Opened /\ There(files[f].e)
           /\ files' = [files EXCEPT ![f] = Free]
           /\ Does(t, c) /\ c.do = "drop" /\ c.e = files[f].e /\ c.r = At(files[f].e).refer
  BY CloseLoadIs
<1>2. UNCHANGED dents /\ pc[t] = Idle /\ Using(f) = {}
  BY DEF CloseLoad, Call
<1>3. \A g \in Slots : files'[g] = IF g = f THEN Free ELSE files[g]
  BY <1>1 DEF InPlace, FilesOK
<1>4. \A g : Using(g)' = Using(g)
  <2> SUFFICES ASSUME NEW g PROVE Using(g)' = Using(g)
    OBVIOUS
  <2>1. t \notin Using(g) /\ {u \in {t} : c # Idle /\ c.do \in {"act", "unpark"} /\ c.f = g} = {}
    BY <1>1, <1>2 DEF Using
  <2>2. Using(g)' = (Using(g) \ {t}) \cup {u \in {t} : c # Idle /\ c.do \in {"act", "unpark"} /\ c.f = g}
    BY <1>1, UsingIs
  <2> QED BY <2>1, <2>2
<1>5. \A e : Overlap(e)' = Overlap(e)
  BY <1>1, <1>2, <1>3, <1>4 DEF Overlap
<1> SUFFICES ASSUME NEW g \in Slots PROVE PosAt(g)'
  BY DEF PosOK
<1>6. CASE g = f
  BY <1>3, <1>6 DEF PosAt
<1>7. CASE g # f
  <2>1. \A e : At(e)' = At(e)
    BY <1>2 DEF At
  <2> QED BY <1>3, <1>4, <1>5, <1>7, <2>1, PosKept DEF PosOK
<1> QED BY <1>6, <1>7

LEMMA ParkPos ==
  ASSUME InPlace, PosOK, NEW t \in Threads, NEW f \in Slots, NEW op \in Ops, Park(t, f, op)
  PROVE  PosOK'
<1>0. PICK y \in Elements, c \in Doings, q \in Places : Parks(t, f, op, y, c, q)
  BY ParkIs
<1>1. /\ files[f] # Free /\ files[f] \in Opened /\ q = files[f].e /\ There(q)
      /\ y.sub = At(q).sub /\ y.name = At(q).name /\ y.is = At(q).is
      /\ y.seek = files[f].pos /\ y.refer = At(q).refer
      /\ dents' = Put(dents, q[1], q[2], y)
      /\ Does(t, c) /\ c.do = "act" /\ c.f = f /\ c.op = op
      /\ DOMAIN files' = Slots
      /\ \A g \in Slots :
           /\ files'[g] \in Opened \cup {Free} /\ (files'[g] = Free <=> files[g] = Free)
           /\ files[g] # Free =>
                /\ files'[g].e = files[g].e /\ files'[g].pos = files[g].pos /\ files'[g].own = files[g].own
                /\ files'[g].o = files[g].o
                /\ files'[g].mixed = (files[g].mixed \/ (Overlap(q) # {} /\ g \in Overlap(q) \cup {f}))
  BY <1>0 DEF Parks
<1>2. pc[t] = Idle /\ c # Idle
  BY DoingIs DEF Park, Call
<1>3. \A e \in Places : There(e) => At(e)' = IF e = q THEN y ELSE At(e)
  <2>1. DentsOK
    BY DEF InPlace
  <2> QED BY <1>1, <2>1, PutAt
<1>4. \A g : Using(g)' = IF g = f THEN Using(g) \cup {t} ELSE Using(g)
  <2> SUFFICES ASSUME NEW g PROVE Using(g)' = IF g = f THEN Using(g) \cup {t} ELSE Using(g)
    OBVIOUS
  <2>1. t \notin Using(g)
    BY <1>2 DEF Using
  <2>2. Using(g)' = (Using(g) \ {t}) \cup {u \in {t} : c # Idle /\ c.do \in {"act", "unpark"} /\ c.f = g}
    BY <1>1, UsingIs
  <2>3. {u \in {t} : c # Idle /\ c.do \in {"act", "unpark"} /\ c.f = g} = IF g = f THEN {t} ELSE {}
    BY <1>1, <1>2
  <2> QED BY <2>1, <2>2, <2>3
<1>5. \A e : Overlap(e)' = IF e = q THEN Overlap(e) \cup {f} ELSE Overlap(e)
  <2> SUFFICES ASSUME NEW e PROVE Overlap(e)' = IF e = q THEN Overlap(e) \cup {f} ELSE Overlap(e)
    OBVIOUS
  <2>1. \A g \in Slots : (files'[g] # Free /\ files'[g].e = e) <=> (files[g] # Free /\ files[g].e = e)
    BY <1>1
  <2>2. \A g \in Slots : Using(g)' # {} <=> (Using(g) # {} \/ g = f)
    BY <1>4
  <2> QED BY <1>1, <2>1, <2>2 DEF Overlap
<1> SUFFICES ASSUME NEW g \in Slots, files'[g] # Free, ~files'[g].mixed
             PROVE  /\ Using(g)' = {} => files'[g].pos = files'[g].own
                    /\ \A u \in Using(g)' :
                         /\ Using(g)' = {u}
                         /\ \A e : e = files'[g].e => Overlap(e)' = {g} /\ At(e)'.seek = files'[g].own
  BY DEF PosOK, PosAt
<1>6. /\ files[g] # Free /\ files[g] \in Opened /\ files[g].e \in Places /\ There(files[g].e)
      /\ files'[g].e = files[g].e /\ files'[g].pos = files[g].pos /\ files'[g].own = files[g].own
      /\ ~files[g].mixed /\ ~(Overlap(q) # {} /\ g \in Overlap(q) \cup {f})
  <2>1. files[g] # Free
    BY <1>1
  <2> QED BY <1>1, <2>1, UsedIs, FileIs
<1>7. /\ Using(g) = {} => files[g].pos = files[g].own
      /\ \A u \in Using(g) :
           /\ Using(g) = {u}
           /\ \A e : e = files[g].e => Overlap(e) = {g} /\ At(e).seek = files[g].own
  BY <1>6 DEF PosOK, PosAt
<1>8. CASE g = f
  <2>1. Overlap(q) = {}
    BY <1>6, <1>8
  <2>2. Using(f) = {}
    BY <1>1, <2>1 DEF Overlap
  <2>3. Using(g)' = {t} /\ Overlap(q)' = {g}
    BY <1>4, <1>5, <1>8, <2>1, <2>2
  <2>4. At(q)'.seek = files'[g].own
    BY <1>1, <1>3, <1>6, <1>7, <1>8, <2>2
  <2> QED BY <1>1, <1>6, <1>8, <2>3, <2>4
<1>9. CASE g # f
  <2>1. Using(g)' = Using(g)
    BY <1>4, <1>9
  <2>2. ASSUME NEW u \in Using(g) PROVE files[g].e # q
    <3>1. g \in Overlap(files[g].e)
      BY <1>6, <2>2 DEF Overlap
    <3> QED BY <1>6, <3>1
  <2>3. ASSUME NEW u \in Using(g), NEW e, e = files[g].e PROVE Overlap(e)' = {g} /\ At(e)'.seek = files[g].own
    BY <1>3, <1>5, <1>6, <1>7, <2>2, <2>3
  <2> QED BY <1>6, <1>7, <2>1, <2>3
<1> QED BY <1>8, <1>9

(* Who is in a call on a file is among those that overlap on it. *)
LEMMA Overlaps ==
  ASSUME InPlace, NEW t \in Threads, pc[t] \in Doings, pc[t].do \in {"act", "unpark"}, NEW f, f = pc[t].f
  PROVE  /\ f \in Slots /\ t \in Using(f) /\ files[f] # Free /\ files[f] \in Opened
         /\ files[f].e \in Places /\ There(files[f].e)
         /\ \A e : e = files[f].e => f \in Overlap(e)
<1>1. f \in Slots /\ pc[t] # Idle
  BY DoingIs
<1>2. t \in Using(f)
  BY <1>1 DEF Using
<1> QED BY <1>1, <1>2, UsedIs DEF Overlap

LEMMA ActPos ==
  ASSUME InPlace, PosOK, NEW t \in Threads, Act(t)
  PROVE  PosOK'
<1>1. pc[t] \in Doings /\ pc[t].do = "act"
  BY ActIs
<1>2. CASE halted' = TRUE /\ UNCHANGED <<dents, files, pc>>
  BY <1>2 DEF PosOK, PosAt, Using, Overlap, At
<1>3. CASE ~(halted' = TRUE /\ UNCHANGED <<dents, files, pc>>)
  <2>act. PICK y \in Elements, c \in Doings, q \in Places, x \in Opened, f \in Slots : Acts(t, y, c, q, x, f)
    BY <1>3, ActIs
  <2>1. /\ f = pc[t].f /\ files[f] # Free /\ q = files[f].e /\ There(q)
        /\ y = Effect(KindOf(q), At(q), pc[t].op)
        /\ y.sub = At(q).sub /\ y.name = At(q).name /\ y.is = At(q).is /\ y.refer = At(q).refer
        /\ dents' = Put(dents, q[1], q[2], y)
        /\ x.e = q /\ x.o = files[f].o /\ x.pos = files[f].pos /\ x.mixed = files[f].mixed
        /\ (files[f].own = At(q).seek => x.own = y.seek)
        /\ files' = [files EXCEPT ![f] = x]
        /\ Does(t, c) /\ c.do = "unpark" /\ c.f = f /\ halted' = halted
    BY <2>act DEF Acts
  <2>2. \A g \in Slots : files'[g] = IF g = f THEN x ELSE files[g]
    BY <2>1 DEF InPlace, FilesOK
  <2>3. \A e \in Places : There(e) => At(e)' = IF e = q THEN y ELSE At(e)
    <3>1. DentsOK
      BY DEF InPlace
    <3> QED BY <2>1, <3>1, PutAt
  <2>4. t \in Using(f) /\ f \in Overlap(q)
    BY <1>1, <2>1, Overlaps
  <2>5. \A g : Using(g)' = Using(g)
    <3> SUFFICES ASSUME NEW g PROVE Using(g)' = Using(g)
      OBVIOUS
    <3>1. c # Idle /\ pc[t] # Idle
      BY <1>1, DoingIs
    <3>2. t \in Using(g) <=> g = f
      BY <1>1, <2>1, <3>1 DEF Using
    <3>3. Using(g)' = (Using(g) \ {t}) \cup {u \in {t} : c # Idle /\ c.do \in {"act", "unpark"} /\ c.f = g}
      <4>1. c \in Doings \cup {Idle} /\ Does(t, c)
        BY <2>1
      <4> QED BY <4>1, UsingIs
    <3>4. {u \in {t} : c # Idle /\ c.do \in {"act", "unpark"} /\ c.f = g} = IF g = f THEN {t} ELSE {}
      BY <2>1, <3>1
    <3> QED BY <3>2, <3>3, <3>4
  <2>6. \A e : Overlap(e)' = Overlap(e)
    <3>1. x # Free
      BY FileIs
    <3>2. \A g \in Slots : /\ files'[g] = Free <=> files[g] = Free
                           /\ files[g] # Free => files'[g].e = files[g].e
      BY <2>1, <2>2, <3>1
    <3> QED BY <2>5, <3>2 DEF Overlap
  <2> SUFFICES ASSUME NEW g \in Slots PROVE PosAt(g)'
    BY DEF PosOK
  <2>7. CASE g = f
    <3>1. ASSUME ~x.mixed
          PROVE  /\ Using(f) = {t} /\ Overlap(q) = {f} /\ x.own = y.seek
      <4>1. ~files[f].mixed
        BY <2>1, <3>1
      <4> QED BY <2>1, <2>4, <4>1 DEF PosOK, PosAt
    <3>2. At(q)' = y /\ files'[f] = x
      BY <2>1, <2>2, <2>3
    <3>3. Using(f)' = Using(f) /\ Overlap(q)' = Overlap(q)
      BY <2>5, <2>6
    <3>4. ~x.mixed => Using(f)' = {t} /\ \A e : e = x.e => Overlap(e)' = {f} /\ At(e)'.seek = x.own
      BY <2>1, <3>1, <3>2, <3>3
    <3> QED BY <2>7, <3>2, <3>4 DEF PosAt
  <2>8. CASE g # f
    <3>1. \A e : (files[g] # Free /\ e = files[g].e /\ g \in Overlap(e)) =>
                   Overlap(e)' = Overlap(e) /\ (~files[g].mixed => At(e)'.seek = At(e).seek)
      <4> SUFFICES ASSUME NEW e, files[g] # Free, e = files[g].e, g \in Overlap(e), ~files[g].mixed
                   PROVE  At(e)'.seek = At(e).seek
        BY <2>6
      <4>1. PICK u : u \in Using(g)
        BY DEF Overlap
      <4>2. Overlap(e) = {g}
        BY <4>1 DEF PosOK, PosAt
      <4>3. e # q
        BY <2>4, <2>8, <4>2
      <4> QED BY <2>3, <4>3, UsedIs
    <3>2. CASE files[g] = Free \/ files[g].mixed
      BY <2>2, <2>8, <3>2 DEF PosAt
    <3>3. CASE files[g] # Free /\ ~files[g].mixed
      BY <2>2, <2>5, <2>8, <3>1, <3>3, PosKept DEF PosOK
    <3> QED BY <3>2, <3>3
  <2> QED BY <2>7, <2>8
<1> QED BY <1>2, <1>3

LEMMA UnparkPos ==
  ASSUME InPlace, PosOK, NEW t \in Threads, Unpark(t)
  PROVE  PosOK'
<1>1. PICK x \in Opened, f \in Slots :
           /\ pc[t] \in Doings /\ DoingOK(pc[t]) /\ pc[t].do = "unpark" /\ f = pc[t].f
           /\ files[f] \in Opened /\ There(files[f].e)
           /\ x.e = files[f].e /\ x.o = files[f].o /\ x.own = files[f].own /\ x.mixed = files[f].mixed
           /\ x.pos = At(files[f].e).seek
           /\ files' = [files EXCEPT ![f] = x] /\ Does(t, Idle)
  BY UnparkIs
<1>2. PICK q \in Places : q = files[f].e
  BY <1>1, FileIs
<1>3. \A g \in Slots : files'[g] = IF g = f THEN x ELSE files[g]
  BY <1>1 DEF InPlace, FilesOK
<1>4. \A e : At(e)' = At(e)
  BY DEF Unpark, At
<1>5. t \in Using(f) /\ f \in Overlap(q) /\ pc[t] # Idle
  BY <1>1, <1>2, Overlaps, DoingIs
<1>6. \A g : Using(g)' = Using(g) \ {t}
  <2> SUFFICES ASSUME NEW g PROVE Using(g)' = Using(g) \ {t}
    OBVIOUS
  <2>1. Using(g)' = (Using(g) \ {t}) \cup {u \in {t} : Idle # Idle /\ Idle.do \in {"act", "unpark"} /\ Idle.f = g}
    BY <1>1, UsingIs
  <2> QED BY <2>1
<1>7. \A g : g # f => Using(g)' = Using(g)
  <2>1. \A g : g # f => t \notin Using(g)
    BY <1>1 DEF Using
  <2> QED BY <1>6, <2>1
<1> SUFFICES ASSUME NEW g \in Slots PROVE PosAt(g)'
  BY DEF PosOK
<1>8. CASE g = f
  <2>1. ASSUME ~x.mixed PROVE Using(f)' = {} /\ x.pos = x.own
    <3>1. files[f] # Free /\ ~files[f].mixed
      BY <1>1, <2>1, FileIs
    <3>2. Using(f) = {t} /\ At(q).seek = files[f].own
      BY <1>2, <1>5, <3>1 DEF PosOK, PosAt
    <3> QED BY <1>1, <1>2, <1>6, <3>2
  <2>2. files'[f] = x
    BY <1>3
  <2> QED BY <1>8, <2>1, <2>2 DEF PosAt
<1>9. CASE g # f
  <2>1. CASE files[g] = Free \/ files[g].mixed
    BY <1>3, <1>9, <2>1 DEF PosAt
  <2>2. CASE files[g] # Free /\ ~files[g].mixed
    <3>1. ASSUME NEW e, e = files[g].e, g \in Overlap(e) PROVE Overlap(e)' = Overlap(e)
      <4>1. PICK u : u \in Using(g)
        BY <3>1 DEF Overlap
      <4>2. Overlap(e) = {g}
        BY <2>2, <3>1, <4>1 DEF PosOK, PosAt
      <4>3. e # q
        BY <1>5, <1>9, <4>2
      <4>4. \A h \in Slots : /\ h # f => files'[h] = files[h] /\ Using(h)' = Using(h)
                             /\ h = f => ~(files'[h] # Free /\ files'[h].e = e) /\ files[h].e # e
        BY <1>1, <1>2, <1>3, <1>7, <4>3
      <4> QED BY <4>4 DEF Overlap
    <3> QED BY <1>3, <1>4, <1>7, <1>9, <2>2, <3>1, PosKept DEF PosOK
  <2> QED BY <2>1, <2>2
<1> QED BY <1>8, <1>9

(* A descriptor that no other call has met on its file has the offset that *)
(* its own calls have given it.                                            *)
THEOREM PlacesAreKept == VfsSpec => []OwnPlace
<1>1. VfsInit => InPlace /\ PosOK
  <2>1. VfsInit => PosOK
    BY DEF VfsInit, PosOK, PosAt
  <2> QED BY <2>1, InitInPlace
<1>2. ASSUME InPlace, PosOK, [VfsNext]_vfsVars PROVE (InPlace /\ PosOK)'
  <2>1. InPlace'
    BY <1>2, NextInPlace
  <2>2. CASE UNCHANGED vfsVars
    <3>1. UNCHANGED <<dents, files, pc>>
      BY <2>2 DEF vfsVars
    <3>2. \A g : Using(g)' = Using(g)
      BY <3>1 DEF Using
    <3>3. \A e : Overlap(e)' = Overlap(e) /\ At(e)' = At(e)
      BY <3>1, <3>2 DEF Overlap, At
    <3> SUFFICES ASSUME NEW g \in Slots PROVE PosAt(g)'
      BY <2>1 DEF PosOK
    <3>4. PosAt(g) /\ files'[g] = files[g]
      BY <1>2, <3>1 DEF PosOK
    <3> QED BY <3>2, <3>3, <3>4, PosKept
  <2>3. ASSUME NEW t \in Threads, Looks(t) PROVE PosOK'
    BY <1>2, <2>1, <2>3, LooksPos
  <2>4. ASSUME NEW t \in Threads, OpenLoad(t) \/ OpenStore(t) \/ CloseStore(t) \/ Act(t) \/ Unpark(t)
        PROVE  PosOK'
    BY <1>2, <2>4, OpenLoadPos, OpenStorePos, CloseStorePos, ActPos, UnparkPos
  <2>5. ASSUME NEW t \in Threads, NEW f \in Slots, CloseLoad(t, f) \/ \E op \in Ops : Park(t, f, op)
        PROVE  PosOK'
    BY <1>2, <2>5, CloseLoadPos, ParkPos
  <2>6. PosOK'
    BY <1>2, <2>2, <2>3, <2>4, <2>5 DEF VfsNext, Looks
  <2> QED BY <2>1, <2>6
<1>3. InPlace /\ PosOK => OwnPlace
  BY DEF PosOK, PosAt, OwnPlace
<1> QED BY <1>1, <1>2, <1>3, PTL DEF VfsSpec
=============================================================================
