-------------------------- MODULE StructuresProofs --------------------------
(***************************************************************************)
(* The kernel's data structures, for every size: units of slabs and blocks *)
(* of pages never overlap, the lists of blocks implement PagePool, a pid   *)
(* finds its thread, /dev shows the devices that came before it, what a    *)
(* pipe delivers is what was written, until a write goes over unread       *)
(* bytes, and the links of a list lead through what was put on it.  Slab,  *)
(* Buddy, Registry, Pipe and List have no state in common; each has a part *)
(* here.                                                                   *)
(***************************************************************************)
EXTENDS Slab, Buddy, Registry, Pipe, List, FiniteSetTheorems, SequenceTheorems, TLAPS

(* ------------------------------- kmalloc -------------------------------- *)

\* The units of a slab that callers own.
Own(L, c, s) == {j \in Units : <<c, s, j>> \in L}

\* What is true of one slab whose units `own' are owned.
Fits(slab, own) ==
  /\ \A i, j \in 1 .. Len(slab.free) : i # j => slab.free[i] # slab.free[j]
  /\ \A i \in 1 .. Len(slab.free) : slab.free[i] \notin own
  /\ slab.cnt = Cardinality(own)

(* Each slab fits what callers own of it, and nobody owns a unit of a slab   *)
(* that is not in the chain: a new one begins with no owner.                 *)
ChainFits(ch, L, c) ==
  /\ Len(ch) <= MaxSlabs
  /\ \A s \in 1 .. MaxSlabs :
       IF s \in 1 .. Len(ch) THEN Fits(ch[s], Own(L, c, s)) ELSE Own(L, c, s) = {}

SlabIInv == SlabTypeOK /\ \A c \in Classes : ChainFits(chain[c], live, c)

LEMMA UnitsFinite == IsFiniteSet(Units) /\ \A own \in SUBSET Units : IsFiniteSet(own)
  <1>1. N \in Int /\ 1 \in Int
    BY SlabAssumption
  <1>2. IsFiniteSet(Units)
    BY <1>1, FS_Interval DEF Units
  <1> QED
    BY <1>2, FS_Subset

LEMMA FreshFits == Fresh \in Slabs /\ Fresh.cnt = 0 /\ Fresh.free # << >> /\ Fits(Fresh, {})
  <1> USE SlabAssumption
  <1>1. Fresh.free \in Seq(Units) /\ Len(Fresh.free) = N /\ \A i \in 1 .. N : Fresh.free[i] = i
    BY DEF Fresh, Units
  <1>2. Cardinality({}) = 0
    BY FS_EmptySet
  <1>3. Fresh.cnt = 0 /\ Fresh.free # << >>
    BY <1>1 DEF Fresh
  <1>4. Fresh \in Slabs
    BY <1>1 DEF Fresh, Slabs
  <1>5. Fits(Fresh, {})
    BY <1>1, <1>2, <1>3 DEF Fits
  <1> QED
    BY <1>3, <1>4, <1>5

\* alloc_in_slab_unit on one slab.
LEMMA TakeFits ==
  ASSUME NEW slab \in Slabs, NEW own \in SUBSET Units, Fits(slab, own),
         slab.free # << >>, slab.cnt < N
  PROVE  LET new == [free |-> Tail(slab.free), cnt |-> slab.cnt + 1]
         IN  /\ Head(slab.free) \in Units /\ Head(slab.free) \notin own
             /\ new \in Slabs /\ Fits(new, own \cup {Head(slab.free)})
  <1> DEFINE f == slab.free
             h == Head(f)
             t == Tail(f)
  <1>1. f \in Seq(Units) /\ slab.cnt \in 0 .. N /\ Len(f) \in Nat /\ Len(f) > 0 /\ N \in Nat
    BY SlabAssumption DEF Slabs
  <1>2. /\ h = f[1] /\ h \in Units /\ t \in Seq(Units) /\ Len(t) = Len(f) - 1
        /\ \A i \in 1 .. Len(t) : t[i] = f[i + 1] /\ i + 1 \in 1 .. Len(f)
    BY <1>1
  <1>3. /\ \A i, j \in 1 .. Len(f) : i # j => f[i] # f[j]
        /\ \A i \in 1 .. Len(f) : f[i] \notin own
        /\ slab.cnt = Cardinality(own)
    BY DEF Fits
  <1>4. 1 \in 1 .. Len(f)
    BY <1>1
  <1>5. h \notin own
    BY <1>2, <1>3, <1>4
  <1>6. IsFiniteSet(own)
    BY UnitsFinite
  <1>7. Cardinality(own \cup {h}) = Cardinality(own) + 1
    BY <1>5, <1>6, FS_AddElement
  <1>8. \A i \in 1 .. Len(t) : t[i] \notin own \cup {h}
    BY <1>2, <1>3, <1>4
  <1>9. \A i, j \in 1 .. Len(t) : i # j => t[i] # t[j]
    BY <1>2, <1>3
  <1>10. [free |-> t, cnt |-> slab.cnt + 1] \in Slabs
    BY <1>1, <1>2 DEF Slabs
  <1> HIDE DEF t, h
  <1>11. Fits([free |-> t, cnt |-> slab.cnt + 1], own \cup {h})
    BY <1>3, <1>7, <1>8, <1>9 DEF Fits
  <1> QED
    BY <1>2, <1>5, <1>10, <1>11 DEF t, h

\* free_in_slab_unit on one slab.
LEMMA PutFits ==
  ASSUME NEW slab \in Slabs, NEW own \in SUBSET Units, Fits(slab, own),
         slab.free # << >>, NEW j \in own
  PROVE  LET new == [free |-> <<j>> \o Tail(slab.free), cnt |-> slab.cnt - 1]
         IN  new \in Slabs /\ Fits(new, own \ {j})
  <1> DEFINE f == slab.free
             g == <<j>> \o Tail(f)
  <1>1. f \in Seq(Units) /\ slab.cnt \in 0 .. N /\ Len(f) \in Nat /\ Len(f) > 0 /\ N \in Nat /\ j \in Units
    BY SlabAssumption DEF Slabs
  <1>2. /\ g \in Seq(Units) /\ Len(g) = Len(f)
        /\ g[1] = j /\ \A i \in 1 .. Len(g) : i # 1 => g[i] = f[i]
    BY <1>1
  <1>3. /\ \A i, k \in 1 .. Len(f) : i # k => f[i] # f[k]
        /\ \A i \in 1 .. Len(f) : f[i] \notin own
        /\ slab.cnt = Cardinality(own)
    BY DEF Fits
  <1>4. IsFiniteSet(own)
    BY UnitsFinite
  <1>5. Cardinality(own \ {j}) = Cardinality(own) - 1
    BY <1>4, FS_RemoveElement
  <1>6. Cardinality(own \ {j}) \in Nat
    BY <1>4, FS_RemoveElement, FS_CardinalityType
  <1> HIDE DEF g
  <1>7. [free |-> g, cnt |-> slab.cnt - 1] \in Slabs
    BY <1>1, <1>2, <1>3, <1>5, <1>6 DEF Slabs
  <1>8. \A i \in 1 .. Len(g) : g[i] \notin own \ {j}
    BY <1>2, <1>3
  <1>9. \A i, k \in 1 .. Len(g) : i # k => g[i] # g[k]
    BY <1>2, <1>3
  <1>10. Fits([free |-> g, cnt |-> slab.cnt - 1], own \ {j})
    BY <1>3, <1>5, <1>8, <1>9 DEF Fits
  <1> QED
    BY <1>7, <1>10 DEF g

\* alloc_slab_unit's new slab included, a chain stays a chain.
LEMMA TakenChain ==
  ASSUME NEW ch \in Seq(Slabs), NEW s \in 1 .. Len(ch) + 1, Slab(ch, s) \in Slabs,
         Slab(ch, s).free # << >>, Slab(ch, s).cnt < N
  PROVE  LET new == [free |-> Tail(Slab(ch, s).free), cnt |-> Slab(ch, s).cnt + 1]
         IN  /\ Taken(ch, s) \in Seq(Slabs)
             /\ Len(Taken(ch, s)) = IF s = Len(ch) + 1 THEN s ELSE Len(ch)
             /\ \A r \in 1 .. Len(Taken(ch, s)) : Taken(ch, s)[r] = IF r = s THEN new ELSE ch[r]
  <1> DEFINE new == [free |-> Tail(Slab(ch, s).free), cnt |-> Slab(ch, s).cnt + 1]
             n == IF s = Len(ch) + 1 THEN s ELSE Len(ch)
  <1>1. Len(ch) \in Nat /\ DOMAIN ch = 1 .. Len(ch) /\ n \in Nat /\ N \in Nat
    BY SlabAssumption
  <1>2. DOMAIN ch \cup {s} = 1 .. n
    BY <1>1
  <1>3. new \in Slabs
    <2>1. Slab(ch, s).free \in Seq(Units) /\ Slab(ch, s).cnt \in 0 .. N
      BY DEF Slabs
    <2>2. Tail(Slab(ch, s).free) \in Seq(Units) /\ Slab(ch, s).cnt + 1 \in 0 .. N
      BY <2>1, <1>1
    <2> QED
      BY <2>2 DEF Slabs
  <1>4. Taken(ch, s) = [r \in 1 .. n |-> IF r = s THEN new ELSE ch[r]]
    BY <1>2 DEF Taken
  <1> HIDE DEF new
  <1>5. \A r \in 1 .. n : r # s => ch[r] \in Slabs
    BY <1>1
  <1>6. Taken(ch, s) \in [1 .. n -> Slabs]
    BY <1>3, <1>4, <1>5
  <1>7. Taken(ch, s) \in Seq(Slabs) /\ Len(Taken(ch, s)) = n
    BY <1>1, <1>6
  <1> QED
    BY <1>4, <1>7 DEF new

\* Units of another class do not matter to a chain.
LEMMA OthersOwn ==
  ASSUME NEW ch, NEW L, NEW M, NEW c,
         \A s \in 1 .. MaxSlabs, j \in Units : <<c, s, j>> \in L <=> <<c, s, j>> \in M,
         ChainFits(ch, L, c)
  PROVE  ChainFits(ch, M, c)
  <1>1. \A s \in 1 .. MaxSlabs : Own(L, c, s) = Own(M, c, s)
    BY DEF Own
  <1> QED
    BY <1>1 DEF ChainFits

\* alloc_in_slab_unit on a chain: it finds a slab that fits, or hangs one on.
LEMMA TakeFromChain ==
  ASSUME NEW c \in Classes, NEW ch \in Seq(Slabs), NEW L, ChainFits(ch, L, c),
         NEW s \in 1 .. MaxSlabs, s <= Len(ch) + 1, Slot(ch, s), Slab(ch, s).free # << >>
  PROVE  LET h == Head(Slab(ch, s).free)
         IN  /\ h \in Units /\ Taken(ch, s) \in Seq(Slabs)
             /\ ChainFits(Taken(ch, s), L \cup {<<c, s, h>>}, c)
  <1> DEFINE sl == Slab(ch, s)
             h == Head(sl.free)
             new == [free |-> Tail(sl.free), cnt |-> sl.cnt + 1]
             M == L \cup {<<c, s, h>>}
  <1>1. Len(ch) \in Nat /\ DOMAIN ch = 1 .. Len(ch) /\ N \in Nat \ {0} /\ s \in 1 .. Len(ch) + 1
    BY SlabAssumption
  <1>2. Own(L, c, s) \in SUBSET Units
    BY DEF Own
  <1>3. sl \in Slabs /\ sl.cnt < N /\ Fits(sl, Own(L, c, s))
    <2>1. CASE s \in 1 .. Len(ch)
      <3>1. sl = ch[s] /\ ch[s].cnt < N /\ ch[s] \in Slabs
        BY <1>1, <2>1 DEF Slab, Slot
      <3> QED
        BY <2>1, <3>1 DEF ChainFits
    <2>2. CASE s \notin 1 .. Len(ch)
      <3>1. sl = Fresh /\ Own(L, c, s) = {}
        BY <1>1, <2>2 DEF Slab, ChainFits
      <3> QED
        BY <1>1, <3>1, FreshFits
    <2> QED
      BY <2>1, <2>2
  <1>4. h \in Units /\ Fits(new, Own(L, c, s) \cup {h})
    BY <1>2, <1>3, TakeFits
  <1>5. /\ Taken(ch, s) \in Seq(Slabs)
        /\ Len(Taken(ch, s)) = IF s = Len(ch) + 1 THEN s ELSE Len(ch)
        /\ \A r \in 1 .. Len(Taken(ch, s)) : Taken(ch, s)[r] = IF r = s THEN new ELSE ch[r]
    BY <1>1, <1>3, TakenChain
  <1> HIDE DEF h, new, sl
  <1>6. \A r \in 1 .. MaxSlabs :
          Own(M, c, r) = IF r = s THEN Own(L, c, s) \cup {h} ELSE Own(L, c, r)
    BY <1>4 DEF Own
  <1> HIDE DEF M
  <1>7. ASSUME NEW r \in 1 .. MaxSlabs
        PROVE  IF r \in 1 .. Len(Taken(ch, s)) THEN Fits(Taken(ch, s)[r], Own(M, c, r))
                                               ELSE Own(M, c, r) = {}
    <2>1. CASE r = s
      <3>1. s \in 1 .. Len(Taken(ch, s))
        BY <1>1, <1>5
      <3> QED
        BY <1>4, <1>5, <1>6, <2>1, <3>1
    <2>2. CASE r # s
      <3>1. r \in 1 .. Len(ch) <=> r \in 1 .. Len(Taken(ch, s))
        BY <1>1, <1>5, <2>2
      <3>2. r \in 1 .. Len(ch) => Taken(ch, s)[r] = ch[r]
        BY <1>5, <2>2, <3>1
      <3> QED
        BY <1>6, <2>2, <3>1, <3>2 DEF ChainFits
    <2> QED
      BY <2>1, <2>2
  <1>8. Len(Taken(ch, s)) <= MaxSlabs
    BY <1>1, <1>5 DEF ChainFits
  <1>9. ChainFits(Taken(ch, s), M, c)
    BY <1>7, <1>8 DEF ChainFits
  <1> QED
    BY <1>4, <1>5, <1>9 DEF h, sl, M

\* free_in_slab_unit on a chain.
LEMMA PutInChain ==
  ASSUME NEW c \in Classes, NEW ch \in Seq(Slabs), NEW L, ChainFits(ch, L, c),
         NEW s \in 1 .. MaxSlabs, NEW j \in Units, <<c, s, j>> \in L, ch[s].free # << >>
  PROVE  Put(ch, s, j) \in Seq(Slabs) /\ ChainFits(Put(ch, s, j), L \ {<<c, s, j>>}, c)
  <1> DEFINE new == [free |-> <<j>> \o Tail(ch[s].free), cnt |-> ch[s].cnt - 1]
             M == L \ {<<c, s, j>>}
  <1>1. Len(ch) \in Nat /\ DOMAIN ch = 1 .. Len(ch)
    OBVIOUS
  <1>2. j \in Own(L, c, s) /\ Own(L, c, s) \in SUBSET Units
    BY DEF Own
  <1>3. s \in 1 .. Len(ch) /\ Fits(ch[s], Own(L, c, s)) /\ ch[s] \in Slabs
    BY <1>1, <1>2 DEF ChainFits
  <1>4. new \in Slabs /\ Fits(new, Own(L, c, s) \ {j})
    BY <1>2, <1>3, PutFits
  <1>5. Put(ch, s, j) = [ch EXCEPT ![s] = new]
    BY <1>1, <1>3 DEF Put, Slabs
  <1> HIDE DEF new
  <1>6. /\ Put(ch, s, j) \in Seq(Slabs) /\ Len(Put(ch, s, j)) = Len(ch)
        /\ \A r \in 1 .. Len(ch) : Put(ch, s, j)[r] = IF r = s THEN new ELSE ch[r]
    BY <1>1, <1>3, <1>4, <1>5
  <1>7. \A r \in 1 .. MaxSlabs :
          Own(M, c, r) = IF r = s THEN Own(L, c, s) \ {j} ELSE Own(L, c, r)
    BY DEF Own
  <1> HIDE DEF M
  <1>8. ChainFits(Put(ch, s, j), M, c)
    BY <1>3, <1>4, <1>6, <1>7 DEF ChainFits
  <1> QED
    BY <1>6, <1>8 DEF M

LEMMA SlabInitially == SlabInit => SlabIInv
  <1> SUFFICES ASSUME SlabInit PROVE SlabIInv
    OBVIOUS
  <1>1. chain \in [Classes -> Seq(Slabs)] /\ \A c \in Classes : Len(chain[c]) = 1 /\ chain[c][1] = Fresh
    BY FreshFits DEF SlabInit
  <1>2. \A c \in Classes : \A s \in 1 .. MaxSlabs : Own(live, c, s) = {}
    BY DEF SlabInit, Own
  <1>3. SlabTypeOK
    BY <1>1 DEF SlabInit, SlabTypeOK
  <1>4. ASSUME NEW c \in Classes PROVE ChainFits(chain[c], live, c)
    <2>1. \A s \in 1 .. Len(chain[c]) : chain[c][s] = Fresh
      BY <1>1
    <2>2. Len(chain[c]) <= MaxSlabs
      <3>1. Len(chain[c]) = 1
        BY <1>1
      <3>2. 1 <= MaxSlabs
        BY SlabAssumption
      <3> QED
        BY <3>1, <3>2
    <2> QED
      BY <1>2, <2>1, <2>2, FreshFits DEF ChainFits
  <1> QED
    BY <1>3, <1>4 DEF SlabIInv

LEMMA KmallocStep ==
  ASSUME SlabIInv, NEW c \in Classes, Kmalloc(c)
  PROVE  SlabIInv'
  <1> PICK s \in 1 .. MaxSlabs :
        /\ s <= Len(chain[c]) + 1 /\ Slot(chain[c], s)
        /\ \/ Halt
           \/ /\ Slab(chain[c], s).free # <<>>
              /\ chain' = [chain EXCEPT ![c] = Taken(@, s)]
              /\ live' = live \cup {<<c, s, Head(Slab(chain[c], s).free)>>}
              /\ UNCHANGED halted
    BY DEF Kmalloc
  <1>1. CASE Halt
    BY <1>1 DEF Halt, SlabIInv, SlabTypeOK
  <1>2. CASE /\ Slab(chain[c], s).free # <<>>
             /\ chain' = [chain EXCEPT ![c] = Taken(@, s)]
             /\ live' = live \cup {<<c, s, Head(Slab(chain[c], s).free)>>}
             /\ UNCHANGED halted
    <2> DEFINE h == Head(Slab(chain[c], s).free)
    <2>1. chain \in [Classes -> Seq(Slabs)] /\ \A d \in Classes : ChainFits(chain[d], live, d)
      BY DEF SlabIInv, SlabTypeOK
    <2>2. /\ h \in Units /\ Taken(chain[c], s) \in Seq(Slabs)
          /\ ChainFits(Taken(chain[c], s), live \cup {<<c, s, h>>}, c)
      BY <1>2, <2>1, TakeFromChain
    <2>3. /\ live' = live \cup {<<c, s, h>>}
          /\ chain' = [chain EXCEPT ![c] = Taken(chain[c], s)] /\ UNCHANGED halted
      BY <1>2
    <2> HIDE DEF h
    <2>4. SlabTypeOK'
      BY <2>2, <2>3 DEF SlabIInv, SlabTypeOK
    <2>5. ASSUME NEW d \in Classes PROVE ChainFits(chain'[d], live', d)
      <3>1. CASE d = c
        BY <2>1, <2>2, <2>3, <3>1
      <3>2. CASE d # c
        <4>1. \A r \in 1 .. MaxSlabs, j \in Units : <<d, r, j>> \in live <=> <<d, r, j>> \in live'
          BY <2>3, <3>2
        <4>2. ChainFits(chain[d], live', d)
          BY <2>1, <4>1, OthersOwn
        <4> QED
          BY <2>1, <2>3, <3>2, <4>2
      <3> QED
        BY <3>1, <3>2
    <2> QED
      BY <2>4, <2>5 DEF SlabIInv
  <1> QED
    BY <1>1, <1>2

LEMMA KfreeStep ==
  ASSUME SlabIInv, NEW c \in Classes, NEW s \in 1 .. MaxSlabs, NEW j \in Units, Kfree(c, s, j)
  PROVE  SlabIInv'
  <1>1. CASE Halt
    BY <1>1 DEF Halt, SlabIInv, SlabTypeOK
  <1>2. CASE ~Halt
    <2>1. /\ chain \in [Classes -> Seq(Slabs)] /\ \A d \in Classes : ChainFits(chain[d], live, d)
          /\ chain[c][s].free # << >> /\ <<c, s, j>> \in live
          /\ live' = live \ {<<c, s, j>>}
          /\ chain' = [chain EXCEPT ![c] = Put(chain[c], s, j)] /\ UNCHANGED halted
      BY <1>2 DEF SlabIInv, SlabTypeOK, Kfree
    <2>2. /\ Put(chain[c], s, j) \in Seq(Slabs)
          /\ ChainFits(Put(chain[c], s, j), live \ {<<c, s, j>>}, c)
      BY <2>1, PutInChain
    <2>3. SlabTypeOK'
      BY <2>1, <2>2 DEF SlabIInv, SlabTypeOK
    <2>4. ASSUME NEW d \in Classes PROVE ChainFits(chain'[d], live', d)
      <3>1. CASE d = c
        BY <2>1, <2>2, <3>1
      <3>2. CASE d # c
        <4>1. \A r \in 1 .. MaxSlabs, i \in Units : <<d, r, i>> \in live <=> <<d, r, i>> \in live'
          BY <2>1, <3>2
        <4>2. ChainFits(chain[d], live', d)
          BY <2>1, <4>1, OthersOwn
        <4> QED
          BY <2>1, <3>2, <4>2
      <3> QED
        BY <3>1, <3>2
    <2> QED
      BY <2>3, <2>4 DEF SlabIInv
  <1> QED
    BY <1>1, <1>2

\* A unit of a larger class is taken, then the old one is given back.
LEMMA KreallocStep ==
  ASSUME SlabIInv, NEW c \in Classes, NEW s \in 1 .. MaxSlabs, NEW j \in Units,
         NEW d \in Classes, Krealloc(c, s, j, d)
  PROVE  SlabIInv'
  <1> PICK t \in 1 .. MaxSlabs :
        /\ <<c, s, j>> \in live
        /\ c < d
        /\ t <= Len(chain[d]) + 1 /\ Slot(chain[d], t)
        /\ \/ Halt
           \/ /\ Slab(chain[d], t).free # <<>> /\ chain[c][s].free # <<>>
              /\ chain' = [chain EXCEPT ![d] = Taken(@, t), ![c] = Put(@, s, j)]
              /\ live' = (live \ {<<c, s, j>>}) \cup {<<d, t, Head(Slab(chain[d], t).free)>>}
              /\ UNCHANGED halted
    BY DEF Krealloc
  <1>1. CASE Halt
    BY <1>1 DEF Halt, SlabIInv, SlabTypeOK
  <1>2. CASE /\ Slab(chain[d], t).free # <<>> /\ chain[c][s].free # <<>>
             /\ chain' = [chain EXCEPT ![d] = Taken(@, t), ![c] = Put(@, s, j)]
             /\ live' = (live \ {<<c, s, j>>}) \cup {<<d, t, Head(Slab(chain[d], t).free)>>}
             /\ UNCHANGED halted
    <2> DEFINE h == Head(Slab(chain[d], t).free)
    <2>1. chain \in [Classes -> Seq(Slabs)] /\ \A e \in Classes : ChainFits(chain[e], live, e)
      BY DEF SlabIInv, SlabTypeOK
    <2>2. /\ h \in Units /\ Taken(chain[d], t) \in Seq(Slabs)
          /\ ChainFits(Taken(chain[d], t), live \cup {<<d, t, h>>}, d)
      BY <1>2, <2>1, TakeFromChain
    <2>3. /\ Put(chain[c], s, j) \in Seq(Slabs)
          /\ ChainFits(Put(chain[c], s, j), live \ {<<c, s, j>>}, c)
      BY <1>2, <2>1, PutInChain
    <2>4. c # d
      BY SlabAssumption
    <2>5. /\ live' = (live \ {<<c, s, j>>}) \cup {<<d, t, h>>} /\ UNCHANGED halted
          /\ chain' \in [Classes -> Seq(Slabs)]
          /\ chain'[c] = Put(chain[c], s, j) /\ chain'[d] = Taken(chain[d], t)
          /\ \A e \in Classes \ {c, d} : chain'[e] = chain[e]
      BY <1>2, <2>1, <2>2, <2>3, <2>4
    <2> HIDE DEF h
    <2>6. SlabTypeOK'
      BY <2>2, <2>5 DEF SlabIInv, SlabTypeOK
    <2>7. ASSUME NEW e \in Classes PROVE ChainFits(chain'[e], live', e)
      <3>1. CASE e = c
        <4>1. \A r \in 1 .. MaxSlabs, i \in Units :
                <<c, r, i>> \in live \ {<<c, s, j>>} <=> <<c, r, i>> \in live'
          BY <2>4, <2>5
        <4> QED
          BY <2>3, <2>5, <3>1, <4>1, OthersOwn
      <3>2. CASE e = d
        <4>1. \A r \in 1 .. MaxSlabs, i \in Units :
                <<d, r, i>> \in live \cup {<<d, t, h>>} <=> <<d, r, i>> \in live'
          BY <2>4, <2>5
        <4> QED
          BY <2>2, <2>5, <3>2, <4>1, OthersOwn
      <3>3. CASE e \notin {c, d}
        <4>1. \A r \in 1 .. MaxSlabs, i \in Units : <<e, r, i>> \in live <=> <<e, r, i>> \in live'
          BY <2>5, <3>3
        <4>2. ChainFits(chain[e], live', e)
          BY <2>1, <4>1, OthersOwn
        <4> QED
          BY <2>5, <3>3, <4>2
      <3> QED
        BY <3>1, <3>2, <3>3
    <2> QED
      BY <2>6, <2>7 DEF SlabIInv
  <1> QED
    BY <1>1, <1>2

(* The inductive invariant, for any number of size classes and any capacity: *)
(* kmalloc, kfree and krealloc keep each free list apart from what callers   *)
(* own and count the owners.                                                 *)
THEOREM SlabInvariance == SlabSpec => []SlabIInv
  <1>1. ASSUME SlabIInv, [SlabNext]_slabVars PROVE SlabIInv'
    <2>1. ASSUME NEW c \in Classes, Kmalloc(c) PROVE SlabIInv'
      BY <1>1, <2>1, KmallocStep
    <2>2. ASSUME NEW c \in Classes, NEW s \in 1 .. MaxSlabs, NEW j \in Units, Kfree(c, s, j)
          PROVE  SlabIInv'
      BY <1>1, <2>2, KfreeStep
    <2>3. ASSUME NEW c \in Classes, NEW s \in 1 .. MaxSlabs, NEW j \in Units,
                 NEW d \in Classes, Krealloc(c, s, j, d)
          PROVE  SlabIInv'
      BY <1>1, <2>3, KreallocStep
    <2>4. CASE UNCHANGED slabVars
      BY <1>1, <2>4 DEF slabVars, SlabIInv, SlabTypeOK
    <2> QED
      BY <1>1, <2>1, <2>2, <2>3, <2>4 DEF SlabNext
  <1> QED
    BY <1>1, SlabInitially, PTL DEF SlabSpec

(* A free list holds each unit once and none that a caller owns, whatever is *)
(* allocated, given back and enlarged: kfree overwrites the head of the list *)
(* and still no unit gets a second owner.                                    *)
THEOREM UnitsStayApart == SlabSpec => []UnitsApart
  <1>1. ASSUME SlabIInv PROVE UnitsApart
    <2> SUFFICES ASSUME NEW c \in Classes, NEW s \in 1 .. Len(chain[c])
                 PROVE  /\ \A i, j \in 1 .. Len(chain[c][s].free) :
                             i # j => chain[c][s].free[i] # chain[c][s].free[j]
                        /\ \A i \in 1 .. Len(chain[c][s].free) :
                             <<c, s, chain[c][s].free[i]>> \notin live
      BY DEF UnitsApart
    <2>1. chain[c] \in Seq(Slabs) /\ Len(chain[c]) \in Nat /\ chain[c][s] \in Slabs
      BY <1>1 DEF SlabIInv, SlabTypeOK
    <2>2. s \in 1 .. MaxSlabs
      BY <1>1, <2>1, SlabAssumption DEF SlabIInv, ChainFits
    <2>3. Fits(chain[c][s], Own(live, c, s))
      BY <1>1, <2>2 DEF SlabIInv, ChainFits
    <2>4. \A i \in 1 .. Len(chain[c][s].free) : chain[c][s].free[i] \in Units
      BY <2>1 DEF Slabs
    <2> QED
      BY <2>3, <2>4 DEF Fits, Own
  <1> QED
    BY <1>1, SlabInvariance, PTL

(* used_cnt is the number of units callers own of a slab, so that used_cnt-- *)
(* never wraps and a slab given back whole is found again.                   *)
THEOREM SlabsAreCounted == SlabSpec => []CountIsLive
  <1>1. ASSUME SlabIInv PROVE CountIsLive
    <2> SUFFICES ASSUME NEW c \in Classes, NEW s \in 1 .. Len(chain[c])
                 PROVE  chain[c][s].cnt = Cardinality(Own(live, c, s))
      BY DEF CountIsLive, Own
    <2>1. Len(chain[c]) \in Nat
      BY <1>1 DEF SlabIInv, SlabTypeOK
    <2>2. s \in 1 .. MaxSlabs
      BY <1>1, <2>1, SlabAssumption DEF SlabIInv, ChainFits
    <2> QED
      BY <1>1, <2>2 DEF SlabIInv, ChainFits, Fits
  <1> QED
    BY <1>1, SlabInvariance, PTL

(* --------------------------- the page lists ----------------------------- *)

\* Of two blocks of m and n pages one ends before the other begins.
Apart(p, m, q, n) == p + m <= q \/ q + n <= p

ApartFree(a, p, m) ==
  \A k \in Orders : \A i \in 1 .. Len(a[k]) : Apart(p, m, a[k][i], Size[k])

ApartHeld(H, p, m) == \A b \in H : Apart(p, m, b[1], Size[b[2]])

Inside(p, k) == p \in Pages /\ p + Size[k] <= EndPage

(* The free blocks are inside the memory, apart from each other and from     *)
(* those given out.                                                          *)
FreeOK(a, H) ==
  /\ a \in [Orders -> Seq(Pages)]
  /\ \A k \in Orders : \A i \in 1 .. Len(a[k]) :
       /\ Inside(a[k][i], k)
       /\ ApartHeld(H, a[k][i], Size[k])
       /\ \A l \in Orders : \A j \in 1 .. Len(a[l]) :
            <<k, i>> # <<l, j>> => Apart(a[k][i], Size[k], a[l][j], Size[l])

HeldOK(H) ==
  /\ H \subseteq Pages \X Orders
  /\ \A b \in H : Inside(b[1], b[2])
  /\ \A b, c \in H : b # c => Apart(b[1], Size[b[2]], c[1], Size[c[2]])

BuddyIInv == FreeOK(area, held) /\ HeldOK(held) /\ unowned \subseteq Pages

LEMMA SizeFacts ==
  /\ \A k \in Orders : Size[k] \in Nat /\ Size[k] >= 1 /\ k \in Nat
  /\ \A k \in Orders : k + 1 \in Orders => Size[k + 1] = 2 * Size[k]
  /\ \A k, l \in Orders : k < l => 2 * Size[k] <= Size[l]
  /\ \A k, l \in Orders : k <= l => Size[k] <= Size[l]
  /\ Size[0] = 1 /\ 0 \in Orders
  /\ FirstPage \in Nat /\ EndPage \in Nat /\ FirstPage <= EndPage /\ MaxOrder \in Nat
  <1>1. /\ \A k \in Orders : Size[k] \in Nat /\ Size[k] >= 1 /\ k \in Nat
        /\ Size[0] = 1 /\ 0 \in Orders
        /\ FirstPage \in Nat /\ EndPage \in Nat /\ FirstPage <= EndPage /\ MaxOrder \in Nat
        /\ \A k, l \in Orders : k < l => 2 * Size[k] <= Size[l]
    BY BuddyAssumption DEF Orders
  <1>2. ASSUME NEW k \in Orders, k + 1 \in Orders PROVE Size[k + 1] = 2 * Size[k]
    <2>1. k + 1 \in Orders \ {0} /\ (k + 1) - 1 = k
      BY <1>1, <1>2
    <2> QED
      BY <2>1, BuddyAssumption
  <1>3. \A k, l \in Orders : k <= l => Size[k] <= Size[l]
    BY <1>1
  <1> QED
    BY <1>1, <1>2, <1>3

\* A block is put at the head of its list.
LEMMA PushOK ==
  ASSUME NEW a, NEW H, FreeOK(a, H), NEW k \in Orders, NEW p, Inside(p, k),
         H \subseteq Pages \X Orders, ApartFree(a, p, Size[k]), ApartHeld(H, p, Size[k])
  PROVE  FreeOK([a EXCEPT ![k] = <<p>> \o @], H)
  <1> DEFINE b == [a EXCEPT ![k] = <<p>> \o @]
  <1>1. a \in [Orders -> Seq(Pages)] /\ p \in Pages /\ \A l \in Orders : Len(a[l]) \in Nat
    BY DEF FreeOK, Inside
  <1>2. b \in [Orders -> Seq(Pages)]
    BY <1>1
  <1>3. /\ Len(b[k]) = Len(a[k]) + 1 /\ b[k][1] = p
        /\ \A i \in 1 .. Len(b[k]) : i # 1 => b[k][i] = a[k][i - 1] /\ i - 1 \in 1 .. Len(a[k])
        /\ \A l \in Orders : l # k => b[l] = a[l]
    BY <1>1
  <1> HIDE DEF b
  <1>4. ASSUME NEW l \in Orders, NEW i \in 1 .. Len(b[l]), <<l, i>> # <<k, 1>>
        PROVE  \E r \in 1 .. Len(a[l]) : b[l][i] = a[l][r] /\ r = IF l = k THEN i - 1 ELSE i
    BY <1>3, <1>4
  <1>5. ASSUME NEW l \in Orders, NEW i \in 1 .. Len(b[l])
        PROVE  Inside(b[l][i], l) /\ ApartHeld(H, b[l][i], Size[l])
    <2>1. CASE <<l, i>> = <<k, 1>>
      BY <1>3, <2>1
    <2>2. CASE <<l, i>> # <<k, 1>>
      BY <1>4, <2>2 DEF FreeOK
    <2> QED
      BY <2>1, <2>2
  <1>6. ASSUME NEW l \in Orders, NEW i \in 1 .. Len(b[l]), NEW m \in Orders, NEW j \in 1 .. Len(b[m]),
               <<l, i>> # <<m, j>>
        PROVE  Apart(b[l][i], Size[l], b[m][j], Size[m])
    <2>1. CASE <<l, i>> = <<k, 1>>
      <3>1. <<m, j>> # <<k, 1>>
        BY <1>6, <2>1
      <3>2. PICK r \in 1 .. Len(a[m]) : b[m][j] = a[m][r]
        BY <1>4, <3>1
      <3> QED
        BY <1>3, <2>1, <3>2 DEF ApartFree
    <2>2. CASE <<m, j>> = <<k, 1>>
      <3>1. <<l, i>> # <<k, 1>>
        BY <1>6, <2>2
      <3>2. PICK r \in 1 .. Len(a[l]) : b[l][i] = a[l][r]
        BY <1>4, <3>1
      <3>3. Apart(p, Size[k], a[l][r], Size[l])
        BY <3>2 DEF ApartFree
      <3> QED
        BY <1>3, <2>2, <3>2, <3>3 DEF Apart
    <2>3. CASE <<l, i>> # <<k, 1>> /\ <<m, j>> # <<k, 1>>
      <3>1. PICK r \in 1 .. Len(a[l]) : b[l][i] = a[l][r] /\ r = IF l = k THEN i - 1 ELSE i
        BY <1>4, <2>3
      <3>2. PICK q \in 1 .. Len(a[m]) : b[m][j] = a[m][q] /\ q = IF m = k THEN j - 1 ELSE j
        BY <1>4, <2>3
      <3>3. <<l, r>> # <<m, q>>
        <4>1. CASE l # m
          BY <4>1
        <4>2. CASE l = m
          <5>1. i # j /\ i \in Int /\ j \in Int
            BY <1>3, <1>6, <4>2
          <5> QED
            BY <3>1, <3>2, <4>2, <5>1
        <4> QED
          BY <4>1, <4>2
      <3> QED
        BY <3>1, <3>2, <3>3 DEF FreeOK
    <2> QED
      BY <2>1, <2>2, <2>3
  <1>7. FreeOK(b, H)
    BY <1>2, <1>5, <1>6 DEF FreeOK
  <1> QED
    BY <1>7 DEF b

LEMMA ConcatIs ==
  ASSUME NEW S, NEW u \in Seq(S), NEW v \in Seq(S)
  PROVE  /\ u \o v \in Seq(S) /\ Len(u \o v) = Len(u) + Len(v)
         /\ \A r \in 1 .. Len(u) + Len(v) : (u \o v)[r] = IF r <= Len(u) THEN u[r] ELSE v[r - Len(u)]
  OBVIOUS

LEMMA WithoutIs ==
  ASSUME NEW q \in Seq(Pages), NEW i \in 1 .. Len(q)
  PROVE  /\ Without(q, i) \in Seq(Pages) /\ Len(Without(q, i)) = Len(q) - 1
         /\ \A r \in 1 .. Len(q) - 1 : Without(q, i)[r] = q[IF r < i THEN r ELSE r + 1]
  <1>1. Len(q) \in Nat /\ i \in Int
    OBVIOUS
  <1> DEFINE u == SubSeq(q, 1, i - 1)
             v == SubSeq(q, i + 1, Len(q))
  <1>2. u \in Seq(Pages) /\ Len(u) = i - 1 /\ \A r \in 1 .. i - 1 : u[r] = q[r]
    BY <1>1
  <1>3. v \in Seq(Pages) /\ Len(v) = Len(q) - i /\ \A r \in 1 .. Len(q) - i : v[r] = q[i + r]
    BY <1>1
  <1>4. Without(q, i) = u \o v
    BY DEF Without
  <1> HIDE DEF u, v
  <1>5. /\ u \o v \in Seq(Pages) /\ Len(u \o v) = Len(q) - 1
        /\ \A r \in 1 .. Len(q) - 1 : (u \o v)[r] = IF r < i THEN u[r] ELSE v[r - (i - 1)]
    <2>1. u \o v \in Seq(Pages) /\ Len(u \o v) = Len(u) + Len(v)
      BY <1>2, <1>3, ConcatIs
    <2>2. \A r \in 1 .. Len(u) + Len(v) : (u \o v)[r] = IF r <= Len(u) THEN u[r] ELSE v[r - Len(u)]
      BY <1>2, <1>3, ConcatIs
    <2>3. Len(q) \in Nat /\ i \in Int /\ Len(u) = i - 1 /\ Len(u) + Len(v) = Len(q) - 1
      BY <1>1, <1>2, <1>3
    <2>4. \A r \in 1 .. Len(q) - 1 : (u \o v)[r] = IF r < i THEN u[r] ELSE v[r - (i - 1)]
      <3> TAKE r \in 1 .. Len(q) - 1
      <3>1. (r <= Len(u)) <=> (r < i)
        BY <2>3
      <3>2. (u \o v)[r] = IF r <= Len(u) THEN u[r] ELSE v[r - Len(u)]
        BY <2>2, <2>3
      <3> QED
        BY <2>3, <3>1, <3>2
    <2> QED
      BY <2>1, <2>3, <2>4
  <1>6. \A r \in 1 .. Len(q) - 1 : (u \o v)[r] = q[IF r < i THEN r ELSE r + 1]
    <2> TAKE r \in 1 .. Len(q) - 1
    <2>1. CASE r < i
      BY <1>1, <1>2, <1>5, <2>1
    <2>2. CASE ~(r < i)
      <3>1. r - (i - 1) \in 1 .. Len(q) - i /\ i + (r - (i - 1)) = r + 1
        BY <1>1, <2>2
      <3> QED
        BY <1>3, <1>5, <2>2, <3>1
    <2> QED
      BY <2>1, <2>2
  <1> QED
    BY <1>4, <1>5, <1>6

\* A block leaves its list: the others stay apart, from it too.
LEMMA DropOK ==
  ASSUME NEW a, NEW H, FreeOK(a, H), NEW k \in Orders, NEW i \in 1 .. Len(a[k])
  PROVE  LET b == [a EXCEPT ![k] = Without(a[k], i)]
         IN  /\ FreeOK(b, H) /\ ApartFree(b, a[k][i], Size[k])
             /\ \A p, m : ApartFree(a, p, m) => ApartFree(b, p, m)
  <1> DEFINE b == [a EXCEPT ![k] = Without(a[k], i)]
  <1>1. a \in [Orders -> Seq(Pages)] /\ i \in Int /\ \A l \in Orders : Len(a[l]) \in Nat
    BY DEF FreeOK
  <1>2. /\ Without(a[k], i) \in Seq(Pages) /\ Len(Without(a[k], i)) = Len(a[k]) - 1
        /\ \A r \in 1 .. Len(a[k]) - 1 : Without(a[k], i)[r] = a[k][IF r < i THEN r ELSE r + 1]
    BY <1>1, WithoutIs
  <1>3. /\ b \in [Orders -> Seq(Pages)] /\ b[k] = Without(a[k], i)
        /\ \A l \in Orders : l # k => b[l] = a[l]
    BY <1>1, <1>2
  <1> HIDE DEF b
  <1>4. ASSUME NEW l \in Orders, NEW j \in 1 .. Len(b[l])
        PROVE  \E r \in 1 .. Len(a[l]) : /\ b[l][j] = a[l][r] /\ <<l, r>> # <<k, i>>
                                        /\ r = IF l = k /\ j >= i THEN j + 1 ELSE j
    <2>1. CASE l # k
      BY <1>3, <2>1
    <2>2. CASE l = k
      <3>1. Len(b[l]) = Len(a[k]) - 1 /\ j \in Int
        BY <1>2, <1>3, <2>2
      <3>2. b[l][j] = a[k][IF j < i THEN j ELSE j + 1]
        BY <1>2, <1>3, <2>2, <3>1
      <3> QED
        BY <1>1, <2>2, <3>1, <3>2
    <2> QED
      BY <2>1, <2>2
  <1>5. ASSUME NEW l \in Orders, NEW j \in 1 .. Len(b[l])
        PROVE  Inside(b[l][j], l) /\ ApartHeld(H, b[l][j], Size[l])
    BY <1>4 DEF FreeOK
  <1>6. ASSUME NEW l \in Orders, NEW j \in 1 .. Len(b[l]), NEW m \in Orders, NEW n \in 1 .. Len(b[m]),
               <<l, j>> # <<m, n>>
        PROVE  Apart(b[l][j], Size[l], b[m][n], Size[m])
    <2>1. PICK r \in 1 .. Len(a[l]) : b[l][j] = a[l][r] /\ r = IF l = k /\ j >= i THEN j + 1 ELSE j
      BY <1>4
    <2>2. PICK q \in 1 .. Len(a[m]) : b[m][n] = a[m][q] /\ q = IF m = k /\ n >= i THEN n + 1 ELSE n
      BY <1>4
    <2>3. <<l, r>> # <<m, q>>
      <3>1. CASE l # m
        BY <3>1
      <3>2. CASE l = m
        <4>1. j # n /\ j \in Int /\ n \in Int
          BY <1>3, <1>6, <3>2
        <4> QED
          BY <1>1, <2>1, <2>2, <3>2, <4>1
      <3> QED
        BY <3>1, <3>2
    <2> QED
      BY <2>1, <2>2, <2>3 DEF FreeOK
  <1>7. FreeOK(b, H)
    BY <1>3, <1>5, <1>6 DEF FreeOK
  <1>8. ApartFree(b, a[k][i], Size[k])
    <2> SUFFICES ASSUME NEW l \in Orders, NEW j \in 1 .. Len(b[l])
                 PROVE  Apart(a[k][i], Size[k], b[l][j], Size[l])
      BY DEF ApartFree
    <2>1. PICK r \in 1 .. Len(a[l]) : b[l][j] = a[l][r] /\ <<l, r>> # <<k, i>>
      BY <1>4
    <2> QED
      BY <2>1 DEF FreeOK
  <1>9. ASSUME NEW p, NEW m, ApartFree(a, p, m) PROVE ApartFree(b, p, m)
    BY <1>4, <1>9 DEF ApartFree
  <1> QED
    BY <1>7, <1>8, <1>9 DEF b

\* Two blocks that touch are apart from what each of them is apart from.
LEMMA JoinedApart ==
  ASSUME NEW p \in Int, NEW q \in Int, NEW n \in Nat, NEW x \in Int, NEW m \in Nat, m >= 1,
         p = q + n \/ q = p + n, Apart(p, n, x, m), Apart(q, n, x, m)
  PROVE  Apart(IF q < p THEN q ELSE p, 2 * n, x, m)
  BY DEF Apart

\* The two of them together end where the upper one does.
LEMMA JoinedEnds ==
  ASSUME NEW p \in Int, NEW q \in Int, NEW n \in Nat, NEW e \in Int,
         p = q + n \/ q = p + n, p + n <= e, q + n <= e
  PROVE  (IF q < p THEN q ELSE p) + 2 * n <= e
<1>1. CASE q < p
  BY <1>1
<1>2. CASE ~(q < p)
  BY <1>2
<1> QED BY <1>1, <1>2

LEMMA JoinedInside ==
  ASSUME NEW k, NEW p \in Int, NEW q \in Int, Inside(p, k), Inside(q, k), p = q + Size[k] \/ q = p + Size[k],
         Size[k] \in Nat, Size[k + 1] = 2 * Size[k], EndPage \in Nat
  PROVE  Inside(IF q < p THEN q ELSE p, k + 1)
<1>1. PICK s \in Nat : s = Size[k]
  OBVIOUS
<1>2. PICK e \in Nat : e = EndPage
  OBVIOUS
<1>3. p \in Pages /\ q \in Pages /\ p + s <= e /\ q + s <= e /\ (p = q + s \/ q = p + s)
  BY <1>1, <1>2 DEF Inside
<1>4. (IF q < p THEN q ELSE p) + 2 * s <= e
  BY <1>3, JoinedEnds
<1>5. (IF q < p THEN q ELSE p) \in Pages
  BY <1>3
<1> QED BY <1>1, <1>2, <1>4, <1>5 DEF Inside

\* vmm_page_free of a block that nothing else overlaps.
LEMMA PageFreeOK ==
  ASSUME NEW H, HeldOK(H), FreeOK(area, H), NEW k \in Orders, NEW p, Inside(p, k),
         ApartFree(area, p, Size[k]), ApartHeld(H, p, Size[k]), PageFree(p, k)
  PROVE  FreeOK(area', H)
  <1>1. area \in [Orders -> Seq(Pages)] /\ H \subseteq Pages \X Orders /\ p \in Pages /\ p \in Int
    BY DEF FreeOK, HeldOK, Inside, Pages
  <1>2. CASE area' = [area EXCEPT ![k] = <<p>> \o area[k]]
    BY <1>1, <1>2, PushOK
  <1>3. ASSUME NEW i \in 1 .. Len(area[k]), Mergeable(p, k, i), Merge(p, k, i)
        PROVE  FreeOK(area', H)
    <2> DEFINE q == area[k][i]
               low == IF q < p THEN q ELSE p
               b == [area EXCEPT ![k] = Without(area[k], i)]
    <2>1. /\ FreeOK(b, H) /\ ApartFree(b, q, Size[k]) /\ ApartFree(b, p, Size[k])
      BY DropOK
    <2>2. /\ Inside(q, k) /\ ApartHeld(H, q, Size[k]) /\ q \in Int
          /\ p = q + Size[k] \/ q = p + Size[k]
      BY <1>3 DEF FreeOK, Mergeable, Neighbours, Inside, Pages
    <2>3. k + 1 \in Orders /\ k # k + 1 /\ Size[k + 1] = 2 * Size[k] /\ Size[k] \in Nat /\ EndPage \in Nat
      BY <1>3, SizeFacts DEF Mergeable, Orders
    <2>4. area' = [b EXCEPT ![k + 1] = <<low>> \o @]
      <3>1. b[k + 1] = area[k + 1]
        BY <1>1, <2>3
      <3>2. area' = [area EXCEPT ![k] = Without(area[k], i), ![k + 1] = <<low>> \o area[k + 1]]
        BY <1>3 DEF Merge
      <3> QED
        BY <3>1, <3>2
    <2> HIDE DEF b, q
    <2>5. Inside(low, k + 1)
      BY <1>1, <2>2, <2>3, JoinedInside
    <2>6. ApartFree(b, low, Size[k + 1])
      <3> SUFFICES ASSUME NEW l \in Orders, NEW j \in 1 .. Len(b[l])
                   PROVE  Apart(low, 2 * Size[k], b[l][j], Size[l])
        BY <2>3 DEF ApartFree
      <3>1. b[l][j] \in Int /\ Size[l] \in Nat /\ Size[l] >= 1
        <4>1. Inside(b[l][j], l)
          BY <2>1 DEF FreeOK
        <4> QED
          BY <4>1, SizeFacts DEF Inside, Pages
      <3>2. Apart(p, Size[k], b[l][j], Size[l]) /\ Apart(q, Size[k], b[l][j], Size[l])
        BY <2>1 DEF ApartFree
      <3> QED
        BY <1>1, <2>2, <2>3, <3>1, <3>2, JoinedApart
    <2>7. ApartHeld(H, low, Size[k + 1])
      <3> SUFFICES ASSUME NEW c \in H
                   PROVE  Apart(low, 2 * Size[k], c[1], Size[c[2]])
        BY <2>3 DEF ApartHeld
      <3>1. c[1] \in Int /\ c[2] \in Orders
        BY <1>1 DEF Pages
      <3>2. Size[c[2]] \in Nat /\ Size[c[2]] >= 1
        BY <3>1, SizeFacts
      <3>3. Apart(p, Size[k], c[1], Size[c[2]]) /\ Apart(q, Size[k], c[1], Size[c[2]])
        BY <2>2 DEF ApartHeld
      <3> QED
        BY <1>1, <2>2, <2>3, <3>1, <3>2, <3>3, JoinedApart
    <2> HIDE DEF low
    <2> QED
      BY <1>1, <2>1, <2>3, <2>4, <2>5, <2>6, <2>7, PushOK
  <1> QED
    BY <1>2, <1>3 DEF PageFree

\* What is left is still as it should be when a holder is gone.
LEMMA GivenBack ==
  ASSUME NEW a, NEW H, FreeOK(a, H), HeldOK(H), NEW b \in H
  PROVE  /\ FreeOK(a, H \ {b}) /\ HeldOK(H \ {b})
         /\ b[1] \in Int /\ b[2] \in Orders /\ Inside(b[1], b[2])
         /\ ApartHeld(H \ {b}, b[1], Size[b[2]]) /\ ApartFree(a, b[1], Size[b[2]])
  <1>1. FreeOK(a, H \ {b}) /\ HeldOK(H \ {b})
    BY DEF FreeOK, HeldOK, ApartHeld
  <1>2. b[1] \in Int /\ b[2] \in Orders /\ Inside(b[1], b[2])
    BY DEF HeldOK, Pages
  <1>3. ApartHeld(H \ {b}, b[1], Size[b[2]])
    BY DEF HeldOK, ApartHeld
  <1>4. ApartFree(a, b[1], Size[b[2]])
    <2> SUFFICES ASSUME NEW k \in Orders, NEW i \in 1 .. Len(a[k])
                 PROVE  Apart(b[1], Size[b[2]], a[k][i], Size[k])
      BY DEF ApartFree
    <2>1. Apart(a[k][i], Size[k], b[1], Size[b[2]])
      BY DEF FreeOK, ApartHeld
    <2> QED
      BY <2>1 DEF Apart
  <1> QED
    BY <1>1, <1>2, <1>3, <1>4

LEMMA FreeStep ==
  ASSUME BuddyIInv, NEW k \in Orders, NEW p \in Pages, Free(p, k)
  PROVE  BuddyIInv'
  <1>1. /\ <<p, k>> \in held /\ held' = held \ {<<p, k>>} /\ PageFree(p, k) /\ unowned' = unowned
    BY DEF Free
  <1>2. /\ FreeOK(area, held') /\ HeldOK(held') /\ Inside(p, k)
        /\ ApartHeld(held', p, Size[k]) /\ ApartFree(area, p, Size[k])
    BY <1>1, GivenBack DEF BuddyIInv
  <1>3. FreeOK(area', held')
    BY <1>1, <1>2, PageFreeOK
  <1> QED
    BY <1>1, <1>2, <1>3 DEF BuddyIInv

\* The part that is given back is apart from what the whole is apart from.
LEMMA FreeShortStep ==
  ASSUME BuddyIInv, NEW p \in Pages, FreeShort(p)
  PROVE  BuddyIInv'
  <1>1. /\ <<p, 1>> \in held /\ held' = held \ {<<p, 1>>} /\ PageFree(p, 0)
        /\ unowned' = unowned \cup {p + 1}
    BY DEF FreeShort
  <1>2. /\ FreeOK(area, held') /\ HeldOK(held') /\ 1 \in Orders /\ Inside(p, 1)
        /\ ApartHeld(held', p, Size[1]) /\ ApartFree(area, p, Size[1])
    <2>1. FreeOK(area, held) /\ HeldOK(held)
      BY DEF BuddyIInv
    <2> DEFINE B == <<p, 1>>
    <2>2. B[1] = p /\ B[2] = 1
      OBVIOUS
    <2>3. B \in held /\ held' = held \ {B}
      BY <1>1
    <2> HIDE DEF B
    <2> QED
      BY <2>1, <2>2, <2>3, GivenBack
  <1>3. Size[0] = 1 /\ Size[1] = 2 /\ 0 \in Orders /\ EndPage \in Nat /\ FirstPage \in Nat
    <2>1. 0 + 1 \in Orders
      BY <1>2
    <2>2. Size[0 + 1] = 2 * Size[0] /\ Size[0] = 1
      BY <2>1, SizeFacts
    <2> QED
      BY <2>2, SizeFacts
  <1>4. Inside(p, 0) /\ p + 1 \in Pages /\ p \in Int
    BY <1>2, <1>3 DEF Inside, Pages
  <1>5. ApartFree(area, p, Size[0])
    <2> SUFFICES ASSUME NEW l \in Orders, NEW i \in 1 .. Len(area[l])
                 PROVE  Apart(p, 1, area[l][i], Size[l])
      BY <1>3 DEF ApartFree
    <2>1. Apart(p, 2, area[l][i], Size[l]) /\ area[l][i] \in Int /\ Size[l] \in Nat
      BY <1>2, <1>3, SizeFacts DEF ApartFree, FreeOK, Inside, Pages
    <2> QED
      BY <1>4, <2>1 DEF Apart
  <1>6. ApartHeld(held', p, Size[0])
    <2> SUFFICES ASSUME NEW c \in held' PROVE Apart(p, 1, c[1], Size[c[2]])
      BY <1>3 DEF ApartHeld
    <2>1. c[1] \in Int /\ c[2] \in Orders
      BY <1>2 DEF HeldOK, Pages
    <2>2. Apart(p, 2, c[1], Size[c[2]]) /\ Size[c[2]] \in Nat
      BY <1>2, <1>3, <2>1, SizeFacts DEF ApartHeld
    <2> QED
      BY <1>4, <2>1, <2>2 DEF Apart
  <1>7. FreeOK(area', held')
    BY <1>1, <1>2, <1>3, <1>4, <1>5, <1>6, PageFreeOK
  <1> QED
    BY <1>1, <1>2, <1>4, <1>7 DEF BuddyIInv

LEMMA TailIsWithout ==
  ASSUME NEW q \in Seq(Pages), q # << >>
  PROVE  1 \in 1 .. Len(q) /\ Without(q, 1) = Tail(q) /\ Head(q) = q[1]
  <1>1. 1 \in 1 .. Len(q) /\ Len(q) \in Nat /\ Head(q) = q[1]
    OBVIOUS
  <1>2. /\ Without(q, 1) \in Seq(Pages) /\ Len(Without(q, 1)) = Len(q) - 1
        /\ \A r \in 1 .. Len(q) - 1 : Without(q, 1)[r] = q[r + 1]
    BY <1>1, WithoutIs
  <1>3. /\ Tail(q) \in Seq(Pages) /\ Len(Tail(q)) = Len(q) - 1
        /\ \A r \in 1 .. Len(q) - 1 : Tail(q)[r] = q[r + 1]
    BY <1>1
  <1> DEFINE t == Tail(q)
             w == Without(q, 1)
  <1> HIDE DEF t, w
  <1>4. t = w
    BY <1>1, <1>2, <1>3 DEF t, w
  <1> QED
    BY <1>1, <1>4 DEF t, w

LEMMA PartApart ==
  ASSUME NEW p \in Int, NEW m \in Nat, NEW q \in Int, NEW n \in Nat, p <= q, q + n <= p + m,
         NEW x \in Int, NEW l \in Nat, Apart(p, m, x, l)
  PROVE  Apart(q, n, x, l) /\ Apart(x, l, q, n)
  BY DEF Apart

\* What an allocation leaves of the block it splits.
LEMMA LeftParts ==
  ASSUME NEW k \in Orders, NEW j \in Orders, k <= j, NEW top \in Int
  PROVE  /\ \A i \in Orders : k <= i /\ i < j =>
              /\ Left(top, j, i) \in Int /\ top <= Left(top, j, i)
              /\ Left(top, j, i) + Size[i] = top + Size[j] - Size[i]
              /\ Left(top, j, i) + Size[i] <= top + Size[j] - Size[k]
              /\ \A h \in Orders : k <= h /\ h < i =>
                   Left(top, j, i) + Size[i] <= Left(top, j, h)
         /\ top <= top + Size[j] - Size[k]
  <1>1. Size[k] \in Nat /\ Size[j] \in Nat /\ Size[k] <= Size[j]
    BY SizeFacts
  <1>2. ASSUME NEW i \in Orders, k <= i, i < j
        PROVE  /\ Left(top, j, i) \in Int /\ top <= Left(top, j, i)
               /\ Left(top, j, i) + Size[i] = top + Size[j] - Size[i]
               /\ Size[i] \in Nat /\ Size[k] <= Size[i]
    <2>1. i + 1 \in Orders /\ i + 1 <= j
      <3>1. i \in Nat /\ j \in Nat /\ j <= MaxOrder /\ MaxOrder \in Nat
        BY SizeFacts DEF Orders
      <3> QED
        BY <1>2, <3>1 DEF Orders
    <2>2. Size[i + 1] = 2 * Size[i] /\ Size[i + 1] <= Size[j] /\ Size[i] \in Nat /\ Size[i + 1] \in Nat
          /\ Size[k] <= Size[i]
      BY <1>2, <2>1, SizeFacts
    <2> QED
      BY <1>1, <2>2 DEF Left
  <1>3. ASSUME NEW i \in Orders, k <= i, i < j, NEW h \in Orders, k <= h, h < i
        PROVE  Left(top, j, i) + Size[i] <= Left(top, j, h)
    <2>1. h < j
      BY <1>3 DEF Orders
    <2>2. Left(top, j, h) + Size[h] = top + Size[j] - Size[h] /\ Left(top, j, h) \in Int
      BY <1>3, <2>1, <1>2
    <2>3. Left(top, j, i) + Size[i] = top + Size[j] - Size[i] /\ Left(top, j, i) \in Int
      BY <1>3, <1>2
    <2>4. 2 * Size[h] <= Size[i] /\ Size[h] \in Nat /\ Size[i] \in Nat
      BY <1>3, SizeFacts
    <2> QED
      BY <1>1, <2>2, <2>3, <2>4
  <1>4. \A i \in Orders : k <= i /\ i < j => Left(top, j, i) + Size[i] <= top + Size[j] - Size[k]
    <2> SUFFICES ASSUME NEW i \in Orders, k <= i, i < j
                 PROVE  Left(top, j, i) + Size[i] <= top + Size[j] - Size[k]
      OBVIOUS
    <2> QED
      BY <1>1, <1>2
  <1> QED
    BY <1>1, <1>2, <1>3, <1>4

LEMMA AllocStep ==
  ASSUME BuddyIInv, NEW k \in Orders, Alloc(k)
  PROVE  /\ BuddyIInv'
         /\ \E b \in Pages \X Orders : Inside(b[1], b[2]) /\ ApartHeld(held, b[1], Size[b[2]])
                                       /\ held' = held \cup {b}
  <1>1. PICK j \in Orders :
          /\ Found(k, j)
          /\ area' = [i \in Orders |->
                        IF i = j THEN Tail(area[i])
                        ELSE IF k <= i /\ i < j THEN <<Left(Head(area[j]), j, i)>>
                        ELSE area[i]]
          /\ held' = held \cup {<<Head(area[j]) + Size[j] - Size[k], k>>}
          /\ UNCHANGED unowned
    BY DEF Alloc
  <1> DEFINE top == area[j][1]
             new == top + Size[j] - Size[k]
             others == [area EXCEPT ![j] = Without(area[j], 1)]
             split == {i \in Orders : k <= i /\ i < j}
  <1>2. /\ area \in [Orders -> Seq(Pages)] /\ area[j] # << >> /\ k <= j
        /\ FreeOK(area, held) /\ HeldOK(held) /\ held \subseteq Pages \X Orders
    BY <1>1 DEF BuddyIInv, FreeOK, HeldOK, Found
  <1>3. 1 \in 1 .. Len(area[j]) /\ Without(area[j], 1) = Tail(area[j]) /\ Head(area[j]) = top
    BY <1>2, TailIsWithout
  <1>4. FreeOK(others, held) /\ ApartFree(others, top, Size[j])
    BY <1>2, <1>3, DropOK
  <1>5. others \in [Orders -> Seq(Pages)] /\ \A i \in Orders : Len(others[i]) \in Nat
    BY <1>4 DEF FreeOK
  <1>6. /\ area' = [i \in Orders |-> IF i \in split THEN <<Left(top, j, i)>> ELSE others[i]]
        /\ held' = held \cup {<<new, k>>} /\ unowned' = unowned
    <2>1. others = [i \in Orders |-> IF i = j THEN Tail(area[j]) ELSE area[i]]
      BY <1>2, <1>3
    <2>2. area' = [i \in Orders |->
                        IF i = j THEN Tail(area[i])
                        ELSE IF k <= i /\ i < j THEN <<Left(top, j, i)>>
                        ELSE area[i]]
      BY <1>1, <1>3
    <2>3. j \notin split
      BY DEF Orders
    <2> HIDE DEF others
    <2>4. \A i \in Orders : (IF i = j THEN Tail(area[i])
                        ELSE IF k <= i /\ i < j THEN <<Left(top, j, i)>>
                        ELSE area[i]) = IF i \in split THEN <<Left(top, j, i)>> ELSE others[i]
      BY <2>1, <2>3
    <2>5. area' = [i \in Orders |-> IF i \in split THEN <<Left(top, j, i)>> ELSE others[i]]
      BY <2>2, <2>4
    <2> QED
      BY <1>1, <1>3, <2>5
  <1>7. Inside(top, j) /\ ApartHeld(held, top, Size[j])
    BY <1>2, <1>3 DEF FreeOK
  <1>8. top \in Int /\ FirstPage <= top /\ top + Size[j] <= EndPage /\ FirstPage \in Nat /\ EndPage \in Nat
    BY <1>7, SizeFacts DEF Inside, Pages
  <1> HIDE DEF top, others
  <1>9. /\ \A i \in split :
              /\ Left(top, j, i) \in Int /\ top <= Left(top, j, i)
              /\ Left(top, j, i) + Size[i] = top + Size[j] - Size[i]
              /\ Left(top, j, i) + Size[i] <= new
              /\ \A h \in Orders : k <= h /\ h < i => Left(top, j, i) + Size[i] <= Left(top, j, h)
        /\ top <= new
    BY <1>2, <1>8, LeftParts
  <1>10. \A i \in Orders : Size[i] \in Nat /\ Size[i] >= 1 /\ i \in Nat
    BY SizeFacts
  <1>11. new \in Int /\ new + Size[k] = top + Size[j]
    BY <1>8, <1>10
  <1> HIDE DEF new
  <1>12. Inside(new, k) /\ \A i \in split : Inside(Left(top, j, i), i)
    <2>1. new \in Pages /\ new + Size[k] <= EndPage
      BY <1>8, <1>9, <1>10, <1>11 DEF Pages
    <2>2. ASSUME NEW i \in split PROVE Left(top, j, i) \in Pages /\ Left(top, j, i) + Size[i] <= EndPage
      <3>1. Left(top, j, i) \in Int /\ top <= Left(top, j, i) /\ Left(top, j, i) + Size[i] <= new
        BY <1>9
      <3> QED
        BY <1>8, <1>10, <1>11, <3>1 DEF Pages
    <2> QED
      BY <2>1, <2>2 DEF Inside
  \* the parts are apart from everything the block was apart from
  <1>13. ASSUME NEW x \in Int, NEW l \in Nat, Apart(top, Size[j], x, l)
         PROVE  /\ Apart(new, Size[k], x, l) /\ Apart(x, l, new, Size[k])
                /\ \A i \in split : Apart(Left(top, j, i), Size[i], x, l) /\ Apart(x, l, Left(top, j, i), Size[i])
    <2>1. Apart(new, Size[k], x, l) /\ Apart(x, l, new, Size[k])
      <3>1. Size[j] \in Nat /\ Size[k] \in Nat /\ top <= new /\ new + Size[k] <= top + Size[j]
        BY <1>8, <1>9, <1>10, <1>11
      <3> QED
        BY <1>8, <1>11, <1>13, <3>1, PartApart
    <2>2. ASSUME NEW i \in split
          PROVE  Apart(Left(top, j, i), Size[i], x, l) /\ Apart(x, l, Left(top, j, i), Size[i])
      <3> DEFINE q == Left(top, j, i)
      <3>1. q \in Int /\ top <= q /\ q + Size[i] <= new /\ Size[i] \in Nat
        BY <1>9, <1>10
      <3>2. q + Size[i] <= top + Size[j]
        BY <1>8, <1>10, <1>11, <3>1
      <3> HIDE DEF q
      <3>3. Apart(q, Size[i], x, l) /\ Apart(x, l, q, Size[i])
        BY <1>8, <1>10, <1>13, <3>1, <3>2, PartApart
      <3> QED
        BY <3>3 DEF q
    <2> QED
      BY <2>1, <2>2
  <1>14. ASSUME NEW b \in held
         PROVE  /\ b[1] \in Int /\ Size[b[2]] \in Nat
                /\ Apart(new, Size[k], b[1], Size[b[2]]) /\ Apart(b[1], Size[b[2]], new, Size[k])
                /\ \A i \in split : Apart(Left(top, j, i), Size[i], b[1], Size[b[2]])
    <2>1. b[1] \in Int /\ b[2] \in Orders
      BY <1>2 DEF Pages
    <2>2. Size[b[2]] \in Nat /\ Apart(top, Size[j], b[1], Size[b[2]])
      BY <1>7, <1>10, <2>1 DEF ApartHeld
    <2> QED
      BY <1>13, <2>1, <2>2
  <1>15. ASSUME NEW l \in Orders, NEW r \in 1 .. Len(others[l])
         PROVE  /\ others[l][r] \in Int /\ Size[l] \in Nat
                /\ Apart(new, Size[k], others[l][r], Size[l]) /\ Apart(others[l][r], Size[l], new, Size[k])
                /\ \A i \in split : /\ Apart(Left(top, j, i), Size[i], others[l][r], Size[l])
                                    /\ Apart(others[l][r], Size[l], Left(top, j, i), Size[i])
    <2>1. Inside(others[l][r], l) /\ Apart(top, Size[j], others[l][r], Size[l])
      BY <1>4 DEF FreeOK, ApartFree
    <2>2. others[l][r] \in Int /\ Size[l] \in Nat
      BY <1>10, <2>1 DEF Inside, Pages
    <2> QED
      BY <1>13, <2>1, <2>2
  <1>16. HeldOK(held')
    <2>1. held' \subseteq Pages \X Orders
      BY <1>2, <1>6, <1>12 DEF Inside
    <2>2. \A b \in held' : Inside(b[1], b[2])
      BY <1>2, <1>6, <1>12 DEF HeldOK
    <2>3. \A b, c \in held' : b # c => Apart(b[1], Size[b[2]], c[1], Size[c[2]])
      BY <1>2, <1>6, <1>14, SMTT(30) DEF HeldOK
    <2> QED
      BY <2>1, <2>2, <2>3 DEF HeldOK
  \* the places of the new lists
  <1>17. ASSUME NEW l \in Orders, NEW r \in 1 .. Len(area'[l])
         PROVE  IF l \in split THEN r = 1 /\ area'[l][r] = Left(top, j, l)
                ELSE area'[l][r] = others[l][r] /\ r \in 1 .. Len(others[l])
    <2>1. CASE l \in split
      <3>1. area'[l] = <<Left(top, j, l)>>
        BY <1>6, <2>1
      <3> QED
        BY <2>1, <3>1
    <2>2. CASE l \notin split
      BY <1>6, <2>2
    <2> QED
      BY <2>1, <2>2
  <1>18. area' \in [Orders -> Seq(Pages)]
    <2>1. \A i \in split : <<Left(top, j, i)>> \in Seq(Pages)
      BY <1>12 DEF Inside
    <2> QED
      BY <1>5, <1>6, <2>1
  <1>19. ASSUME NEW l \in Orders, NEW r \in 1 .. Len(area'[l])
         PROVE  Inside(area'[l][r], l) /\ ApartHeld(held', area'[l][r], Size[l])
    <2>1. CASE l \in split
      <3>1. area'[l][r] = Left(top, j, l)
        BY <1>17, <2>1
      <3>2. Apart(Left(top, j, l), Size[l], new, Size[k])
        BY <1>9, <1>10, <1>11, <2>1 DEF Apart
      <3> QED
        BY <1>6, <1>12, <1>14, <2>1, <3>1, <3>2 DEF ApartHeld
    <2>2. CASE l \notin split
      <3>1. area'[l][r] = others[l][r] /\ r \in 1 .. Len(others[l])
        BY <1>17, <2>2
      <3>2. Inside(others[l][r], l) /\ ApartHeld(held, others[l][r], Size[l])
        BY <1>4, <3>1 DEF FreeOK
      <3>3. Apart(others[l][r], Size[l], new, Size[k])
        BY <1>15, <3>1
      <3> QED
        BY <1>6, <3>1, <3>2, <3>3 DEF ApartHeld
    <2> QED
      BY <2>1, <2>2
  <1>20. ASSUME NEW l \in Orders, NEW r \in 1 .. Len(area'[l]),
                NEW m \in Orders, NEW n \in 1 .. Len(area'[m]), <<l, r>> # <<m, n>>
         PROVE  Apart(area'[l][r], Size[l], area'[m][n], Size[m])
    <2>1. CASE l \in split /\ m \in split
      <3>1. /\ area'[l][r] = Left(top, j, l) /\ area'[m][n] = Left(top, j, m) /\ l # m
            /\ l \in Nat /\ m \in Nat
        BY <1>10, <1>17, <1>20, <2>1
      <3>2. CASE l < m
        <4>1. Left(top, j, m) + Size[m] <= Left(top, j, l)
          BY <1>9, <2>1, <3>2
        <4> QED
          BY <3>1, <4>1 DEF Apart
      <3>3. CASE m < l
        <4>1. Left(top, j, l) + Size[l] <= Left(top, j, m)
          BY <1>9, <2>1, <3>3
        <4> QED
          BY <3>1, <4>1 DEF Apart
      <3> QED
        BY <3>1, <3>2, <3>3
    <2>2. CASE l \in split /\ m \notin split
      <3>1. area'[l][r] = Left(top, j, l) /\ area'[m][n] = others[m][n] /\ n \in 1 .. Len(others[m])
        BY <1>17, <2>2
      <3> QED
        BY <1>15, <2>2, <3>1
    <2>3. CASE l \notin split /\ m \in split
      <3>1. area'[m][n] = Left(top, j, m) /\ area'[l][r] = others[l][r] /\ r \in 1 .. Len(others[l])
        BY <1>17, <2>3
      <3> QED
        BY <1>15, <2>3, <3>1
    <2>4. CASE l \notin split /\ m \notin split
      <3>1. /\ area'[l][r] = others[l][r] /\ r \in 1 .. Len(others[l])
            /\ area'[m][n] = others[m][n] /\ n \in 1 .. Len(others[m])
        BY <1>17, <2>4
      <3> QED
        BY <1>4, <1>20, <3>1 DEF FreeOK
    <2> QED
      BY <2>1, <2>2, <2>3, <2>4
  <1>21. FreeOK(area', held')
    BY <1>18, <1>19, <1>20 DEF FreeOK
  <1>22. BuddyIInv'
    BY <1>6, <1>16, <1>21 DEF BuddyIInv
  <1>23. ApartHeld(held, new, Size[k])
    BY <1>14 DEF ApartHeld
  <1>24. <<new, k>> \in Pages \X Orders
    BY <1>12 DEF Inside
  <1> QED
    BY <1>6, <1>12, <1>22, <1>23, <1>24

\* The product of a smaller number with the same size is not larger.
LEMMA TimesGrows ==
  ASSUME NEW x \in Nat, NEW y \in Nat, x <= y, NEW m \in Nat
  PROVE  x * m <= y * m /\ x * m \in Nat /\ y * m \in Nat
  <1>1. PICK d \in Nat : y = x + d
    <2>1. y - x \in Nat /\ y = x + (y - x)
      OBVIOUS
    <2> QED
      BY <2>1
  <1>2. (x + d) * m = x * m + d * m /\ x * m \in Nat /\ d * m \in Nat
    OBVIOUS
  <1> QED
    BY <1>1, <1>2

LEMMA Quotient ==
  ASSUME NEW x \in Nat, NEW m \in Nat, m >= 1
  PROVE  /\ x \div m \in Nat /\ (x \div m) * m \in Nat
         /\ (x \div m) * m <= x /\ x < (x \div m) * m + m
  OBVIOUS

\* Whole blocks of twice the size, and one more where the count is odd.
LEMMA Halves ==
  ASSUME NEW x \in Nat, NEW m \in Nat, m >= 1
  PROVE  /\ (x \div m) % 2 \in {0, 1}
         /\ (x \div m) * m = (x \div (2 * m)) * (2 * m) + ((x \div m) % 2) * m
  <1> DEFINE a == x \div m
             b == x \div (2 * m)
  <1>1. a \in Nat /\ a * m <= x /\ x < a * m + m /\ a * m \in Nat
    BY Quotient
  <1>2. b \in Nat /\ b * (2 * m) <= x /\ x < b * (2 * m) + 2 * m /\ b * (2 * m) \in Nat
    <2>1. 2 * m \in Nat /\ 2 * m >= 1
      OBVIOUS
    <2> QED
      BY <2>1, Quotient
  <1> HIDE DEF a, b
  <1>3. b * (2 * m) = (2 * b) * m /\ (2 * b) * m + 2 * m = (2 * b + 2) * m /\ a * m + m = (a + 1) * m
    BY <1>1, <1>2
  <1>4. 2 * b < a + 1
    <2> SUFFICES ASSUME a + 1 <= 2 * b PROVE FALSE
      BY <1>1, <1>2
    <2>1. (a + 1) * m <= (2 * b) * m
      BY <1>1, <1>2, TimesGrows
    <2> QED
      BY <1>1, <1>2, <1>3, <2>1
  <1>5. a < 2 * b + 2
    <2> SUFFICES ASSUME 2 * b + 2 <= a PROVE FALSE
      BY <1>1, <1>2
    <2>1. (2 * b + 2) * m <= a * m
      BY <1>1, <1>2, TimesGrows
    <2> QED
      BY <1>1, <1>2, <1>3, <2>1
  <1>6. PICK r \in {0, 1} : a = 2 * b + r
    <2>1. a - 2 * b \in {0, 1} /\ a = 2 * b + (a - 2 * b)
      BY <1>1, <1>2, <1>4, <1>5
    <2> QED
      BY <2>1
  <1>7. a % 2 = r
    BY <1>2, <1>6
  <1>8. a * m = b * (2 * m) + r * m
    <2>1. (2 * b + r) * m = (2 * b) * m + r * m
      BY <1>2, <1>6
    <2> QED
      BY <1>3, <1>6, <2>1
  <1> QED
    BY <1>6, <1>7, <1>8 DEF a, b

\* The blocks of order k that init_vmm takes end here.
EndOf(k) == FirstPage + ((EndPage - FirstPage) \div Size[k]) * Size[k]

LowOf(k) == IF k = MaxOrder THEN FirstPage ELSE EndOf(k + 1)

LEMMA EndStep ==
  /\ \A k \in Orders : EndOf(k) \in Nat /\ FirstPage <= EndOf(k) /\ EndOf(k) <= EndPage
  /\ \A k \in Orders : k # MaxOrder =>
       /\ k + 1 \in Orders
       /\ ((EndPage - FirstPage) \div Size[k]) % 2 \in {0, 1}
       /\ EndOf(k) = EndOf(k + 1) + (((EndPage - FirstPage) \div Size[k]) % 2) * Size[k]
       /\ EndOf(k + 1) <= EndOf(k)
  <1> DEFINE all == EndPage - FirstPage
  <1>1. all \in Nat /\ FirstPage \in Nat /\ EndPage = FirstPage + all
    BY SizeFacts
  <1> HIDE DEF all
  <1>2. ASSUME NEW k \in Orders
        PROVE  EndOf(k) \in Nat /\ FirstPage <= EndOf(k) /\ EndOf(k) <= EndPage
    <2>1. Size[k] \in Nat /\ Size[k] >= 1
      BY SizeFacts
    <2>2. (all \div Size[k]) * Size[k] \in Nat /\ (all \div Size[k]) * Size[k] <= all
      BY <1>1, <2>1, Quotient
    <2> QED
      BY <1>1, <2>2 DEF EndOf, all
  <1>3. ASSUME NEW k \in Orders, k # MaxOrder
        PROVE  /\ k + 1 \in Orders
               /\ (all \div Size[k]) % 2 \in {0, 1}
               /\ EndOf(k) = EndOf(k + 1) + ((all \div Size[k]) % 2) * Size[k]
               /\ EndOf(k + 1) <= EndOf(k)
    <2>1. k + 1 \in Orders
      BY <1>3, SizeFacts DEF Orders
    <2>2. Size[k] \in Nat /\ Size[k] >= 1 /\ Size[k + 1] = 2 * Size[k]
      BY <2>1, SizeFacts
    <2> DEFINE odd == (all \div Size[k]) % 2
               e == (all \div Size[k]) * Size[k]
               f == (all \div (2 * Size[k])) * (2 * Size[k])
    <2>3. odd \in {0, 1} /\ e = f + odd * Size[k]
      BY <1>1, <2>2, Halves
    <2>4. e \in Nat /\ f \in Nat
      <3>1. 2 * Size[k] \in Nat /\ 2 * Size[k] >= 1
        BY <2>2
      <3> QED
        BY <1>1, <2>2, <3>1, Quotient
    <2>5. EndOf(k) = FirstPage + e /\ EndOf(k + 1) = FirstPage + f
      BY <2>2 DEF EndOf, all
    <2> HIDE DEF odd, e, f
    <2>6. odd * Size[k] \in Nat
      BY <2>2, <2>3
    <2>7. EndOf(k) = EndOf(k + 1) + odd * Size[k] /\ EndOf(k + 1) <= EndOf(k)
      BY <1>1, <2>3, <2>4, <2>5, <2>6
    <2> QED
      BY <2>1, <2>3, <2>7 DEF odd
  <1> QED
    BY <1>2, <1>3 DEF all

LEMMA LeastNat ==
  ASSUME NEW T \in SUBSET Nat, T # {}
  PROVE  \E m \in T : \A n \in T : m <= n
  <1> DEFINE R == {p \in Nat \X Nat : p[1] < p[2]}
  <1>1. IsWellFoundedOn(R, Nat)
    BY NatLessThanWellFounded DEF OpToRel
  <1>2. PICK m \in T : \A n \in T : <<n, m>> \notin R
    <2> HIDE DEF R
    <2> QED
      BY <1>1, WFMin
  <1>3. \A n \in T : <<n, m>> \in Nat \X Nat
    OBVIOUS
  <1>4. \A n \in T : ~(n < m)
    BY <1>2, <1>3
  <1> QED
    BY <1>4

\* Larger blocks lie before smaller ones: by the least distance at which not.
LEMMA EndsFall == \A k, l \in Orders : k <= l => EndOf(l) <= EndOf(k)
  <1> DEFINE T == {d \in Nat : \E k \in Orders : k + d \in Orders /\ ~(EndOf(k + d) <= EndOf(k))}
  <1>1. T = {}
    <2> SUFFICES ASSUME T # {} PROVE FALSE
      OBVIOUS
    <2>1. PICK d \in T : \A n \in T : d <= n
      BY LeastNat
    <2>2. PICK k \in Orders : k + d \in Orders /\ ~(EndOf(k + d) <= EndOf(k))
      OBVIOUS
    <2>3. d \in Nat /\ k \in Nat /\ MaxOrder \in Nat /\ k + d <= MaxOrder
      BY <2>2, SizeFacts DEF Orders
    <2>4. d # 0
      BY <2>2, <2>3, EndStep
    <2> DEFINE c == d - 1
    <2>5. c \in Nat /\ c < d /\ d = c + 1 /\ k + c \in Orders /\ k + c # MaxOrder
      BY <2>3, <2>4 DEF Orders
    <2>6. EndOf((k + c) + 1) <= EndOf(k + c)
      BY <2>5, EndStep
    <2>7. (k + c) + 1 = k + d
      BY <2>3, <2>5
    <2>8. EndOf(k + c) <= EndOf(k)
      <3>1. c \notin T
        BY <2>1, <2>3, <2>5
      <3> QED
        BY <2>5, <3>1
    <2>9. EndOf(k + c) \in Nat /\ EndOf(k) \in Nat /\ EndOf(k + d) \in Nat
      BY <2>2, <2>5, EndStep
    <2> QED
      BY <2>2, <2>6, <2>7, <2>8, <2>9
  <1> SUFFICES ASSUME NEW k \in Orders, NEW l \in Orders, k <= l PROVE EndOf(l) <= EndOf(k)
    OBVIOUS
  <1> DEFINE d == l - k
  <1>2. d \in Nat /\ k + d = l
    BY SizeFacts
  <1> HIDE DEF d
  <1> QED
    BY <1>1, <1>2

\* The blocks of one order, one below the other from EndOf(k) down to LowOf(k).
LEMMA CutIs ==
  ASSUME NEW k \in Orders
  PROVE  /\ Cut(k) \in Seq(Pages) /\ Len(Cut(k)) \in Nat
         /\ \A i \in 1 .. Len(Cut(k)) :
              LowOf(k) <= Cut(k)[i] /\ Cut(k)[i] + Size[k] <= EndOf(k) /\ Cut(k)[i] \in Int
         /\ \A i, j \in 1 .. Len(Cut(k)) : i < j => Cut(k)[j] + Size[k] <= Cut(k)[i]
  <1> DEFINE d == (EndPage - FirstPage) \div Size[k]
             n == IF k = MaxOrder THEN d ELSE d % 2
             at(i) == EndOf(k) - i * Size[k]
  <1>1. Size[k] \in Nat /\ Size[k] >= 1 /\ FirstPage \in Nat /\ EndPage - FirstPage \in Nat /\ EndPage \in Nat
    BY SizeFacts
  <1>2. d \in Nat
    BY <1>1, Quotient
  <1>3. Cut(k) = [i \in 1 .. n |-> at(i)]
    BY DEF Cut, EndOf
  <1>4. n \in Nat
    BY <1>2, EndStep
  <1>5. EndOf(k) = LowOf(k) + n * Size[k]
    <2>1. CASE k = MaxOrder
      BY <2>1 DEF EndOf, LowOf
    <2>2. CASE k # MaxOrder
      BY <2>2, EndStep DEF LowOf
    <2> QED
      BY <2>1, <2>2
  <1>6. LowOf(k) \in Nat /\ FirstPage <= LowOf(k) /\ EndOf(k) \in Nat /\ EndOf(k) <= EndPage
    BY <1>1, EndStep DEF LowOf
  <1> HIDE DEF n, d
  <1>7. ASSUME NEW i \in 1 .. n
        PROVE  at(i) \in Int /\ LowOf(k) <= at(i) /\ at(i) + Size[k] <= EndOf(k)
    <2>1. 1 \in Nat /\ i \in Nat /\ 1 <= i /\ i <= n
      BY <1>4
    <2>2. 1 * Size[k] <= i * Size[k] /\ i * Size[k] \in Nat
      BY <1>1, <2>1, TimesGrows
    <2>3. i * Size[k] <= n * Size[k] /\ n * Size[k] \in Nat
      BY <1>1, <1>4, <2>1, TimesGrows
    <2> QED
      BY <1>1, <1>5, <1>6, <2>2, <2>3
  <1>8. ASSUME NEW i \in 1 .. n, NEW j \in 1 .. n, i < j PROVE at(j) + Size[k] <= at(i)
    <2>1. i + 1 \in Nat /\ j \in Nat /\ i \in Nat /\ i + 1 <= j
      BY <1>4, <1>8
    <2>2. (i + 1) * Size[k] <= j * Size[k] /\ j * Size[k] \in Nat
      BY <1>1, <2>1, TimesGrows
    <2>3. (i + 1) * Size[k] = i * Size[k] + Size[k] /\ i * Size[k] \in Nat
      BY <1>1, <2>1
    <2> QED
      BY <1>1, <1>6, <2>2, <2>3
  <1>9. \A i \in 1 .. n : at(i) \in Pages
    <2> SUFFICES ASSUME NEW i \in 1 .. n PROVE at(i) \in Pages
      OBVIOUS
    <2>1. at(i) \in Int /\ LowOf(k) <= at(i) /\ at(i) + Size[k] <= EndOf(k)
      BY <1>7
    <2> HIDE DEF at
    <2> QED
      BY <1>1, <1>6, <2>1 DEF Pages
  <1> HIDE DEF at
  <1>10. Cut(k) \in Seq(Pages) /\ Len(Cut(k)) = n /\ \A i \in 1 .. n : Cut(k)[i] = at(i)
    BY <1>3, <1>4, <1>9
  <1> QED
    BY <1>4, <1>7, <1>8, <1>10

LEMMA BuddyInitially == BuddyInit => BuddyIInv
  <1> SUFFICES ASSUME BuddyInit PROVE BuddyIInv
    OBVIOUS
  <1>1. area = [k \in Orders |-> Cut(k)] /\ held = {} /\ unowned = {}
    BY DEF BuddyInit
  <1>2. area \in [Orders -> Seq(Pages)]
    BY <1>1, CutIs
  <1>3. ASSUME NEW k \in Orders, NEW i \in 1 .. Len(area[k])
        PROVE  /\ LowOf(k) <= area[k][i] /\ area[k][i] + Size[k] <= EndOf(k) /\ area[k][i] \in Int
               /\ area[k][i] \in Pages
    BY <1>1, <1>2, CutIs
  <1>4. \A k \in Orders : EndOf(k) \in Nat /\ EndOf(k) <= EndPage /\ Size[k] \in Nat /\ k \in Nat
    BY EndStep, SizeFacts
  <1>5. ASSUME NEW k \in Orders, NEW i \in 1 .. Len(area[k]) PROVE Inside(area[k][i], k)
    <2>1. EndPage \in Nat
      BY SizeFacts
    <2> QED
      BY <1>3, <1>4, <2>1 DEF Inside
  <1>6. ASSUME NEW k \in Orders, NEW i \in 1 .. Len(area[k]),
               NEW l \in Orders, NEW j \in 1 .. Len(area[l]), k < l
        PROVE  area[l][j] + Size[l] <= area[k][i]
    <2>1. k # MaxOrder /\ k + 1 \in Orders /\ k + 1 <= l
      BY <1>4, <1>6, SizeFacts DEF Orders
    <2>2. EndOf(l) <= EndOf(k + 1) /\ LowOf(k) = EndOf(k + 1)
      BY <2>1, EndsFall DEF LowOf
    <2>3. EndOf(k + 1) \in Nat /\ EndOf(l) \in Nat /\ Size[l] \in Nat
      BY <1>4, <2>1
    <2> QED
      BY <1>3, <2>2, <2>3, SMTT(30)
  <1>7. ASSUME NEW k \in Orders, NEW i \in 1 .. Len(area[k]),
               NEW l \in Orders, NEW j \in 1 .. Len(area[l]), <<k, i>> # <<l, j>>
        PROVE  Apart(area[k][i], Size[k], area[l][j], Size[l])
    <2>1. CASE k < l
      BY <1>6, <2>1 DEF Apart
    <2>2. CASE l < k
      BY <1>6, <2>2 DEF Apart
    <2>3. CASE k = l
      <3>1. Len(area[k]) \in Nat /\ i # j /\ area[k] = Cut(k)
        BY <1>1, <1>2, <1>7, <2>3
      <3>2. i < j \/ j < i
        BY <2>3, <3>1
      <3> QED
        BY <2>3, <3>1, <3>2, CutIs DEF Apart
    <2> QED
      BY <1>4, <2>1, <2>2, <2>3
  <1> QED
    BY <1>1, <1>2, <1>5, <1>7 DEF BuddyIInv, FreeOK, HeldOK, ApartHeld

LEMMA BuddyStep == BuddyIInv /\ [BuddyNext]_buddyVars => BuddyIInv'
  <1> SUFFICES ASSUME BuddyIInv, [BuddyNext]_buddyVars PROVE BuddyIInv'
    OBVIOUS
  <1>1. ASSUME NEW k \in Orders, Alloc(k) PROVE BuddyIInv'
    BY <1>1, AllocStep
  <1>2. ASSUME NEW k \in Orders, NEW p \in Pages, Free(p, k) PROVE BuddyIInv'
    BY <1>2, FreeStep
  <1>3. ASSUME NEW p \in Pages, FreeShort(p) PROVE BuddyIInv'
    BY <1>3, FreeShortStep
  <1>4. CASE UNCHANGED buddyVars
    BY <1>4 DEF buddyVars, BuddyIInv
  <1> QED
    BY <1>1, <1>2, <1>3, <1>4 DEF BuddyNext

(* The inductive invariant, for any memory, any number of orders and blocks  *)
(* that need not be aligned.                                                 *)
THEOREM BuddyInvariance == BuddySpec => []BuddyIInv
  BY BuddyInitially, BuddyStep, PTL DEF BuddySpec

(* Blocks that are apart have no page in common. *)
LEMMA ApartPages ==
  ASSUME NEW b, NEW c, b[1] \in Int, c[1] \in Int, Size[b[2]] \in Nat, Size[c[2]] \in Nat,
         Apart(b[1], Size[b[2]], c[1], Size[c[2]])
  PROVE  PagesOf(b) \cap PagesOf(c) = {}
  BY DEF Apart, PagesOf

(* No page is in two blocks, free or given out: through every sequence of    *)
(* splits, merges with any neighbour, and frees that give back less than     *)
(* what was taken (vmm_page_alloc, vmm_page_merge, vmm_page_free).           *)
THEOREM PagesStayApart == BuddySpec => []NoOverlap
  <1>1. ASSUME BuddyIInv PROVE NoOverlap
    <2>1. \A k \in Orders : Size[k] \in Nat
      BY SizeFacts
    <2>2. ASSUME NEW w \in Places
          PROVE  /\ w[1] \in Orders /\ w[2] \in 1 .. Len(area[w[1]]) /\ w = <<w[1], w[2]>>
                 /\ At(w)[1] = area[w[1]][w[2]] /\ At(w)[2] = w[1] /\ At(w)[1] \in Int
      <3>1. w[1] \in Orders /\ w[2] \in 1 .. EndPage /\ w = <<w[1], w[2]>> /\ w[2] <= Len(area[w[1]])
        BY DEF Places
      <3>2. area[w[1]] \in Seq(Pages)
        BY <1>1, <3>1 DEF BuddyIInv, FreeOK
      <3>3. w[2] \in 1 .. Len(area[w[1]])
        BY <3>1, <3>2
      <3>4. area[w[1]][w[2]] \in Int
        <4>1. area[w[1]][w[2]] \in Pages
          BY <3>2, <3>3
        <4> QED
          BY <4>1 DEF Pages
      <3> QED
        BY <3>1, <3>3, <3>4 DEF At
    <2>3. ASSUME NEW b \in held PROVE b[1] \in Int /\ b[2] \in Orders
      BY <1>1 DEF BuddyIInv, HeldOK, Pages
    <2>4. ASSUME NEW v \in Places, NEW w \in Places, v # w
          PROVE  PagesOf(At(v)) \cap PagesOf(At(w)) = {}
      <3>1. <<v[1], v[2]>> # <<w[1], w[2]>>
        BY <2>2, <2>4
      <3>2. Apart(area[v[1]][v[2]], Size[v[1]], area[w[1]][w[2]], Size[w[1]])
        BY <1>1, <2>2, <3>1 DEF BuddyIInv, FreeOK
      <3> QED
        BY <2>1, <2>2, <3>2, ApartPages
    <2>5. ASSUME NEW w \in Places, NEW b \in held
          PROVE  PagesOf(At(w)) \cap PagesOf(b) = {}
      <3>1. Apart(area[w[1]][w[2]], Size[w[1]], b[1], Size[b[2]])
        BY <1>1, <2>2 DEF BuddyIInv, FreeOK, ApartHeld
      <3> QED
        BY <2>1, <2>2, <2>3, <3>1, ApartPages
    <2>6. ASSUME NEW b \in held, NEW c \in held, b # c
          PROVE  PagesOf(b) \cap PagesOf(c) = {}
      <3>1. Apart(b[1], Size[b[2]], c[1], Size[c[2]])
        BY <1>1, <2>6 DEF BuddyIInv, HeldOK
      <3> QED
        BY <2>1, <2>3, <3>1, ApartPages
    <2> QED
      BY <2>4, <2>5, <2>6 DEF NoOverlap
  <1> QED
    BY <1>1, BuddyInvariance, PTL

(* The buddy allocator implements the pool of pages: what it gives is a      *)
(* block of the size asked for that lies in the memory and that nobody       *)
(* holds a page of; what comes back was given out.                           *)
THEOREM BuddyImplementsPool == BuddySpec => ImplementsPool
  <1>1. BuddyInit => Pool!PInit
    BY DEF BuddyInit, Pool!PInit
  <1>2. ASSUME BuddyIInv, [BuddyNext]_buddyVars PROVE [Pool!PNext]_held
    <2>1. ASSUME NEW k \in Orders, Alloc(k) PROVE Pool!PNext
      <3>1. PICK b \in Pages \X Orders :
              Inside(b[1], b[2]) /\ ApartHeld(held, b[1], Size[b[2]]) /\ held' = held \cup {b}
        BY <1>2, <2>1, AllocStep
      <3>2. b[1] \in Int /\ b[2] \in Orders /\ Size[b[2]] \in Nat
        BY SizeFacts DEF Pages
      <3>3. PagesOf(b) \subseteq Pages
        BY <3>1, <3>2, SizeFacts DEF Inside, PagesOf, Pages
      <3>4. ASSUME NEW c \in held PROVE PagesOf(b) \cap PagesOf(c) = {}
        <4>1. c[1] \in Int /\ c[2] \in Orders
          BY <1>2 DEF BuddyIInv, HeldOK, Pages
        <4>2. Size[c[2]] \in Nat /\ Apart(b[1], Size[b[2]], c[1], Size[c[2]])
          BY <3>1, <4>1, SizeFacts DEF ApartHeld
        <4> QED
          BY <3>2, <4>1, <4>2, ApartPages
      <3>5. Pool!Give(b)
        BY <3>1, <3>3, <3>4 DEF Pool!Give, Pool!PagesOf, PagesOf
      <3> QED
        BY <3>5 DEF Pool!PNext
    <2>2. ASSUME NEW k \in Orders, NEW p \in Pages, Free(p, k) PROVE Pool!PNext
      <3>1. Pool!TakeBack(<<p, k>>)
        BY <2>2 DEF Free, Pool!TakeBack
      <3> QED
        BY <3>1 DEF Pool!PNext
    <2>3. ASSUME NEW p \in Pages, FreeShort(p) PROVE Pool!PNext
      <3>1. Pool!TakeBack(<<p, 1>>) /\ <<p, 1>> \in held
        BY <2>3 DEF FreeShort, Pool!TakeBack
      <3>2. <<p, 1>> \in Pages \X Orders
        BY <1>2, <3>1 DEF BuddyIInv, HeldOK
      <3> QED
        BY <3>1, <3>2 DEF Pool!PNext
    <2>4. CASE UNCHANGED buddyVars
      BY <2>4 DEF buddyVars
    <2> QED
      BY <1>2, <2>1, <2>2, <2>3, <2>4 DEF BuddyNext
  <1> QED
    BY <1>1, <1>2, BuddyInvariance, PTL DEF BuddySpec, ImplementsPool, Pool!PSpec

(* ------------------------- pids and devices ----------------------------- *)

LEMMA LeastIs ==
  ASSUME NEW S \in SUBSET Nat, S # {}
  PROVE  /\ Least(S) \in S /\ \A j \in S : Least(S) <= j
         /\ \A m \in S : (\A j \in S : m <= j) => Least(S) = m
  <1>1. \E k \in S : \A j \in S : k <= j
    BY LeastNat
  <1>2. Least(S) \in S /\ \A j \in S : Least(S) <= j
    BY <1>1 DEF Least
  <1>3. ASSUME NEW m \in S, \A j \in S : m <= j PROVE Least(S) = m
    <2>1. Least(S) \in Nat /\ m \in Nat /\ Least(S) <= m /\ m <= Least(S)
      BY <1>2, <1>3
    <2> QED
      BY <2>1
  <1> QED
    BY <1>2, <1>3

\* The fastmappers with arrays of u cells, each of which holds one of V.
Mappers(u, V) == [unit : {u}, arrays : Seq([start : Nat, elems : [0 .. u - 1 -> V]])]

LEMMA ArraysAre ==
  ASSUME NEW u \in Nat, NEW V, NEW map \in Mappers(u, V)
  PROVE  /\ map.unit = u /\ Len(map.arrays) \in Nat /\ DOMAIN map.arrays = 1 .. Len(map.arrays)
         /\ \A k \in 1 .. Len(map.arrays) :
              /\ map.arrays[k] \in [start : Nat, elems : [0 .. u - 1 -> V]]
              /\ map.arrays[k].start \in Nat /\ map.arrays[k].elems \in [0 .. u - 1 -> V]
         /\ \A id : ArraysOf(map, id) \in SUBSET Nat
  <1>1. map.unit = u /\ map.arrays \in Seq([start : Nat, elems : [0 .. u - 1 -> V]])
    BY DEF Mappers
  <1>2. Len(map.arrays) \in Nat /\ DOMAIN map.arrays = 1 .. Len(map.arrays)
    BY <1>1
  <1>3. \A k \in 1 .. Len(map.arrays) : map.arrays[k] \in [start : Nat, elems : [0 .. u - 1 -> V]]
    <2> DEFINE A == [start : Nat, elems : [0 .. u - 1 -> V]]
    <2>1. map.arrays \in Seq(A)
      BY <1>1
    <2> HIDE DEF A
    <2>2. \A k \in 1 .. Len(map.arrays) : map.arrays[k] \in A
      BY <2>1
    <2> QED
      BY <2>2 DEF A
  <1>4. \A k \in 1 .. Len(map.arrays) :
          map.arrays[k].start \in Nat /\ map.arrays[k].elems \in [0 .. u - 1 -> V]
    BY <1>3
  <1> QED
    BY <1>1, <1>2, <1>3, <1>4 DEF ArraysOf

\* Two ids of one array have different cells.
LEMMA CellsDiffer ==
  ASSUME NEW u \in Nat \ {0}, NEW x \in Nat, NEW y \in Nat, NEW s \in Nat,
         s <= x, x < s + u, s <= y, y < s + u, x # y
  PROVE  x % u # y % u
  <1>1. /\ x = (x \div u) * u + (x % u) /\ x % u \in Int /\ x \div u \in Int
        /\ y = (y \div u) * u + (y % u) /\ y % u \in Int /\ y \div u \in Int
    OBVIOUS
  <1> SUFFICES ASSUME x % u = y % u PROVE FALSE
    OBVIOUS
  <1>2. PICK p \in Int, q \in Int, r \in Int : x = p * u + r /\ y = q * u + r
    BY <1>1
  <1>3. (p - q) * u = p * u - q * u /\ (p - q) * u = x - y /\ p - q \in Int
    BY <1>2
  <1>4. PICK d \in Int : d * u = x - y
    BY <1>3
  <1>5. d # 0
    BY <1>4
  <1>6. CASE d >= 1
    <2>1. PICK e \in Nat : d = e + 1
      <3>1. d - 1 \in Nat /\ d = (d - 1) + 1
        BY <1>6
      <3> QED
        BY <3>1
    <2>2. (e + 1) * u = e * u + u /\ e * u \in Nat
      OBVIOUS
    <2> QED
      BY <1>4, <2>1, <2>2
  <1>7. CASE d <= -1
    <2>1. PICK e \in Nat : d = -(e + 1)
      <3>1. -d - 1 \in Nat /\ d = -((-d - 1) + 1)
        BY <1>7
      <3> QED
        BY <3>1
    <2>2. (-(e + 1)) * u = -(e * u + u) /\ e * u \in Nat
      OBVIOUS
    <2> QED
      BY <1>4, <2>1, <2>2
  <1> QED
    BY <1>5, <1>6, <1>7

\* fastmapper_add when the id has an array.
LEMMA AddInPlace ==
  ASSUME NEW u \in Nat \ {0}, NEW V, NEW map \in Mappers(u, V), NEW elem \in V, NEW id \in Nat,
         NEW granted, ArraysOf(map, id) # {}
  PROVE  LET new == FastmapperAdd(map, elem, id, granted)
         IN  /\ new \in Mappers(u, V)
             /\ FastmapperGet(new, id) = elem
             /\ \A x \in Nat : ArraysOf(new, x) = ArraysOf(map, x)
             /\ \A x \in Nat : x # id => FastmapperGet(new, x) = FastmapperGet(map, x)
  <1> DEFINE k == Least(ArraysOf(map, id))
             c == id % u
             new == FastmapperAdd(map, elem, id, granted)
  <1>1. /\ map.unit = u /\ Len(map.arrays) \in Nat /\ DOMAIN map.arrays = 1 .. Len(map.arrays)
        /\ \A r \in 1 .. Len(map.arrays) :
             /\ map.arrays[r] \in [start : Nat, elems : [0 .. u - 1 -> V]]
             /\ map.arrays[r].start \in Nat /\ map.arrays[r].elems \in [0 .. u - 1 -> V]
        /\ \A x : ArraysOf(map, x) \in SUBSET Nat
    BY ArraysAre
  <1>2. k \in ArraysOf(map, id)
    BY <1>1, LeastIs
  <1>3. k \in 1 .. Len(map.arrays) /\ InArray(map, k, id)
    BY <1>1, <1>2 DEF ArraysOf
  <1>4. c \in 0 .. u - 1
    OBVIOUS
  <1>5. new = [map EXCEPT !.arrays[k].elems[c] = elem]
    BY <1>1 DEF FastmapperAdd
  <1> HIDE DEF new, k, c
  <1> DEFINE cells == [map.arrays[k].elems EXCEPT ![c] = elem]
             arr == [map.arrays[k] EXCEPT !.elems = cells]
  <1>6. cells \in [0 .. u - 1 -> V] /\ cells[c] = elem /\ \A i \in 0 .. u - 1 : i # c => cells[i] = map.arrays[k].elems[i]
    BY <1>1, <1>3, <1>4
  <1>7. new = [map EXCEPT !.arrays = [map.arrays EXCEPT ![k] = arr]]
    BY <1>5
  <1> HIDE DEF cells
  <1>8. arr \in [start : Nat, elems : [0 .. u - 1 -> V]] /\ arr.start = map.arrays[k].start /\ arr.elems = cells
    BY <1>1, <1>3, <1>6
  <1> HIDE DEF arr
  <1>9. map.arrays \in Seq([start : Nat, elems : [0 .. u - 1 -> V]]) /\ map \in [unit : {u}, arrays : Seq([start : Nat, elems : [0 .. u - 1 -> V]])]
    BY DEF Mappers
  <1> DEFINE A == [start : Nat, elems : [0 .. u - 1 -> V]]
             narr == [map.arrays EXCEPT ![k] = arr]
  <1> HIDE DEF A
  <1>10. /\ narr \in Seq(A) /\ Len(narr) = Len(map.arrays) /\ DOMAIN narr = 1 .. Len(map.arrays)
         /\ narr[k] = arr /\ \A r \in 1 .. Len(map.arrays) : r # k => narr[r] = map.arrays[r]
    <2>1. map.arrays \in Seq(A) /\ arr \in A
      BY <1>8, <1>9 DEF A
    <2> QED
      BY <1>3, <2>1
  <1> HIDE DEF narr
  <1>11. new \in Mappers(u, V) /\ new.unit = u /\ new.arrays = narr
    BY <1>7, <1>9, <1>10 DEF Mappers, A, narr
  <1>12. \A r \in 1 .. Len(map.arrays) : new.arrays[r].start = map.arrays[r].start
    BY <1>8, <1>10, <1>11
  <1>13. \A x \in Nat : ArraysOf(new, x) = ArraysOf(map, x)
    BY <1>1, <1>10, <1>11, <1>12 DEF ArraysOf, InArray
  <1>14. FastmapperGet(new, id) = elem
    BY <1>2, <1>6, <1>8, <1>10, <1>11, <1>13 DEF FastmapperGet, k, c
  <1>15. ASSUME NEW x \in Nat, x # id PROVE FastmapperGet(new, x) = FastmapperGet(map, x)
    <2>1. CASE ArraysOf(map, x) = {}
      BY <1>13, <2>1 DEF FastmapperGet
    <2>2. CASE ArraysOf(map, x) # {}
      <3> DEFINE l == Least(ArraysOf(map, x))
      <3>1. l \in ArraysOf(map, x)
        BY <1>1, <2>2, LeastIs
      <3>2. l \in 1 .. Len(map.arrays) /\ InArray(map, l, x)
        BY <1>1, <3>1 DEF ArraysOf
      <3>3. FastmapperGet(new, x) = new.arrays[l].elems[x % u] /\ FastmapperGet(map, x) = map.arrays[l].elems[x % u]
        BY <1>1, <1>11, <1>13, <2>2 DEF FastmapperGet
      <3>4. x % u \in 0 .. u - 1
        OBVIOUS
      <3> HIDE DEF l
      <3>5. CASE l # k
        BY <1>10, <1>11, <3>2, <3>3, <3>5
      <3>6. CASE l = k
        <4>1. x % u # c
          BY <1>1, <1>3, <1>15, <3>2, <3>6, CellsDiffer DEF InArray, c
        <4> QED
          BY <1>6, <1>8, <1>10, <1>11, <3>3, <3>4, <3>6, <4>1
      <3> QED
        BY <3>5, <3>6
    <2> QED
      BY <2>1, <2>2
  <1> QED
    BY <1>11, <1>13, <1>14, <1>15 DEF new

\* fastmapper_add when the id has no array yet and the memory for one is there.
WithArray(map, u, id, elem) ==
  [map EXCEPT !.arrays = Append(@,
     [start |-> (id \div u) * u,
      elems |-> [i \in 0 .. u - 1 |-> IF i = id % u THEN elem ELSE Garbage]])]

LEMMA AddAppends ==
  ASSUME NEW u \in Nat \ {0}, NEW V, Garbage \in V, NEW map \in Mappers(u, V), NEW elem \in V,
         NEW id \in Nat, ArraysOf(map, id) = {}
  PROVE  LET new == WithArray(map, u, id, elem)
         IN  /\ new \in Mappers(u, V)
             /\ FastmapperGet(new, id) = elem
             /\ \A x \in Nat : ArraysOf(map, x) # {} => FastmapperGet(new, x) = FastmapperGet(map, x)
  <1> DEFINE c == id % u
             A == [start : Nat, elems : [0 .. u - 1 -> V]]
             added == [start |-> (id \div u) * u,
                       elems |-> [i \in 0 .. u - 1 |-> IF i = c THEN elem ELSE Garbage]]
             n == Len(map.arrays)
             arrs == Append(map.arrays, added)
             new == WithArray(map, u, id, elem)
  <1>1. /\ map.unit = u /\ n \in Nat /\ DOMAIN map.arrays = 1 .. n
        /\ map.arrays \in Seq(A) /\ map \in [unit : {u}, arrays : Seq(A)]
        /\ \A x : ArraysOf(map, x) \in SUBSET Nat
    <2>1. map.unit = u /\ n \in Nat /\ DOMAIN map.arrays = 1 .. n /\ \A x : ArraysOf(map, x) \in SUBSET Nat
      BY ArraysAre
    <2>2. map.arrays \in Seq(A) /\ map \in [unit : {u}, arrays : Seq(A)]
      BY DEF Mappers
    <2> QED
      BY <2>1, <2>2
  <1>2. c \in 0 .. u - 1 /\ (id \div u) * u \in Nat /\ (id \div u) * u <= id /\ id < (id \div u) * u + u
    BY Quotient
  <1>3. new = [map EXCEPT !.arrays = arrs]
    BY DEF WithArray
  <1> HIDE DEF new
  <1>4. added \in A /\ added.start = (id \div u) * u /\ added.elems[c] = elem
    BY <1>2
  <1> HIDE DEF added, c, A
  <1>5. /\ arrs \in Seq(A) /\ DOMAIN arrs = 1 .. n + 1 /\ arrs[n + 1] = added
        /\ \A r \in 1 .. n : arrs[r] = map.arrays[r]
    BY <1>1, <1>4
  <1> HIDE DEF arrs, n
  <1>6. new \in Mappers(u, V) /\ new.unit = u /\ new.arrays = arrs
    BY <1>1, <1>3, <1>5 DEF Mappers, A
  <1>7. \A x \in Nat : ArraysOf(new, x) = ArraysOf(map, x) \cup {k \in {n + 1} : InArray(new, k, x)}
    <2>1. \A x \in Nat, r \in 1 .. n : InArray(new, r, x) <=> InArray(map, r, x)
      BY <1>1, <1>5, <1>6 DEF InArray
    <2>2. 1 .. n + 1 = 1 .. n \cup {n + 1}
      BY <1>1
    <2> QED
      BY <1>1, <1>5, <1>6, <2>1, <2>2 DEF ArraysOf
  <1>8. InArray(new, n + 1, id)
    BY <1>2, <1>4, <1>5, <1>6 DEF InArray
  <1>9. ArraysOf(new, id) = {n + 1}
    BY <1>7, <1>8
  <1>10. Least(ArraysOf(new, id)) = n + 1
    <2>1. {n + 1} \in SUBSET Nat /\ {n + 1} # {}
      BY <1>1
    <2>2. Least({n + 1}) \in {n + 1}
      BY <2>1, LeastIs
    <2> QED
      BY <1>9, <2>2
  <1>11. FastmapperGet(new, id) = elem
    BY <1>4, <1>5, <1>6, <1>9, <1>10 DEF FastmapperGet, c
  <1>12. ASSUME NEW x \in Nat, ArraysOf(map, x) # {} PROVE FastmapperGet(new, x) = FastmapperGet(map, x)
    <2> DEFINE l == Least(ArraysOf(map, x))
    <2>1. l \in ArraysOf(map, x) /\ \A j \in ArraysOf(map, x) : l <= j
      BY <1>1, <1>12, LeastIs
    <2>2. l \in 1 .. n
      BY <1>1, <2>1 DEF ArraysOf
    <2> HIDE DEF l
    <2>3. l \in ArraysOf(new, x) /\ \A j \in ArraysOf(new, x) : l <= j
      BY <1>1, <1>7, <2>1, <2>2
    <2>4. ArraysOf(new, x) \in SUBSET Nat
      BY <1>6, ArraysAre
    <2>5. Least(ArraysOf(new, x)) = l
      BY <2>3, <2>4, LeastIs
    <2>6. FastmapperGet(new, x) = arrs[l].elems[x % u]
      BY <1>6, <2>3, <2>5 DEF FastmapperGet
    <2>7. FastmapperGet(map, x) = map.arrays[l].elems[x % u]
      BY <1>1, <1>12 DEF FastmapperGet, l
    <2> QED
      BY <1>5, <2>2, <2>6, <2>7
  <1> QED
    BY <1>6, <1>11, <1>12 DEF new

\* fastmapper_add: what was added is found, and nothing that was found is lost.
LEMMA AddIs ==
  ASSUME NEW u \in Nat \ {0}, NEW V, Garbage \in V, NEW map \in Mappers(u, V), NEW elem \in V,
         NEW id \in Nat, NEW granted \in BOOLEAN
  PROVE  LET new == FastmapperAdd(map, elem, id, granted)
         IN  /\ new \in Mappers(u, V)
             /\ ArraysOf(map, id) # {} \/ granted => FastmapperGet(new, id) = elem
             /\ \A x \in Nat : x # id /\ ArraysOf(map, x) # {} =>
                  FastmapperGet(new, x) = FastmapperGet(map, x)
  <1>1. CASE ArraysOf(map, id) # {}
    BY <1>1, AddInPlace
  <1>2. CASE ArraysOf(map, id) = {} /\ granted
    <2> DEFINE new == WithArray(map, u, id, elem)
    <2>1. /\ new \in Mappers(u, V)
          /\ FastmapperGet(new, id) = elem
          /\ \A x \in Nat : ArraysOf(map, x) # {} => FastmapperGet(new, x) = FastmapperGet(map, x)
      BY <1>2, AddAppends
    <2>2. map.unit = u
      BY ArraysAre
    <2>3. new = FastmapperAdd(map, elem, id, granted)
      BY <1>2, <2>2 DEF FastmapperAdd, WithArray
    <2> HIDE DEF new
    <2> QED
      BY <2>1, <2>3
  <1>3. CASE ArraysOf(map, id) = {} /\ ~granted
    BY <1>3 DEF FastmapperAdd
  <1> QED
    BY <1>1, <1>2, <1>3

LEMMA InitMapper ==
  ASSUME NEW u \in Nat, NEW V, Null \in V
  PROVE  /\ FastmapperInit(u) \in Mappers(u, V)
         /\ Len(FastmapperInit(u).arrays) = 1 /\ FastmapperInit(u).arrays[1].start = 0
         /\ \A i \in 0 .. u - 1 : FastmapperInit(u).arrays[1].elems[i] = Null
  <1> DEFINE A == [start : Nat, elems : [0 .. u - 1 -> V]]
             first == [start |-> 0, elems |-> [i \in 0 .. u - 1 |-> Null]]
  <1>1. first \in A /\ first.start = 0 /\ \A i \in 0 .. u - 1 : first.elems[i] = Null
    OBVIOUS
  <1>2. FastmapperInit(u) = [unit |-> u, arrays |-> <<first>>]
    BY DEF FastmapperInit
  <1> HIDE DEF A, first
  <1>3. <<first>> \in Seq(A) /\ Len(<<first>>) = 1 /\ <<first>>[1] = first
    BY <1>1
  <1> QED
    BY <1>1, <1>2, <1>3 DEF Mappers, A

(* The pids: 0 stays with the main thread, a thread that has one is alone    *)
(* with it and has its bit set, and the mapper's arrays are well-formed.     *)
Cells == Tcbs \cup {Null, Garbage}

PidIInv ==
  /\ pidMapper \in Mappers(PidUnit, Cells)
  /\ kpidMap \subseteq PidBits
  /\ tid \in [Tcbs -> PidBits \cup {Null}]
  /\ entered \subseteq {t \in Tcbs : tid[t] # Null}
  /\ \A t \in Tcbs : tid[t] # Null => tid[t] \in kpidMap
  /\ \A i \in kpidMap : i # LastPid => \E t \in Tcbs : tid[t] = i
  /\ \A t, u \in Tcbs : t # u /\ tid[t] # Null => tid[t] # tid[u]
  /\ \A t \in entered : FastmapperGet(pidMapper, tid[t]) = t

LEMMA PidFacts ==
  /\ PidUnit \in Nat \ {0} /\ LastPid \in Nat /\ DevMax \in Nat
  /\ PidBits \in SUBSET Nat /\ 0 \in PidBits /\ Null \notin PidBits /\ Null \notin Tcbs /\ MainTcb \in Tcbs
  /\ Null \in Cells /\ Garbage \in Cells /\ \A t \in Tcbs : t \in Cells
  BY RegistryAssumption DEF PidBits, Cells

\* A thread that is found has an array, so that new arrays do not hide it.
LEMMA FoundHasArray ==
  ASSUME NEW map, NEW id, FastmapperGet(map, id) # Null
  PROVE  ArraysOf(map, id) # {}
  BY DEF FastmapperGet

LEMMA PidInitially == RegistryInit => PidIInv
  <1> SUFFICES ASSUME RegistryInit PROVE PidIInv
    OBVIOUS
  <1>1. pidMapper \in Mappers(PidUnit, Cells) /\ FastmapperGet(pidMapper, 0) = MainTcb
    <2>1. FastmapperInit(PidUnit) \in Mappers(PidUnit, Cells)
      BY InitMapper, PidFacts
    <2>2. pidMapper = FastmapperAdd(FastmapperInit(PidUnit), MainTcb, 0, TRUE)
      BY DEF RegistryInit
    <2> DEFINE map == FastmapperInit(PidUnit)
    <2>3. ArraysOf(map, 0) # {}
      <3>1. 1 \in DOMAIN map.arrays /\ map.arrays[1].start = 0 /\ map.unit = PidUnit
        BY DEF FastmapperInit
      <3> QED
        BY <3>1, PidFacts DEF ArraysOf, InArray
    <2> HIDE DEF map
    <2>4. PICK granted \in BOOLEAN, elem \in Cells, id \in Nat :
            /\ pidMapper = FastmapperAdd(map, elem, id, granted) /\ elem = MainTcb /\ id = 0
      BY <2>2, PidFacts DEF map
    <2>5. map \in Mappers(PidUnit, Cells) /\ ArraysOf(map, id) # {}
      BY <2>1, <2>3, <2>4 DEF map
    <2> QED
      BY <2>4, <2>5, AddInPlace, PidFacts
  <1>2. /\ kpidMap = {0} /\ entered = {MainTcb}
        /\ tid = [t \in Tcbs |-> IF t = MainTcb THEN 0 ELSE Null]
    BY DEF RegistryInit
  <1>3. 0 # Null /\ tid[MainTcb] = 0 /\ \A t \in Tcbs : t # MainTcb => tid[t] = Null
    BY <1>2, PidFacts
  <1> QED
    BY <1>1, <1>2, <1>3, PidFacts DEF PidIInv

\* thread_get_pid for thread t.
LEMMA GetPidStep ==
  ASSUME PidIInv, NEW t \in Tcbs, GetPid(t)
  PROVE  LET id == Least(FreeBits)
         IN  /\ id \in PidBits /\ id \in Nat /\ id # Null /\ id \notin kpidMap
             /\ kpidMap' \subseteq PidBits /\ tid' \in [Tcbs -> PidBits \cup {Null}]
             /\ tid'[t] = id /\ \A u \in Tcbs : u # t => tid'[u] = tid[u]
             /\ \A u \in Tcbs : tid[u] # id
             /\ \A u \in Tcbs : tid'[u] # Null => tid'[u] \in kpidMap'
             /\ \A i \in kpidMap' : i # LastPid => \E u \in Tcbs : tid'[u] = i
             /\ \A u, v \in Tcbs : u # v /\ tid'[u] # Null => tid'[u] # tid'[v]
  <1> DEFINE id == Least(FreeBits)
  <1>1. id \in FreeBits
    <2>1. FreeBits \in SUBSET Nat /\ FreeBits # {}
      BY PidFacts DEF GetPid, FreeBits
    <2> QED
      BY <2>1, LeastIs
  <1>2. id \in PidBits /\ id \in Nat /\ id # Null /\ id \notin kpidMap
    BY <1>1, PidFacts DEF FreeBits
  <1>3. kpidMap' = kpidMap \cup {id} /\ tid' = [tid EXCEPT ![t] = id] /\ tid[t] = Null
    BY DEF GetPid
  <1> HIDE DEF id
  <1>4. \A u \in Tcbs : tid[u] # id
    BY <1>2 DEF PidIInv
  <1>5. tid'[t] = id /\ \A u \in Tcbs : u # t => tid'[u] = tid[u]
    BY <1>3 DEF PidIInv
  <1>6. kpidMap' \subseteq PidBits /\ tid' \in [Tcbs -> PidBits \cup {Null}]
    BY <1>2, <1>3 DEF PidIInv
  <1>7. \A u \in Tcbs : tid'[u] # Null => tid'[u] \in kpidMap'
    BY <1>3, <1>5 DEF PidIInv
  <1>8. \A i \in kpidMap' : i # LastPid => \E u \in Tcbs : tid'[u] = i
    <2> SUFFICES ASSUME NEW i \in kpidMap', i # LastPid PROVE \E u \in Tcbs : tid'[u] = i
      OBVIOUS
    <2>1. CASE i = id
      BY <1>5, <2>1
    <2>2. CASE i # id
      <3>1. PICK u \in Tcbs : tid[u] = i
        BY <1>3, <2>2 DEF PidIInv
      <3>2. i # Null
        BY <1>3, <2>2, PidFacts DEF PidIInv
      <3> QED
        BY <1>3, <1>5, <3>1, <3>2
    <2> QED
      BY <2>1, <2>2
  <1>9. \A u, v \in Tcbs : u # v /\ tid'[u] # Null => tid'[u] # tid'[v]
    BY <1>4, <1>5 DEF PidIInv
  <1> QED
    BY <1>2, <1>4, <1>5, <1>6, <1>7, <1>8, <1>9 DEF id

LEMMA CreateThreadStep ==
  ASSUME PidIInv, NEW t \in Tcbs, NEW granted \in BOOLEAN, CreateThread(t, granted)
  PROVE  PidIInv'
  <1> DEFINE id == Least(FreeBits)
  <1>1. GetPid(t)
    BY DEF CreateThread
  <1>2. /\ id \in PidBits /\ id \in Nat /\ id # Null
        /\ kpidMap' \subseteq PidBits /\ tid' \in [Tcbs -> PidBits \cup {Null}]
        /\ tid'[t] = id /\ \A u \in Tcbs : u # t => tid'[u] = tid[u]
        /\ \A u \in Tcbs : tid[u] # id
        /\ \A u \in Tcbs : tid'[u] # Null => tid'[u] \in kpidMap'
        /\ \A i \in kpidMap' : i # LastPid => \E u \in Tcbs : tid'[u] = i
        /\ \A u, v \in Tcbs : u # v /\ tid'[u] # Null => tid'[u] # tid'[v]
    BY <1>1, GetPidStep
  <1>3. /\ pidMapper' = FastmapperAdd(pidMapper, t, id, granted)
        /\ entered' = IF ArraysOf(pidMapper, id) # {} \/ granted THEN entered \cup {t} ELSE entered
        /\ tid[t] = Null
    BY DEF CreateThread, GetPid
  <1> HIDE DEF id
  <1>4. /\ pidMapper' \in Mappers(PidUnit, Cells)
        /\ ArraysOf(pidMapper, id) # {} \/ granted => FastmapperGet(pidMapper', id) = t
        /\ \A x \in Nat : x # id /\ ArraysOf(pidMapper, x) # {} =>
             FastmapperGet(pidMapper', x) = FastmapperGet(pidMapper, x)
    BY <1>2, <1>3, AddIs, PidFacts DEF PidIInv
  <1>5. ASSUME NEW u \in entered
        PROVE  FastmapperGet(pidMapper', tid'[u]) = u /\ u \in Tcbs /\ tid'[u] # Null
    <2>1. u \in Tcbs /\ tid[u] # Null /\ tid[u] \in Nat /\ FastmapperGet(pidMapper, tid[u]) = u /\ u # Null
      BY PidFacts DEF PidIInv
    <2>2. ArraysOf(pidMapper, tid[u]) # {}
      BY <2>1, FoundHasArray
    <2> QED
      BY <1>2, <1>3, <1>4, <2>1, <2>2
  <1>6. entered' \subseteq {u \in Tcbs : tid'[u] # Null}
    BY <1>2, <1>3, <1>5
  <1>7. \A u \in entered' : FastmapperGet(pidMapper', tid'[u]) = u
    BY <1>2, <1>3, <1>4, <1>5
  <1> QED
    BY <1>2, <1>4, <1>6, <1>7 DEF PidIInv

LEMMA ForkThreadStep ==
  ASSUME PidIInv, NEW t \in Tcbs, ForkThread(t)
  PROVE  PidIInv'
  <1>1. GetPid(t) /\ tid[t] = Null /\ pidMapper' = pidMapper /\ entered' = entered
    BY DEF ForkThread, GetPid
  <1>2. t \notin entered
    BY <1>1 DEF PidIInv
  <1> DEFINE id == Least(FreeBits)
  <1>3. /\ kpidMap' \subseteq PidBits /\ tid' \in [Tcbs -> PidBits \cup {Null}]
        /\ \A u \in Tcbs : u # t => tid'[u] = tid[u]
        /\ \A u \in Tcbs : tid'[u] # Null => tid'[u] \in kpidMap'
        /\ \A i \in kpidMap' : i # LastPid => \E u \in Tcbs : tid'[u] = i
        /\ \A u, v \in Tcbs : u # v /\ tid'[u] # Null => tid'[u] # tid'[v]
    BY <1>1, GetPidStep
  <1>4. \A u \in entered : u \in Tcbs /\ tid'[u] = tid[u] /\ tid[u] # Null
    BY <1>2, <1>3 DEF PidIInv
  <1>5. entered' \subseteq {u \in Tcbs : tid'[u] # Null} /\ \A u \in entered' : FastmapperGet(pidMapper', tid'[u]) = u
    BY <1>1, <1>4 DEF PidIInv
  <1> QED
    BY <1>1, <1>3, <1>5 DEF PidIInv

LEMMA CleanUpStep ==
  ASSUME PidIInv, NEW t \in Tcbs, CleanUpDead(t)
  PROVE  PidIInv'
  <1>1. /\ tid[t] # Null /\ kpidMap' = Released(tid[t]) /\ tid' = [tid EXCEPT ![t] = Null]
        /\ entered' = entered \ {t} /\ pidMapper' = pidMapper
    BY DEF CleanUpDead
  <1>2. tid[t] \in PidBits /\ tid[t] \in Nat /\ tid[t] <= LastPid
    BY <1>1, PidFacts DEF PidIInv, PidBits
  <1>3. kpidMap' \subseteq kpidMap /\ kpidMap \ {tid[t]} \subseteq kpidMap'
        /\ (tid[t] # LastPid => tid[t] \notin kpidMap')
    BY <1>1, <1>2, PidFacts DEF Released
  <1>4. tid' \in [Tcbs -> PidBits \cup {Null}] /\ tid'[t] = Null /\ \A u \in Tcbs : u # t => tid'[u] = tid[u]
    BY <1>1 DEF PidIInv
  <1>5. kpidMap' \subseteq PidBits /\ \A u \in Tcbs : tid'[u] # Null => tid'[u] \in kpidMap'
    BY <1>1, <1>3, <1>4 DEF PidIInv
  <1>6. \A i \in kpidMap' : i # LastPid => \E u \in Tcbs : tid'[u] = i
    <2> SUFFICES ASSUME NEW i \in kpidMap', i # LastPid PROVE \E u \in Tcbs : tid'[u] = i
      OBVIOUS
    <2>1. PICK u \in Tcbs : tid[u] = i
      BY <1>3 DEF PidIInv
    <2>2. u # t
      BY <1>3, <2>1
    <2> QED
      BY <1>4, <2>1, <2>2
  <1>7. \A u, v \in Tcbs : u # v /\ tid'[u] # Null => tid'[u] # tid'[v]
    BY <1>4 DEF PidIInv
  <1>8. entered' \subseteq {u \in Tcbs : tid'[u] # Null} /\ \A u \in entered' : FastmapperGet(pidMapper', tid'[u]) = u
    BY <1>1, <1>4 DEF PidIInv
  <1> QED
    BY <1>1, <1>4, <1>5, <1>6, <1>7, <1>8 DEF PidIInv

LEMMA PidStep == PidIInv /\ [RegistryNext]_regVars => PidIInv'
  <1> SUFFICES ASSUME PidIInv, [RegistryNext]_regVars PROVE PidIInv'
    OBVIOUS
  <1>1. ASSUME NEW t \in Tcbs, NEW granted \in BOOLEAN, CreateThread(t, granted) PROVE PidIInv'
    BY <1>1, CreateThreadStep
  <1>2. ASSUME NEW t \in Tcbs, ForkThread(t) PROVE PidIInv'
    BY <1>2, ForkThreadStep
  <1>3. ASSUME NEW t \in Tcbs, CleanUpDead(t) PROVE PidIInv'
    BY <1>3, CleanUpStep
  <1>4. CASE NoPidLeft
    BY <1>4 DEF NoPidLeft, PidIInv
  <1>5. ASSUME NEW made \in BOOLEAN, DeviceAdd(made) PROVE PidIInv'
    BY <1>5 DEF DeviceAdd, PidIInv
  <1>6. CASE DeviceEnum
    BY <1>6 DEF DeviceEnum, PidIInv
  <1>7. CASE UNCHANGED regVars
    BY <1>7 DEF regVars, PidIInv
  <1> QED
    BY <1>1, <1>2, <1>3, <1>4, <1>5, <1>6, <1>7 DEF RegistryNext

(* For any number of threads and pids and arrays of any size: get_tcb of a   *)
(* thread that was entered gives that thread as long as it lives, no two     *)
(* live threads have one pid, and of the pids only the last one can be lost. *)
THEOREM PidsFindTheirThreads == RegistrySpec => []PidMap
  <1>1. ASSUME PidIInv PROVE PidMap
    <2>1. CreatedFound
      BY <1>1 DEF PidIInv, CreatedFound
    <2>2. PidsReturned
      <3> DEFINE have == {tid[t] : t \in {u \in Tcbs : tid[u] # Null}}
      <3>1. have \subseteq kpidMap
        BY <1>1 DEF PidIInv
      <3>2. kpidMap \ have \subseteq {LastPid}
        <4> SUFFICES ASSUME NEW i \in kpidMap, i # LastPid PROVE i \in have
          OBVIOUS
        <4>1. PICK t \in Tcbs : tid[t] = i
          BY <1>1 DEF PidIInv
        <4>2. i # Null
          BY <1>1, PidFacts DEF PidIInv
        <4> QED
          BY <4>1, <4>2
      <3> QED
        BY <3>1, <3>2 DEF PidsReturned
    <2> QED
      BY <2>1, <2>2 DEF PidMap
  <1> QED
    BY <1>1, PidInitially, PidStep, PTL DEF RegistrySpec

(* dev_list keeps its one array, whose first cells are the devices that      *)
(* arrived, in order; the entries of /dev are made once all have had a turn. *)
DeviceSet == {Devices[i] : i \in DOMAIN Devices}

DevCells == DeviceSet \cup {Null}

ShownCount == IF Len(arrived) <= DevMax THEN Len(arrived) ELSE DevMax

DevIInv ==
  /\ devList \in Mappers(DevMax, DevCells)
  /\ Len(devList.arrays) = 1 /\ devList.arrays[1].start = 0
  /\ arrived \in Seq(DeviceSet)
  /\ \A i \in 0 .. DevMax - 1 :
       devList.arrays[1].elems[i] = IF i < Len(arrived) THEN arrived[i + 1] ELSE Null
  /\ offered \in 0 .. Len(Devices)
  /\ devNodes # Null => offered = Len(Devices) /\ devNodes = SubSeq(arrived, 1, ShownCount)

LEMMA DevFacts ==
  /\ DevMax \in Nat /\ Null \notin DeviceSet /\ Devices \in Seq(DeviceSet) /\ Len(Devices) \in Nat
  <1>1. Devices \in Seq(DeviceSet)
    BY RegistryAssumption DEF DeviceSet
  <1>2. Len(Devices) \in Nat
    BY <1>1
  <1> QED
    BY <1>1, <1>2, RegistryAssumption DEF DeviceSet

\* A search in one array goes by its cells.
LEMMA OneArray ==
  ASSUME NEW u \in Nat, NEW V, NEW map \in Mappers(u, V), Len(map.arrays) = 1, NEW W,
         PlacesOf(map, W) # {}
  PROVE  /\ FirstPlace(PlacesOf(map, W)) \in PlacesOf(map, W)
         /\ \E c \in 0 .. u - 1 :
              /\ FirstPlace(PlacesOf(map, W)) = <<1, c>> /\ map.arrays[1].elems[c] \in W
              /\ \A d \in 0 .. u - 1 : map.arrays[1].elems[d] \in W => c <= d
  <1> DEFINE S == PlacesOf(map, W)
             C == {c \in 0 .. u - 1 : map.arrays[1].elems[c] \in W}
  <1>1. map.unit = u /\ DOMAIN map.arrays = {1}
    <2>1. map.unit = u /\ DOMAIN map.arrays = 1 .. 1
      BY ArraysAre
    <2>2. 1 .. 1 = {1}
      OBVIOUS
    <2> QED
      BY <2>1, <2>2
  <1>2. /\ \A p \in S : p[1] = 1 /\ p[2] \in C /\ p = <<1, p[2]>>
        /\ \A c \in C : <<1, c>> \in S
    BY <1>1 DEF PlacesOf
  <1>3. C \in SUBSET Nat /\ C # {}
    BY <1>2
  <1>4. PICK m \in C : \A n \in C : m <= n
    BY <1>3, LeastNat
  <1> HIDE DEF S, C
  <1>5. \E p \in S : \A q \in S : p[1] < q[1] \/ (p[1] = q[1] /\ p[2] <= q[2])
    <2>1. <<1, m>> \in S /\ \A q \in S : 1 = q[1] /\ m <= q[2]
      BY <1>2, <1>4
    <2> QED
      BY <2>1
  <1> DEFINE P == FirstPlace(S)
  <1>6. P \in S /\ \A q \in S : P[1] < q[1] \/ (P[1] = q[1] /\ P[2] <= q[2])
    BY <1>5 DEF FirstPlace
  <1> HIDE DEF P
  <1>7. P = <<1, P[2]>> /\ P[2] \in C /\ P[1] = 1
    BY <1>2, <1>6
  <1>8. \A d \in C : P[2] <= d
    <2> SUFFICES ASSUME NEW d \in C PROVE P[2] <= d
      OBVIOUS
    <2> DEFINE q == <<1, d>>
    <2>1. q \in S /\ q[1] = 1 /\ q[2] = d
      BY <1>2
    <2> HIDE DEF q
    <2>2. P[1] < q[1] \/ (P[1] = q[1] /\ P[2] <= q[2])
      BY <1>6, <2>1
    <2> QED
      BY <1>7, <2>1, <2>2
  <1> QED
    BY <1>6, <1>7, <1>8 DEF C, P, S

LEMMA DevInitially == RegistryInit => DevIInv
  <1> SUFFICES ASSUME RegistryInit PROVE DevIInv
    OBVIOUS
  <1>1. /\ devList = FastmapperInit(DevMax) /\ arrived = << >> /\ offered = 0 /\ devNodes = Null
    BY DEF RegistryInit
  <1>2. /\ devList \in Mappers(DevMax, DevCells)
        /\ Len(devList.arrays) = 1 /\ devList.arrays[1].start = 0
        /\ \A i \in 0 .. DevMax - 1 : devList.arrays[1].elems[i] = Null
    BY <1>1, DevFacts, InitMapper DEF DevCells
  <1>3. arrived \in Seq(DeviceSet) /\ Len(arrived) = 0
    BY <1>1
  <1> QED
    BY <1>1, <1>2, <1>3, DevFacts DEF DevIInv

\* device_add puts a device in the first empty cell, if there is one.
LEMMA AddAutoIs ==
  ASSUME DevIInv, NEW elem \in DeviceSet
  PROVE  LET new == FastmapperAddAuto(devList, elem)
         IN  /\ new \in Mappers(DevMax, DevCells)
             /\ Len(new.arrays) = 1 /\ new.arrays[1].start = 0
             /\ \A i \in 0 .. DevMax - 1 :
                  new.arrays[1].elems[i] = IF i = Len(arrived) THEN elem ELSE devList.arrays[1].elems[i]
  <1> DEFINE free == PlacesOf(devList, {Null})
             new == FastmapperAddAuto(devList, elem)
             n == Len(arrived)
             A == [start : Nat, elems : [0 .. DevMax - 1 -> DevCells]]
             old == devList.arrays[1]
  <1>1. /\ DevMax \in Nat /\ n \in Nat /\ devList \in Mappers(DevMax, DevCells) /\ Len(devList.arrays) = 1
        /\ old.start = 0
        /\ \A i \in 0 .. DevMax - 1 : old.elems[i] = IF i < n THEN arrived[i + 1] ELSE Null
        /\ \A i \in 0 .. DevMax - 1 : i < n => old.elems[i] # Null
    BY DevFacts, SMTT(30) DEF DevIInv
  <1>2. /\ devList.arrays \in Seq(A) /\ devList \in [unit : {DevMax}, arrays : Seq(A)]
    BY DEF DevIInv, Mappers
  <1>3. /\ old \in [start : Nat, elems : [0 .. DevMax - 1 -> DevCells]]
        /\ old.elems \in [0 .. DevMax - 1 -> DevCells] /\ devList.unit = DevMax
        /\ DOMAIN devList.arrays = 1 .. 1
    BY <1>1, ArraysAre
  <1>4. CASE free = {}
    <2>1. new = devList
      BY <1>4 DEF FastmapperAddAuto
    <2>2. ~(n \in 0 .. DevMax - 1)
      <3> SUFFICES ASSUME n \in 0 .. DevMax - 1 PROVE FALSE
        OBVIOUS
      <3>1. old.elems[n] = Null
        BY <1>1
      <3>2. <<1, n>> \in free
        BY <1>3, <3>1 DEF PlacesOf
      <3> QED
        BY <1>4, <3>2
    <2> QED
      BY <1>1, <2>1, <2>2
  <1>5. CASE free # {}
    <2>1. PICK c \in 0 .. DevMax - 1 :
            /\ FirstPlace(free) = <<1, c>> /\ old.elems[c] = Null
            /\ \A d \in 0 .. DevMax - 1 : old.elems[d] = Null => c <= d
      <3> DEFINE W == {Null}
      <3>1. PlacesOf(devList, W) # {}
        BY <1>5
      <3> HIDE DEF W
      <3>2. PICK c \in 0 .. DevMax - 1 :
              /\ FirstPlace(PlacesOf(devList, W)) = <<1, c>> /\ old.elems[c] \in W
              /\ \A d \in 0 .. DevMax - 1 : old.elems[d] \in W => c <= d
        BY <1>1, <3>1, OneArray
      <3> QED
        BY <3>2 DEF W
    <2>2. c = n
      <3>1. ~(c < n) /\ c \in Nat
        BY <1>1, <2>1
      <3>2. n \in 0 .. DevMax - 1
        BY <1>1, <3>1
      <3>3. c <= n
        BY <1>1, <2>1, <3>2
      <3> QED
        BY <1>1, <3>1, <3>3
    <2> DEFINE cells == [old.elems EXCEPT ![c] = elem]
               arr == [old EXCEPT !.elems = cells]
               narr == [devList.arrays EXCEPT ![1] = arr]
    <2>3. new = [devList EXCEPT !.arrays = narr]
      <3>1. FirstPlace(free)[1] = 1 /\ FirstPlace(free)[2] = c
        BY <2>1
      <3>2. new = [devList EXCEPT !.arrays[FirstPlace(free)[1]].elems[FirstPlace(free)[2]] = elem]
        BY <1>5 DEF FastmapperAddAuto
      <3> HIDE DEF free, new
      <3> QED
        BY <3>1, <3>2
    <2>4. cells \in [0 .. DevMax - 1 -> DevCells]
          /\ \A i \in 0 .. DevMax - 1 : cells[i] = IF i = c THEN elem ELSE old.elems[i]
      BY <1>3 DEF DevCells
    <2> HIDE DEF cells, new
    <2>5. arr \in A /\ arr.start = 0 /\ arr.elems = cells
      BY <1>1, <1>3, <2>4
    <2> HIDE DEF arr, A
    <2>6. narr \in Seq(A) /\ Len(narr) = 1 /\ narr[1] = arr
      BY <1>1, <1>2, <2>5
    <2> HIDE DEF narr
    <2>7. new \in Mappers(DevMax, DevCells) /\ new.arrays = narr
      BY <1>2, <2>3, <2>6 DEF Mappers, A
    <2>8. /\ Len(new.arrays) = 1 /\ new.arrays[1].start = 0
          /\ \A i \in 0 .. DevMax - 1 : new.arrays[1].elems[i] = IF i = n THEN elem ELSE old.elems[i]
      BY <2>2, <2>4, <2>5, <2>6, <2>7
    <2> QED
      BY <2>7, <2>8 DEF new
  <1> QED
    BY <1>4, <1>5

LEMMA DeviceAddStep ==
  ASSUME DevIInv, NEW made \in BOOLEAN, DeviceAdd(made)
  PROVE  DevIInv'
  <1>1. /\ offered < Len(Devices) /\ offered' = offered + 1 /\ devNodes' = devNodes
        /\ devList' = IF made THEN FastmapperAddAuto(devList, Devices[offered + 1]) ELSE devList
        /\ arrived' = IF made THEN Append(arrived, Devices[offered + 1]) ELSE arrived
    BY DEF DeviceAdd
  <1>2. /\ offered \in 0 .. Len(Devices) /\ Len(Devices) \in Nat /\ DevMax \in Nat
        /\ arrived \in Seq(DeviceSet) /\ Len(arrived) \in Nat
    BY DevFacts DEF DevIInv
  <1>3. offered' \in 0 .. Len(Devices) /\ devNodes = Null
    BY <1>1, <1>2 DEF DevIInv
  <1>4. CASE ~made
    BY <1>1, <1>3, <1>4 DEF DevIInv
  <1>5. CASE made
    <2> DEFINE elem == Devices[offered + 1]
               n == Len(arrived)
    <2>1. elem \in DeviceSet
      BY <1>1, <1>2, DevFacts
    <2>2. devList' = FastmapperAddAuto(devList, elem) /\ arrived' = Append(arrived, elem)
      BY <1>1, <1>5
    <2> HIDE DEF elem
    <2>3. /\ devList' \in Mappers(DevMax, DevCells)
          /\ Len(devList'.arrays) = 1 /\ devList'.arrays[1].start = 0
          /\ \A i \in 0 .. DevMax - 1 :
               devList'.arrays[1].elems[i] = IF i = n THEN elem ELSE devList.arrays[1].elems[i]
      BY <2>1, <2>2, AddAutoIs
    <2>4. /\ arrived' \in Seq(DeviceSet) /\ Len(arrived') = n + 1 /\ arrived'[n + 1] = elem
          /\ \A i \in 1 .. n : arrived'[i] = arrived[i]
      BY <1>2, <2>1, <2>2
    <2>5. ASSUME NEW i \in 0 .. DevMax - 1
          PROVE  devList'.arrays[1].elems[i] = IF i < Len(arrived') THEN arrived'[i + 1] ELSE Null
      <3>1. devList.arrays[1].elems[i] = IF i < n THEN arrived[i + 1] ELSE Null
        BY DEF DevIInv
      <3> QED
        BY <1>2, <2>3, <2>4, <3>1
    <2> QED
      BY <1>1, <1>3, <2>3, <2>4, <2>5 DEF DevIInv
  <1> QED
    BY <1>4, <1>5

\* The walk of device_enum2 meets the devices that are on the list, in order.
LEMMA EnumeratedIs == DevIInv => Enumerated = SubSeq(arrived, 1, ShownCount)
  <1> SUFFICES ASSUME DevIInv PROVE Enumerated = SubSeq(arrived, 1, ShownCount)
    OBVIOUS
  <1> DEFINE n == ShownCount
             Ends == {i \in 0 .. DevMax : FastmapperGet(devList, i) = Null}
             e == Least(Ends)
  <1>1. /\ DevMax \in Nat /\ arrived \in Seq(DeviceSet) /\ Len(arrived) \in Nat
        /\ n \in Nat /\ n <= DevMax /\ n <= Len(arrived) /\ Null \notin DeviceSet
    BY DevFacts DEF DevIInv, ShownCount
  <1>2. /\ devList.unit = DevMax /\ DOMAIN devList.arrays = 1 .. 1 /\ devList.arrays[1].start = 0
    BY <1>1, ArraysAre DEF DevIInv
  <1>3. \A i \in Nat : i < DevMax => ArraysOf(devList, i) = {1}
    BY <1>1, <1>2 DEF ArraysOf, InArray
  <1>4. \A i \in Nat : ~(i < DevMax) => ArraysOf(devList, i) = {}
    BY <1>1, <1>2 DEF ArraysOf, InArray
  <1>5. Least({1}) = 1
    <2>1. {1} \in SUBSET Nat /\ {1} # {}
      OBVIOUS
    <2> QED
      BY <2>1, LeastIs
  <1>6. ASSUME NEW i \in 0 .. DevMax - 1
        PROVE  FastmapperGet(devList, i) = IF i < Len(arrived) THEN arrived[i + 1] ELSE Null
    <2>1. ArraysOf(devList, i) = {1} /\ i % DevMax = i
      BY <1>1, <1>3
    <2>2. FastmapperGet(devList, i) = devList.arrays[1].elems[i]
      BY <1>2, <1>5, <2>1 DEF FastmapperGet
    <2> QED
      BY <2>2 DEF DevIInv
  <1>7. ASSUME NEW i \in 0 .. DevMax - 1, i < n
        PROVE  FastmapperGet(devList, i) = arrived[i + 1] /\ FastmapperGet(devList, i) # Null
    <2>1. i < Len(arrived) /\ i + 1 \in 1 .. Len(arrived)
      BY <1>1, <1>7
    <2>2. arrived[i + 1] \in DeviceSet
      BY <1>1, <2>1
    <2> QED
      BY <1>1, <1>6, <2>1, <2>2
  <1>8. n \in Ends
    <2>1. CASE n = DevMax
      <3>1. FastmapperGet(devList, DevMax) = Null
        BY <1>1, <1>4 DEF FastmapperGet
      <3> QED
        BY <1>1, <2>1, <3>1
    <2>2. CASE n # DevMax
      <3>1. n \in 0 .. DevMax - 1 /\ ~(n < Len(arrived))
        BY <1>1, <2>2 DEF ShownCount
      <3> QED
        BY <1>1, <1>6, <3>1
    <2> QED
      BY <2>1, <2>2
  <1>9. \A i \in Ends : n <= i
    <2> SUFFICES ASSUME NEW i \in Ends, ~(n <= i) PROVE FALSE
      OBVIOUS
    <2>1. i \in 0 .. DevMax - 1 /\ i < n
      BY <1>1
    <2> QED
      BY <1>7, <2>1
  <1>10. e = n
    <2>1. Ends \in SUBSET Nat /\ Ends # {}
      BY <1>1, <1>8
    <2> HIDE DEF Ends, n
    <2> QED
      BY <1>8, <1>9, <2>1, LeastIs
  <1>11. Enumerated = [i \in 1 .. n |-> FastmapperGet(devList, i - 1)]
    <2> HIDE DEF n
    <2> QED
      BY <1>10 DEF Enumerated
  <1>12. \A i \in 1 .. n : FastmapperGet(devList, i - 1) = arrived[i]
    <2> SUFFICES ASSUME NEW i \in 1 .. n PROVE FastmapperGet(devList, i - 1) = arrived[i]
      OBVIOUS
    <2>1. i - 1 \in 0 .. DevMax - 1 /\ i - 1 < n /\ (i - 1) + 1 = i
      BY <1>1
    <2> QED
      BY <1>7, <2>1
  <1> HIDE DEF n
  <1>13. SubSeq(arrived, 1, n) = [i \in 1 .. n |-> arrived[i]]
    BY <1>1
  <1> QED
    BY <1>11, <1>12, <1>13 DEF n

LEMMA DevStep == DevIInv /\ [RegistryNext]_regVars => DevIInv'
  <1> SUFFICES ASSUME DevIInv, [RegistryNext]_regVars PROVE DevIInv'
    OBVIOUS
  <1>1. ASSUME UNCHANGED <<devList, offered, arrived, devNodes>> PROVE DevIInv'
    BY <1>1 DEF DevIInv, ShownCount
  <1>2. ASSUME NEW t \in Tcbs, NEW granted \in BOOLEAN, CreateThread(t, granted) PROVE DevIInv'
    BY <1>1, <1>2 DEF CreateThread
  <1>3. ASSUME NEW t \in Tcbs, ForkThread(t) PROVE DevIInv'
    BY <1>1, <1>3 DEF ForkThread
  <1>4. ASSUME NEW t \in Tcbs, CleanUpDead(t) PROVE DevIInv'
    BY <1>1, <1>4 DEF CleanUpDead
  <1>5. CASE NoPidLeft
    BY <1>1, <1>5 DEF NoPidLeft
  <1>6. ASSUME NEW made \in BOOLEAN, DeviceAdd(made) PROVE DevIInv'
    BY <1>6, DeviceAddStep
  <1>7. CASE DeviceEnum
    <2>1. /\ offered = Len(Devices) /\ devNodes' = Enumerated
          /\ UNCHANGED <<devList, offered, arrived>>
      BY <1>7 DEF DeviceEnum
    <2>2. Enumerated = SubSeq(arrived, 1, ShownCount)
      BY EnumeratedIs
    <2> QED
      BY <2>1, <2>2 DEF DevIInv, ShownCount
  <1>8. CASE UNCHANGED regVars
    BY <1>1, <1>8 DEF regVars
  <1> QED
    BY <1>2, <1>3, <1>4, <1>5, <1>6, <1>7, <1>8 DEF RegistryNext

(* For any devices and a list of any size: device_find gives the device that *)
(* was added, and /dev shows the devices that were added, in the order they  *)
(* came, up to the size of dev_list.                                         *)
THEOREM DevicesAreShown == RegistrySpec => []DevicesShown
  <1>1. ASSUME DevIInv PROVE DevicesShown
    <2>1. ASSUME NEW i \in DOMAIN arrived, i <= DevMax
          PROVE  FastmapperFind(devList, {arrived[i]}) = arrived[i]
      <3> DEFINE W == {arrived[i]}
                 P == FirstPlace(PlacesOf(devList, W))
      <3>1. arrived \in Seq(DeviceSet) /\ i \in 1 .. Len(arrived) /\ Len(arrived) \in Nat /\ DevMax \in Nat
        BY <1>1, DevFacts DEF DevIInv
      <3>2. i - 1 \in 0 .. DevMax - 1 /\ i - 1 < Len(arrived) /\ (i - 1) + 1 = i
        BY <2>1, <3>1
      <3>3. devList.arrays[1].elems[i - 1] = arrived[i]
        BY <1>1, <3>2 DEF DevIInv
      <3>4. devList.unit = DevMax /\ DOMAIN devList.arrays = 1 .. 1
        BY <1>1, <3>1, ArraysAre DEF DevIInv
      <3>5. <<1, i - 1>> \in PlacesOf(devList, W)
        BY <3>2, <3>3, <3>4 DEF PlacesOf
      <3>6. PICK c \in 0 .. DevMax - 1 : P = <<1, c>> /\ devList.arrays[1].elems[c] \in W
        BY <1>1, <3>1, <3>5, OneArray, ZenonT(30) DEF DevIInv
      <3>7. FastmapperFind(devList, W) = devList.arrays[1].elems[c]
        <4>1. P[1] = 1 /\ P[2] = c
          BY <3>6
        <4>2. FastmapperFind(devList, W) = devList.arrays[P[1]].elems[P[2]]
          BY <3>5 DEF FastmapperFind
        <4> HIDE DEF P, W
        <4> QED
          BY <4>1, <4>2
      <3> QED
        BY <3>6, <3>7
    <2> QED
      BY <1>1, <2>1 DEF DevicesShown, DevIInv, ShownCount
  <1> QED
    BY <1>1, DevInitially, DevStep, PTL DEF RegistrySpec
(* -------------------------------- pipes --------------------------------- *)

(* Inside a write either right has got to the end, or it is back at 0 and  *)
(* the rest fits below left, which the reader can only raise meanwhile.    *)
MidOK ==
  /\ ~mid => rest = <<>>
  /\ mid => \/ right = PipeSize /\ rest = <<>>
            \/ right = 0 /\ Len(rest) <= left

IInv == TypeOK /\ MidOK /\ InOrder /\ BytesNeverOverrun

----------------------------------------------------------------------------
LEMMA InitIInv == Init => IInv
<1> SUFFICES ASSUME Init PROVE IInv
  OBVIOUS
<1>1. buf \in [Slots -> Byte]
  BY DEF Init
<1>2. <<>> \in Seq(Byte) /\ Len(<<>>) = 0
  OBVIOUS
<1>3. 0 \in Slots /\ 1 \in 0 .. PipeSize /\ 1 # PipeSize
  BY PipeAssumption DEF Slots
<1>4. TypeOK
  BY <1>1, <1>2, <1>3 DEF Init, TypeOK
<1>5. InOrder
  <2>1. Unread = 0 /\ Len(unread) = 0 /\ 1 .. 0 = {}
    BY <1>2, PipeAssumption DEF Init, Unread
  <2> QED BY <2>1 DEF InOrder
<1> QED BY <1>4, <1>5 DEF Init, IInv, MidOK, BytesNeverOverrun

LEMMA WritesTyped ==
  ASSUME NEW s \in Writes
  PROVE  s \in Seq(Byte) /\ Len(s) \in 1 .. MaxWrite
<1>1. PICK n \in 1 .. MaxWrite : s \in [1 .. n -> Byte]
  BY DEF Writes
<1> QED BY <1>1, PipeAssumption

(* What copying s to slot i leaves in the ring *)
LEMMA CopiedIs ==
  ASSUME buf \in [Slots -> Byte], NEW s \in Seq(Byte), NEW i \in Nat
  PROVE  /\ Copied(s, i) \in [Slots -> Byte]
         /\ \A j \in 1 .. Len(s) : i + j - 1 \in Slots => Copied(s, i)[i + j - 1] = s[j]
         /\ \A k \in Slots : k < i \/ k >= i + Len(s) => Copied(s, i)[k] = buf[k]
<1>1. ASSUME NEW k \in Slots, k - i \in 0 .. Len(s) - 1
      PROVE  s[k - i + 1] \in Byte
  <2>1. k - i + 1 \in 1 .. Len(s)
    BY <1>1 DEF Slots
  <2> QED BY <2>1, ElementOfSeq
<1>2. Copied(s, i) \in [Slots -> Byte]
  BY <1>1 DEF Copied
<1>3. ASSUME NEW j \in 1 .. Len(s), i + j - 1 \in Slots
      PROVE  Copied(s, i)[i + j - 1] = s[j]
  <2>1. /\ (i + j - 1) - i \in 0 .. Len(s) - 1
        /\ (i + j - 1) - i + 1 = j
    OBVIOUS
  <2> QED BY <1>3, <2>1 DEF Copied
<1>4. ASSUME NEW k \in Slots, k < i \/ k >= i + Len(s)
      PROVE  Copied(s, i)[k] = buf[k]
  <2>1. k - i \notin 0 .. Len(s) - 1
    BY <1>4 DEF Slots
  <2> QED BY <2>1 DEF Copied
<1> QED BY <1>2, <1>3, <1>4

(* The heart of the writer: s goes behind what is unread, in free slots.   *)
LEMMA CopyKeepsOrder ==
  ASSUME IInv, NEW s \in Seq(Byte), NEW i \in 0 .. PipeSize,
         ~overrun, ~overrun', left' = left,
         buf' = Copied(s, i), unread' = unread \o s,
         Len(unread) + Len(s) < PipeSize,
         \A j \in 1 .. Len(s) : SlotOf(Len(unread) + j) = i + j - 1
  PROVE  \A j \in 1 .. Len(unread') : buf'[SlotOf(j)'] = unread'[j]
<1>1. /\ buf \in [Slots -> Byte] /\ unread \in Seq(Byte) /\ left \in Slots
      /\ \A j \in 1 .. Len(unread) : buf[SlotOf(j)] = unread[j]
  BY DEF IInv, TypeOK, InOrder
<1>2. /\ Len(unread') = Len(unread) + Len(s)
      /\ \A j \in 1 .. Len(unread) : unread'[j] = unread[j]
      /\ \A j \in 1 .. Len(s) : unread'[Len(unread) + j] = s[j]
  BY <1>1, ConcatProperties
<1>3. \A j : SlotOf(j)' = SlotOf(j)
  BY DEF SlotOf
<1>4. \A j \in 1 .. PipeSize - 1 : SlotOf(j) \in Slots
  BY <1>1, PipeAssumption DEF SlotOf, Slots
<1>5. \A j, k \in 1 .. PipeSize - 1 : SlotOf(j) = SlotOf(k) => j = k
  BY <1>1, PipeAssumption DEF SlotOf, Slots
<1>6. ASSUME NEW j \in 1 .. Len(s)
      PROVE  buf'[SlotOf(Len(unread) + j)] = s[j]
  <2>1. Len(unread) + j \in 1 .. PipeSize - 1
    BY <1>1, PipeAssumption
  <2>2. SlotOf(Len(unread) + j) = i + j - 1 /\ i + j - 1 \in Slots
    BY <2>1, <1>4
  <2>3. i \in Nat
    BY PipeAssumption
  <2> QED BY <2>2, <2>3, <1>1, CopiedIs
<1>7. ASSUME NEW j \in 1 .. Len(unread)
      PROVE  buf'[SlotOf(j)] = unread[j]
  <2>1. j \in 1 .. PipeSize - 1 /\ SlotOf(j) \in Slots
    BY <1>1, <1>4, PipeAssumption
  <2>2. SlotOf(j) < i \/ SlotOf(j) >= i + Len(s)
    <3>1. SUFFICES ASSUME SlotOf(j) >= i, SlotOf(j) < i + Len(s) PROVE FALSE
      BY <2>1 DEF Slots
    <3> DEFINE k == SlotOf(j) - i + 1
    <3>2. k \in 1 .. Len(s) /\ SlotOf(j) = i + k - 1
      BY <3>1, <2>1 DEF Slots
    <3> HIDE DEF k
    <3>3. Len(unread) + k \in 1 .. PipeSize - 1
      BY <3>2, <1>1, PipeAssumption
    <3>4. SlotOf(Len(unread) + k) = SlotOf(j)
      BY <3>2
    <3>5. j = Len(unread) + k
      BY <3>3, <3>4, <2>1, <1>5
    <3> QED BY <3>5, <3>2, <1>1
  <2> QED BY <2>1, <2>2, <1>1, CopiedIs
<1>8. ASSUME NEW j \in 1 .. Len(unread')
      PROVE  buf'[SlotOf(j)'] = unread'[j]
  <2>1. CASE j <= Len(unread)
    BY <2>1, <1>1, <1>2, <1>3, <1>7
  <2>2. CASE j > Len(unread)
    <3>1. j - Len(unread) \in 1 .. Len(s) /\ j = Len(unread) + (j - Len(unread))
      BY <2>2, <1>1, <1>2
    <3> QED BY <3>1, <1>2, <1>3, <1>6
  <2> QED BY <2>1, <2>2, <1>1
<1> QED BY <1>8

----------------------------------------------------------------------------
LEMMA WriteAheadStep ==
  ASSUME IInv, NEW s \in Writes, WriteAhead(s)
  PROVE  IInv'
<1>1. s \in Seq(Byte) /\ Len(s) \in Nat /\ Len(s) > 0 /\ Len(s) < PipeSize
  BY WritesTyped, PipeAssumption
<1>2. /\ buf \in [Slots -> Byte] /\ left \in 0 .. PipeSize - 1 /\ right \in 0 .. PipeSize
      /\ unread \in Seq(Byte) /\ rest = <<>> /\ right # PipeSize /\ ~mid
      /\ PipeSize \in Nat /\ right \in Nat
  BY PipeAssumption DEF IInv, TypeOK, MidOK, WriteAhead, Slots
<1>3. right' \in 0 .. PipeSize /\ (right' = PipeSize <=> mid')
  <2>1. /\ right' = right + Len(s) /\ Len(s) <= PipeSize - right
        /\ mid' <=> right' = PipeSize
    BY DEF WriteAhead, ToEnd
  <2>2. right' \in 0 .. PipeSize
    BY <2>1, <1>1, <1>2
  <2> QED BY <2>1, <2>2
<1>4. TypeOK'
  <2>1. buf' \in [Slots -> Byte]
    BY <1>1, <1>2, CopiedIs DEF WriteAhead
  <2>2. unread' \in Seq(Byte)
    BY <1>1, <1>2, ConcatProperties DEF WriteAhead, Recorded
  <2> QED BY <2>1, <2>2, <1>1, <1>3 DEF IInv, TypeOK, WriteAhead, Slots
<1>5. MidOK'
  BY <1>2, <1>3 DEF MidOK, WriteAhead
<1>6. BytesNeverOverrun'
  <2>1. CASE Len(s) > 1
    BY <2>1 DEF WriteAhead, BytesNeverOverrun
  <2>2. CASE Len(s) = 1
    <3>1. ~(right <= left /\ right + Len(s) > left)
      BY <2>2, <1>2 DEF WriteAhead, Full
    <3> QED BY <3>1 DEF WriteAhead, BytesNeverOverrun, IInv
  <2> QED BY <2>1, <2>2, <1>1
<1>7. InOrder'
  <2> SUFFICES ASSUME ~overrun'
               PROVE  /\ Unread' = Len(unread')
                      /\ \A j \in 1 .. Len(unread') : buf'[SlotOf(j)'] = unread'[j]
    BY DEF InOrder
  <2>1. /\ ~overrun /\ ~(right <= left /\ right + Len(s) > left)
        /\ unread' = unread \o s /\ left' = left /\ right' = right + Len(s)
        /\ buf' = Copied(s, right)
    BY DEF WriteAhead, Recorded
  <2>2. Unread = Len(unread) /\ Len(unread) \in Nat
    BY <2>1, <1>2 DEF IInv, InOrder
  <2>6. right # left /\ Len(s) <= PipeSize - right
    BY DEF WriteAhead, Full, ToEnd
  <2>3. /\ Unread' = Len(unread) + Len(s)
        /\ Len(unread) + Len(s) < PipeSize
    <3> DEFINE m == Len(s)  u == Len(unread)
    <3>1. /\ left' = left /\ right' = right + m /\ ~(right <= left /\ right + m > left)
          /\ m \in Nat /\ m > 0 /\ right # left /\ m <= PipeSize - right /\ u = Unread
          /\ left \in Nat /\ left < PipeSize
      BY <2>1, <2>2, <2>6, <1>1, <1>2
    <3> HIDE DEF m, u
    <3>2. Unread' = u + m /\ u + m < PipeSize
      BY <3>1, <1>2 DEF Unread
    <3> QED BY <3>2 DEF m, u
  <2>4. ASSUME NEW j \in 1 .. Len(s)
        PROVE  SlotOf(Len(unread) + j) = right + j - 1
    BY <2>2, <2>6, <1>1, <1>2 DEF Unread, SlotOf
  <2>5. Len(unread') = Len(unread) + Len(s)
    BY <2>1, <1>1, <1>2, ConcatProperties
  <2> QED BY <2>1, <2>3, <2>4, <2>5, <1>1, <1>2, CopyKeepsOrder
<1> QED BY <1>4, <1>5, <1>6, <1>7 DEF IInv

LEMMA WriteRoundStep ==
  ASSUME IInv, NEW s \in Writes, WriteRound(s)
  PROVE  IInv'
<1> DEFINE tail == SubSeq(s, 1, ToEnd)
           more == SubSeq(s, ToEnd + 1, Len(s))
<1>1. s \in Seq(Byte) /\ Len(s) \in Nat /\ Len(s) < PipeSize /\ ToEnd < Len(s)
  BY WritesTyped, PipeAssumption DEF WriteRound
<1>2. /\ buf \in [Slots -> Byte] /\ left \in 0 .. PipeSize - 1 /\ right \in 0 .. PipeSize
      /\ unread \in Seq(Byte) /\ right # PipeSize /\ ~mid /\ right > left
      /\ PipeSize \in Nat /\ right \in Nat
  BY PipeAssumption DEF IInv, TypeOK, WriteRound, Slots, Full
<1>3. ToEnd \in Nat /\ ToEnd = PipeSize - right
  BY <1>2, PipeAssumption DEF ToEnd
<1>4. tail \in Seq(Byte) /\ Len(tail) = ToEnd
  <2>1. \A i \in 1 .. ToEnd : s[i] \in Byte
    BY <1>1, <1>3, ElementOfSeq
  <2> QED BY <2>1, <1>3, SubSeqProperties
<1>5. more \in Seq(Byte) /\ Len(more) = Len(s) - ToEnd
  <2>1. \A i \in ToEnd + 1 .. Len(s) : s[i] \in Byte
    BY <1>1, <1>3, ElementOfSeq
  <2>2. ToEnd + 1 \in Int /\ Len(s) \in Int /\ ToEnd + 1 <= Len(s)
    BY <1>1, <1>3
  <2>3. more \in Seq(Byte) /\ Len(more) = Len(s) - (ToEnd + 1) + 1
    BY <2>1, <2>2, SubSeqProperties
  <2> QED BY <2>3, <1>1, <1>3
<1>6. /\ buf' = Copied(tail, right) /\ unread' = Recorded(unread \o tail)
      /\ rest' = more /\ right' = 0 /\ left' = left /\ mid'
      /\ overrun' = overrun /\ long' = (long \/ Len(s) > 1)
      /\ Len(more) <= left
  BY <1>5 DEF WriteRound
<1> HIDE DEF tail, more
<1>7. TypeOK'
  <2>1. buf' \in [Slots -> Byte]
    BY <1>2, <1>4, <1>6, CopiedIs
  <2>2. unread' \in Seq(Byte)
    BY <1>2, <1>4, <1>6, ConcatProperties DEF Recorded
  <2>3. left' \in Slots /\ right' \in 0 .. PipeSize /\ rest' \in Seq(Byte)
    BY <1>2, <1>5, <1>6 DEF Slots
  <2>4. mid' \in BOOLEAN /\ overrun' \in BOOLEAN /\ long' \in BOOLEAN
    BY <1>6 DEF IInv, TypeOK, WriteRound
  <2> QED BY <2>1, <2>2, <2>3, <2>4, <1>6 DEF TypeOK
<1>8. MidOK' /\ BytesNeverOverrun'
  BY <1>6 DEF IInv, MidOK, BytesNeverOverrun
<1>9. InOrder'
  <2> SUFFICES ASSUME ~overrun'
               PROVE  /\ Unread' = Len(unread')
                      /\ \A j \in 1 .. Len(unread') : buf'[SlotOf(j)'] = unread'[j]
    BY DEF InOrder
  <2>1. ~overrun /\ unread' = unread \o tail
    BY <1>6 DEF Recorded
  <2>2. Unread = Len(unread) /\ Len(unread) \in Nat
    BY <2>1, <1>2 DEF IInv, InOrder
  <2>3. /\ Unread' = Len(unread) + Len(tail)
        /\ Len(unread) + Len(tail) < PipeSize
    BY <2>2, <1>2, <1>3, <1>4, <1>6, PipeAssumption DEF Unread
  <2>4. ASSUME NEW j \in 1 .. Len(tail)
        PROVE  SlotOf(Len(unread) + j) = right + j - 1
    BY <2>2, <1>2, <1>3, <1>4, PipeAssumption DEF Unread, SlotOf
  <2>5. Len(unread') = Len(unread) + Len(tail)
    BY <2>1, <1>2, <1>4, ConcatProperties
  <2> QED BY <2>1, <2>3, <2>4, <2>5, <1>2, <1>4, <1>6, CopyKeepsOrder
<1> QED BY <1>7, <1>8, <1>9 DEF IInv

LEMMA WriteEndStep ==
  ASSUME IInv, WriteEnd
  PROVE  IInv'
<1>1. /\ buf \in [Slots -> Byte] /\ left \in 0 .. PipeSize - 1 /\ right \in 0 .. PipeSize
      /\ unread \in Seq(Byte) /\ rest \in Seq(Byte) /\ Len(rest) \in Nat
      /\ \/ right = PipeSize /\ rest = <<>> /\ Len(rest) = 0
         \/ right = 0 /\ Len(rest) <= left
  <2>1. rest = <<>> => Len(rest) = 0
    OBVIOUS
  <2> QED BY <2>1 DEF IInv, TypeOK, MidOK, WriteEnd, Slots
<1>2. /\ buf' = Copied(rest, 0) /\ right' = Len(rest) /\ left' = left
      /\ unread' = Recorded(unread \o rest) /\ rest' = <<>> /\ ~mid'
      /\ overrun' = overrun /\ long' = long
  BY DEF WriteEnd
<1>3. right' <= left
  BY <1>1, <1>2
<1>4. TypeOK'
  <2>1. buf' \in [Slots -> Byte]
    BY <1>1, <1>2, CopiedIs
  <2>2. unread' \in Seq(Byte)
    BY <1>1, <1>2, ConcatProperties DEF Recorded
  <2>3. rest' \in Seq(Byte) /\ mid' \in BOOLEAN
    <3>1. <<>> \in Seq(Byte)
      OBVIOUS
    <3>2. rest' = <<>> /\ mid' = FALSE
      BY DEF WriteEnd
    <3> QED BY <3>1, <3>2
  <2>4. right' \in 0 .. PipeSize /\ right' # PipeSize
    BY <1>1, <1>2, <1>3, PipeAssumption
  <2> QED BY <2>1, <2>2, <2>3, <2>4, <1>2 DEF IInv, TypeOK, Slots
<1>5. MidOK' /\ BytesNeverOverrun'
  BY <1>2 DEF IInv, MidOK, BytesNeverOverrun
<1>6. InOrder'
  <2> SUFFICES ASSUME ~overrun'
               PROVE  /\ Unread' = Len(unread')
                      /\ \A j \in 1 .. Len(unread') : buf'[SlotOf(j)'] = unread'[j]
    BY DEF InOrder
  <2>1. ~overrun /\ unread' = unread \o rest
    BY <1>2 DEF Recorded
  <2>2. Unread = Len(unread) /\ Len(unread) \in Nat
    BY <2>1, <1>1 DEF IInv, InOrder
  <2>3. Len(unread) = PipeSize - left - 1
    BY <2>2, <1>1, PipeAssumption DEF Unread
  <2>4. /\ Unread' = Len(unread) + Len(rest)
        /\ Len(unread) + Len(rest) < PipeSize
    BY <2>3, <1>1, <1>2, <1>3, PipeAssumption DEF Unread
  <2>5. ASSUME NEW j \in 1 .. Len(rest)
        PROVE  SlotOf(Len(unread) + j) = 0 + j - 1
    BY <2>3, <1>1, PipeAssumption DEF SlotOf
  <2>6. Len(unread') = Len(unread) + Len(rest)
    BY <2>1, <1>1, ConcatProperties
  <2>7. 0 \in 0 .. PipeSize
    BY PipeAssumption
  <2> QED BY <2>1, <2>4, <2>5, <2>6, <2>7, <1>1, <1>2, CopyKeepsOrder
<1> QED BY <1>4, <1>5, <1>6 DEF IInv

LEMMA ReadStep ==
  ASSUME IInv, NEW n \in 1 .. MaxRead, Read(n)
  PROVE  IInv'
<1> DEFINE got == IF n > Unread THEN Unread ELSE n
<1>1. /\ left \in 0 .. PipeSize - 1 /\ right \in 0 .. PipeSize /\ n \in Nat
      /\ unread \in Seq(Byte) /\ PipeSize \in Nat /\ Len(unread) \in Nat
  BY PipeAssumption DEF IInv, TypeOK, Slots
<1>2. Unread \in Nat
  BY <1>1 DEF Unread
<1>3. got \in 0 .. Unread
  BY <1>1, <1>2
<1>4. /\ left' = LeftAfter(got)
      /\ unread' = Recorded(SubSeq(unread, got + 1, Len(unread)))
      /\ UNCHANGED <<buf, right, rest, mid, overrun, long>>
  BY DEF Read
<1> HIDE DEF got
<1>5. /\ left' \in 0 .. PipeSize - 1
      /\ right = 0 => left' >= left
      /\ Unread' = Unread - got
      /\ \A j \in 1 .. Unread - got : SlotOf(j)' = SlotOf(got + j)
  BY <1>1, <1>3, <1>4 DEF Unread, LeftAfter, SlotOf
<1>6. ~overrun => /\ SubSeq(unread, got + 1, Len(unread)) \in Seq(Byte)
                  /\ Len(SubSeq(unread, got + 1, Len(unread))) = Len(unread) - got
                  /\ \A j \in 1 .. Len(unread) - got :
                       SubSeq(unread, got + 1, Len(unread))[j] = unread[got + j]
  <2> SUFFICES ASSUME ~overrun
               PROVE  /\ SubSeq(unread, got + 1, Len(unread)) \in Seq(Byte)
                      /\ Len(SubSeq(unread, got + 1, Len(unread))) = Len(unread) - got
                      /\ \A j \in 1 .. Len(unread) - got :
                           SubSeq(unread, got + 1, Len(unread))[j] = unread[got + j]
    OBVIOUS
  <2>1. Unread = Len(unread)
    BY DEF IInv, InOrder
  <2>2. \A i \in got + 1 .. Len(unread) : unread[i] \in Byte
    BY <1>1, <1>3, ElementOfSeq
  <2>3. got + 1 \in Int /\ Len(unread) \in Int
    BY <1>1, <1>3
  <2>4. /\ SubSeq(unread, got + 1, Len(unread)) \in Seq(Byte)
        /\ Len(SubSeq(unread, got + 1, Len(unread)))
             = IF got + 1 <= Len(unread) THEN Len(unread) - (got + 1) + 1 ELSE 0
        /\ \A j \in 1 .. Len(unread) - (got + 1) + 1 :
             SubSeq(unread, got + 1, Len(unread))[j] = unread[got + 1 + j - 1]
    BY <2>2, <2>3, SubSeqProperties
  <2> QED BY <2>1, <2>4, <1>1, <1>3
<1>7. TypeOK'
  <2>1. <<>> \in Seq(Byte)
    OBVIOUS
  <2>2. unread' \in Seq(Byte)
    BY <2>1, <1>4, <1>6 DEF Recorded
  <2> QED BY <2>2, <1>4, <1>5 DEF IInv, TypeOK, Slots
<1>8. MidOK' /\ BytesNeverOverrun'
  <2>1. rest' = rest /\ right' = right /\ mid' = mid /\ Len(rest) \in Nat
    BY <1>4 DEF IInv, TypeOK
  <2>2. MidOK'
    BY <2>1, <1>1, <1>5 DEF IInv, MidOK
  <2> QED BY <2>2, <1>4 DEF IInv, BytesNeverOverrun
<1>9. InOrder'
  <2> SUFFICES ASSUME ~overrun'
               PROVE  /\ Unread' = Len(unread')
                      /\ \A j \in 1 .. Len(unread') : buf'[SlotOf(j)'] = unread'[j]
    BY DEF InOrder
  <2>1. ~overrun /\ unread' = SubSeq(unread, got + 1, Len(unread)) /\ buf' = buf
    BY <1>4 DEF Recorded
  <2>2. Unread = Len(unread) /\ \A j \in 1 .. Len(unread) : buf[SlotOf(j)] = unread[j]
    BY <2>1 DEF IInv, InOrder
  <2>3. Len(unread') = Len(unread) - got
    BY <2>1, <1>6
  <2>4. ASSUME NEW j \in 1 .. Len(unread')
        PROVE  buf'[SlotOf(j)'] = unread'[j]
    <3>1. got + j \in 1 .. Len(unread) /\ j \in 1 .. Unread - got
      BY <2>2, <2>3, <1>1, <1>3
    <3> QED BY <3>1, <2>1, <2>2, <1>5, <1>6
  <2> QED BY <2>2, <2>3, <2>4, <1>5
<1> QED BY <1>7, <1>8, <1>9 DEF IInv

LEMMA NextIInv == IInv /\ [Next]_vars => IInv'
<1> SUFFICES ASSUME IInv, [Next]_vars PROVE IInv'
  OBVIOUS
<1>1. CASE \E s \in Writes : WriteAhead(s) \/ WriteRound(s)
  BY <1>1, WriteAheadStep, WriteRoundStep
<1>2. CASE WriteEnd
  BY <1>2, WriteEndStep
<1>3. CASE \E n \in 1 .. MaxRead : Read(n)
  BY <1>3, ReadStep
<1>4. CASE UNCHANGED vars
  BY <1>4 DEF vars, IInv, TypeOK, MidOK, InOrder, BytesNeverOverrun, Unread, SlotOf
<1> QED BY <1>1, <1>2, <1>3, <1>4 DEF Next

LEMMA AlwaysIInv == Spec => []IInv
  BY InitIInv, NextIInv, PTL DEF Spec

----------------------------------------------------------------------------
(* Neither index leaves the ring (right only inside a write), even after a *)
(* write has gone over unread bytes.                                       *)
THEOREM PipeTypes == Spec => []TypeOK
<1>1. IInv => TypeOK
  BY DEF IInv
<1> QED BY <1>1, AlwaysIInv, PTL

(* Until a write has gone over unread bytes, pipe_read gives all and only  *)
(* the bytes that pipe_write took, in order.                               *)
THEOREM PipeInOrder == Spec => []InOrder
<1>1. IInv => InOrder
  BY DEF IInv
<1> QED BY <1>1, AlwaysIInv, PTL

(* The test for a full ring is enough for writes of one byte.              *)
THEOREM BytesAreSafe == Spec => []BytesNeverOverrun
<1>1. IInv => BytesNeverOverrun
  BY DEF IInv
<1> QED BY <1>1, AlwaysIInv, PTL

(* ------------------------------- lists ---------------------------------- *)

LinkNodes == Elems \cup ListEnds

(* The places along list l with contents c, its two ends included *)
Node(l, c, i) ==
  IF i = 0 THEN HeadOf(l) ELSE IF i = Len(c) + 1 THEN TailOf(l) ELSE c[i]

(* The links of l go from every place to the next one and back. *)
Linked(l, c) ==
  \A i \in 0 .. Len(c) :
    next[Node(l, c, i)] = Node(l, c, i + 1) /\ prev[Node(l, c, i + 1)] = Node(l, c, i)

ListTypes ==
  /\ next \in [LinkNodes -> LinkNodes \cup {NoLink}]
  /\ prev \in [LinkNodes -> LinkNodes \cup {NoLink}]
  /\ contents \in [Lists -> Seq(Elems)]

(* An element is at one place of one list at most. *)
OnePlace ==
  \A l, m \in Lists : \A i \in 1 .. Len(contents[l]), j \in 1 .. Len(contents[m]) :
    contents[l][i] = contents[m][j] => l = m /\ i = j

ListInv == ListTypes /\ OnePlace /\ \A l \in Lists : Linked(l, contents[l])

LEMMA NodeIn ==
  ASSUME NEW l \in Lists, NEW c \in Seq(Elems), NEW i \in 0 .. Len(c) + 1
  PROVE  /\ Node(l, c, i) \in LinkNodes /\ Node(l, c, i) # NoLink
         /\ Node(l, c, i) \in Elems <=> i \in 1 .. Len(c)
         /\ i \in 1 .. Len(c) => Node(l, c, i) = c[i]
         /\ Node(l, c, 0) = HeadOf(l) /\ Node(l, c, Len(c) + 1) = TailOf(l)
<1>1. /\ HeadOf(l) \in ListEnds /\ TailOf(l) \in ListEnds
      /\ HeadOf(l) \notin Elems /\ TailOf(l) \notin Elems
      /\ NoLink \notin Elems \cup ListEnds
  BY ListAssumption DEF ListEnds
<1>2. PICK n \in Nat : n = Len(c)
  OBVIOUS
<1>3. i \in 1 .. n => c[i] \in Elems
  BY <1>2
<1>4. i = 0 \/ i = n + 1 \/ (i \in 1 .. n /\ i # 0 /\ i # n + 1)
  BY <1>2
<1>5. n + 1 # 0 /\ 0 \notin 1 .. n /\ n + 1 \notin 1 .. n
  OBVIOUS
<1> QED BY <1>1, <1>2, <1>3, <1>4, <1>5 DEF Node, LinkNodes

LEMMA NodesApart ==
  ASSUME ListTypes, OnePlace, NEW l \in Lists, NEW m \in Lists,
         NEW i \in 0 .. Len(contents[l]) + 1, NEW j \in 0 .. Len(contents[m]) + 1,
         Node(l, contents[l], i) = Node(m, contents[m], j)
  PROVE  l = m /\ i = j
<1>1. contents[l] \in Seq(Elems) /\ contents[m] \in Seq(Elems)
  BY DEF ListTypes
<1>2. PICK a \in Nat, b \in Nat : a = Len(contents[l]) /\ b = Len(contents[m])
  BY <1>1
<1>3. CASE i \in 1 .. a
  <2>1. j \in 1 .. b
    BY <1>1, <1>2, <1>3, NodeIn
  <2>2. contents[l][i] = contents[m][j]
    BY <1>1, <1>2, <1>3, <2>1, NodeIn, SMTT(30)
  <2> QED BY <1>2, <1>3, <2>1, <2>2 DEF OnePlace
<1>4. CASE i \notin 1 .. a
  <2>1. j \notin 1 .. b
    BY <1>1, <1>2, <1>4, NodeIn
  <2>2. (i = 0 \/ i = a + 1) /\ (j = 0 \/ j = b + 1)
    BY <1>2, <1>4, <2>1
  <2>3. /\ Node(l, contents[l], 0) = HeadOf(l) /\ Node(l, contents[l], a + 1) = TailOf(l)
        /\ Node(m, contents[m], 0) = HeadOf(m) /\ Node(m, contents[m], b + 1) = TailOf(m)
    BY <1>2 DEF Node
  <2>4. HeadOf(l) # TailOf(m) /\ HeadOf(m) # TailOf(l)
        /\ (l # m => HeadOf(l) # HeadOf(m) /\ TailOf(l) # TailOf(m))
    BY ListAssumption
  <2>5. l = m
    BY <2>2, <2>3, <2>4
  <2> QED BY <1>2, <2>2, <2>3, <2>4, <2>5
<1> QED BY <1>3, <1>4

(* d is c with e put in behind place k, or with place k taken out. *)
PutIn(c, k, e, d) ==
  /\ Len(d) = Len(c) + 1
  /\ \A i \in 1 .. Len(c) + 1 : d[i] = IF i <= k THEN c[i] ELSE IF i = k + 1 THEN e ELSE c[i - 1]

TakenOut(c, k, d) ==
  /\ Len(d) = Len(c) - 1
  /\ \A i \in 1 .. Len(c) - 1 : d[i] = IF i < k THEN c[i] ELSE c[i + 1]

LEMMA NodePut ==
  ASSUME NEW l \in Lists, NEW c \in Seq(Elems), NEW d \in Seq(Elems), NEW e, NEW k \in 0 .. Len(c),
         PutIn(c, k, e, d), NEW i \in 0 .. Len(c) + 2
  PROVE  Node(l, d, i) = IF i <= k THEN Node(l, c, i) ELSE IF i = k + 1 THEN e ELSE Node(l, c, i - 1)
<1>1. PICK n \in Nat : n = Len(c)
  OBVIOUS
<1>2. CASE i = 0
  BY <1>1, <1>2 DEF Node, PutIn, TakenOut
<1>3. CASE i = n + 2
  BY <1>1, <1>3 DEF Node, PutIn
<1>4. CASE i \in 1 .. n + 1
  <2>1. Node(l, d, i) = d[i] /\ d[i] = IF i <= k THEN c[i] ELSE IF i = k + 1 THEN e ELSE c[i - 1]
    BY <1>1, <1>4 DEF Node, PutIn
  <2>2. i <= k => Node(l, c, i) = c[i]
    BY <1>1, <1>4 DEF Node
  <2>3. i > k + 1 => Node(l, c, i - 1) = c[i - 1]
    BY <1>1, <1>4 DEF Node
  <2> QED BY <1>1, <1>4, <2>1, <2>2, <2>3
<1> QED BY <1>1, <1>2, <1>3, <1>4

LEMMA NodeTaken ==
  ASSUME NEW l \in Lists, NEW c \in Seq(Elems), NEW d \in Seq(Elems), NEW k \in 1 .. Len(c),
         TakenOut(c, k, d), NEW i \in 0 .. Len(c)
  PROVE  Node(l, d, i) = IF i < k THEN Node(l, c, i) ELSE Node(l, c, i + 1)
<1>1. PICK n \in Nat : n = Len(c)
  OBVIOUS
<1>2. CASE i = 0
  BY <1>1, <1>2 DEF Node, PutIn, TakenOut
<1>3. CASE i = n
  BY <1>1, <1>3 DEF Node, TakenOut
<1>4. CASE i \in 1 .. n - 1
  <2>1. Node(l, d, i) = d[i] /\ d[i] = IF i < k THEN c[i] ELSE c[i + 1]
    BY <1>1, <1>4 DEF Node, TakenOut
  <2>2. Node(l, c, i) = c[i] /\ Node(l, c, i + 1) = c[i + 1]
    BY <1>1, <1>4 DEF Node
  <2> QED BY <2>1, <2>2
<1> QED BY <1>1, <1>2, <1>3, <1>4

LEMMA PutOnce ==
  ASSUME NEW c \in Seq(Elems), NEW d \in Seq(Elems), NEW e, NEW k \in 0 .. Len(c), PutIn(c, k, e, d),
         \A x, y \in 1 .. Len(c) : c[x] = c[y] => x = y, \A x \in 1 .. Len(c) : c[x] # e
  PROVE  \A i, j \in 1 .. Len(d) : d[i] = d[j] => i = j
<1>1. PICK n \in Nat : n = Len(c)
  OBVIOUS
<1>2. PICK from \in [1 .. n + 1 -> 1 .. n + 1] :
        \A i \in 1 .. n + 1 : from[i] = IF i <= k THEN i ELSE IF i = k + 1 THEN n + 1 ELSE i - 1
  <2>1. [i \in 1 .. n + 1 |-> IF i <= k THEN i ELSE IF i = k + 1 THEN n + 1 ELSE i - 1]
          \in [1 .. n + 1 -> 1 .. n + 1]
    BY <1>1
  <2> QED BY <2>1
<1>3. \A i \in 1 .. n + 1 : d[i] = IF from[i] \in 1 .. n THEN c[from[i]] ELSE e
  BY <1>1, <1>2 DEF PutIn
<1>4. \A i, j \in 1 .. n + 1 : from[i] = from[j] => i = j
  BY <1>1, <1>2
<1>5. Len(d) = n + 1 /\ \A x \in 1 .. n + 1 : x \notin 1 .. n => x = n + 1
  BY <1>1 DEF PutIn
<1> QED BY <1>1, <1>2, <1>3, <1>4, <1>5

LEMMA PutKeeps ==
  ASSUME ListInv, NEW l \in Lists, NEW e \in OnNone, NEW k \in 0 .. Len(contents[l]), NEW d \in Seq(Elems),
         InsertBefore(Node(l, contents[l], k + 1), e),
         contents' = [contents EXCEPT ![l] = d], PutIn(contents[l], k, e, d)
  PROVE  ListInv'
<1>1. PICK c \in Seq(Elems), n \in Nat : c = contents[l] /\ n = Len(c)
  BY DEF ListInv, ListTypes
<1>2. PICK a, b : a = Node(l, c, k) /\ b = Node(l, c, k + 1)
  OBVIOUS
<1>3. /\ e \in Elems /\ \A m \in Lists : \A i \in 1 .. Len(contents[m]) : contents[m][i] # e
  BY DEF OnNone, OnList, ListInv, ListTypes
<1>4. a \in LinkNodes /\ b \in LinkNodes /\ e \in LinkNodes
  BY <1>1, <1>2, <1>3, NodeIn DEF LinkNodes
<1>5. prev[b] = a /\ next[a] = b
  BY <1>1, <1>2 DEF ListInv, Linked
<1>6. \A m \in Lists : \A i \in 0 .. Len(contents[m]) + 1 : Node(m, contents[m], i) # e
  <2> SUFFICES ASSUME NEW m \in Lists, NEW i \in 0 .. Len(contents[m]) + 1, Node(m, contents[m], i) = e PROVE FALSE
    OBVIOUS
  <2>1. contents[m] \in Seq(Elems)
    BY DEF ListInv, ListTypes
  <2> QED BY <1>3, <2>1, NodeIn
<1>7. a # e /\ b # e
  BY <1>1, <1>2, <1>6
<1>8. /\ next' \in [LinkNodes -> LinkNodes \cup {NoLink}] /\ prev' \in [LinkNodes -> LinkNodes \cup {NoLink}]
      /\ \A x \in LinkNodes : next'[x] = IF x = e THEN b ELSE IF x = a THEN e ELSE next[x]
      /\ \A x \in LinkNodes : prev'[x] = IF x = b THEN e ELSE IF x = e THEN a ELSE prev[x]
  <2>1. next' = [next EXCEPT ![a] = e, ![e] = b] /\ prev' = [prev EXCEPT ![e] = a, ![b] = e]
    BY <1>1, <1>2, <1>5 DEF InsertBefore
  <2> QED BY <1>4, <1>7, <2>1 DEF ListInv, ListTypes
<1>9. contents' \in [Lists -> Seq(Elems)] /\ contents'[l] = d /\ \A m \in Lists \ {l} : contents'[m] = contents[m]
  BY DEF ListInv, ListTypes
<1>10. \A i \in 0 .. n + 2 : Node(l, d, i) = IF i <= k THEN Node(l, c, i) ELSE IF i = k + 1 THEN e ELSE Node(l, c, i - 1)
  BY <1>1, NodePut
<1>11. \A m \in Lists : \A i \in 0 .. Len(contents[m]) + 1 :
         /\ Node(m, contents[m], i) = a => m = l /\ i = k
         /\ Node(m, contents[m], i) = b => m = l /\ i = k + 1
  BY <1>1, <1>2, NodesApart DEF ListInv
<1>12. ASSUME NEW m \in Lists \ {l} PROVE Linked(m, contents[m])'
  <2>1. PICK s \in Seq(Elems), z \in Nat : s = contents[m] /\ s = contents'[m] /\ z = Len(s) /\ Linked(m, s)
    BY <1>9 DEF ListInv, ListTypes
  <2> SUFFICES ASSUME NEW i \in 0 .. z
               PROVE  next'[Node(m, s, i)] = Node(m, s, i + 1) /\ prev'[Node(m, s, i + 1)] = Node(m, s, i)
    BY <2>1 DEF Linked
  <2>2. Node(m, s, i) \in LinkNodes /\ Node(m, s, i + 1) \in LinkNodes
    BY <2>1, NodeIn
  <2>3. Node(m, s, i) # a /\ Node(m, s, i) # e /\ Node(m, s, i + 1) # b /\ Node(m, s, i + 1) # e
    BY <1>6, <1>11, <2>1
  <2> QED BY <1>8, <2>1, <2>2, <2>3 DEF Linked
<1>13. Linked(l, contents[l])'
  <2> SUFFICES ASSUME NEW i \in 0 .. n + 1
               PROVE  next'[Node(l, d, i)] = Node(l, d, i + 1) /\ prev'[Node(l, d, i + 1)] = Node(l, d, i)
    BY <1>1, <1>9 DEF Linked, PutIn
  <2>1. \A j \in 0 .. n + 1 : Node(l, c, j) \in LinkNodes /\ Node(l, c, j) # e
    BY <1>1, <1>6, NodeIn
  <2>2. \A j \in 0 .. n + 1 : (Node(l, c, j) = a => j = k) /\ (Node(l, c, j) = b => j = k + 1)
    BY <1>1, <1>11
  <2>3. \A j \in 0 .. n : next[Node(l, c, j)] = Node(l, c, j + 1) /\ prev[Node(l, c, j + 1)] = Node(l, c, j)
    BY <1>1 DEF ListInv, Linked
  <2>4. CASE i < k
    <3>1. Node(l, d, i) = Node(l, c, i) /\ Node(l, d, i + 1) = Node(l, c, i + 1)
      BY <1>1, <1>10, <2>4
    <3>2. i \in 0 .. n /\ i + 1 \in 0 .. n + 1 /\ i # k /\ i + 1 # k + 1
      BY <1>1, <2>4
    <3> QED BY <1>8, <2>1, <2>2, <2>3, <3>1, <3>2
  <2>5. CASE i = k
    <3>1. Node(l, d, i) = a /\ Node(l, d, i + 1) = e
      BY <1>1, <1>2, <1>10, <2>5
    <3> QED BY <1>4, <1>7, <1>8, <3>1
  <2>6. CASE i = k + 1
    <3>1. Node(l, d, i) = e /\ Node(l, d, i + 1) = b
      BY <1>1, <1>2, <1>10, <2>6
    <3> QED BY <1>4, <1>7, <1>8, <3>1
  <2>7. CASE i > k + 1
    <3>1. PICK j \in 0 .. n : i = j + 1 /\ j > k
      BY <1>1, <2>7
    <3>2. Node(l, d, i) = Node(l, c, j) /\ Node(l, d, i + 1) = Node(l, c, j + 1)
      BY <1>1, <1>10, <2>7, <3>1
    <3>3. j \in 0 .. n + 1 /\ j + 1 \in 0 .. n + 1 /\ j # k /\ j + 1 # k + 1
      BY <1>1, <3>1
    <3> QED BY <1>8, <2>1, <2>2, <2>3, <3>1, <3>2, <3>3
  <2> QED BY <1>1, <2>4, <2>5, <2>6, <2>7
<1>14. OnePlace'
  <2> SUFFICES ASSUME NEW m \in Lists, NEW q \in Lists, NEW i \in 1 .. Len(contents'[m]), NEW j \in 1 .. Len(contents'[q]),
                      contents'[m][i] = contents'[q][j]
               PROVE  m = q /\ i = j
    BY DEF OnePlace
  <2>1. \A x \in 1 .. n + 1 : d[x] = IF x <= k THEN c[x] ELSE IF x = k + 1 THEN e ELSE c[x - 1]
    BY <1>1 DEF PutIn
  <2>6. Len(d) = n + 1
    BY <1>1 DEF PutIn
  <2>2. CASE m = l /\ q = l
    <3>1. i \in 1 .. Len(d) /\ j \in 1 .. Len(d) /\ d[i] = d[j]
      BY <1>9, <2>2
    <3>2. \A x, y \in 1 .. n : c[x] = c[y] => x = y
      BY <1>1 DEF ListInv, OnePlace
    <3>3. \A x \in 1 .. n : c[x] # e
      BY <1>1, <1>3
    <3> QED BY <1>1, <2>2, <3>1, <3>2, <3>3, PutOnce
  <2>3. CASE m = l /\ q # l
    <3>1. i \in 1 .. n + 1 /\ j \in 1 .. Len(contents[q]) /\ d[i] = contents[q][j]
      BY <1>1, <1>9, <2>3, <2>6
    <3>2. i # k + 1
      BY <1>3, <2>1, <3>1
    <3>3. PICK x \in 1 .. n : d[i] = c[x]
      BY <1>1, <2>1, <3>1, <3>2
    <3> QED BY <1>1, <2>3, <3>1, <3>3 DEF ListInv, OnePlace
  <2>4. CASE m # l /\ q = l
    <3>1. j \in 1 .. n + 1 /\ i \in 1 .. Len(contents[m]) /\ d[j] = contents[m][i]
      BY <1>1, <1>9, <2>4, <2>6
    <3>2. j # k + 1
      BY <1>3, <2>1, <3>1
    <3>3. PICK x \in 1 .. n : d[j] = c[x]
      BY <1>1, <2>1, <3>1, <3>2
    <3> QED BY <1>1, <2>4, <3>1, <3>3 DEF ListInv, OnePlace
  <2>5. CASE m # l /\ q # l
    BY <1>9, <2>5 DEF ListInv, OnePlace
  <2> QED BY <2>2, <2>3, <2>4, <2>5
<1> QED BY <1>8, <1>9, <1>12, <1>13, <1>14 DEF ListInv, ListTypes

LEMMA TakenFrom ==
  ASSUME NEW c \in Seq(Elems), NEW d \in Seq(Elems), NEW k \in 1 .. Len(c), TakenOut(c, k, d)
  PROVE  \E from \in [1 .. Len(d) -> 1 .. Len(c)] :
           /\ \A i \in 1 .. Len(d) : d[i] = c[from[i]]
           /\ \A i, j \in 1 .. Len(d) : from[i] = from[j] => i = j
<1>1. PICK n \in Nat : n = Len(c) /\ Len(d) = n - 1
  BY DEF TakenOut
<1>2. PICK D, C : D = 1 .. Len(d) /\ C = 1 .. Len(c) /\ D = 1 .. n - 1 /\ C = 1 .. n
  BY <1>1
<1>3. PICK from \in [D -> C] : \A i \in D : from[i] = IF i < k THEN i ELSE i + 1
  <2>1. [i \in D |-> IF i < k THEN i ELSE i + 1] \in [D -> C]
    BY <1>1, <1>2
  <2> QED BY <2>1
<1>4. \A i \in D : d[i] = c[from[i]]
  BY <1>1, <1>2, <1>3 DEF TakenOut
<1>5. \A i, j \in D : from[i] = from[j] => i = j
  BY <1>1, <1>2, <1>3
<1>6. 1 .. Len(d) = D /\ 1 .. Len(c) = C
  BY <1>2
<1> HIDE <1>2
<1> QED BY <1>3, <1>4, <1>5, <1>6

LEMMA TakenKeeps ==
  ASSUME ListInv, NEW l \in Lists, NEW e \in Elems, NEW k \in 1 .. Len(contents[l]), NEW d \in Seq(Elems),
         contents[l][k] = e, Unlink(e), contents' = [contents EXCEPT ![l] = d], TakenOut(contents[l], k, d)
  PROVE  ListInv'
<1>1. PICK c \in Seq(Elems), n \in Nat : c = contents[l] /\ n = Len(c)
  BY DEF ListInv, ListTypes
<1>2. PICK a, b : a = Node(l, c, k - 1) /\ b = Node(l, c, k + 1)
  OBVIOUS
<1>3. e = Node(l, c, k)
  BY <1>1, NodeIn
<1>4. a \in LinkNodes /\ b \in LinkNodes
  BY <1>1, <1>2, NodeIn
<1>5. prev[e] = a /\ next[e] = b
  <2>1. k - 1 \in 0 .. n /\ k \in 0 .. n /\ (k - 1) + 1 = k
    BY <1>1
  <2> QED BY <1>1, <1>2, <1>3, <2>1 DEF ListInv, Linked
<1>6. /\ next' \in [LinkNodes -> LinkNodes \cup {NoLink}] /\ prev' \in [LinkNodes -> LinkNodes \cup {NoLink}]
      /\ \A x \in LinkNodes : next'[x] = IF x = a THEN b ELSE next[x]
      /\ \A x \in LinkNodes : prev'[x] = IF x = b THEN a ELSE prev[x]
  BY <1>4, <1>5 DEF ListInv, ListTypes, Unlink
<1>7. contents' \in [Lists -> Seq(Elems)] /\ contents'[l] = d /\ \A m \in Lists \ {l} : contents'[m] = contents[m]
  BY DEF ListInv, ListTypes
<1>8. \A i \in 0 .. n : Node(l, d, i) = IF i < k THEN Node(l, c, i) ELSE Node(l, c, i + 1)
  BY <1>1, NodeTaken
<1>9. \A m \in Lists : \A i \in 0 .. Len(contents[m]) + 1 :
        /\ Node(m, contents[m], i) = a => m = l /\ i = k - 1
        /\ Node(m, contents[m], i) = b => m = l /\ i = k + 1
  BY <1>1, <1>2, NodesApart DEF ListInv
<1>10. ASSUME NEW m \in Lists \ {l} PROVE Linked(m, contents[m])'
  <2>1. PICK s \in Seq(Elems), z \in Nat : s = contents[m] /\ s = contents'[m] /\ z = Len(s) /\ Linked(m, s)
    BY <1>7 DEF ListInv, ListTypes
  <2> SUFFICES ASSUME NEW i \in 0 .. z
               PROVE  next'[Node(m, s, i)] = Node(m, s, i + 1) /\ prev'[Node(m, s, i + 1)] = Node(m, s, i)
    BY <2>1 DEF Linked
  <2>2. Node(m, s, i) \in LinkNodes /\ Node(m, s, i + 1) \in LinkNodes
    BY <2>1, NodeIn
  <2>3. Node(m, s, i) # a /\ Node(m, s, i + 1) # b
    BY <1>9, <2>1
  <2> QED BY <1>6, <2>1, <2>2, <2>3 DEF Linked
<1>11. Linked(l, contents[l])'
  <2> SUFFICES ASSUME NEW i \in 0 .. n - 1
               PROVE  next'[Node(l, d, i)] = Node(l, d, i + 1) /\ prev'[Node(l, d, i + 1)] = Node(l, d, i)
    BY <1>1, <1>7 DEF Linked, TakenOut
  <2>1. \A j \in 0 .. n + 1 : Node(l, c, j) \in LinkNodes
    BY <1>1, NodeIn
  <2>2. \A j \in 0 .. n + 1 : (Node(l, c, j) = a => j = k - 1) /\ (Node(l, c, j) = b => j = k + 1)
    BY <1>1, <1>9
  <2>3. \A j \in 0 .. n : next[Node(l, c, j)] = Node(l, c, j + 1) /\ prev[Node(l, c, j + 1)] = Node(l, c, j)
    BY <1>1 DEF ListInv, Linked
  <2>4. CASE i < k - 1
    <3>1. Node(l, d, i) = Node(l, c, i) /\ Node(l, d, i + 1) = Node(l, c, i + 1)
      BY <1>1, <1>8, <2>4
    <3>2. i \in 0 .. n /\ i \in 0 .. n + 1 /\ i + 1 \in 0 .. n + 1 /\ i # k - 1 /\ i + 1 # k + 1
      BY <1>1, <2>4
    <3> QED BY <1>6, <2>1, <2>2, <2>3, <3>1, <3>2
  <2>5. CASE i = k - 1
    <3>1. Node(l, d, i) = a /\ Node(l, d, i + 1) = b
      BY <1>1, <1>2, <1>8, <2>5
    <3> QED BY <1>4, <1>6, <3>1
  <2>6. CASE i > k - 1
    <3>1. PICK j \in 0 .. n : j = i + 1 /\ j > k
      BY <1>1, <2>6
    <3>2. Node(l, d, i) = Node(l, c, j) /\ Node(l, d, i + 1) = Node(l, c, j + 1)
      BY <1>1, <1>8, <2>6, <3>1
    <3>3. j \in 0 .. n + 1 /\ j + 1 \in 0 .. n + 1 /\ j # k - 1 /\ j + 1 # k + 1
      BY <1>1, <3>1
    <3>4. next'[Node(l, c, j)] = next[Node(l, c, j)] /\ prev'[Node(l, c, j + 1)] = prev[Node(l, c, j + 1)]
      BY <1>6, <2>1, <2>2, <3>3
    <3> QED BY <2>3, <3>2, <3>4
  <2> QED BY <1>1, <2>4, <2>5, <2>6
<1>12. OnePlace'
  <2> SUFFICES ASSUME NEW m \in Lists, NEW q \in Lists, NEW i \in 1 .. Len(contents'[m]), NEW j \in 1 .. Len(contents'[q]),
                      contents'[m][i] = contents'[q][j]
               PROVE  m = q /\ i = j
    BY DEF OnePlace
  <2>1. PICK from \in [1 .. Len(d) -> 1 .. n] :
          /\ \A x \in 1 .. Len(d) : d[x] = c[from[x]]
          /\ \A x, y \in 1 .. Len(d) : from[x] = from[y] => x = y
    BY <1>1, TakenFrom
  <2>2. CASE m = l /\ q = l
    <3>1. i \in 1 .. Len(d) /\ j \in 1 .. Len(d) /\ c[from[i]] = c[from[j]]
      BY <1>7, <2>1, <2>2
    <3>2. \A x, y \in 1 .. n : c[x] = c[y] => x = y
      BY <1>1 DEF ListInv, OnePlace
    <3>3. from[i] \in 1 .. n /\ from[j] \in 1 .. n
      BY <2>1, <3>1
    <3>4. from[i] = from[j]
      BY <3>1, <3>2, <3>3
    <3> QED BY <2>1, <2>2, <3>1, <3>4
  <2>3. CASE m = l /\ q # l
    BY <1>1, <1>7, <2>1, <2>3 DEF ListInv, OnePlace
  <2>4. CASE m # l /\ q = l
    <3>1. i \in 1 .. Len(contents[m]) /\ j \in 1 .. Len(d) /\ contents[m][i] = c[from[j]]
      BY <1>7, <2>1, <2>4
    <3> QED BY <1>1, <2>1, <2>4, <3>1 DEF ListInv, OnePlace
  <2>5. CASE m # l /\ q # l
    BY <1>7, <2>5 DEF ListInv, OnePlace
  <2> QED BY <2>2, <2>3, <2>4, <2>5
<1> QED BY <1>6, <1>7, <1>10, <1>11, <1>12 DEF ListInv, ListTypes

(* One step of a walk, and a walk's first steps along the places g up to place z *)
Onward(link, to, s) == IF s[Len(s)] \in {to, NoLink} THEN s ELSE Append(s, link[s[Len(s)]])
Along(g, z) == [i \in 1 .. z |-> g[i]]

LEMMA AlongIs ==
  ASSUME NEW g, NEW z \in Nat \ {0}
  PROVE  Len(Along(g, z)) = z /\ Along(g, z)[z] = g[z] /\ Append(Along(g, z), g[z + 1]) = Along(g, z + 1)
<1>1. Along(g, z) \in Seq({g[i] : i \in 1 .. z}) /\ Len(Along(g, z)) = z /\ \A i \in 1 .. z : Along(g, z)[i] = g[i]
  BY DEF Along
<1> QED BY <1>1 DEF Along

LEMMA AlongAppends ==
  ASSUME NEW s \in Seq(Elems), NEW g, NEW x, \A i \in 1 .. Len(s) : s[i] = g[i], g[Len(s) + 1] = x
  PROVE  Along(g, Len(s) + 1) = Append(s, x)
<1>1. PICK n \in Nat : n = Len(s)
  OBVIOUS
<1>2. s = Along(g, n)
  BY <1>1 DEF Along
<1>3. CASE n = 0
  <2>1. s = <<>>
    BY <1>1, <1>3, EmptySeq
  <2>4. g[n + 1] = x
    BY <1>1
  <2>5. n + 1 = 1
    BY <1>3
  <2>2. Append(<<>>, x) = <<x>>
    OBVIOUS
  <2>3. Along(g, 1) = <<g[1]>>
    BY DEF Along
  <2> QED BY <1>1, <2>1, <2>2, <2>3, <2>4, <2>5
<1>4. CASE n # 0
  BY <1>1, <1>2, <1>4, AlongIs
<1> QED BY <1>3, <1>4

LEMMA WalkIs ==
  ASSUME NEW link, NEW from, NEW to, NEW z \in Nat \ {0}, NEW g,
         \A i \in 0 .. z - 1 : link[g[i]] = g[i + 1], g[0] = from, g[z] = to,
         \A i \in 1 .. z - 1 : g[i] \notin {to, NoLink},
         Cardinality(Elems) \in Nat, z - 1 <= Cardinality(Elems)
  PROVE  Walked(link, from, to) = Along(g, z)
<1> DEFINE K == Cardinality(Elems)
           body(h) == [n \in 0 .. K |-> IF n = 0 THEN <<link[from]>> ELSE Onward(link, to, h[n - 1])]
           steps == CHOOSE h : h = body(h)
           upto(n) == IF n < z THEN n + 1 ELSE z
           f == [n \in 0 .. K |-> Along(g, upto(n))]
<1>1. Walked(link, from, to) = steps[K]
  BY DEF Walked, Onward
<1>2. <<link[from]>> = Along(g, 1)
  BY DEF Along
<1>3. ASSUME NEW n \in 1 .. K PROVE Along(g, upto(n)) = Onward(link, to, Along(g, upto(n - 1)))
  <2>1. CASE n < z
    <3>1. upto(n) = n + 1 /\ upto(n - 1) = n
      BY <2>1
    <3>2. Along(g, n)[Len(Along(g, n))] = g[n] /\ Append(Along(g, n), g[n + 1]) = Along(g, n + 1)
      <4>1. n \in Nat \ {0}
        OBVIOUS
      <4>2. Len(Along(g, n)) = n /\ Along(g, n)[n] = g[n] /\ Append(Along(g, n), g[n + 1]) = Along(g, n + 1)
        BY <4>1, AlongIs, Zenon
      <4> QED BY <4>2, Zenon
    <3>3. g[n] \notin {to, NoLink} /\ link[g[n]] = g[n + 1]
      BY <2>1
    <3> QED BY <3>1, <3>2, <3>3 DEF Onward
  <2>2. CASE n >= z
    <3>1. upto(n) = z /\ upto(n - 1) = z
      BY <2>2
    <3>2. Along(g, z)[Len(Along(g, z))] = to
      BY AlongIs
    <3> QED BY <3>1, <3>2 DEF Onward
  <2> QED BY <2>1, <2>2
<1>4. f = body(f)
  <2>1. \A n \in 0 .. K : f[n] = IF n = 0 THEN <<link[from]>> ELSE Onward(link, to, f[n - 1])
    <3> SUFFICES ASSUME NEW n \in 0 .. K PROVE f[n] = IF n = 0 THEN <<link[from]>> ELSE Onward(link, to, f[n - 1])
      OBVIOUS
    <3>1. CASE n = 0
      BY <1>2, <3>1
    <3>2. CASE n # 0
      <4>1. n \in 1 .. K /\ n - 1 \in 0 .. K
        BY <3>2
      <4> QED BY <1>3, <4>1, <3>2
    <3> QED BY <3>1, <3>2
  <2> QED BY <2>1, Zenon
<1>5. steps = body(steps)
  <2> HIDE DEF f, body
  <2> QED BY <1>4
<1>6. \A n \in 0 .. K : steps[n] = f[n]
  <2> SUFFICES ASSUME {n \in 0 .. K : steps[n] # f[n]} # {} PROVE FALSE
    OBVIOUS
  <2> HIDE DEF steps, f
  <2>1. PICK n \in 0 .. K : steps[n] # f[n] /\ \A m \in 0 .. K : steps[m] # f[m] => n <= m
    <3>1. {n \in 0 .. K : steps[n] # f[n]} \in SUBSET Nat
      OBVIOUS
    <3>2. PICK n \in {n \in 0 .. K : steps[n] # f[n]} : \A m \in {i \in 0 .. K : steps[i] # f[i]} : n <= m
      BY <3>1, LeastNat
    <3> QED BY <3>2
  <2>2. CASE n = 0
    BY <1>4, <1>5, <2>1, <2>2
  <2>3. CASE n # 0
    <3>1. n - 1 \in 0 .. K /\ ~(n <= n - 1)
      BY <2>3
    <3>2. steps[n - 1] = f[n - 1]
      BY <2>1, <3>1
    <3> QED BY <1>4, <1>5, <2>1, <2>3, <3>2
  <2> QED BY <2>2, <2>3
<1>7. K \in 0 .. K /\ upto(K) = z
  OBVIOUS
<1> QED BY <1>1, <1>6, <1>7

LEMMA ContentsFit ==
  ASSUME ListTypes, OnePlace, NEW l \in Lists
  PROVE  Cardinality(Elems) \in Nat /\ Len(contents[l]) <= Cardinality(Elems)
<1>1. PICK c \in Seq(Elems), n \in Nat : c = contents[l] /\ n = Len(c)
  BY DEF ListTypes
<1>2. PICK S : S = 1 .. n
  OBVIOUS
<1>3. c \in [S -> Elems]
  BY <1>1, <1>2
<1>4. c \in Injection(S, Elems)
  BY <1>1, <1>2, <1>3 DEF OnePlace, Injection, IsInjective
<1>5. IsFiniteSet(Elems)
  BY ListAssumption
<1>6. Cardinality(S) <= Cardinality(Elems)
  BY <1>4, <1>5, FS_Injection
<1>7. Cardinality(S) = n
  BY <1>1, <1>2, FS_Interval
<1> QED BY <1>1, <1>5, <1>6, <1>7, FS_CardinalityType

LEMMA ForwardIs == ASSUME ListInv, NEW l \in Lists PROVE Forward(l) = Append(contents[l], TailOf(l))
<1>1. PICK c \in Seq(Elems), n \in Nat : c = contents[l] /\ n = Len(c)
  BY DEF ListInv, ListTypes
<1>2. PICK g : g = [i \in 0 .. n + 1 |-> Node(l, c, i)]
  OBVIOUS
<1>3. \A i \in 0 .. n : next[g[i]] = g[i + 1]
  BY <1>1, <1>2 DEF ListInv, Linked
<1>4. g[0] = HeadOf(l) /\ g[n + 1] = TailOf(l)
  BY <1>1, <1>2, NodeIn
<1>5. \A i \in 1 .. n : g[i] = c[i] /\ g[i] \in Elems
  BY <1>1, <1>2, NodeIn
<1>6. TailOf(l) \notin Elems /\ NoLink \notin Elems
  BY ListAssumption DEF ListEnds
<1>7. Cardinality(Elems) \in Nat /\ n <= Cardinality(Elems)
  BY <1>1, ContentsFit DEF ListInv
<1>8. PICK z \in Nat \ {0} : z = n + 1
  OBVIOUS
<1>9. Walked(next, HeadOf(l), TailOf(l)) = Along(g, z)
  <2>1. \A i \in 0 .. z - 1 : next[g[i]] = g[i + 1]
    BY <1>3, <1>8
  <2>2. \A i \in 1 .. z - 1 : g[i] \notin {TailOf(l), NoLink}
    BY <1>5, <1>6, <1>8
  <2>3. z - 1 <= Cardinality(Elems)
    BY <1>7, <1>8
  <2> QED BY <1>4, <1>7, <1>8, <2>1, <2>2, <2>3, WalkIs
<1>10. Along(g, n + 1) = Append(c, TailOf(l))
  BY <1>1, <1>4, <1>5, AlongAppends
<1> QED BY <1>1, <1>8, <1>9, <1>10 DEF Forward

LEMMA BackwardIs == ASSUME ListInv, NEW l \in Lists PROVE Backward(l) = Append(Reverse(contents[l]), HeadOf(l))
<1>1. PICK c \in Seq(Elems), n \in Nat : c = contents[l] /\ n = Len(c)
  BY DEF ListInv, ListTypes
<1>2. PICK g : g = [i \in 0 .. n + 1 |-> Node(l, c, (n + 1) - i)]
  OBVIOUS
<1>3. \A i \in 0 .. n : prev[g[i]] = g[i + 1]
  <2> SUFFICES ASSUME NEW i \in 0 .. n PROVE prev[g[i]] = g[i + 1]
    OBVIOUS
  <2>1. PICK j \in 0 .. n : j = n - i
    OBVIOUS
  <2>2. g[i] = Node(l, c, j + 1) /\ g[i + 1] = Node(l, c, j)
    BY <1>2, <2>1
  <2> QED BY <1>1, <2>2 DEF ListInv, Linked
<1>4. g[0] = TailOf(l) /\ g[n + 1] = HeadOf(l)
  BY <1>1, <1>2, NodeIn
<1>5. \A i \in 1 .. n : g[i] = c[(n - i) + 1] /\ g[i] \in Elems
  <2> SUFFICES ASSUME NEW i \in 1 .. n PROVE g[i] = c[(n - i) + 1] /\ g[i] \in Elems
    OBVIOUS
  <2>1. PICK j \in 1 .. n : j = (n - i) + 1 /\ j = (n + 1) - i
    OBVIOUS
  <2>2. g[i] = Node(l, c, j)
    BY <1>2, <2>1
  <2> QED BY <1>1, <2>1, <2>2, NodeIn
<1>6. HeadOf(l) \notin Elems /\ NoLink \notin Elems
  BY ListAssumption DEF ListEnds
<1>7. Cardinality(Elems) \in Nat /\ n <= Cardinality(Elems)
  BY <1>1, ContentsFit DEF ListInv
<1>8. PICK z \in Nat \ {0} : z = n + 1
  OBVIOUS
<1>9. Walked(prev, TailOf(l), HeadOf(l)) = Along(g, z)
  <2>1. \A i \in 0 .. z - 1 : prev[g[i]] = g[i + 1]
    BY <1>3, <1>8
  <2>2. \A i \in 1 .. z - 1 : g[i] \notin {HeadOf(l), NoLink}
    BY <1>5, <1>6, <1>8
  <2>3. z - 1 <= Cardinality(Elems)
    BY <1>7, <1>8
  <2> QED BY <1>4, <1>7, <1>8, <2>1, <2>2, <2>3, WalkIs
<1>10. Along(g, n + 1) = Append(Reverse(c), HeadOf(l))
  <2>1. PICK r : r = Reverse(c)
    OBVIOUS
  <2>2. r \in Seq(Elems) /\ Len(r) = n /\ \A i \in 1 .. n : r[i] = g[i]
    BY <1>1, <1>5, <2>1 DEF Reverse
  <2>3. Along(g, n + 1) = Append(r, HeadOf(l))
    BY <1>1, <1>4, <2>2, AlongAppends
  <2> QED BY <2>1, <2>3
<1> QED BY <1>1, <1>8, <1>9, <1>10 DEF Backward

LEMMA FirstIs == ASSUME ListInv, NEW l \in Lists PROVE next[HeadOf(l)] = Node(l, contents[l], 1)
<1>1. PICK c \in Seq(Elems), n \in Nat : c = contents[l] /\ n = Len(c)
  BY DEF ListInv, ListTypes
<1>2. 0 \in 0 .. n /\ 0 + 1 = 1
  OBVIOUS
<1>3. next[Node(l, c, 0)] = Node(l, c, 1)
  BY <1>1, <1>2 DEF ListInv, Linked
<1>4. Node(l, c, 0) = HeadOf(l)
  BY DEF Node
<1> QED BY <1>1, <1>3, <1>4

LEMMA ListsHold == ListInv => LinksHold
<1> SUFFICES ASSUME ListInv, NEW l \in Lists
             PROVE  /\ Forward(l) = Append(contents[l], TailOf(l))
                    /\ Backward(l) = Append(Reverse(contents[l]), HeadOf(l))
                    /\ ListEmpty(l) <=> contents[l] = <<>>
                    /\ ListLength(l) = Len(contents[l])
                    /\ \A e \in Elems : ListFind(l, e) <=> e \in OnList(l)
  BY DEF LinksHold
<1>1. PICK c \in Seq(Elems), n \in Nat : c = contents[l] /\ n = Len(c)
  BY DEF ListInv, ListTypes
<1>2. Forward(l) = Append(c, TailOf(l))
  BY <1>1, ForwardIs
<1>3. TailOf(l) \notin Elems
  BY ListAssumption DEF ListEnds
<1>4. ListEmpty(l) <=> c = <<>>
  <2>1. next[HeadOf(l)] = Node(l, c, 1)
    BY <1>1, FirstIs
  <2>3. c = <<>> <=> n = 0
    BY <1>1
  <2>4. n = 0 => Node(l, c, 1) = TailOf(l)
    <3>1. Node(l, c, n + 1) = TailOf(l)
      BY <1>1, NodeIn
    <3> QED BY <3>1
  <2>5. n # 0 => Node(l, c, 1) \in Elems
    <3>1. n # 0 => 1 \in 1 .. n /\ 1 \in 0 .. n + 1
      BY <1>1
    <3> QED BY <1>1, <3>1, NodeIn
  <2> QED BY <1>3, <2>1, <2>3, <2>4, <2>5 DEF ListEmpty
<1>5. Len(Append(c, TailOf(l))) = n + 1 /\ \A i \in 1 .. n + 1 : Append(c, TailOf(l))[i] = IF i = n + 1 THEN TailOf(l) ELSE c[i]
  BY <1>1
<1>6. ListLength(l) = n
  BY <1>2, <1>5 DEF ListLength
<1>7. ASSUME NEW e \in Elems PROVE ListFind(l, e) <=> e \in OnList(l)
  <2>1. DOMAIN Append(c, TailOf(l)) = 1 .. n + 1 /\ DOMAIN c = 1 .. n
    BY <1>1
  <2> QED BY <1>1, <1>2, <1>3, <1>5, <2>1 DEF ListFind, OnList
<1> QED BY <1>1, <1>4, <1>6, <1>7, ForwardIs, BackwardIs

LEMMA ListInitially == ListInit => ListInv
<1> SUFFICES ASSUME ListInit PROVE ListInv
  OBVIOUS
<1>1. \A l \in Lists : contents[l] = <<>> /\ Len(contents[l]) = 0
  BY DEF ListInit
<1>2. contents \in [Lists -> Seq(Elems)]
  BY DEF ListInit
<1>3. \A l \in Lists : HeadOf(l) \in LinkNodes /\ TailOf(l) \in LinkNodes
  BY DEF LinkNodes, ListEnds
<1>4. \A l \in Lists : (CHOOSE m \in Lists : HeadOf(l) = HeadOf(m)) = l /\ (CHOOSE m \in Lists : TailOf(l) = TailOf(m)) = l
  BY ListAssumption
<1>5. \A l, m \in Lists : HeadOf(l) # TailOf(m)
  BY ListAssumption
<1>6. \A l \in Lists : next[HeadOf(l)] = TailOf(l) /\ prev[TailOf(l)] = HeadOf(l)
  BY <1>3, <1>4, <1>5 DEF ListInit, LinkNodes
<1>7. /\ next \in [LinkNodes -> LinkNodes \cup {NoLink}]
      /\ prev \in [LinkNodes -> LinkNodes \cup {NoLink}]
  BY <1>3 DEF ListInit, LinkNodes
<1>8. OnePlace
  BY <1>1 DEF OnePlace
<1>9. \A l \in Lists : Linked(l, contents[l])
  BY <1>1, <1>6 DEF Linked, Node
<1> QED BY <1>2, <1>7, <1>8, <1>9 DEF ListInv, ListTypes

LEMMA PushStep == ASSUME ListInv, NEW l \in Lists, NEW e \in Elems, ListPush(l, e) PROVE ListInv'
<1>1. PICK c \in Seq(Elems), d \in Seq(Elems) : c = contents[l] /\ d = <<e>> \o c
  <2>1. PICK c \in Seq(Elems) : c = contents[l]
    BY DEF ListInv, ListTypes
  <2>2. (<<e>> \o c) \in Seq(Elems)
    BY <2>1
  <2> QED BY <2>1, <2>2
<1>2. e \in OnNone /\ InsertBefore(next[HeadOf(l)], e) /\ contents' = [contents EXCEPT ![l] = d]
  BY <1>1 DEF ListPush
<1>3. 0 \in 0 .. Len(c) /\ 0 + 1 = 1
  BY <1>1
<1>4. next[HeadOf(l)] = Node(l, c, 1)
  BY <1>1, FirstIs
<1>5. PutIn(c, 0, e, d)
  <2>1. <<e>> \in Seq(Elems) /\ Len(<<e>>) = 1 /\ <<e>>[1] = e
    OBVIOUS
  <2>2. Len(d) = 1 + Len(c) /\ \A i \in 1 .. 1 + Len(c) : d[i] = IF i <= 1 THEN <<e>>[i] ELSE c[i - 1]
    BY <1>1, <2>1, ConcatIs
  <2>3. PICK n \in Nat : n = Len(c)
    BY <1>1
  <2> QED BY <2>1, <2>2, <2>3 DEF PutIn
<1> QED BY <1>1, <1>2, <1>3, <1>4, <1>5, PutKeeps

LEMMA AppendStep == ASSUME ListInv, NEW l \in Lists, NEW e \in Elems, ListAppend(l, e) PROVE ListInv'
<1>1. PICK c \in Seq(Elems), d \in Seq(Elems) : c = contents[l] /\ d = Append(c, e)
  <2>1. PICK c \in Seq(Elems) : c = contents[l]
    BY DEF ListInv, ListTypes
  <2>2. Append(c, e) \in Seq(Elems)
    BY <2>1
  <2> QED BY <2>1, <2>2
<1>2. e \in OnNone /\ InsertBefore(TailOf(l), e) /\ contents' = [contents EXCEPT ![l] = d]
  BY <1>1 DEF ListAppend
<1>3. Len(c) \in 0 .. Len(c)
  BY <1>1
<1>4. TailOf(l) = Node(l, c, Len(c) + 1)
  BY <1>1, NodeIn
<1>5. PutIn(c, Len(c), e, d)
  BY <1>1, AppendProperties DEF PutIn
<1> QED BY <1>1, <1>2, <1>3, <1>4, <1>5, PutKeeps

LEMMA PopStep == ASSUME ListInv, NEW l \in Lists, ListPop(l) PROVE ListInv'
<1>1. PICK c \in Seq(Elems) : c = contents[l]
  BY DEF ListInv, ListTypes
<1>2. c # <<>>
  BY <1>1, ListsHold DEF ListPop, LinksHold
<1>3. 1 \in 1 .. Len(c) /\ 1 \in 0 .. Len(c) + 1
  BY <1>1, <1>2, EmptySeq
<1>4. PICK d \in Seq(Elems) : d = Tail(c)
  <2>1. Tail(c) \in Seq(Elems)
    BY <1>2
  <2> QED BY <2>1
<1>5. next[HeadOf(l)] = Node(l, c, 1) /\ Node(l, c, 1) = c[1] /\ c[1] \in Elems
  BY <1>1, <1>3, FirstIs, NodeIn
<1>6. TakenOut(c, 1, d)
  BY <1>1, <1>2, <1>4 DEF TakenOut
<1>7. Unlink(c[1]) /\ contents' = [contents EXCEPT ![l] = d]
  BY <1>1, <1>4, <1>5 DEF ListPop
<1> QED BY <1>1, <1>3, <1>5, <1>6, <1>7, TakenKeeps

LEMMA RemoveAtIs ==
  ASSUME NEW c \in Seq(Elems), NEW k \in 1 .. Len(c)
  PROVE  RemoveAt(c, k) \in Seq(Elems) /\ TakenOut(c, k, RemoveAt(c, k))
<1>1. PICK n \in Nat : n = Len(c)
  OBVIOUS
<1>2. PICK s : s = SubSeq(c, 1, k - 1)
  OBVIOUS
<1>3. PICK t : t = SubSeq(c, k + 1, n)
  OBVIOUS
<1>4. s \in Seq(Elems) /\ Len(s) = k - 1 /\ \A i \in 1 .. k - 1 : s[i] = c[i]
  BY <1>1, <1>2
<1>5. t \in Seq(Elems) /\ Len(t) = n - k /\ \A i \in 1 .. n - k : t[i] = c[i + k]
  <2>1. k + 1 <= n => k + 1 \in 1 .. n
    BY <1>1
  <2> QED BY <1>1, <1>3, <2>1
<1>6. /\ s \o t \in Seq(Elems) /\ Len(s \o t) = Len(s) + Len(t)
      /\ \A i \in 1 .. Len(s) + Len(t) : (s \o t)[i] = IF i <= Len(s) THEN s[i] ELSE t[i - Len(s)]
  BY <1>4, <1>5, ConcatIs
<1>7. ASSUME NEW i \in 1 .. n - 1 PROVE (s \o t)[i] = IF i < k THEN c[i] ELSE c[i + 1]
  <2>1. i \in 1 .. Len(s) + Len(t)
    BY <1>1, <1>4, <1>5
  <2>2. CASE i < k
    BY <1>1, <1>4, <1>6, <2>1, <2>2
  <2>3. CASE i >= k
    <3>1. (s \o t)[i] = t[i - (k - 1)]
      BY <1>1, <1>4, <1>6, <2>1, <2>3
    <3>2. i - (k - 1) \in 1 .. n - k /\ (i - (k - 1)) + k = i + 1
      BY <1>1, <2>3
    <3> QED BY <1>5, <2>3, <3>1, <3>2, SMTT(30)
  <2>4. i < k \/ i >= k
    BY <1>1
  <2> QED BY <2>2, <2>3, <2>4
<1>8. Len(s \o t) = n - 1
  BY <1>1, <1>4, <1>5, <1>6
<1> QED BY <1>1, <1>2, <1>3, <1>6, <1>7, <1>8 DEF RemoveAt, TakenOut

LEMMA RemoveStep == ASSUME ListInv, NEW e \in Elems, ListRemove(e) PROVE ListInv'
<1>1. PICK l \in Lists : \E i \in DOMAIN contents[l] :
        contents[l][i] = e /\ contents' = [contents EXCEPT ![l] = RemoveAt(@, i)]
  BY DEF ListRemove
<1>2. PICK c \in Seq(Elems) : c = contents[l]
  BY DEF ListInv, ListTypes
<1>3. PICK k \in 1 .. Len(c) : c[k] = e /\ contents' = [contents EXCEPT ![l] = RemoveAt(c, k)]
  <2>1. DOMAIN c = 1 .. Len(c)
    OBVIOUS
  <2>2. PICK i \in DOMAIN contents[l] : contents[l][i] = e /\ contents' = [contents EXCEPT ![l] = RemoveAt(contents[l], i)]
    BY <1>1
  <2> QED BY <1>2, <2>1, <2>2
<1>4. RemoveAt(c, k) \in Seq(Elems) /\ TakenOut(c, k, RemoveAt(c, k))
  BY <1>3, RemoveAtIs
<1> QED BY <1>2, <1>3, <1>4, TakenKeeps DEF ListRemove

LEMMA ListStep == ListInv /\ [ListNext]_listVars => ListInv'
<1> SUFFICES ASSUME ListInv, [ListNext]_listVars PROVE ListInv'
  OBVIOUS
<1>1. ASSUME NEW l \in Lists, NEW e \in Elems, ListPush(l, e) PROVE ListInv'
  BY <1>1, PushStep
<1>2. ASSUME NEW l \in Lists, NEW e \in Elems, ListAppend(l, e) PROVE ListInv'
  BY <1>2, AppendStep
<1>3. ASSUME NEW l \in Lists, ListPop(l) PROVE ListInv'
  BY <1>3, PopStep
<1>4. ASSUME NEW e \in Elems, ListRemove(e) PROVE ListInv'
  BY <1>4, RemoveStep
<1>5. CASE UNCHANGED listVars
  BY <1>5 DEF listVars, ListInv, ListTypes, OnePlace, Linked
<1> QED BY <1>1, <1>2, <1>3, <1>4, <1>5 DEF ListNext

(* Whatever was pushed, appended, popped and removed before, on any of the   *)
(* lists of kernel/list.c: the links of each lead through what is on it,     *)
(* forward and backward, and its length, search and test for emptiness agree *)
(* with that.                                                                *)
THEOREM LinksAreRight == ListSpec => []LinksHold
<1>1. ListSpec => []ListInv
  BY ListInitially, ListStep, PTL DEF ListSpec
<1> QED BY <1>1, ListsHold, PTL
=============================================================================
