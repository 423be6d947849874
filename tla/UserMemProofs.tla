--------------------------- MODULE UserMemProofs ---------------------------
(***************************************************************************)
(* Proofs about module UserMem, for any number of frames, processes, pages *)
(* and sizes of the blocks: every frame has one owner; the pages of a      *)
(* program are mapped up to its break; a fork copies them; and about       *)
(* module Heap, for any requests: its blocks share out what sbrk gave.     *)
(***************************************************************************)
EXTENDS UserMem, Heap, FiniteSetTheorems, TLAPS

Some == Frames \cup {0}

Takes(a) == upd[a].at \in {"found", "marking"}
Gives(a) == upd[a].at \in {"given", "clearing", "freed"}
HasHeap(a, k) == upd[a].kind = "heap" /\ upd[a].page = k
HasUser(a, g) == upd[a].kind = "user" /\ upd[a].page = g

(* The page and the frame of an update under way *)
Update ==
  [at : {"found", "marking", "given", "clearing", "freed"}, kind : {"heap", "user"},
   page : Nat, f : Some, val : SUBSET Some]
Sized(a) ==
  /\ upd[a] \in Update
  /\ upd[a].at # "freed" => upd[a].f \in Frames
  /\ \/ \E k \in KPages : HasHeap(a, k)
     \/ a \in Procs /\ \E g \in Pages : HasUser(a, g)

(* The part of the state the frames are accounted in. *)
Types ==
  /\ kdir \in [KPages -> Some]
  /\ dir \in [Procs -> [Pages -> Some]]
  /\ DOMAIN heap = KPages
  /\ DOMAIN upd = Actors
  /\ \A a \in Actors : upd[a] = Rest \/ ((Takes(a) \/ Gives(a)) /\ Sized(a))
  /\ raced \in BOOLEAN
  /\ 0 \notin lost

(* A heap page that is to be mapped is its caller's alone and has no       *)
(* frame; one that is unmapped is nobody's and keeps its entry to the end. *)
Has(a, use) == use # Spare /\ use[1] = a
Taking == \A a \in Actors, k \in KPages :
            Takes(a) /\ HasHeap(a, k) => Has(a, heap[k]) /\ kdir[k] = 0
Giving == \A a \in Actors, k \in KPages :
            Gives(a) /\ HasHeap(a, k) => heap[k] = Spare /\ kdir[k] = upd[a].f
GivingUser == \A a \in Procs, g \in Pages :
            Gives(a) /\ HasUser(a, g) => dir[a][g] = upd[a].f
OneGives == \A a, b \in Actors, k \in KPages :
            Gives(a) /\ HasHeap(a, k) /\ Gives(b) /\ HasHeap(b, k) => a = b
Unmapped == \A k \in KPages : heap[k] = Spare /\ kdir[k] # 0 => Leaving(k)
Pending == Taking /\ Giving /\ GivingUser /\ OneGives /\ Unmapped

(* The account: what the tables name, 0 where the frame has been given     *)
(* back.                                                                   *)
Kern == [k \in KPages |->
           IF \E a \in Actors : Gone(a, "heap", k) THEN 0 ELSE kdir[k]]
User == [p \in Procs |-> [g \in Pages |->
           IF Gone(p, "user", g) THEN 0 ELSE dir[p][g]]]
KernelOf == {f \in Frames : \E k \in KPages : Kern[k] = f}
UserOf == {f \in Frames : \E p \in Procs, g \in Pages : User[p][g] = f}

Entries ==
  Kern \in [KPages -> Some] /\ User \in [Procs -> [Pages -> Some]] /\ 0 \notin lost
Accounted ==
  /\ \A k, l \in KPages : Kern[k] = Kern[l] /\ Kern[k] # 0 => k = l
  /\ \A p, q \in Procs : \A g, h \in Pages :
       User[p][g] = User[q][h] /\ User[p][g] # 0 => p = q /\ g = h
  /\ \A k \in KPages, p \in Procs : \A g \in Pages :
       Kern[k] # 0 => Kern[k] # User[p][g]
  /\ \A f \in lost : f \notin KernelOf \cup UserOf
  /\ bits = {0} \cup KernelOf \cup UserOf \cup lost

Inv == Types /\ (~raced => Accounted /\ Pending)

LEMMA SomeNumber == Frames \subseteq Nat /\ 0 \notin Frames
BY FramesAssumption

LEMMA KernIs ==
  ASSUME NEW k \in KPages
  PROVE  Kern[k] = IF \E a \in Actors : Gone(a, "heap", k) THEN 0 ELSE kdir[k]
BY DEF Kern

LEMMA UserIs ==
  ASSUME NEW p \in Procs, NEW g \in Pages
  PROVE  User[p][g] = IF Gone(p, "user", g) THEN 0 ELSE dir[p][g]
BY DEF User

LEMMA EntriesTyped == Types => Entries
<1> SUFFICES ASSUME Types PROVE Entries
  OBVIOUS
<1>1. \A k \in KPages : Kern[k] \in Some
  BY KernIs DEF Types, Some
<1>2. \A p \in Procs, g \in Pages : User[p][g] \in Some
  BY UserIs DEF Types, Some
<1>3. Kern \in [KPages -> Some]
  BY <1>1 DEF Kern
<1>4. User \in [Procs -> [Pages -> Some]]
  <2>1. \A p \in Procs : User[p] \in [Pages -> Some]
    BY <1>2 DEF User
  <2> QED BY <2>1 DEF User
<1> QED BY <1>3, <1>4 DEF Entries, Types

(* The account is what OneOwner says. *)
LEMMA OwnerIs ==
  ASSUME Types, Accounted
  PROVE  OneOwner
<1>1. \A k \in HeapPages : k \in KPages /\ Kern[k] = kdir[k] /\ Kern[k] # 0
  BY KernIs DEF HeapPages
<1>2. \A p \in Procs : \A g \in UserPages(p) : g \in Pages /\ User[p][g] = dir[p][g] /\ User[p][g] # 0
  BY UserIs DEF UserPages
<1>3. KernelFrames = KernelOf
  <2>1. ASSUME NEW k \in HeapPages PROVE kdir[k] \in KernelOf
    BY <1>1 DEF KernelOf, Types, Some
  <2>2. ASSUME NEW f \in KernelOf PROVE f \in KernelFrames
    <3>1. PICK k \in KPages : Kern[k] = f /\ f # 0
      BY SomeNumber DEF KernelOf
    <3>2. k \in HeapPages /\ kdir[k] = f
      BY <3>1, KernIs DEF HeapPages
    <3> QED BY <3>2 DEF KernelFrames
  <2> QED BY <2>1, <2>2 DEF KernelFrames
<1>4. UserFrames = UserOf
  <2>1. ASSUME NEW p \in Procs, NEW g \in UserPages(p) PROVE dir[p][g] \in UserOf
    BY <1>2 DEF UserOf, Types, Some
  <2>2. ASSUME NEW f \in UserOf PROVE f \in UserFrames
    <3>1. PICK p \in Procs, g \in Pages : User[p][g] = f /\ f # 0
      BY SomeNumber DEF UserOf
    <3>2. g \in UserPages(p) /\ dir[p][g] = f
      BY <3>1, UserIs DEF UserPages
    <3> QED BY <3>2 DEF UserFrames
  <2> QED BY <2>1, <2>2 DEF UserFrames
<1>5. \A k, l \in HeapPages : kdir[k] = kdir[l] => k = l
  BY <1>1 DEF Accounted
<1>6. \A p, q \in Procs : \A g \in UserPages(p), h \in UserPages(q) :
        dir[p][g] = dir[q][h] => p = q /\ g = h
  BY <1>2 DEF Accounted
<1>7. KernelOf \cap UserOf = {}
  <2> SUFFICES ASSUME NEW f \in KernelOf, f \in UserOf PROVE FALSE
    OBVIOUS
  <2>1. PICK k \in KPages : Kern[k] = f /\ f # 0
    BY SomeNumber DEF KernelOf
  <2>2. PICK p \in Procs, g \in Pages : User[p][g] = f
    BY DEF UserOf
  <2> QED BY <2>1, <2>2 DEF Accounted
<1>8. lost \cap (KernelFrames \cup UserFrames) = {} /\ bits = {0} \cup KernelFrames \cup UserFrames \cup lost
  BY <1>3, <1>4 DEF Accounted
<1> QED BY <1>3, <1>4, <1>5, <1>6, <1>7, <1>8 DEF OneOwner

(* A free heap page is given a free frame. *)
LEMMA MapKernelOwner ==
  ASSUME Entries, Accounted, NEW k \in KPages, Kern[k] = 0,
         NEW f \in FreeFrames,
         Kern' = [Kern EXCEPT ![k] = f], bits' = bits \cup {f},
         UNCHANGED <<User, lost>>
  PROVE  Kern' \in [KPages -> Some] /\ Accounted'
<1>1. f \in Frames /\ f # 0 /\ f \notin bits
  BY SomeNumber DEF FreeFrames
<1>2. Kern' \in [KPages -> Some] /\ \A l \in KPages : Kern'[l] = IF l = k THEN f ELSE Kern[l]
  BY <1>1 DEF Entries, Some
<1>3. f \notin KernelOf /\ f \notin UserOf /\ f \notin lost
  BY <1>1 DEF Accounted
<1>4. \A l \in KPages : Kern[l] # f
  BY <1>1, <1>3 DEF KernelOf
<1>5. \A p \in Procs, g \in Pages : User[p][g] # f
  BY <1>1, <1>3 DEF UserOf
<1>6. UserOf' = UserOf
  BY DEF UserOf
<1>7. KernelOf' = KernelOf \cup {f}
  <2>1. \A x \in Frames : x \in KernelOf' <=> x \in KernelOf \/ x = f
    <3> TAKE x \in Frames
    <3>1. CASE x = f
      BY <1>2, <3>1 DEF KernelOf
    <3>2. ASSUME x # f, NEW l \in KPages, Kern'[l] = x  PROVE Kern[l] = x
      BY <1>2, <3>2
    <3>3. ASSUME NEW l \in KPages, Kern[l] = x  PROVE Kern'[l] = x
      BY <1>2, <3>3, SomeNumber
    <3> QED  BY <3>1, <3>2, <3>3 DEF KernelOf
  <2>2. KernelOf \subseteq Frames /\ KernelOf' \subseteq Frames
    BY DEF KernelOf
  <2> QED  BY <1>1, <2>1, <2>2
<1>8. \A x, y \in KPages : Kern'[x] = Kern'[y] /\ Kern'[x] # 0 => x = y
  BY <1>1, <1>2, <1>4 DEF Accounted
<1>9. \A x \in KPages, p \in Procs : \A g \in Pages :
        Kern'[x] # 0 => Kern'[x] # User'[p][g]
  BY <1>2, <1>5 DEF Accounted
<1>10. \A x \in lost' : x \notin KernelOf' \cup UserOf'
  BY <1>3, <1>6, <1>7 DEF Accounted, Entries
<1>11. bits' = {0} \cup KernelOf' \cup UserOf' \cup lost'
  BY <1>6, <1>7 DEF Accounted
<1>12. \A p, q \in Procs : \A g, h \in Pages :
         User'[p][g] = User'[q][h] /\ User'[p][g] # 0 => p = q /\ g = h
  BY DEF Accounted
<1> QED  BY <1>2, <1>8, <1>9, <1>10, <1>11, <1>12 DEF Accounted

(* A heap page that is given back leaves its frame free. *)
LEMMA UnmapKernelOwner ==
  ASSUME Entries, Accounted, NEW k \in KPages,
         Kern' = [Kern EXCEPT ![k] = 0], bits' = bits \ ({Kern[k]} \ {0}),
         UNCHANGED <<User, lost>>
  PROVE  Kern' \in [KPages -> Some] /\ Accounted'
<1> DEFINE f == Kern[k]
<1>1. /\ Kern' \in [KPages -> Some]
      /\ \A l \in KPages : Kern'[l] = IF l = k THEN 0 ELSE Kern[l]
  BY DEF Entries, Some
<1>2. UserOf' = UserOf
  BY DEF UserOf
<1>3. KernelOf' = KernelOf \ {f}
  <2>1. \A x \in Frames : x \in KernelOf' <=> x \in KernelOf /\ x # f
    <3> TAKE x \in Frames
    <3>1. ASSUME NEW l \in KPages, Kern'[l] = x  PROVE Kern[l] = x /\ x # f
      BY <1>1, <3>1, SomeNumber DEF Accounted
    <3>2. ASSUME NEW l \in KPages, Kern[l] = x, x # f  PROVE Kern'[l] = x
      BY <1>1, <3>2
    <3> QED  BY <3>1, <3>2 DEF KernelOf
  <2>2. KernelOf \subseteq Frames /\ KernelOf' \subseteq Frames
    BY DEF KernelOf
  <2> QED  BY <2>1, <2>2
<1>4. f # 0 => f \notin UserOf /\ f \notin lost
  <2> SUFFICES ASSUME f # 0  PROVE f \notin UserOf /\ f \notin lost
    OBVIOUS
  <2>1. f \in KernelOf
    BY DEF KernelOf, Entries, Some
  <2> QED  BY <2>1 DEF UserOf, Accounted
<1>5. \A x, y \in KPages : Kern'[x] = Kern'[y] /\ Kern'[x] # 0 => x = y
  BY <1>1 DEF Accounted
<1>6. \A x \in KPages, p \in Procs : \A g \in Pages :
        Kern'[x] # 0 => Kern'[x] # User'[p][g]
  BY <1>1 DEF Accounted
<1>7. \A x \in lost' : x \notin KernelOf' \cup UserOf'
  BY <1>2, <1>3 DEF Accounted
<1>8. bits' = {0} \cup KernelOf' \cup UserOf' \cup lost'
  BY <1>2, <1>3, <1>4, SomeNumber DEF Accounted, Entries, KernelOf
<1>9. \A p, q \in Procs : \A g, h \in Pages :
        User'[p][g] = User'[q][h] /\ User'[p][g] # 0 => p = q /\ g = h
  BY DEF Accounted
<1> QED  BY <1>1, <1>5, <1>6, <1>7, <1>8, <1>9 DEF Accounted

(* What an update of one entry of a directory does to all of them. *)
LEMMA OneEntry ==
  ASSUME NEW D \in [Procs -> [Pages -> Some]], NEW p \in Procs, NEW g \in Pages,
         NEW v \in Some, NEW E, E = [D EXCEPT ![p][g] = v]
  PROVE  /\ E \in [Procs -> [Pages -> Some]]
         /\ \A q \in Procs, h \in Pages :
              E[q][h] = IF q = p /\ h = g THEN v ELSE D[q][h]
OBVIOUS

(* A user page is given a free frame. *)
LEMMA MapUserOwner ==
  ASSUME Entries, Accounted, NEW p \in Procs, NEW g \in Pages,
         NEW f \in FreeFrames, User[p][g] = 0,
         User' = [User EXCEPT ![p][g] = f], bits' = bits \cup {f},
         UNCHANGED <<Kern, lost>>
  PROVE  User' \in [Procs -> [Pages -> Some]] /\ Accounted'
<1>1. f \in Frames /\ f # 0 /\ f \notin bits /\ f \in Some
  BY SomeNumber DEF FreeFrames, Some
<1>2. /\ User' \in [Procs -> [Pages -> Some]]
      /\ \A q \in Procs, h \in Pages :
           User'[q][h] = IF q = p /\ h = g THEN f ELSE User[q][h]
  BY <1>1, OneEntry DEF Entries
<1>3. f \notin KernelOf /\ f \notin UserOf /\ f \notin lost
  BY <1>1 DEF Accounted
<1>4. \A l \in KPages : Kern[l] # f
  BY <1>1, <1>3 DEF KernelOf
<1>5. \A q \in Procs, h \in Pages : User[q][h] # f
  BY <1>1, <1>3 DEF UserOf
<1>6. KernelOf' = KernelOf
  BY DEF KernelOf
<1>7. UserOf' = UserOf \cup {f}
  <2>1. \A x \in Frames : x \in UserOf' <=> x \in UserOf \/ x = f
    <3> TAKE x \in Frames
    <3>1. CASE x = f
      BY <1>2, <3>1 DEF UserOf
    <3>2. ASSUME x # f, NEW q \in Procs, NEW h \in Pages, User'[q][h] = x
          PROVE  User[q][h] = x
      BY <1>2, <3>2
    <3>3. ASSUME NEW q \in Procs, NEW h \in Pages, User[q][h] = x
          PROVE  User'[q][h] = x
      BY <1>2, <3>3, SomeNumber
    <3> QED  BY <3>1, <3>2, <3>3 DEF UserOf
  <2>2. UserOf \subseteq Frames /\ UserOf' \subseteq Frames
    BY DEF UserOf
  <2> QED  BY <1>1, <2>1, <2>2
<1>8. \A q, r \in Procs : \A h, i \in Pages :
        User'[q][h] = User'[r][i] /\ User'[q][h] # 0 => q = r /\ h = i
  BY <1>1, <1>2, <1>5 DEF Accounted
<1>9. \A x \in KPages, q \in Procs : \A h \in Pages :
        Kern'[x] # 0 => Kern'[x] # User'[q][h]
  BY <1>2, <1>4 DEF Accounted
<1>10. \A x \in lost' : x \notin KernelOf' \cup UserOf'
  BY <1>3, <1>6, <1>7 DEF Accounted
<1>11. bits' = {0} \cup KernelOf' \cup UserOf' \cup lost'
  BY <1>6, <1>7 DEF Accounted
<1>12. \A x, y \in KPages : Kern'[x] = Kern'[y] /\ Kern'[x] # 0 => x = y
  BY DEF Accounted
<1> QED  BY <1>2, <1>8, <1>9, <1>10, <1>11, <1>12 DEF Accounted

(* A user page that is unmapped leaves its frame free. *)
LEMMA UnmapUserOwner ==
  ASSUME Entries, Accounted, NEW p \in Procs, NEW g \in Pages,
         User[p][g] # 0,
         User' = [User EXCEPT ![p][g] = 0], bits' = bits \ {User[p][g]},
         UNCHANGED <<Kern, lost>>
  PROVE  User' \in [Procs -> [Pages -> Some]] /\ Accounted'
<1> DEFINE f == User[p][g]
<1>1. f \in Frames /\ f # 0
  BY DEF Entries, Some
<1>2. /\ User' \in [Procs -> [Pages -> Some]]
      /\ \A q \in Procs, h \in Pages :
           User'[q][h] = IF q = p /\ h = g THEN 0 ELSE User[q][h]
  BY OneEntry DEF Some, Entries
<1>3. f \in UserOf
  BY <1>1 DEF UserOf
<1>4. f \notin KernelOf /\ f \notin lost
  BY <1>1, <1>3 DEF KernelOf, Accounted
<1>5. KernelOf' = KernelOf
  BY DEF KernelOf
<1>6. UserOf' = UserOf \ {f}
  <2>1. \A x \in Frames : x \in UserOf' <=> x \in UserOf /\ x # f
    <3> TAKE x \in Frames
    <3>1. ASSUME NEW q \in Procs, NEW h \in Pages, User'[q][h] = x
          PROVE  User[q][h] = x /\ x # f
      <4>1. ~(q = p /\ h = g) /\ User[q][h] = x
        BY <1>2, <3>1, SomeNumber
      <4> QED  BY <4>1, <1>1 DEF Accounted
    <3>2. ASSUME NEW q \in Procs, NEW h \in Pages, User[q][h] = x, x # f
          PROVE  User'[q][h] = x
      BY <1>2, <3>2
    <3> QED  BY <3>1, <3>2 DEF UserOf
  <2>2. UserOf \subseteq Frames /\ UserOf' \subseteq Frames
    BY DEF UserOf
  <2> QED  BY <2>1, <2>2
<1>7. \A q, r \in Procs : \A h, i \in Pages :
        User'[q][h] = User'[r][i] /\ User'[q][h] # 0 => q = r /\ h = i
  BY <1>2 DEF Accounted
<1>8. \A x \in KPages, q \in Procs : \A h \in Pages :
        Kern'[x] # 0 => Kern'[x] # User'[q][h]
  BY <1>2 DEF Accounted
<1>9. \A x \in lost' : x \notin KernelOf' \cup UserOf'
  BY <1>5, <1>6 DEF Accounted
<1>10. bits' = {0} \cup KernelOf' \cup UserOf' \cup lost'
  BY <1>1, <1>4, <1>5, <1>6 DEF Accounted
<1>11. \A x, y \in KPages : Kern'[x] = Kern'[y] /\ Kern'[x] # 0 => x = y
  BY DEF Accounted
<1> QED  BY <1>2, <1>7, <1>8, <1>9, <1>10, <1>11 DEF Accounted

(* vmm_remap_pages: the frame of a heap page goes to a user page. *)
LEMMA HandedOver ==
  ASSUME Entries, Accounted, NEW p \in Procs, NEW g \in Pages,
         NEW k \in KPages, User[p][g] = 0,
         Kern' = [Kern EXCEPT ![k] = 0],
         User' = [User EXCEPT ![p][g] = Kern[k]],
         bits' = bits \cup {Kern[k]}, UNCHANGED lost
  PROVE  /\ Kern' \in [KPages -> Some]
         /\ User' \in [Procs -> [Pages -> Some]]
         /\ Accounted'
<1> DEFINE f == Kern[k]
<1>1. f \in Some
  BY DEF Entries
<1>2. /\ Kern' \in [KPages -> Some]
      /\ \A l \in KPages : Kern'[l] = IF l = k THEN 0 ELSE Kern[l]
  BY DEF Entries, Some
<1>3. /\ User' \in [Procs -> [Pages -> Some]]
      /\ \A q \in Procs, h \in Pages :
           User'[q][h] = IF q = p /\ h = g THEN f ELSE User[q][h]
  BY <1>1, OneEntry DEF Entries
<1>4. f # 0 => f \in KernelOf
  BY <1>1 DEF KernelOf, Some
<1>5. \A q \in Procs, h \in Pages : f # 0 => User[q][h] # f
  BY DEF Accounted
<1>6. KernelOf' = KernelOf \ {f}
  <2>1. \A x \in Frames : x \in KernelOf' <=> x \in KernelOf /\ x # f
    <3> TAKE x \in Frames
    <3>1. ASSUME NEW l \in KPages, Kern'[l] = x  PROVE Kern[l] = x /\ x # f
      BY <1>2, <3>1, SomeNumber DEF Accounted
    <3>2. ASSUME NEW l \in KPages, Kern[l] = x, x # f  PROVE Kern'[l] = x
      BY <1>2, <3>2
    <3> QED  BY <3>1, <3>2 DEF KernelOf
  <2>2. KernelOf \subseteq Frames /\ KernelOf' \subseteq Frames
    BY DEF KernelOf
  <2> QED  BY <2>1, <2>2
<1>7. UserOf' = UserOf \cup ({f} \ {0})
  <2>1. \A x \in Frames : x \in UserOf' <=> x \in UserOf \/ x = f
    <3> TAKE x \in Frames
    <3>1. CASE x = f
      BY <1>3, <3>1 DEF UserOf
    <3>2. ASSUME x # f, NEW q \in Procs, NEW h \in Pages, User'[q][h] = x
          PROVE  User[q][h] = x
      BY <1>3, <3>2
    <3>3. ASSUME NEW q \in Procs, NEW h \in Pages, User[q][h] = x
          PROVE  User'[q][h] = x
      BY <1>3, <3>3, SomeNumber
    <3> QED  BY <3>1, <3>2, <3>3 DEF UserOf
  <2>2. UserOf \subseteq Frames /\ UserOf' \subseteq Frames
    BY DEF UserOf
  <2>3. 0 \notin UserOf' /\ {f} \ {0} \subseteq Frames
    BY <1>1, <2>2, SomeNumber DEF Some
  <2> QED  BY <2>1, <2>2, <2>3
<1>8. \A x, y \in KPages : Kern'[x] = Kern'[y] /\ Kern'[x] # 0 => x = y
  BY <1>2 DEF Accounted
<1>9. \A q, r \in Procs : \A h, i \in Pages :
        User'[q][h] = User'[r][i] /\ User'[q][h] # 0 => q = r /\ h = i
  BY <1>3, <1>5 DEF Accounted
<1>10. \A x \in KPages, q \in Procs : \A h \in Pages :
         Kern'[x] # 0 => Kern'[x] # User'[q][h]
  BY <1>2, <1>3 DEF Accounted
<1>11. \A x \in lost' : x \notin KernelOf' \cup UserOf'
  BY <1>4, <1>6, <1>7 DEF Accounted
<1>12. bits' = {0} \cup KernelOf' \cup UserOf' \cup lost'
  BY <1>4, <1>6, <1>7 DEF Accounted
<1> QED  BY <1>2, <1>3, <1>8, <1>9, <1>10, <1>11, <1>12 DEF Accounted

(* It is lost when the user page has a frame already. *)
LEMMA LeftBehind ==
  ASSUME Entries, Accounted, NEW k \in KPages,
         Kern' = [Kern EXCEPT ![k] = 0],
         lost' = lost \cup ({Kern[k]} \ {0}), UNCHANGED <<bits, User>>
  PROVE  Kern' \in [KPages -> Some] /\ 0 \notin lost' /\ Accounted'
<1> DEFINE f == Kern[k]
<1>1. /\ Kern' \in [KPages -> Some]
      /\ \A l \in KPages : Kern'[l] = IF l = k THEN 0 ELSE Kern[l]
  BY DEF Entries, Some
<1>2. UserOf' = UserOf
  BY DEF UserOf
<1>3. KernelOf' = KernelOf \ {f}
  <2>1. \A x \in Frames : x \in KernelOf' <=> x \in KernelOf /\ x # f
    <3> TAKE x \in Frames
    <3>1. ASSUME NEW l \in KPages, Kern'[l] = x  PROVE Kern[l] = x /\ x # f
      BY <1>1, <3>1, SomeNumber DEF Accounted
    <3>2. ASSUME NEW l \in KPages, Kern[l] = x, x # f  PROVE Kern'[l] = x
      BY <1>1, <3>2
    <3> QED  BY <3>1, <3>2 DEF KernelOf
  <2>2. KernelOf \subseteq Frames /\ KernelOf' \subseteq Frames
    BY DEF KernelOf
  <2> QED  BY <2>1, <2>2
<1>4. f # 0 => f \in KernelOf /\ f \notin UserOf
  BY DEF KernelOf, UserOf, Accounted, Entries, Some
<1>5. 0 \notin KernelOf
  BY SomeNumber DEF KernelOf
<1>6. \A x, y \in KPages : Kern'[x] = Kern'[y] /\ Kern'[x] # 0 => x = y
  BY <1>1 DEF Accounted
<1>7. \A x \in KPages, p \in Procs : \A g \in Pages :
        Kern'[x] # 0 => Kern'[x] # User'[p][g]
  BY <1>1 DEF Accounted
<1>8. \A x \in lost' : x \notin KernelOf' \cup UserOf'
  BY <1>2, <1>3, <1>4 DEF Accounted
<1>9. bits' = {0} \cup KernelOf' \cup UserOf' \cup lost'
  BY <1>2, <1>3, <1>4, <1>5 DEF Accounted
<1>10. \A p, q \in Procs : \A g, h \in Pages :
         User'[p][g] = User'[q][h] /\ User'[p][g] # 0 => p = q /\ g = h
  BY DEF Accounted
<1>11. 0 \notin lost'
  BY DEF Entries
<1> QED  BY <1>1, <1>6, <1>7, <1>8, <1>9, <1>10, <1>11 DEF Accounted

(* What a change of one's own update leaves as it was. *)
LEMMA OthersSame ==
  ASSUME Types, NEW a \in Actors, NEW u, upd' = [upd EXCEPT ![a] = u]
  PROVE  /\ upd'[a] = u /\ DOMAIN upd' = Actors
         /\ \A b \in Actors \ {a} : upd'[b] = upd[b]
BY DEF Types

LEMMA Rests ==
  ASSUME NEW a \in Actors, upd[a] = Rest
  PROVE  ~Takes(a) /\ ~Gives(a) /\ \A kind, page : ~Gone(a, kind, page)
BY DEF Takes, Gives, Gone, Rest

(* The account is the same when the tables are, and the entries whose      *)
(* frames have been given back.                                            *)
LEMMA SameAccount ==
  ASSUME Types, UNCHANGED <<kdir, dir>>, NEW a \in Actors,
         \A b \in Actors \ {a} : upd'[b] = upd[b],
         \A k \in KPages : Gone(a, "heap", k)' /\ kdir[k] # 0 <=> Gone(a, "heap", k) /\ kdir[k] # 0,
         \A g \in Pages : a \in Procs => (Gone(a, "user", g)' <=> Gone(a, "user", g))
  PROVE  UNCHANGED <<Kern, User>>
<1>1. ASSUME NEW k \in KPages PROVE Kern'[k] = Kern[k]
  <2>1. Kern'[k] = IF \E b \in Actors : Gone(b, "heap", k)' THEN 0 ELSE kdir[k]
    BY DEF Kern, Actors
  <2>2. \A b \in Actors \ {a} : Gone(b, "heap", k)' <=> Gone(b, "heap", k)
    BY DEF Gone
  <2> QED BY <2>1, <2>2, KernIs
<1>2. ASSUME NEW p \in Procs, NEW g \in Pages PROVE User'[p][g] = User[p][g]
  <2>1. User'[p][g] = IF Gone(p, "user", g)' THEN 0 ELSE dir[p][g]
    BY DEF User
  <2>2. Gone(p, "user", g)' <=> Gone(p, "user", g)
    BY DEF Gone, Actors
  <2> QED BY <2>1, <2>2, UserIs
<1>3. Kern' = Kern
  <2>1. Kern' = [k \in KPages |-> Kern'[k]] /\ Kern = [k \in KPages |-> Kern[k]]
    BY DEF Kern
  <2> QED BY <2>1, <1>1
<1>4. User' = User
  <2>1. /\ User' = [p \in Procs |-> [g \in Pages |-> User'[p][g]]]
        /\ User = [p \in Procs |-> [g \in Pages |-> User[p][g]]]
    BY DEF User
  <2> QED BY <2>1, <1>2
<1> QED BY <1>3, <1>4

LEMMA SameAccounted ==
  ASSUME Accounted, UNCHANGED <<Kern, User, bits, lost>>
  PROVE  Accounted'
BY DEF Accounted, KernelOf, UserOf

(* A page is asked for: no frame has changed hands. *)
LEMMA FoundOwner ==
  ASSUME Inv, ~raced, NEW a \in Actors, upd[a] = Rest, NEW kind, NEW page,
         \/ kind = "heap" /\ page \in KPages
         \/ kind = "user" /\ page \in Pages /\ a \in Procs,
         Find(a, kind, page), DOMAIN heap' = KPages, raced' \in BOOLEAN,
         UNCHANGED <<bits, kdir, dir, lost>>
  PROVE  /\ Types' /\ Accounted' /\ upd'[a].at = "found"
         /\ upd'[a].kind = kind /\ upd'[a].page = page
         /\ \A b \in Actors \ {a} : upd'[b] = upd[b]
<1> USE DEF Inv
<1>1. PICK u, f :
        /\ u = [at |-> "found", kind |-> kind, page |-> page, f |-> f, val |-> {}]
        /\ upd' = [upd EXCEPT ![a] = u] /\ f \in FreeFrames
  BY DEF Find
<1>2. u.at = "found" /\ u.kind = kind /\ u.page = page /\ u.f = f
  BY <1>1
<1>3. upd'[a] = u /\ DOMAIN upd' = Actors /\ \A b \in Actors \ {a} : upd'[b] = upd[b]
  BY <1>1, OthersSame
<1>4. f \in Frames /\ f \in Some
  BY <1>1 DEF FreeFrames, Some
<1>5. Takes(a)' /\ Sized(a)'
  <2>1. u \in Update
    BY <1>1, <1>4, PagesAssumption DEF Update
  <2> QED BY <1>2, <1>3, <1>4, <2>1 DEF Takes, Sized, HasHeap, HasUser
<1>6. \A b \in Actors \ {a} : upd'[b] = Rest \/ ((Takes(b)' \/ Gives(b)') /\ Sized(b)')
  BY <1>3 DEF Types, Takes, Gives, Sized, HasHeap, HasUser
<1>7. Types'
  BY <1>3, <1>5, <1>6 DEF Types
<1>8. \A x, y : ~Gone(a, x, y) /\ ~Gone(a, x, y)'
  BY <1>2, <1>3, Rests DEF Gone
<1>9. UNCHANGED <<Kern, User>>
  BY <1>3, <1>8, SameAccount
<1> QED BY <1>2, <1>3, <1>7, <1>9, SameAccounted

LEMMA FindHeapOwner ==
  ASSUME Inv, ~raced, NEW a \in Actors, upd[a] = Rest, NEW use, Has(a, use),
         FindHeap(a, use), UNCHANGED <<bits, kdir, dir, lost>>
  PROVE  Inv'
<1> USE DEF Inv
<1>1. PICK k \in KPages :
        /\ HeapPage(k) /\ heap' = [heap EXCEPT ![k] = use] /\ raced' = Leaving(k)
        /\ Find(a, "heap", k)
  BY DEF FindHeap
<1>2. heap[k] = Spare /\ DOMAIN heap' = KPages /\ raced' \in BOOLEAN
  BY <1>1 DEF HeapPage, FreeHeap, Types, Leaving
<1>3. /\ Types' /\ Accounted' /\ upd'[a].at = "found"
      /\ upd'[a].kind = "heap" /\ upd'[a].page = k
      /\ \A b \in Actors \ {a} : upd'[b] = upd[b]
  BY <1>1, <1>2, FoundOwner
<1>4. SUFFICES ASSUME ~raced' PROVE Pending'
  BY <1>3
<1>5. ~Leaving(k) /\ kdir[k] = 0
  BY <1>1, <1>2, <1>4 DEF Pending, Unmapped
<1>6. \A l \in KPages : heap'[l] = IF l = k THEN use ELSE heap[l]
  BY <1>1 DEF Types
<1>7. ~Gives(a) /\ ~Takes(a) /\ ~Gives(a)'
  BY <1>3, Rests DEF Gives
<1>8. \A b \in Actors \ {a} : /\ Takes(b)' <=> Takes(b)
                              /\ Gives(b)' <=> Gives(b)
                              /\ \A l : HasHeap(b, l)' <=> HasHeap(b, l)
                              /\ \A l : HasUser(b, l)' <=> HasUser(b, l)
  BY <1>3 DEF Takes, Gives, HasHeap, HasUser
<1>9. Taking'
  <2> SUFFICES ASSUME NEW b \in Actors, NEW l \in KPages, Takes(b)', HasHeap(b, l)'
               PROVE  Has(b, heap'[l]) /\ kdir[l] = 0
    BY DEF Taking, Has
  <2>1. CASE b = a
    BY <1>3, <1>5, <1>6, <2>1 DEF HasHeap
  <2>2. CASE b # a
    <3>1. Has(b, heap[l]) /\ kdir[l] = 0
      BY <1>8, <2>2 DEF Pending, Taking
    <3>2. l # k
      BY <1>2, <3>1 DEF Has
    <3> QED BY <1>6, <3>1, <3>2
  <2> QED BY <2>1, <2>2
<1>10. Giving'
  <2> SUFFICES ASSUME NEW b \in Actors, NEW l \in KPages, Gives(b)', HasHeap(b, l)'
               PROVE  heap'[l] = Spare /\ kdir[l] = upd'[b].f
    BY DEF Giving
  <2>1. b # a /\ Gives(b) /\ HasHeap(b, l)
    BY <1>7, <1>8
  <2>2. l # k
    BY <1>5, <2>1 DEF Leaving, Gives, HasHeap
  <2> QED BY <1>3, <1>6, <2>1, <2>2 DEF Pending, Giving
<1>11. GivingUser'
  <2> SUFFICES ASSUME NEW b \in Procs, NEW g \in Pages, Gives(b)', HasUser(b, g)'
               PROVE  dir'[b][g] = upd'[b].f
    BY DEF GivingUser
  <2>1. b \in Actors \ {a} /\ Gives(b) /\ HasUser(b, g)
    BY <1>7, <1>8 DEF Actors
  <2> QED BY <1>3, <2>1 DEF Pending, GivingUser
<1>12. OneGives'
  BY <1>7, <1>8 DEF Pending, OneGives
<1>13. Unmapped'
  <2> SUFFICES ASSUME NEW l \in KPages, heap'[l] = Spare, kdir[l] # 0 PROVE Leaving(l)'
    BY DEF Unmapped
  <2>1. l # k /\ heap[l] = Spare
    BY <1>5, <1>6
  <2>2. PICK b \in Actors : Gives(b) /\ HasHeap(b, l)
    BY <2>1 DEF Pending, Unmapped, Leaving, Gives, HasHeap
  <2>3. upd'[b] = upd[b]
    BY <1>3, <1>7, <2>2
  <2> QED BY <2>2, <2>3 DEF Leaving, Gives, HasHeap, Actors
<1> QED BY <1>9, <1>10, <1>11, <1>12, <1>13 DEF Pending

(* A user page is to be mapped: it has no frame yet. *)
LEMMA FindUserOwner ==
  ASSUME Inv, ~raced, NEW p \in Procs, upd[p] = Rest, NEW g \in Pages,
         Find(p, "user", g), UNCHANGED <<bits, kdir, heap, dir, lost, raced>>
  PROVE  Inv'
<1> USE DEF Inv
<1>1. /\ Types' /\ Accounted' /\ upd'[p].at = "found"
      /\ upd'[p].kind = "user" /\ upd'[p].page = g
      /\ \A b \in Actors \ {p} : upd'[b] = upd[b]
  <2>1. p \in Actors /\ DOMAIN heap' = KPages /\ raced' \in BOOLEAN
    BY DEF Types, Actors
  <2> QED BY <2>1, FoundOwner
<1>2. \A b \in Actors, k \in KPages : /\ Takes(b)' /\ HasHeap(b, k)' => b # p /\ Takes(b) /\ HasHeap(b, k)
                                      /\ Gives(b)' => b # p /\ Gives(b)
                                      /\ Gives(b)' /\ HasHeap(b, k)' => HasHeap(b, k)
  BY <1>1 DEF Takes, Gives, HasHeap
<1>3. Taking' /\ Giving'
  BY <1>1, <1>2 DEF Pending, Taking, Giving, Has
<1>4. OneGives'
  BY <1>2 DEF Pending, OneGives
<1>5. GivingUser'
  <2> SUFFICES ASSUME NEW b \in Procs, NEW h \in Pages, Gives(b)', HasUser(b, h)'
               PROVE  dir'[b][h] = upd'[b].f
    BY DEF GivingUser
  <2>1. b # p /\ upd'[b] = upd[b]
    BY <1>1 DEF Gives, Actors
  <2>2. Gives(b) /\ HasUser(b, h)
    BY <2>1 DEF Gives, HasUser
  <2> QED BY <2>1, <2>2 DEF Pending, GivingUser
<1>6. Unmapped'
  <2> SUFFICES ASSUME NEW l \in KPages, heap[l] = Spare, kdir[l] # 0 PROVE Leaving(l)'
    BY DEF Unmapped
  <2>1. PICK b \in Actors : Gives(b) /\ HasHeap(b, l)
    BY DEF Pending, Unmapped, Leaving, Gives, HasHeap
  <2>2. b # p
    BY <2>1, Rests
  <2> QED BY <1>1, <2>1, <2>2 DEF Leaving, Gives, HasHeap, Actors
<1> QED BY <1>1, <1>3, <1>4, <1>5, <1>6 DEF Pending

(* A page that is given back keeps its frame until the bit is cleared.     *)
LEMMA GivenOwner ==
  ASSUME Inv, ~raced, NEW a \in Actors, upd[a] = Rest, NEW kind, NEW page,
         \/ kind = "heap" /\ page \in KPages /\ kdir[page] = 0
         \/ kind = "heap" /\ page \in KPages /\ kdir[page] # 0
         \/ kind = "user" /\ page \in Pages /\ a \in Procs,
         NEW f \in Some, kind = "heap" => f = kdir[page],
         kind = "user" => f # 0,
         GiveFrame(a, kind, page, f), DOMAIN heap' = KPages,
         UNCHANGED <<bits, kdir, dir, lost, raced>>
  PROVE  /\ Types' /\ Accounted' /\ Gives(a)' /\ ~Takes(a)' /\ upd'[a].f = f
         /\ upd'[a].kind = kind /\ upd'[a].page = page
         /\ \A b \in Actors \ {a} : upd'[b] = upd[b]
<1> USE DEF Inv
<1>1. PICK u, s :
        /\ s = IF f = 0 THEN "freed" ELSE "given"
        /\ u = [at |-> s, kind |-> kind, page |-> page, f |-> f, val |-> {}]
        /\ upd' = [upd EXCEPT ![a] = u]
  BY DEF GiveFrame
<1>2. u.at = s /\ u.kind = kind /\ u.page = page /\ u.f = f
  BY <1>1
<1>3. upd'[a] = u /\ DOMAIN upd' = Actors /\ \A b \in Actors \ {a} : upd'[b] = upd[b]
  BY <1>1, OthersSame
<1>4. Gives(a)' /\ ~Takes(a)'
  BY <1>1, <1>2, <1>3 DEF Takes, Gives
<1>5. Sized(a)'
  <2>1. u \in Update
    <3>1. s \in {"given", "freed"} /\ page \in Nat /\ kind \in {"heap", "user"}
      BY <1>1, PagesAssumption
    <3> QED BY <1>1, <3>1 DEF Update
  <2> QED BY <1>1, <1>2, <1>3, <2>1 DEF Sized, HasHeap, HasUser, Some
<1>6. \A b \in Actors \ {a} : upd'[b] = Rest \/ ((Takes(b)' \/ Gives(b)') /\ Sized(b)')
  BY <1>3 DEF Types, Takes, Gives, Sized, HasHeap, HasUser
<1>7. Types'
  BY <1>3, <1>4, <1>5, <1>6 DEF Types
<1>8. \A x, y : ~Gone(a, x, y)
  BY Rests
<1>9. \A k \in KPages : ~(Gone(a, "heap", k)' /\ kdir[k] # 0)
  BY <1>1, <1>2, <1>3 DEF Gone
<1>10. \A g \in Pages : ~Gone(a, "user", g)'
  BY <1>1, <1>2, <1>3 DEF Gone
<1>11. UNCHANGED <<Kern, User>>
  BY <1>3, <1>8, <1>9, <1>10, SameAccount
<1> QED BY <1>2, <1>3, <1>4, <1>7, <1>11, SameAccounted

LEMMA GiveHeapOwner ==
  ASSUME Inv, ~raced, NEW a \in Actors, upd[a] = Rest, NEW use, Has(a, use),
         GiveHeap(a, use), UNCHANGED <<bits, kdir, dir, lost, raced>>
  PROVE  Inv'
<1> USE DEF Inv
<1>1. PICK k \in KPages :
        /\ heap[k] = use /\ heap' = [heap EXCEPT ![k] = Spare]
        /\ GiveFrame(a, "heap", k, kdir[k])
  BY DEF GiveHeap
<1>2. DOMAIN heap' = KPages /\ kdir[k] \in Some /\ heap[k] # Spare /\ heap[k][1] = a
  BY <1>1 DEF Types, Has
<1>3. /\ Types' /\ Accounted' /\ Gives(a)' /\ ~Takes(a)' /\ upd'[a].f = kdir[k]
      /\ upd'[a].kind = "heap" /\ upd'[a].page = k
      /\ \A b \in Actors \ {a} : upd'[b] = upd[b]
  BY <1>1, <1>2, GivenOwner
<1>4. \A l \in KPages : heap'[l] = IF l = k THEN Spare ELSE heap[l]
  BY <1>1 DEF Types
<1>5. \A b \in Actors \ {a} : /\ Takes(b)' <=> Takes(b)
                              /\ Gives(b)' <=> Gives(b)
                              /\ \A l : HasHeap(b, l)' <=> HasHeap(b, l)
                              /\ \A l : HasUser(b, l)' <=> HasUser(b, l)
  BY <1>3 DEF Takes, Gives, HasHeap, HasUser
<1>6. Taking'
  <2> SUFFICES ASSUME NEW b \in Actors, NEW l \in KPages, Takes(b)', HasHeap(b, l)'
               PROVE  Has(b, heap'[l]) /\ kdir[l] = 0
    BY DEF Taking, Has
  <2>1. b # a
    BY <1>3
  <2>2. Has(b, heap[l]) /\ kdir[l] = 0
    BY <1>5, <2>1 DEF Pending, Taking
  <2>3. l # k
    BY <1>2, <2>1, <2>2 DEF Has
  <2> QED BY <1>4, <2>2, <2>3
<1>7. Giving'
  <2> SUFFICES ASSUME NEW b \in Actors, NEW l \in KPages, Gives(b)', HasHeap(b, l)'
               PROVE  heap'[l] = Spare /\ kdir[l] = upd'[b].f
    BY DEF Giving
  <2>1. CASE b = a
    BY <1>3, <1>4, <2>1 DEF HasHeap
  <2>2. CASE b # a
    BY <1>3, <1>4, <1>5, <2>2 DEF Pending, Giving
  <2> QED BY <2>1, <2>2
<1>8. GivingUser'
  <2> SUFFICES ASSUME NEW b \in Procs, NEW g \in Pages, Gives(b)', HasUser(b, g)'
               PROVE  dir'[b][g] = upd'[b].f
    BY DEF GivingUser
  <2>1. b \in Actors \ {a} /\ Gives(b) /\ HasUser(b, g)
    BY <1>3, <1>5 DEF Actors, HasUser
  <2> QED BY <1>3, <2>1 DEF Pending, GivingUser
<1>9. OneGives'
  <2> SUFFICES ASSUME NEW b \in Actors, NEW c \in Actors, NEW l \in KPages,
                      Gives(b)', HasHeap(b, l)', Gives(c)', HasHeap(c, l)'
               PROVE  b = c
    BY DEF OneGives
  <2>1. ASSUME NEW d \in Actors \ {a}, Gives(d)', HasHeap(d, l)' PROVE l # k /\ Gives(d) /\ HasHeap(d, l)
    BY <1>2, <1>5, <2>1 DEF Pending, Giving
  <2>2. HasHeap(a, l)' => l = k
    BY <1>3 DEF HasHeap
  <2> QED BY <2>1, <2>2 DEF Pending, OneGives
<1>10. Unmapped'
  <2> SUFFICES ASSUME NEW l \in KPages, heap'[l] = Spare, kdir[l] # 0 PROVE Leaving(l)'
    BY DEF Unmapped
  <2>1. CASE l = k
    BY <1>3, <2>1 DEF Leaving, Gives, Actors
  <2>2. CASE l # k
    <3>1. PICK b \in Actors : Gives(b) /\ HasHeap(b, l)
      BY <1>4, <2>2 DEF Pending, Unmapped, Leaving, Gives, HasHeap
    <3>2. b # a
      BY <3>1, Rests
    <3> QED BY <1>3, <3>1, <3>2 DEF Leaving, Gives, HasHeap, Actors
  <2> QED BY <2>1, <2>2
<1> QED BY <1>3, <1>6, <1>7, <1>8, <1>9, <1>10 DEF Pending

LEMMA GiveUserOwner ==
  ASSUME Inv, ~raced, NEW p \in Procs, upd[p] = Rest, NEW g \in Pages, dir[p][g] # 0,
         GiveFrame(p, "user", g, dir[p][g]),
         UNCHANGED <<bits, kdir, heap, dir, lost, raced>>
  PROVE  Inv'
<1> USE DEF Inv
<1>1. /\ Types' /\ Accounted' /\ Gives(p)' /\ ~Takes(p)' /\ upd'[p].f = dir[p][g]
      /\ upd'[p].kind = "user" /\ upd'[p].page = g
      /\ \A b \in Actors \ {p} : upd'[b] = upd[b]
  <2>1. p \in Actors /\ DOMAIN heap' = KPages /\ dir[p][g] \in Some
    BY DEF Types, Actors
  <2> QED BY <2>1, GivenOwner
<1>2. \A b \in Actors, k \in KPages : /\ Takes(b)' /\ HasHeap(b, k)' => b # p /\ Takes(b) /\ HasHeap(b, k)
                                      /\ Gives(b)' /\ HasHeap(b, k)' => b # p /\ Gives(b) /\ HasHeap(b, k)
  BY <1>1 DEF Takes, Gives, HasHeap
<1>3. Taking' /\ Giving'
  BY <1>1, <1>2 DEF Pending, Taking, Giving, Has
<1>4. OneGives'
  BY <1>2 DEF Pending, OneGives
<1>5. GivingUser'
  <2> SUFFICES ASSUME NEW b \in Procs, NEW h \in Pages, Gives(b)', HasUser(b, h)'
               PROVE  dir'[b][h] = upd'[b].f
    BY DEF GivingUser
  <2>1. CASE b = p
    BY <1>1, <2>1 DEF HasUser
  <2>2. CASE b # p
    <3>1. upd'[b] = upd[b]
      BY <1>1, <2>2 DEF Actors
    <3>2. Gives(b) /\ HasUser(b, h)
      BY <3>1 DEF Gives, HasUser
    <3> QED BY <3>1, <3>2 DEF Pending, GivingUser
  <2> QED BY <2>1, <2>2
<1>6. Unmapped'
  <2> SUFFICES ASSUME NEW l \in KPages, heap[l] = Spare, kdir[l] # 0 PROVE Leaving(l)'
    BY DEF Unmapped
  <2>1. PICK b \in Actors : Gives(b) /\ HasHeap(b, l)
    BY DEF Pending, Unmapped, Leaving, Gives, HasHeap
  <2>2. b # p
    BY <2>1, Rests
  <2> QED BY <1>1, <2>1, <2>2 DEF Leaving, Gives, HasHeap, Actors
<1> QED BY <1>1, <1>3, <1>4, <1>5, <1>6 DEF Pending

(* Updates other than one's own are as they were. *)
LEMMA OthersOf ==
  ASSUME NEW a \in Actors, \A b \in Actors \ {a} : upd'[b] = upd[b]
  PROVE  \A b \in Actors \ {a} : /\ Takes(b)' <=> Takes(b)
                                 /\ Gives(b)' <=> Gives(b)
                                 /\ Sized(b)' <=> Sized(b)
                                 /\ \A l : HasHeap(b, l)' <=> HasHeap(b, l)
                                 /\ \A l : HasUser(b, l)' <=> HasUser(b, l)
                                 /\ \A kind, page : Gone(b, kind, page)' <=> Gone(b, kind, page)
BY DEF Takes, Gives, Sized, HasHeap, HasUser, Gone

(* An update goes on with the same page and frame. *)
LEMMA GoesOnTyped ==
  ASSUME Types, NEW a \in Actors, upd[a] # Rest, NEW s, NEW v \in SUBSET Some,
         NEW w, w = GoesTo(upd[a], s, v), upd' = [upd EXCEPT ![a] = w],
         \/ upd[a].at = "found" /\ s = "marking"
         \/ upd[a].at = "given" /\ s = "clearing"
         \/ upd[a].at = "clearing" /\ s = "freed",
         UNCHANGED <<kdir, dir, heap, lost>>, raced' \in BOOLEAN
  PROVE  /\ Types' /\ upd'[a].at = s
         /\ upd'[a].f = upd[a].f /\ upd'[a].kind = upd[a].kind /\ upd'[a].page = upd[a].page
         /\ \A b \in Actors \ {a} : upd'[b] = upd[b]
         /\ \A b \in Actors : /\ Takes(b)' <=> Takes(b)
                              /\ Gives(b)' <=> Gives(b)
                              /\ \A l : HasHeap(b, l)' <=> HasHeap(b, l)
                              /\ \A l : HasUser(b, l)' <=> HasUser(b, l)
                              /\ upd'[b].f = upd[b].f
<1>0. upd[a] \in Update
  BY DEF Types, Sized
<1>1. /\ upd'[a].at = s /\ upd'[a].f = upd[a].f /\ upd'[a].kind = upd[a].kind
      /\ upd'[a].page = upd[a].page /\ DOMAIN upd' = Actors /\ upd'[a] \in Update
  <2>1. /\ w.at = s /\ w.f = upd[a].f /\ w.kind = upd[a].kind /\ w.page = upd[a].page
        /\ w \in Update
    <3>1. /\ upd[a].kind \in {"heap", "user"} /\ upd[a].page \in Nat /\ upd[a].f \in Some
          /\ s \in {"marking", "clearing", "freed"}
      BY <1>0 DEF Update
    <3> QED BY <3>1 DEF Update, GoesTo
  <2> QED BY <2>1, OthersSame
<1>2. \A b \in Actors \ {a} : upd'[b] = upd[b]
  BY DEF Types
<1>3. \A b \in Actors : /\ Takes(b)' <=> Takes(b)
                        /\ Gives(b)' <=> Gives(b)
                        /\ \A l : HasHeap(b, l)' <=> HasHeap(b, l)
                        /\ \A l : HasUser(b, l)' <=> HasUser(b, l)
                        /\ upd'[b].f = upd[b].f
  BY <1>1, <1>2 DEF Takes, Gives, HasHeap, HasUser
<1>4. Takes(a) \/ Gives(a)
  BY DEF Takes, Gives
<1>5. Sized(a)'
  BY <1>1, <1>3 DEF Types, Sized
<1>6. \A b \in Actors \ {a} : upd'[b] = Rest \/ ((Takes(b)' \/ Gives(b)') /\ Sized(b)')
  BY <1>2 DEF Types, Takes, Gives, Sized, HasHeap, HasUser
<1>7. Types'
  BY <1>1, <1>3, <1>4, <1>5, <1>6 DEF Types
<1> QED BY <1>1, <1>2, <1>3, <1>7

LEMMA SamePending ==
  ASSUME Pending, UNCHANGED <<kdir, dir, heap>>,
         \A b \in Actors : /\ Takes(b)' <=> Takes(b)
                           /\ Gives(b)' <=> Gives(b)
                           /\ \A l : HasHeap(b, l)' <=> HasHeap(b, l)
                           /\ \A l : HasUser(b, l)' <=> HasUser(b, l)
                           /\ upd'[b].f = upd[b].f
  PROVE  Pending'
<1>1. Taking' /\ Giving'
  BY DEF Pending, Taking, Giving, Has
<1>2. GivingUser'
  BY DEF Pending, GivingUser, Actors
<1>3. OneGives'
  BY DEF Pending, OneGives
<1>4. Unmapped'
  <2> SUFFICES ASSUME NEW l \in KPages, heap[l] = Spare, kdir[l] # 0 PROVE Leaving(l)'
    BY DEF Unmapped
  <2>1. PICK b \in Actors : Gives(b) /\ HasHeap(b, l)
    BY DEF Pending, Unmapped, Leaving, Gives, HasHeap
  <2>2. Gives(b)' /\ HasHeap(b, l)'
    BY <2>1
  <2> QED BY <2>2 DEF Leaving, Gives, HasHeap, Actors
<1> QED BY <1>1, <1>2, <1>3, <1>4 DEF Pending

LEMMA LoadByteOwner ==
  ASSUME Inv, NEW a \in Actors, LoadByte(a)
  PROVE  Inv' /\ UNCHANGED <<bits, kdir, mem, heap, spaces, others>>
<1> USE DEF Inv
<1>1. ~raced /\ UNCHANGED <<bits, kdir, mem, heap, dir, lost, raced, spaces, others>>
  BY DEF LoadByte, Allowed, Open, May, spaces, others
<1>2. PICK s, v, w :
        /\ s = (IF upd[a].at = "found" THEN "marking" ELSE "clearing")
        /\ v = bits \cap Together(upd[a].f)
        /\ w = GoesTo(upd[a], s, v)
        /\ upd' = [upd EXCEPT ![a] = w]
        /\ upd[a].at \in {"found", "given"}
  BY DEF LoadByte
<1>3. upd[a] # Rest /\ v \in SUBSET Some
  BY <1>2 DEF Rest, Together, Some
<1>4. /\ Types' /\ upd'[a].at = s
      /\ upd'[a].f = upd[a].f /\ upd'[a].kind = upd[a].kind /\ upd'[a].page = upd[a].page
      /\ \A b \in Actors \ {a} : upd'[b] = upd[b]
      /\ \A b \in Actors : /\ Takes(b)' <=> Takes(b)
                           /\ Gives(b)' <=> Gives(b)
                           /\ \A l : HasHeap(b, l)' <=> HasHeap(b, l)
                           /\ \A l : HasUser(b, l)' <=> HasUser(b, l)
                           /\ upd'[b].f = upd[b].f
  <2>1. \/ upd[a].at = "found" /\ s = "marking"
        \/ upd[a].at = "given" /\ s = "clearing"
        \/ upd[a].at = "clearing" /\ s = "freed"
    <3>1. CASE upd[a].at = "found"
      BY <1>2, <3>1
    <3>2. CASE upd[a].at = "given"
      BY <1>2, <3>2
    <3> QED BY <1>2, <3>1, <3>2
  <2>2. Types /\ raced' \in BOOLEAN /\ UNCHANGED <<kdir, dir, heap, lost>>
    BY <1>1 DEF Types
  <2>3. w = GoesTo(upd[a], s, v) /\ upd' = [upd EXCEPT ![a] = w]
    BY <1>2
  <2> QED BY <1>3, <2>1, <2>2, <2>3, GoesOnTyped
<1>5. \A x, y : ~Gone(a, x, y) /\ ~Gone(a, x, y)'
  BY <1>2, <1>4 DEF Gone
<1>6. UNCHANGED <<Kern, User>>
  BY <1>1, <1>4, <1>5, SameAccount
<1>7. Accounted' /\ Pending'
  BY <1>1, <1>4, <1>6, SameAccounted, SamePending
<1> QED BY <1>1, <1>4, <1>7

(* What a store does to the bitmap when the byte is what was loaded. *)
LEMMA ByteOf ==
  ASSUME NEW f \in Frames PROVE f \in Together(f)
BY DEF Together

LEMMA MarkedIs ==
  ASSUME NEW u, u.f \in Frames, ~Torn(u)
  PROVE  Marked(u) = bits \cup {u.f} /\ Cleared(u) = bits \ {u.f} /\ (Given(u) <=> u.f \in bits)
<1>1. u.f \in Together(u.f) /\ u.val = bits \cap Together(u.f)
  BY ByteOf DEF Torn
<1> QED BY <1>1 DEF Marked, Cleared, Given

(* An update is over. *)
LEMMA OverTyped ==
  ASSUME Types, NEW a \in Actors, upd' = [upd EXCEPT ![a] = Rest]
  PROVE  /\ DOMAIN upd' = Actors
         /\ \A b \in Actors : upd'[b] = Rest \/ ((Takes(b)' \/ Gives(b)') /\ Sized(b)')
         /\ ~Takes(a)' /\ ~Gives(a)' /\ \A kind, page : ~Gone(a, kind, page)'
         /\ \A b \in Actors \ {a} : upd'[b] = upd[b]
<1>1. upd'[a] = Rest /\ DOMAIN upd' = Actors /\ \A b \in Actors \ {a} : upd'[b] = upd[b]
  BY OthersSame
<1>2. ~Takes(a)' /\ ~Gives(a)' /\ \A kind, page : ~Gone(a, kind, page)'
  BY <1>1 DEF Takes, Gives, Gone, Rest
<1>3. ASSUME NEW b \in Actors \ {a} PROVE upd'[b] = Rest \/ ((Takes(b)' \/ Gives(b)') /\ Sized(b)')
  <2>1. /\ Takes(b)' <=> Takes(b)
        /\ Gives(b)' <=> Gives(b)
        /\ Sized(b)' <=> Sized(b)
    BY <1>1, OthersOf
  <2> QED BY <1>1, <2>1 DEF Types
<1> QED BY <1>1, <1>2, <1>3

(* What stays pending when the update of a is over: the others touch other *)
(* pages.                                                                  *)
LEMMA OverPending ==
  ASSUME Types, Pending, NEW a \in Actors, upd' = [upd EXCEPT ![a] = Rest], heap' = heap,
         \A b \in Actors \ {a}, k \in KPages :
           (Takes(b) \/ Gives(b)) /\ HasHeap(b, k) => kdir'[k] = kdir[k],
         \A p \in Procs \ {a}, g \in Pages : Gives(p) /\ HasUser(p, g) => dir'[p][g] = dir[p][g],
         \A k \in KPages : kdir'[k] # 0 => kdir'[k] = kdir[k] \/ heap[k] # Spare,
         \A k \in KPages : Gives(a) /\ HasHeap(a, k) => kdir'[k] = 0
  PROVE  Pending'
<1>1. ~Takes(a)' /\ ~Gives(a)' /\ \A b \in Actors \ {a} : upd'[b] = upd[b]
  BY OverTyped
<1>2. \A b \in Actors, k \in KPages :
        /\ Takes(b)' => b # a /\ Takes(b)
        /\ Gives(b)' => b # a /\ Gives(b) /\ upd'[b] = upd[b]
        /\ b # a /\ HasHeap(b, k)' => HasHeap(b, k)
  BY <1>1, OthersOf
<1>3. Taking'
  <2> SUFFICES ASSUME NEW b \in Actors, NEW l \in KPages, Takes(b)', HasHeap(b, l)'
               PROVE  Has(b, heap[l]) /\ kdir'[l] = 0
    BY DEF Taking, Has
  <2>1. b # a /\ Takes(b) /\ HasHeap(b, l)
    BY <1>2
  <2>2. kdir'[l] = kdir[l]
    BY <2>1
  <2> QED BY <2>1, <2>2 DEF Pending, Taking
<1>4. Giving'
  <2> SUFFICES ASSUME NEW b \in Actors, NEW l \in KPages, Gives(b)', HasHeap(b, l)'
               PROVE  heap[l] = Spare /\ kdir'[l] = upd'[b].f
    BY DEF Giving
  <2>1. b # a /\ Gives(b) /\ HasHeap(b, l) /\ upd'[b] = upd[b]
    BY <1>2
  <2>2. kdir'[l] = kdir[l]
    BY <2>1
  <2> QED BY <2>1, <2>2 DEF Pending, Giving
<1>5. GivingUser'
  <2> SUFFICES ASSUME NEW b \in Procs, NEW g \in Pages, Gives(b)', HasUser(b, g)'
               PROVE  dir'[b][g] = upd'[b].f
    BY DEF GivingUser
  <2>1. b \in Actors /\ b # a /\ upd'[b] = upd[b]
    BY <1>1 DEF Actors
  <2>2. Gives(b) /\ HasUser(b, g)
    BY <2>1 DEF Gives, HasUser
  <2>3. dir'[b][g] = dir[b][g]
    BY <2>1, <2>2
  <2> QED BY <2>1, <2>2, <2>3 DEF Pending, GivingUser
<1>6. OneGives'
  BY <1>2 DEF Pending, OneGives
<1>7. Unmapped'
  <2> SUFFICES ASSUME NEW l \in KPages, heap[l] = Spare, kdir'[l] # 0 PROVE Leaving(l)'
    BY DEF Unmapped
  <2>1. kdir'[l] = kdir[l]
    OBVIOUS
  <2>2. PICK b \in Actors : Gives(b) /\ HasHeap(b, l)
    BY <2>1 DEF Pending, Unmapped, Leaving, Gives, HasHeap
  <2>3. b # a
    BY <2>2
  <2> QED BY <1>1, <2>2, <2>3 DEF Leaving, Gives, HasHeap, Actors
<1> QED BY <1>3, <1>4, <1>5, <1>6, <1>7 DEF Pending

(* What is marked when an update has not been torn. *)
LEMMA MarkBitIs ==
  ASSUME Types, NEW a \in Actors, MarkBit(a)
  PROVE  /\ Takes(a) /\ upd[a].f \in Frames /\ upd[a].f \in Some /\ raced' \in BOOLEAN
         /\ upd' = [upd EXCEPT ![a] = Rest]
         /\ ~raced' => upd[a].f \in FreeFrames /\ bits' = bits \cup {upd[a].f}
<1>1. /\ Takes(a) /\ upd[a] # Rest /\ upd[a].at # "freed"
      /\ upd' = [upd EXCEPT ![a] = Rest] /\ raced' \in BOOLEAN
  BY DEF MarkBit, Takes, Rest, Torn, Given
<1>2. upd[a].f \in Frames
  BY <1>1 DEF Types, Sized
<1>3. PICK u : u = upd[a] /\ u.f \in Frames
  BY <1>2
<1>4. ~raced' => ~Torn(u) /\ ~Given(u) /\ bits' = Marked(u)
  BY <1>3 DEF MarkBit
<1>5. ~raced' => u.f \notin bits /\ bits' = bits \cup {u.f}
  BY <1>3, <1>4, MarkedIs
<1> QED BY <1>1, <1>2, <1>3, <1>5 DEF FreeFrames, Some

(* kmalloc_page has its frame. *)
LEMMA MapKernelKeeps ==
  ASSUME Inv, NEW a \in Actors, MapKernel(a), UNCHANGED <<dir, lost>>
  PROVE  Inv'
<1> USE DEF Inv
<1>1. /\ ~raced /\ MarkBit(a) /\ upd[a].kind = "heap" /\ heap' = heap
      /\ kdir' = [kdir EXCEPT ![upd[a].page] = upd[a].f]
  BY DEF MapKernel, Allowed, Open, May
<1>2. /\ Takes(a) /\ upd[a].f \in Frames /\ upd[a].f \in Some /\ raced' \in BOOLEAN
      /\ upd' = [upd EXCEPT ![a] = Rest]
      /\ ~raced' => upd[a].f \in FreeFrames /\ bits' = bits \cup {upd[a].f}
  BY <1>1, MarkBitIs
<1>3. PICK k, f : k = upd[a].page /\ f = upd[a].f /\ k \in KPages /\ f \in Frames
  <2>1. Sized(a)
    BY <1>2 DEF Types, Takes, Rest
  <2> QED BY <1>1, <1>2, <2>1 DEF Sized, HasHeap, HasUser
<1>4. HasHeap(a, k) /\ Has(a, heap[k]) /\ kdir[k] = 0 /\ ~Gives(a)
  BY <1>1, <1>2, <1>3 DEF Pending, Taking, HasHeap, Takes, Gives
<1>5. \A l \in KPages : kdir'[l] = IF l = k THEN f ELSE kdir[l]
  BY <1>1, <1>3 DEF Types
<1>6. kdir' \in [KPages -> Some]
  BY <1>1, <1>2, <1>3 DEF Types
<1>7. Types'
  BY <1>1, <1>2, <1>6, OverTyped DEF Types
<1>8. \A b \in Actors \ {a} : (Takes(b) \/ Gives(b)) => ~HasHeap(b, k)
  BY <1>1, <1>3, <1>4 DEF Pending, Taking, Giving, Has
<1>9. Pending'
  <2>1. \A b \in Actors \ {a}, l \in KPages :
          (Takes(b) \/ Gives(b)) /\ HasHeap(b, l) => kdir'[l] = kdir[l]
    BY <1>5, <1>8
  <2>2. \A l \in KPages : kdir'[l] # 0 => kdir'[l] = kdir[l] \/ heap[l] # Spare
    BY <1>4, <1>5 DEF Has
  <2>3. \A l \in KPages : Gives(a) /\ HasHeap(a, l) => kdir'[l] = 0
    BY <1>4
  <2>4. \A p \in Procs \ {a}, g \in Pages : Gives(p) /\ HasUser(p, g) => dir'[p][g] = dir[p][g]
    OBVIOUS
  <2> QED BY <1>1, <1>2, <2>1, <2>2, <2>3, <2>4, OverPending
<1>10. ASSUME ~raced' PROVE Accounted'
  <2>1. \A b \in Actors : \A x, y : Gone(b, x, y)' <=> Gone(b, x, y)
    <3>1. \A x, y : ~Gone(a, x, y) /\ ~Gone(a, x, y)'
      BY <1>2, <1>4, OverTyped DEF Gone, Gives
    <3>2. \A b \in Actors \ {a} : upd'[b] = upd[b]
      BY <1>2, OverTyped
    <3> QED BY <3>1, <3>2, OthersOf
  <2>2. \A b \in Actors : ~Gone(b, "heap", k)
    BY <1>4, <1>8 DEF Gone, Gives, HasHeap
  <2>3. \A l \in KPages : Kern'[l] = IF l = k THEN f ELSE Kern[l]
    <3> TAKE l \in KPages
    <3>1. Kern'[l] = IF \E b \in Actors : Gone(b, "heap", l)' THEN 0 ELSE kdir'[l]
      BY DEF Kern, Actors
    <3> QED BY <1>5, <2>1, <2>2, <3>1, KernIs
  <2>4. Kern' = [Kern EXCEPT ![k] = f]
    <3>1. Kern' = [l \in KPages |-> Kern'[l]] /\ Kern = [l \in KPages |-> Kern[l]]
      BY DEF Kern
    <3> QED BY <1>3, <2>3, <3>1
  <2>5. User' = User
    <3>1. \A p \in Procs, g \in Pages : Gone(p, "user", g)' <=> Gone(p, "user", g)
      BY <2>1 DEF Actors
    <3> QED BY <3>1 DEF User
  <2>6. Kern[k] = 0
    BY <1>3, <1>4, KernIs
  <2>7. f \in FreeFrames /\ bits' = bits \cup {f}
    BY <1>2, <1>3, <1>10
  <2>8. Entries /\ Accounted
    BY <1>1, EntriesTyped
  <2> QED BY <1>3, <2>4, <2>5, <2>6, <2>7, <2>8, MapKernelOwner
<1> QED BY <1>7, <1>9, <1>10

(* What a change of one entry of the tables is in the account. *)
LEMMA KernChanged ==
  ASSUME NEW k \in KPages, NEW f, NEW c,
         kdir' = [kdir EXCEPT ![k] = c], kdir \in [KPages -> Some],
         \A l \in KPages \ {k} : (\E b \in Actors : Gone(b, "heap", l)') <=> (\E b \in Actors : Gone(b, "heap", l)),
         f = IF \E b \in Actors : Gone(b, "heap", k)' THEN 0 ELSE c
  PROVE  Kern' = [Kern EXCEPT ![k] = f]
<1>1. \A l \in KPages : kdir'[l] = IF l = k THEN c ELSE kdir[l]
  OBVIOUS
<1>2. ASSUME NEW l \in KPages PROVE Kern'[l] = IF l = k THEN f ELSE Kern[l]
  <2>1. Kern'[l] = IF \E b \in Actors : Gone(b, "heap", l)' THEN 0 ELSE kdir'[l]
    BY DEF Kern, Actors
  <2>2. CASE l = k
    BY <1>1, <2>1, <2>2
  <2>3. CASE l # k
    BY <1>1, <2>1, <2>3, KernIs
  <2> QED BY <2>2, <2>3
<1>3. Kern' = [l \in KPages |-> Kern'[l]] /\ Kern = [l \in KPages |-> Kern[l]]
  BY DEF Kern
<1> QED BY <1>2, <1>3

LEMMA KernSame ==
  ASSUME kdir' = kdir,
         \A l \in KPages : (\E b \in Actors : Gone(b, "heap", l)') <=> (\E b \in Actors : Gone(b, "heap", l))
  PROVE  Kern' = Kern
<1>1. ASSUME NEW l \in KPages PROVE Kern'[l] = Kern[l]
  <2>1. Kern'[l] = IF \E b \in Actors : Gone(b, "heap", l)' THEN 0 ELSE kdir'[l]
    BY DEF Kern, Actors
  <2> QED BY <2>1, KernIs
<1>2. Kern' = [l \in KPages |-> Kern'[l]] /\ Kern = [l \in KPages |-> Kern[l]]
  BY DEF Kern
<1> QED BY <1>1, <1>2

LEMMA UserChanged ==
  ASSUME NEW p \in Procs, NEW g \in Pages, NEW f, NEW c,
         dir' = [dir EXCEPT ![p][g] = c], c \in Some, dir \in [Procs -> [Pages -> Some]],
         \A q \in Procs, h \in Pages : ~(q = p /\ h = g) => (Gone(q, "user", h)' <=> Gone(q, "user", h)),
         f = IF Gone(p, "user", g)' THEN 0 ELSE c
  PROVE  User' = [User EXCEPT ![p][g] = f]
<1>1. \A q \in Procs, h \in Pages : dir'[q][h] = IF q = p /\ h = g THEN c ELSE dir[q][h]
  BY OneEntry
<1>2. ASSUME NEW q \in Procs, NEW h \in Pages
      PROVE  User'[q][h] = IF q = p /\ h = g THEN f ELSE User[q][h]
  <2>1. User'[q][h] = IF Gone(q, "user", h)' THEN 0 ELSE dir'[q][h]
    BY DEF User
  <2>2. CASE q = p /\ h = g
    BY <1>1, <2>1, <2>2
  <2>3. CASE ~(q = p /\ h = g)
    BY <1>1, <2>1, <2>3, UserIs
  <2> QED BY <2>2, <2>3
<1>3. /\ User' = [q \in Procs |-> [h \in Pages |-> User'[q][h]]]
      /\ User = [q \in Procs |-> [h \in Pages |-> User[q][h]]]
  BY DEF User
<1>4. User' = [q \in Procs |-> [h \in Pages |-> IF q = p /\ h = g THEN f ELSE User[q][h]]]
  BY <1>2, <1>3
<1>5. [User EXCEPT ![p][g] = f] = [q \in Procs |-> [h \in Pages |-> IF q = p /\ h = g THEN f ELSE User[q][h]]]
  <2>1. DOMAIN User = Procs /\ \A q \in Procs : DOMAIN User[q] = Pages
    BY DEF User
  <2>2. \A q \in Procs : User[q] = [h \in Pages |-> User[q][h]]
    BY <1>3
  <2>3. [User[p] EXCEPT ![g] = f] = [h \in Pages |-> IF h = g THEN f ELSE User[p][h]]
    BY <2>1, <2>2
  <2>4. User = [q \in Procs |-> User[q]]
    BY <2>1, <1>3
  <2> QED BY <2>1, <2>2, <2>3, <2>4
<1> QED BY <1>4, <1>5

LEMMA UserSame ==
  ASSUME dir' = dir,
         \A q \in Procs, h \in Pages : Gone(q, "user", h)' <=> Gone(q, "user", h)
  PROVE  User' = User
<1>1. ASSUME NEW q \in Procs, NEW h \in Pages PROVE User'[q][h] = User[q][h]
  <2>1. User'[q][h] = IF Gone(q, "user", h)' THEN 0 ELSE dir'[q][h]
    BY DEF User
  <2> QED BY <2>1, UserIs
<1>2. /\ User' = [q \in Procs |-> [h \in Pages |-> User'[q][h]]]
      /\ User = [q \in Procs |-> [h \in Pages |-> User[q][h]]]
  BY DEF User
<1> QED BY <1>1, <1>2


(* page_u_map_set has its frame. *)
LEMMA MapUserKeeps ==
  ASSUME Inv, NEW p \in Procs, NEW g \in Pages, MapUser(p, g), dir[p][g] = 0,
         UNCHANGED <<kdir, heap, lost>>
  PROVE  Inv'
<1> USE DEF Inv
<1>0. p \in Actors
  BY DEF Actors
<1>1. /\ ~raced /\ MarkBit(p) /\ HasUser(p, g) /\ heap' = heap
      /\ dir' = [dir EXCEPT ![p][g] = upd[p].f]
  BY NoneAssumption DEF MapUser, Allowed, Open, May, HasUser
<1>2. /\ Takes(p) /\ upd[p].f \in Frames /\ upd[p].f \in Some /\ raced' \in BOOLEAN
      /\ upd' = [upd EXCEPT ![p] = Rest]
      /\ ~raced' => upd[p].f \in FreeFrames /\ bits' = bits \cup {upd[p].f}
  BY <1>0, <1>1, MarkBitIs
<1>3. PICK f : f = upd[p].f /\ f \in Frames /\ f \in Some
  BY <1>2
<1>4. ~Gives(p) /\ ~Gives(p)' /\ \A b \in Actors \ {p} : upd'[b] = upd[b]
  BY <1>0, <1>2, OverTyped DEF Takes, Gives
<1>5. /\ dir' \in [Procs -> [Pages -> Some]]
      /\ \A q \in Procs, h \in Pages : dir'[q][h] = IF q = p /\ h = g THEN f ELSE dir[q][h]
  BY <1>1, <1>3, OneEntry DEF Types
<1>6. Types'
  BY <1>0, <1>2, <1>5, OverTyped DEF Types
<1>7. Pending'
  <2>1. \A q \in Procs \ {p}, h \in Pages : Gives(q) /\ HasUser(q, h) => dir'[q][h] = dir[q][h]
    BY <1>5
  <2>2. \A l \in KPages : Gives(p) /\ HasHeap(p, l) => kdir'[l] = 0
    BY <1>4
  <2> QED BY <1>0, <1>1, <1>2, <2>1, <2>2, OverPending
<1>8. ASSUME ~raced' PROVE Accounted'
  <2>1. \A x, y : ~Gone(p, x, y) /\ ~Gone(p, x, y)'
    BY <1>4 DEF Gone, Gives
  <2>2. \A b \in Actors : \A x, y : Gone(b, x, y)' <=> Gone(b, x, y)
    BY <1>4, <2>1, OthersOf, <1>0
  <2>3. User' = [User EXCEPT ![p][g] = f]
    <3>1. \A q \in Procs, h \in Pages : ~(q = p /\ h = g) => (Gone(q, "user", h)' <=> Gone(q, "user", h))
      BY <2>2 DEF Actors
    <3>2. f = IF Gone(p, "user", g)' THEN 0 ELSE f
      BY <2>1
    <3>3. dir' = [dir EXCEPT ![p][g] = f] /\ dir \in [Procs -> [Pages -> Some]]
      BY <1>1, <1>3 DEF Types
    <3>4. f \in Some
      BY <1>3
    <3> QED BY <3>1, <3>2, <3>3, <3>4, UserChanged
  <2>4. Kern' = Kern
    BY <2>2, KernSame
  <2>5. User[p][g] = 0
    BY UserIs
  <2>6. f \in FreeFrames /\ bits' = bits \cup {f}
    BY <1>2, <1>3, <1>8
  <2>7. Entries /\ Accounted
    BY <1>1, EntriesTyped
  <2> QED BY <2>3, <2>4, <2>5, <2>6, <2>7, MapUserOwner
<1> QED BY <1>6, <1>7, <1>8

(* The bit of a frame that is given back is cleared: the account leaves    *)
(* its page out from here.                                                 *)
LEMMA ClearBitOwner ==
  ASSUME Inv, NEW a \in Actors, ClearBit(a)
  PROVE  Inv' /\ UNCHANGED <<kdir, mem, heap, spaces, lost, calls>>
<1> USE DEF Inv
<1>1. /\ ~raced /\ upd[a].at = "clearing" /\ bits' = Cleared(upd[a])
      /\ raced' = Torn(upd[a]) /\ UNCHANGED <<kdir, mem, heap, dir, lost>>
      /\ UNCHANGED <<kdir, mem, heap, spaces, lost, calls>>
  BY DEF ClearBit, Allowed, Open, May, spaces
<1>2. PICK s, v, w :
        /\ s = "freed" /\ v = {} /\ w = GoesTo(upd[a], s, v)
        /\ upd' = [upd EXCEPT ![a] = w]
  BY DEF ClearBit
<1>3. upd[a] # Rest /\ v \in SUBSET Some /\ raced' \in BOOLEAN
  BY <1>1, <1>2 DEF Rest, Torn
<1>4. /\ Types' /\ upd'[a].at = "freed"
      /\ upd'[a].f = upd[a].f /\ upd'[a].kind = upd[a].kind /\ upd'[a].page = upd[a].page
      /\ \A b \in Actors \ {a} : upd'[b] = upd[b]
      /\ \A b \in Actors : /\ Takes(b)' <=> Takes(b)
                           /\ Gives(b)' <=> Gives(b)
                           /\ \A l : HasHeap(b, l)' <=> HasHeap(b, l)
                           /\ \A l : HasUser(b, l)' <=> HasUser(b, l)
                           /\ upd'[b].f = upd[b].f
  <2>1. \/ upd[a].at = "found" /\ s = "marking"
        \/ upd[a].at = "given" /\ s = "clearing"
        \/ upd[a].at = "clearing" /\ s = "freed"
    BY <1>1, <1>2
  <2>2. Types /\ UNCHANGED <<kdir, dir, heap, lost>>
    BY <1>1
  <2> QED BY <1>2, <1>3, <2>1, <2>2, GoesOnTyped
<1>5. Pending'
  BY <1>1, <1>4, SamePending
<1>6. ASSUME ~raced' PROVE Accounted'
  <2>1. upd[a].f \in Frames /\ Sized(a) /\ Gives(a) /\ upd[a].at # "freed"
    BY <1>1, <1>3 DEF Types, Sized, Gives
  <2>2. PICK f : f = upd[a].f /\ f \in Frames
    BY <2>1
  <2>3. bits' = bits \ {f}
    <3>1. PICK u : u = upd[a] /\ u.f \in Frames /\ ~Torn(u)
      BY <1>1, <1>6, <2>1
    <3> QED BY <1>1, <2>2, <3>1, MarkedIs
  <2>4. Entries /\ Accounted
    BY <1>1, EntriesTyped
  <2>5. \A x, y : ~Gone(a, x, y) /\ (Gone(a, x, y)' <=> upd[a].kind = x /\ upd[a].page = y)
    BY <1>1, <1>4 DEF Gone
  <2>6. \A b \in Actors \ {a} : \A x, y : Gone(b, x, y)' <=> Gone(b, x, y)
    BY <1>4, OthersOf
  <2>7. CASE \E k \in KPages : HasHeap(a, k)
    <3>1. PICK k \in KPages : HasHeap(a, k)
      BY <2>7
    <3>2. kdir[k] = f /\ f # 0
      BY <1>1, <2>1, <2>2, <3>1, SomeNumber DEF Pending, Giving
    <3>3. \A b \in Actors : ~Gone(b, "heap", k)
      BY <1>1, <2>1, <2>5, <3>1 DEF Pending, OneGives, Gone, Gives, HasHeap
    <3>4. Kern[k] = f
      BY <3>2, <3>3, KernIs
    <3>5. Gone(a, "heap", k)' /\ \A l \in KPages \ {k} : ~Gone(a, "heap", l)'
      BY <2>5, <3>1 DEF HasHeap
    <3>6. Kern' = [Kern EXCEPT ![k] = 0]
      <4>1. \A l \in KPages \ {k} :
              (\E b \in Actors : Gone(b, "heap", l)') <=> (\E b \in Actors : Gone(b, "heap", l))
        BY <2>5, <2>6, <3>5
      <4>2. kdir' = [kdir EXCEPT ![k] = f] /\ kdir \in [KPages -> Some]
        BY <1>1, <3>2 DEF Types
      <4>3. 0 = IF \E b \in Actors : Gone(b, "heap", k)' THEN 0 ELSE f
        BY <3>5
      <4> QED BY <4>1, <4>2, <4>3, KernChanged
    <3>7. User' = User
      <4>1. \A q \in Procs, h \in Pages : Gone(q, "user", h)' <=> Gone(q, "user", h)
        BY <2>5, <2>6, <3>1 DEF HasHeap, Actors
      <4> QED BY <1>1, <4>1, UserSame
    <3>8. bits' = bits \ ({Kern[k]} \ {0})
      BY <2>3, <3>2, <3>4
    <3> QED BY <1>1, <2>4, <3>6, <3>7, <3>8, UnmapKernelOwner
  <2>8. CASE a \in Procs /\ \E g \in Pages : HasUser(a, g)
    <3>1. PICK g \in Pages : HasUser(a, g)
      BY <2>8
    <3>2. dir[a][g] = f /\ f # 0 /\ f \in Some
      BY <1>1, <2>1, <2>2, <2>8, <3>1, SomeNumber DEF Pending, GivingUser, Some
    <3>3. User[a][g] = f
      BY <2>5, <2>8, <3>2, UserIs
    <3>4. Gone(a, "user", g)' /\ \A h \in Pages \ {g} : ~Gone(a, "user", h)'
      BY <2>5, <3>1 DEF HasUser
    <3>5. User' = [User EXCEPT ![a][g] = 0]
      <4>1. \A q \in Procs, h \in Pages :
              ~(q = a /\ h = g) => (Gone(q, "user", h)' <=> Gone(q, "user", h))
        BY <2>5, <2>6, <3>4 DEF Actors
      <4>2. dir' = [dir EXCEPT ![a][g] = f] /\ dir \in [Procs -> [Pages -> Some]]
        BY <1>1, <2>8, <3>2 DEF Types
      <4>3. 0 = IF Gone(a, "user", g)' THEN 0 ELSE f
        BY <3>4
      <4> QED BY <2>8, <3>2, <4>1, <4>2, <4>3, UserChanged
    <3>6. Kern' = Kern
      <4>1. \A l \in KPages : (\E b \in Actors : Gone(b, "heap", l)') <=> (\E b \in Actors : Gone(b, "heap", l))
        BY <2>5, <2>6, <3>1 DEF HasUser
      <4> QED BY <1>1, <4>1, KernSame
    <3>7. bits' = bits \ {User[a][g]} /\ User[a][g] # 0
      BY <2>3, <3>2, <3>3
    <3> QED BY <1>1, <2>4, <2>8, <3>5, <3>6, <3>7, UnmapUserOwner
  <2> QED BY <2>1, <2>7, <2>8 DEF Sized
<1> QED BY <1>1, <1>4, <1>5, <1>6

(* The entry of a heap page is cleared: the account has left it out.       *)
LEMMA UnmapKernelKeeps ==
  ASSUME Inv, NEW a \in Actors, UnmapKernel(a), UNCHANGED <<dir, lost, raced>>
  PROVE  Inv'
<1> USE DEF Inv
<1>1. /\ ~raced /\ upd[a].at = "freed" /\ upd[a].kind = "heap" /\ heap' = heap
      /\ kdir' = [kdir EXCEPT ![upd[a].page] = 0]
      /\ upd' = [upd EXCEPT ![a] = Rest] /\ bits' = bits
  BY DEF UnmapKernel, Allowed, Open, May
<1>2. Gives(a) /\ Sized(a)
  BY <1>1 DEF Types, Gives, Rest
<1>3. PICK k : k = upd[a].page /\ k \in KPages /\ HasHeap(a, k)
  BY <1>1, <1>2 DEF Sized, HasHeap, HasUser
<1>4. /\ ~Takes(a)' /\ ~Gives(a)' /\ \A kind, page : ~Gone(a, kind, page)'
      /\ \A b \in Actors \ {a} : upd'[b] = upd[b]
  BY <1>1, OverTyped
<1>5. kdir' = [kdir EXCEPT ![k] = 0] /\ kdir' \in [KPages -> Some] /\ kdir \in [KPages -> Some]
  BY <1>1, <1>3 DEF Types, Some
<1>6. \A l \in KPages : kdir'[l] = IF l = k THEN 0 ELSE kdir[l]
  BY <1>5
<1>7. Types'
  BY <1>1, <1>5, OverTyped DEF Types
<1>8. heap[k] = Spare /\ \A b \in Actors \ {a} : (Takes(b) \/ Gives(b)) => ~HasHeap(b, k)
  BY <1>1, <1>2, <1>3 DEF Pending, Taking, Giving, OneGives, Has
<1>9. Pending'
  <2>1. \A b \in Actors \ {a}, l \in KPages :
          (Takes(b) \/ Gives(b)) /\ HasHeap(b, l) => kdir'[l] = kdir[l]
    BY <1>6, <1>8
  <2>2. \A l \in KPages : kdir'[l] # 0 => kdir'[l] = kdir[l] \/ heap[l] # Spare
    BY <1>6
  <2>3. \A l \in KPages : Gives(a) /\ HasHeap(a, l) => kdir'[l] = 0
    BY <1>3, <1>6 DEF HasHeap
  <2> QED BY <1>1, <2>1, <2>2, <2>3, OverPending
<1>10. \A b \in Actors \ {a} : \A x, y : Gone(b, x, y)' <=> Gone(b, x, y)
  BY <1>4, OthersOf
<1>11. Gone(a, "heap", k) /\ \A x, y : Gone(a, x, y) => x = "heap" /\ y = k
  BY <1>1, <1>3 DEF Gone
<1>12. Kern[k] = 0
  BY <1>3, <1>11, KernIs
<1>13. Kern' = Kern
  <2>1. \A l \in KPages \ {k} :
          (\E b \in Actors : Gone(b, "heap", l)') <=> (\E b \in Actors : Gone(b, "heap", l))
    BY <1>4, <1>10, <1>11
  <2>2. 0 = IF \E b \in Actors : Gone(b, "heap", k)' THEN 0 ELSE 0
    OBVIOUS
  <2>3. Kern' = [Kern EXCEPT ![k] = 0]
    BY <1>3, <1>5, <2>1, <2>2, KernChanged
  <2>4. Kern = [l \in KPages |-> Kern[l]]
    BY DEF Kern
  <2> QED BY <1>3, <1>12, <2>3, <2>4
<1>14. User' = User
  <2>1. \A q \in Procs, h \in Pages : Gone(q, "user", h)' <=> Gone(q, "user", h)
    <3>1. \A h : ~Gone(a, "user", h) /\ ~Gone(a, "user", h)'
      BY <1>1, <1>4 DEF Gone
    <3> QED BY <1>10, <3>1 DEF Actors
  <2> QED BY <2>1, UserSame
<1> QED BY <1>1, <1>7, <1>9, <1>13, <1>14, SameAccounted

LEMMA UnmapUserKeeps ==
  ASSUME Inv, NEW p \in Procs, NEW g \in Pages, UnmapUser(p, g),
         UNCHANGED <<bits, kdir, heap, lost, raced>>
  PROVE  Inv'
<1> USE DEF Inv
<1>0. p \in Actors
  BY DEF Actors
<1>1. /\ ~raced /\ upd[p].at = "freed" /\ HasUser(p, g)
      /\ dir' = [dir EXCEPT ![p][g] = 0]
      /\ upd' = [upd EXCEPT ![p] = Rest]
  BY NoneAssumption DEF UnmapUser, Allowed, Open, May, HasUser
<1>2. /\ ~Takes(p)' /\ ~Gives(p)' /\ \A kind, page : ~Gone(p, kind, page)'
      /\ \A b \in Actors \ {p} : upd'[b] = upd[b]
  BY <1>0, <1>1, OverTyped
<1>3. /\ dir' \in [Procs -> [Pages -> Some]]
      /\ \A q \in Procs, h \in Pages : dir'[q][h] = IF q = p /\ h = g THEN 0 ELSE dir[q][h]
  BY <1>1, OneEntry DEF Types, Some
<1>4. Types'
  BY <1>0, <1>1, <1>3, OverTyped DEF Types
<1>5. Pending'
  <2>1. \A q \in Procs \ {p}, h \in Pages : Gives(q) /\ HasUser(q, h) => dir'[q][h] = dir[q][h]
    BY <1>3
  <2>2. \A l \in KPages : Gives(p) /\ HasHeap(p, l) => kdir'[l] = 0
    BY <1>1 DEF HasUser, HasHeap
  <2> QED BY <1>0, <1>1, <2>1, <2>2, OverPending
<1>6. \A b \in Actors \ {p} : \A x, y : Gone(b, x, y)' <=> Gone(b, x, y)
  BY <1>0, <1>2, OthersOf
<1>7. Gone(p, "user", g) /\ \A x, y : Gone(p, x, y) => x = "user" /\ y = g
  BY <1>1 DEF Gone, HasUser
<1>8. User[p][g] = 0
  BY <1>7, UserIs
<1>9. User' = User
  <2>1. \A q \in Procs, h \in Pages : ~(q = p /\ h = g) => (Gone(q, "user", h)' <=> Gone(q, "user", h))
    BY <1>2, <1>6, <1>7 DEF Actors
  <2>2. 0 = IF Gone(p, "user", g)' THEN 0 ELSE 0
    OBVIOUS
  <2>3. User' = [User EXCEPT ![p][g] = 0]
    BY <1>1, <2>1, <2>2, UserChanged DEF Types, Some
  <2>4. Entries
    BY EntriesTyped
  <2>5. User[p] \in [Pages -> Some]
    BY <2>4 DEF Entries
  <2>6. [User[p] EXCEPT ![g] = 0] = User[p]
    BY <1>8, <2>5
  <2> QED BY <2>3, <2>4, <2>6 DEF Entries
<1>10. Kern' = Kern
  <2>1. \A l : ~Gone(p, "heap", l) /\ ~Gone(p, "heap", l)'
    BY <1>2, <1>7
  <2>2. \A l \in KPages : (\E b \in Actors : Gone(b, "heap", l)') <=> (\E b \in Actors : Gone(b, "heap", l))
    BY <1>6, <2>1
  <2> QED BY <2>2, KernSame
<1> QED BY <1>1, <1>4, <1>5, <1>9, <1>10, SameAccounted

(* vmm_remap_pages moves a page of the heap to the user's table. *)
LEMMA RemapOwner ==
  ASSUME Inv, NEW p \in Procs, NEW g \in Pages, Remap(p, g)
  PROVE  Inv'
<1> USE DEF Inv
<1>0. p \in Actors
  BY DEF Actors
<1>1. /\ ~raced /\ upd[p] = Rest /\ UNCHANGED <<upd, raced>>
  BY DEF Remap, Ready, May
<1>2. PICK k \in KPages :
       /\ heap[k] = FilePage(p, g)
       /\ heap' = [heap EXCEPT ![k] = Spare]
       /\ kdir' = [kdir EXCEPT ![k] = 0]
       /\ IF dir[p][g] # 0
            THEN /\ lost' = lost \cup ({kdir[k]} \ {0})
                 /\ UNCHANGED <<bits, dir>>
            ELSE /\ dir' = [dir EXCEPT ![p][g] = kdir[k]]
                 /\ bits' = bits \cup {kdir[k]}
                 /\ lost' = lost
  BY DEF Remap
<1>3. Has(p, heap[k])
  BY <1>2, NoneAssumption DEF FilePage, Has, Spare
<1>4. kdir' \in [KPages -> Some] /\ \A l \in KPages : kdir'[l] = IF l = k THEN 0 ELSE kdir[l]
  BY <1>2 DEF Types, Some
<1>5. \A l \in KPages : heap'[l] = IF l = k THEN Spare ELSE heap[l]
  BY <1>2 DEF Types
<1>6. /\ dir' \in [Procs -> [Pages -> Some]]
      /\ \A q \in Procs, h \in Pages : q # p \/ h # g => dir'[q][h] = dir[q][h]
  <2>1. CASE dir[p][g] # 0
    BY <1>2, <2>1 DEF Types
  <2>2. CASE dir[p][g] = 0
    <3>1. kdir[k] \in Some /\ dir \in [Procs -> [Pages -> Some]]
      BY DEF Types
    <3>2. dir' = [dir EXCEPT ![p][g] = kdir[k]]
      BY <1>2, <2>2
    <3> QED BY <3>1, <3>2, OneEntry
  <2> QED BY <2>1, <2>2
<1>7. \A b \in Actors : /\ Takes(b)' <=> Takes(b)
                        /\ Gives(b)' <=> Gives(b)
                        /\ Sized(b)' <=> Sized(b)
                        /\ \A l : HasHeap(b, l)' <=> HasHeap(b, l)
                        /\ \A l : HasUser(b, l)' <=> HasUser(b, l)
                        /\ \A x, y : Gone(b, x, y)' <=> Gone(b, x, y)
                        /\ upd'[b] = upd[b]
  BY <1>1 DEF Takes, Gives, Sized, HasHeap, HasUser, Gone
<1>8. \A b \in Actors : (Takes(b) \/ Gives(b)) => ~HasHeap(b, k)
  BY <1>0, <1>1, <1>3, Rests DEF Pending, Taking, Giving, Has
<1>9. 0 \notin lost'
  BY <1>2 DEF Types
<1>10. Types'
  <2>1. DOMAIN heap' = KPages /\ DOMAIN upd' = Actors
    BY <1>1, <1>2 DEF Types
  <2> QED BY <1>1, <1>4, <1>6, <1>7, <1>9, <2>1 DEF Types
<1>11. Taking' /\ Giving'
  <2>1. Taking'
    BY <1>4, <1>5, <1>7, <1>8, <1>1 DEF Pending, Taking, Has
  <2>2. Giving'
    BY <1>4, <1>5, <1>7, <1>8, <1>1 DEF Pending, Giving
  <2> QED BY <2>1, <2>2
<1>12. GivingUser'
  <2> SUFFICES ASSUME NEW b \in Procs, NEW h \in Pages, Gives(b)', HasUser(b, h)'
               PROVE  dir'[b][h] = upd'[b].f
    BY DEF GivingUser
  <2>1. b \in Actors /\ Gives(b) /\ HasUser(b, h)
    BY <1>7 DEF Actors
  <2>2. b # p
    BY <1>0, <1>1, <2>1, Rests
  <2> QED BY <1>1, <1>6, <2>1, <2>2 DEF Pending, GivingUser
<1>13. OneGives'
  BY <1>1, <1>7 DEF Pending, OneGives
<1>14. Unmapped'
  <2> SUFFICES ASSUME NEW l \in KPages, heap'[l] = Spare, kdir'[l] # 0 PROVE Leaving(l)'
    BY DEF Unmapped
  <2>1. l # k /\ heap[l] = Spare /\ kdir[l] # 0
    BY <1>4, <1>5
  <2> QED BY <1>1, <2>1 DEF Pending, Unmapped, Leaving
<1>15. Entries /\ Accounted /\ UNCHANGED raced
  BY <1>1, EntriesTyped
<1>16. Kern[k] = kdir[k] /\ Kern' = [Kern EXCEPT ![k] = 0]
  <2>1. \A b \in Actors : ~Gone(b, "heap", k)
    BY <1>8 DEF Gone, Gives, HasHeap
  <2>2. \A l \in KPages \ {k} :
          (\E b \in Actors : Gone(b, "heap", l)') <=> (\E b \in Actors : Gone(b, "heap", l))
    BY <1>7
  <2>3. 0 = IF \E b \in Actors : Gone(b, "heap", k)' THEN 0 ELSE 0
    OBVIOUS
  <2> QED BY <1>2, <2>1, <2>2, <2>3, KernIs, KernChanged DEF Types
<1>17. User[p][g] = dir[p][g] /\ \A q \in Procs, h \in Pages : Gone(q, "user", h)' <=> Gone(q, "user", h)
  <2>1. ~Gone(p, "user", g)
    BY <1>0, <1>1, Rests
  <2> QED BY <1>7, <2>1, UserIs DEF Actors
<1>18. CASE dir[p][g] # 0
  <2>1. lost' = lost \cup ({Kern[k]} \ {0}) /\ bits' = bits /\ dir' = dir
    BY <1>2, <1>16, <1>18
  <2>2. User' = User
    BY <1>17, <2>1, UserSame
  <2>3. Accounted'
    BY <1>15, <1>16, <2>1, <2>2, LeftBehind
  <2> QED BY <1>10, <1>11, <1>12, <1>13, <1>14, <2>3 DEF Pending
<1>19. CASE dir[p][g] = 0
  <2>1. /\ lost' = lost /\ bits' = bits \cup {Kern[k]}
        /\ dir' = [dir EXCEPT ![p][g] = Kern[k]] /\ User[p][g] = 0
    BY <1>2, <1>16, <1>17, <1>19
  <2>2. User' = [User EXCEPT ![p][g] = Kern[k]]
    <3>1. Kern[k] = IF Gone(p, "user", g)' THEN 0 ELSE Kern[k]
      BY <1>0, <1>1, <1>17, Rests
    <3>2. Kern[k] \in Some /\ dir \in [Procs -> [Pages -> Some]]
      BY <1>16 DEF Types
    <3> QED BY <1>17, <2>1, <3>1, <3>2, UserChanged
  <2>3. Accounted'
    BY <1>15, <1>16, <2>1, <2>2, HandedOver
  <2> QED BY <1>10, <1>11, <1>12, <1>13, <1>14, <2>3 DEF Pending
<1> QED BY <1>18, <1>19

(* Nothing that the frames are accounted in has changed. *)
LEMMA OthersOwner ==
  ASSUME Inv, UNCHANGED <<bits, kdir, dir, lost, heap, upd, raced>>
  PROVE  Inv'
<1> USE DEF Inv
<1>1. \A b \in Actors : /\ Takes(b)' <=> Takes(b)
                        /\ Gives(b)' <=> Gives(b)
                        /\ Sized(b)' <=> Sized(b)
                        /\ \A l : HasHeap(b, l)' <=> HasHeap(b, l)
                        /\ \A l : HasUser(b, l)' <=> HasUser(b, l)
                        /\ \A x, y : Gone(b, x, y)' <=> Gone(b, x, y)
                        /\ upd'[b] = upd[b]
  BY DEF Takes, Gives, Sized, HasHeap, HasUser, Gone
<1>2. Types'
  BY <1>1 DEF Types
<1>3. Kern' = Kern
  BY <1>1, KernSame
<1>4. User' = User
  <2>1. \A q \in Procs, h \in Pages : Gone(q, "user", h)' <=> Gone(q, "user", h)
    BY <1>1 DEF Actors
  <2> QED BY <2>1, UserSame
<1>5. ASSUME ~raced' PROVE Accounted' /\ Pending'
  <2>1. Accounted /\ Pending
    BY <1>5
  <2> QED BY <1>1, <1>3, <1>4, <2>1, SameAccounted, SamePending
<1> QED BY <1>2, <1>5

(* Who a heap page is given to. *)
LEMMA UseIs ==
  /\ \A p \in Procs : /\ Has(p, Use(p)) /\ Has(p, <<p, "strtab", 1>>)
                      /\ Has(p, <<p, "tcb", TcbPages>>)
  /\ Has(None, Scratch)
BY NoneAssumption DEF Has, Use, Spare, Scratch

LEMMA StepOwner == Inv /\ [Next]_vars => Inv'
<1> SUFFICES ASSUME Inv, [Next]_vars  PROVE Inv'
  OBVIOUS
<1>0. /\ \A p \in Procs : p \in Actors
      /\ None \in Actors
  BY DEF Actors
<1>1. ASSUME NEW p \in Procs, FindPage(p) \/ \E g \in Pages : FindTable(p, g)  PROVE Inv'
  <2>1. /\ ~raced /\ upd[p] = Rest /\ FindHeap(p, Use(p))
        /\ UNCHANGED <<bits, kdir, dir, lost>>
    BY <1>1 DEF FindPage, FindTable, Ready, May, spaces
  <2>2. p \in Actors /\ Has(p, Use(p))
    BY <1>0, UseIs
  <2> QED  BY <2>1, <2>2, FindHeapOwner
<1>2. ASSUME NEW p \in Procs, Take(p) \/ \E g \in Pages : Table(p, g)  PROVE Inv'
  <2>1. MapKernel(p) /\ UNCHANGED <<dir, lost>>
    BY <1>2 DEF Take, Table
  <2> QED  BY <1>0, <2>1, MapKernelKeeps
<1>3. ASSUME NEW p \in Procs, NEW g \in Pages, FindUser(p, g)  PROVE Inv'
  <2>1. /\ ~raced /\ upd[p] = Rest /\ Find(p, "user", g)
        /\ UNCHANGED <<bits, kdir, heap, dir, lost, raced>>
    BY <1>3 DEF FindUser, Ready, May, spaces, others
  <2> QED  BY <2>1, FindUserOwner
<1>4. ASSUME NEW p \in Procs, NEW g \in Pages, Map(p, g)  PROVE Inv'
  <2>1. MapUser(p, g) /\ dir[p][g] = 0 /\ UNCHANGED <<kdir, heap, lost>>
    BY <1>4 DEF Map, Maps
  <2> QED  BY <2>1, MapUserKeeps
<1>5. ASSUME NEW p \in Procs, NEW g \in Pages, GiveUser(p, g)  PROVE Inv'
  <2>1. /\ ~raced /\ upd[p] = Rest /\ dir[p][g] # 0
        /\ GiveFrame(p, "user", g, dir[p][g])
        /\ UNCHANGED <<bits, kdir, heap, dir, lost, raced>>
    BY <1>5 DEF GiveUser, Ready, May, spaces, others
  <2> QED  BY <2>1, GiveUserOwner
<1>6. ASSUME NEW p \in Procs, NEW g \in Pages, Unmap(p, g)  PROVE Inv'
  <2>1. UnmapUser(p, g) /\ UNCHANGED <<bits, kdir, heap, lost, raced>>
    BY <1>6 DEF Unmap, others
  <2> QED  BY <2>1, UnmapUserKeeps
<1>7. ASSUME NEW p \in Procs, NEW g \in Pages, Remap(p, g)  PROVE Inv'
  BY <1>7, RemapOwner
<1>8. ASSUME NEW p \in Procs, GiveStrings(p)  PROVE Inv'
  <2>1. /\ ~raced /\ upd[p] = Rest /\ GiveHeap(p, <<p, "strtab", 1>>)
        /\ UNCHANGED <<bits, kdir, dir, lost, raced>>
    BY <1>8 DEF GiveStrings, Ready, May, spaces, others
  <2>2. p \in Actors /\ Has(p, <<p, "strtab", 1>>)
    BY <1>0, UseIs
  <2> QED  BY <2>1, <2>2, GiveHeapOwner
<1>9. ASSUME NEW p \in Procs, GiveBlock(p)  PROVE Inv'
  <2>1. /\ ~raced /\ upd[p] = Rest /\ GiveHeap(p, <<p, "tcb", TcbPages>>)
        /\ UNCHANGED <<bits, kdir, dir, lost, raced>>
    BY <1>9 DEF GiveBlock, Ready, May, spaces, others
  <2>2. p \in Actors /\ Has(p, <<p, "tcb", TcbPages>>)
    BY <1>0, UseIs
  <2> QED  BY <2>1, <2>2, GiveHeapOwner
<1>10. ASSUME NEW p \in Procs, Sections(p) \/ Reap(p)  PROVE Inv'
  <2>1. UnmapKernel(p) /\ UNCHANGED <<dir, lost, raced>>
    BY <1>10 DEF Sections, Reap, others
  <2> QED  BY <1>0, <2>1, UnmapKernelKeeps
<1>11. ASSUME NEW a \in Actors, LoadByte(a) \/ ClearBit(a)  PROVE Inv'
  BY <1>11, LoadByteOwner, ClearBitOwner
<1>12. ASSUME FindScratch  PROVE Inv'
  <2>1. /\ ~raced /\ upd[None] = Rest /\ FindHeap(None, Scratch)
        /\ UNCHANGED <<bits, kdir, dir, lost>>
    BY <1>12 DEF FindScratch, Open, spaces
  <2> QED  BY <1>0, <2>1, UseIs, FindHeapOwner
<1>13. ASSUME TakeScratch  PROVE Inv'
  <2>1. MapKernel(None) /\ UNCHANGED <<dir, lost>>
    BY <1>13 DEF TakeScratch, spaces
  <2> QED  BY <1>0, <2>1, MapKernelKeeps
<1>14. ASSUME GiveScratch  PROVE Inv'
  <2>1. /\ ~raced /\ upd[None] = Rest /\ GiveHeap(None, Scratch)
        /\ UNCHANGED <<bits, kdir, dir, lost, raced>>
    BY <1>14 DEF GiveScratch, Open, spaces, others
  <2> QED  BY <1>0, <2>1, UseIs, GiveHeapOwner
<1>15. ASSUME FreeScratch  PROVE Inv'
  <2>1. UnmapKernel(None) /\ UNCHANGED <<dir, lost, raced>>
    BY <1>15 DEF FreeScratch, spaces, others
  <2> QED  BY <1>0, <2>1, UnmapKernelKeeps
<1>16. ASSUME NEW p \in Procs,
              \/ \E g \in Pages : Pass(p, g)
              \/ Return(p) \/ Spin(p) \/ Create(p) \/ Exec(p) \/ Sbrk(p)
              \/ Exit(p) \/ Store(p) \/ \E c \in Procs : Fork(p, c)
       PROVE  Inv'
  <2>1. UNCHANGED <<bits, kdir, dir, lost, heap, upd, raced>>
    BY <1>16 DEF Pass, Return, Spin, Create, Exec, Sbrk, Exit, Store, Fork,
                 Start, others, spaces
  <2> QED  BY <2>1, OthersOwner
<1>17. CASE UNCHANGED vars
  <2>1. UNCHANGED <<bits, kdir, dir, lost, heap, upd, raced>>
    BY <1>17 DEF vars, others, spaces
  <2> QED  BY <2>1, OthersOwner
<1> QED
  BY <1>1, <1>2, <1>3, <1>4, <1>5, <1>6, <1>7, <1>8, <1>9, <1>10, <1>11,
     <1>12, <1>13, <1>14, <1>15, <1>16, <1>17 DEF Next

LEMMA InitOwner == Init => Inv
<1> SUFFICES ASSUME Init  PROVE Inv
  OBVIOUS
<1>1. \A a \in Actors : upd[a] = Rest
  BY DEF Init
<1>2. \A a \in Actors : ~Takes(a) /\ ~Gives(a) /\ \A kind, page : ~Gone(a, kind, page)
  BY <1>1, Rests
<1>3. Types
  BY <1>1 DEF Init, Types, Some
<1>4. \A k \in KPages : kdir[k] = 0 /\ Kern[k] = 0
  BY KernIs DEF Init
<1>5. \A p \in Procs, g \in Pages : User[p][g] = 0
  BY UserIs DEF Init
<1>6. KernelOf = {} /\ UserOf = {}
  BY <1>4, <1>5, SomeNumber DEF KernelOf, UserOf
<1>7. Accounted
  BY <1>4, <1>5, <1>6 DEF Init, Accounted
<1>8. Pending
  <2>1. Taking /\ Giving /\ OneGives
    BY <1>2 DEF Taking, Giving, OneGives
  <2>2. GivingUser
    BY <1>2 DEF GivingUser, Actors
  <2>3. Unmapped
    BY <1>4 DEF Unmapped
  <2> QED BY <2>1, <2>2, <2>3 DEF Pending
<1> QED  BY <1>3, <1>7, <1>8 DEF Inv

(* No frame has two owners and none is marked without one, for any number  *)
(* of frames, pages and processes and any interleaving of their updates    *)
(* (module UserMem, property OneOwner).                                    *)
THEOREM FramesAccounted == Spec => []OneOwner
<1>1. Inv => OneOwner
  BY OwnerIs DEF Inv, OneOwner
<1> QED  BY <1>1, InitOwner, StepOwner, PTL DEF Spec

----------------------------------------------------------------------------
(* The calls and what they have done of their work *)

(* A call under way *)
Calls == {"create", "exec", "refuse", "fork", "grow", "shrink"}
Shape ==
  [call : Calls, at : Nat, need : Int, left : SUBSET Pages,
   from : Procs, pages : SUBSET Pages, end : Nat]
Placed(o) == o \in Shape /\ o.at \in 1 .. Len(Route[o.call])

(* Every page from the end of the data up to n is mapped. *)
Held(p, n) ==
  \A b \in Breaks : dataEnd[p] <= b /\ b < n => dir[p][Page(b)] # 0

(* In the last stage of a fork, what the child has is a copy of its        *)
(* parent's, and what it has not is still to come.                         *)
Copied(p, a, left) ==
  /\ \A g \in Pages : dir[p][g] # 0 =>
       dir[a][g] # 0 /\ g # ArgsPage /\ mem[dir[p][g]] = mem[dir[a][g]]
  /\ \A g \in Pages : dir[a][g] # 0 /\ g # ArgsPage /\ g \notin left => dir[p][g] # 0
  /\ \A g \in left : dir[a][g] # 0 /\ g # ArgsPage

(* The interrupts are off in a fork, so that the parent waits.  A frame    *)
(* that is taken by two may be a page of either.                           *)
Forks(p, o) ==
  /\ cli = p /\ o.from # p /\ op[o.from] = Idle /\ life[o.from] = "live"
  /\ o.at < 4 => \A g \in Pages : dir[p][g] = 0
  /\ o.at = 4 /\ ~raced => Copied(p, o.from, o.left)

Grows(p, o)   == \A g \in Grown(brk[p], o.end) : g \in o.left \/ dir[p][g] # 0
Shrinks(p, o) == Held(p, o.end) /\ \A g \in o.left : Page(o.end) < g

(* What call o has done of its work on p *)
Work(p, o) ==
  /\ Placed(o)
  /\ o.call \in {"grow", "refuse"} => Held(p, brk[p])
  /\ o.call = "refuse" => o.end = brk[p]
  /\ o.call = "grow" => Grows(p, o)
  /\ o.call = "shrink" => Shrinks(p, o)
  /\ o.call = "fork" => Forks(p, o)

(* Only a call, or who frees a control block, has an update under way. *)
Resting(p) == op[p] = Idle /\ life[p] # "dead" => upd[p] = Rest

Program(p) ==
  /\ Resting(p)
  /\ life[p] = "none" => op[p] = Idle /\ brk[p] = 0 /\ \A g \in Pages : dir[p][g] = 0
  /\ op[p] = Idle => Held(p, brk[p])
  /\ \A o : o = op[p] /\ o # Idle => Work(p, o)

Tables ==
  /\ brk \in [Procs -> Nat] /\ dataEnd \in [Procs -> Nat]
  /\ DOMAIN op = Procs /\ DOMAIN life = Procs
  /\ DOMAIN mem = Frames
Programs == Inv /\ Tables /\ \A p \in Procs : Program(p)

-----------------------------------------------------------------------------
LEMMA RouteIs ==
  /\ Route["create"] = <<"file", "tcb", "dir", "map", "remap">>
  /\ Route["exec"] = <<"file", "load", "strtab", "args">>
  /\ Route["refuse"] = <<"file">>
  /\ Route["fork"] = <<"tcb", "buf", "dir", "copy">>
  /\ Route["grow"] = <<"map">>
  /\ Route["shrink"] = <<"unmap">>
BY DEF Route

LEMMA LenIs ==
  /\ Len(Route["create"]) = 5 /\ Len(Route["exec"]) = 4 /\ Len(Route["refuse"]) = 1
  /\ Len(Route["fork"]) = 4 /\ Len(Route["grow"]) = 1 /\ Len(Route["shrink"]) = 1
BY RouteIs

LEMMA IdleIsNot == Idle \notin Shape
BY DEF Idle, Shape, Calls

LEMMA EnterIs ==
  ASSUME NEW o \in Shape, NEW n \in 1 .. Len(Route[o.call])
  PROVE  /\ Placed(Enter(o, n))
         /\ Enter(o, n).at = n /\ Enter(o, n).left = Goes(o, Route[o.call][n])
         /\ Enter(o, n).call = o.call /\ Enter(o, n).from = o.from
         /\ Enter(o, n).pages = o.pages /\ Enter(o, n).end = o.end
<1>1. PICK k \in Int, S \in SUBSET Pages : k = Needs(Route[o.call][n]) /\ S = Goes(o, Route[o.call][n])
  <2>1. PICK s : s = Route[o.call][n]
    OBVIOUS
  <2>2. Needs(s) \in Int
    BY SizesAssumption DEF Needs
  <2>3. Goes(o, s) \in SUBSET Pages
    BY PagesAssumption DEF Goes, MappedPages, Shape
  <2> QED BY <2>1, <2>2, <2>3
<1>2. Enter(o, n) = [o EXCEPT !.at = n, !.need = k, !.left = S]
  BY <1>1 DEF Enter
<1>3. n \in Nat
  BY LenIs DEF Shape, Calls
<1>4. Enter(o, n) \in Shape
  BY <1>2, <1>3 DEF Shape
<1>5. Enter(o, n).call = o.call /\ Enter(o, n).at = n /\ Enter(o, n).left = S
  BY <1>2 DEF Shape
<1> QED BY <1>1, <1>2, <1>4, <1>5 DEF Shape, Placed

LEMMA MovedIs ==
  ASSUME NEW o, Placed(o)
  PROVE  /\ Placed(Moved(o))
         /\ Moved(o).call = o.call /\ Moved(o).from = o.from
         /\ Moved(o).pages = o.pages /\ Moved(o).end = o.end
         /\ \/ Moved(o).at = o.at /\ Moved(o).left = o.left
            \/ /\ o.left = {} /\ o.at + 1 \in 1 .. Len(Route[o.call])
               /\ Moved(o).at = o.at + 1 /\ Moved(o).left = Goes(o, Route[o.call][o.at + 1])
<1>1. CASE Moved(o) = o
  BY <1>1 DEF Placed
<1>2. CASE Moved(o) # o
  <2>1. Moved(o) = Enter(o, o.at + 1) /\ o.left = {} /\ o.at < Len(Route[o.call])
    BY <1>2 DEF Moved
  <2>2. o \in Shape /\ o.at + 1 \in 1 .. Len(Route[o.call])
    BY <2>1, LenIs DEF Placed, Shape, Calls
  <2> QED BY <2>1, <2>2, EnterIs
<1> QED BY <1>1, <1>2

(* Which calls have which stages *)
LEMMA Stages ==
  ASSUME NEW o, Placed(o), NEW s, s = Route[o.call][o.at]
  PROVE  /\ s = "copy" <=> o.call = "fork" /\ o.at = 4
         /\ s = "map" => o.call \in {"create", "grow"}
         /\ s \in {"load", "args"} => o.call = "exec"
         /\ s = "remap" => o.call = "create"
         /\ s = "unmap" => o.call = "shrink"
         /\ s = "strtab" => o.call = "exec" /\ o.at = 3
         /\ o.call \in {"grow", "shrink", "refuse"} => o.at = 1 /\ Len(Route[o.call]) = 1
         /\ o.call = "fork" => o.at \in 1 .. 4
         /\ o.call = "refuse" => s = "file"
<1>1. o.call \in Calls /\ o.at \in 1 .. Len(Route[o.call])
  BY DEF Placed, Shape
<1>2. CASE o.call = "create"
  <2>1. o.at \in {1, 2, 3, 4, 5}
    BY <1>1, <1>2, LenIs
  <2> QED BY <1>2, <2>1, RouteIs, LenIs
<1>3. CASE o.call \in {"exec", "fork"}
  <2>1. o.at \in {1, 2, 3, 4}
    BY <1>1, <1>3, LenIs
  <2> QED BY <1>3, <2>1, RouteIs, LenIs
<1>4. CASE o.call \in {"refuse", "grow", "shrink"}
  <2>1. o.at \in {1}
    BY <1>1, <1>4, LenIs
  <2> QED BY <1>4, <2>1, RouteIs, LenIs
<1> QED BY <1>1, <1>2, <1>3, <1>4 DEF Calls

(* Work that is done stays done when the next stage begins. *)
LEMMA MovedWorks ==
  ASSUME NEW p \in Procs, NEW o, Work(p, o)', Placed(o), NEW n, n = Moved(o),
         o.call = "fork" => dir'[o.from] = dir[o.from]
  PROVE  Work(p, n)'
<1>1. /\ Placed(n) /\ n.call = o.call /\ n.from = o.from /\ n.end = o.end
      /\ \/ n.at = o.at /\ n.left = o.left
         \/ /\ o.left = {} /\ o.at + 1 \in 1 .. Len(Route[o.call])
            /\ n.at = o.at + 1 /\ n.left = Goes(o, Route[o.call][o.at + 1])
  BY MovedIs
<1>2. CASE n.at = o.at /\ n.left = o.left
  <2>1. Placed(n)'
    BY <1>1 DEF Placed
  <2> QED BY <1>1, <1>2, <2>1 DEF Work, Grows, Shrinks, Forks
<1>3. CASE /\ o.left = {} /\ o.at + 1 \in 1 .. Len(Route[o.call])
           /\ n.at = o.at + 1 /\ n.left = Goes(o, Route[o.call][o.at + 1])
  <2>1. o.call \notin {"grow", "shrink", "refuse"}
    BY <1>3, Stages
  <2>2. ASSUME o.call = "fork" PROVE Forks(p, n)'
    <3>1. Forks(p, o)' /\ o.at \in 1 .. 4
      BY <2>2, Stages DEF Work
    <3>2. o.at + 1 \in 1 .. 4
      BY <1>3, <2>2, LenIs
    <3>3. o.at < 4 /\ \A g \in Pages : dir'[p][g] = 0
      BY <3>1, <3>2 DEF Forks
    <3>4. ASSUME n.at = 4 PROVE Copied(p, n.from, n.left)'
      <4>1. n.left = MappedPages(o.from) \ {ArgsPage}
        <5>1. Route[o.call][o.at + 1] = "copy"
          BY <1>3, <2>2, <3>4, RouteIs
        <5> QED BY <1>3, <5>1 DEF Goes
      <4>2. \A g \in Pages : dir'[n.from][g] = dir[o.from][g]
        BY <1>1, <2>2
      <4> QED BY <1>1, <3>3, <4>1, <4>2 DEF Copied, MappedPages
    <3> QED BY <1>1, <1>3, <3>1, <3>3, <3>4 DEF Forks
  <2>3. Placed(n)'
    BY <1>1 DEF Placed
  <2> QED BY <1>1, <2>1, <2>2, <2>3 DEF Work
<1> QED BY <1>1, <1>2, <1>3

(* What a step does not change of one that it does not work on *)
LEMMA OthersKeep ==
  ASSUME NEW p \in Procs, Program(p), op[p] = Idle \/ op[p].call # "fork",
         dir'[p] = dir[p] /\ brk'[p] = brk[p] /\ dataEnd'[p] = dataEnd[p]
           /\ op'[p] = op[p] /\ life'[p] = life[p] /\ upd'[p] = upd[p]
  PROVE  Program(p)'
<1>1. \A n : Held(p, n)' <=> Held(p, n)
  BY DEF Held
<1>2. ASSUME NEW o, o = op'[p], o # Idle PROVE Work(p, o)'
  <2>1. Work(p, o) /\ o.call # "fork"
    BY <1>2 DEF Program
  <2>2. Placed(o)'
    BY <2>1 DEF Work, Placed
  <2> QED BY <1>1, <2>1, <2>2 DEF Work, Grows, Shrinks
<1>3. op'[p] = Idle => Held(p, brk[p])'
  <2>1. PICK n : n = brk[p]
    OBVIOUS
  <2>2. op'[p] = Idle => Held(p, n)
    BY <2>1 DEF Program
  <2> QED BY <1>1, <2>1, <2>2 DEF Held
<1> QED BY <1>2, <1>3 DEF Program, Resting

(* While the steps of p are allowed, no other one forks. *)
LEMMA NoneForks ==
  ASSUME Programs, NEW q \in Procs, cli # q
  PROVE  op[q] = Idle \/ op[q].call # "fork"
BY DEF Programs, Program, Work, Forks

(* A frame that is free is in the table of none but who gives it back. *)
LEMMA Fresh ==
  ASSUME Inv, ~raced, NEW f \in FreeFrames, DOMAIN mem = Frames,
         NEW q \in Procs, ~Gives(q)
  PROVE  /\ f \in Frames /\ f # 0 /\ \A g \in Pages : dir[q][g] # f
         /\ \A v : \A g \in Pages :
              dir[q][g] # 0 => [mem EXCEPT ![f] = v][dir[q][g]] = mem[dir[q][g]]
<1>1. f \in Frames /\ f # 0 /\ f \notin bits
  BY SomeNumber DEF FreeFrames
<1>2. \A g \in Pages : User[q][g] # f
  BY <1>1 DEF Inv, Accounted, UserOf
<1>3. \A g \in Pages : dir[q][g] # f
  BY <1>2, UserIs DEF Gone, Gives
<1>4. \A g \in Pages : dir[q][g] # 0 => dir[q][g] \in Frames
  BY DEF Inv, Types, Some
<1> QED BY <1>1, <1>3, <1>4

(* The parent of a fork has no update under way. *)
LEMMA ParentRests ==
  ASSUME Programs, NEW p \in Procs, NEW o, Work(p, o), o.call = "fork"
  PROVE  o.from \in Procs /\ o.from # p /\ upd[o.from] = Rest /\ ~Gives(o.from)
<1>1. o.from \in Procs /\ o.from # p /\ op[o.from] = Idle /\ life[o.from] = "live"
  BY DEF Work, Forks, Placed, Shape
<1>2. upd[o.from] = Rest
  BY <1>1 DEF Programs, Program, Resting
<1> QED BY <1>1, <1>2, Rests DEF Actors

(* A step on p leaves the others as they were. *)
LEMMA OneActs ==
  ASSUME Programs, NEW p \in Procs, cli \in {None, p}, Program(p)',
         \A q \in Procs \ {p} :
           /\ dir'[q] = dir[q] /\ brk'[q] = brk[q] /\ dataEnd'[q] = dataEnd[q]
           /\ op'[q] = op[q] /\ life'[q] = life[q] /\ upd'[q] = upd[q]
  PROVE  \A q \in Procs : Program(q)'
<1> SUFFICES ASSUME NEW q \in Procs \ {p} PROVE Program(q)'
  OBVIOUS
<1>1. cli # q
  BY NoneAssumption
<1>2. Program(q) /\ (op[q] = Idle \/ op[q].call # "fork")
  BY <1>1, NoneForks DEF Programs
<1> QED BY <1>2, OthersKeep

(* Work under way goes on with o, which moves to the next stage if o has   *)
(* nothing left to do.                                                     *)
LEMMA GoesOn ==
  ASSUME Programs, NEW p \in Procs, May(p), NEW o, Work(p, o)', Placed(o),
         op' = [op EXCEPT ![p] = Moved(o)], life[p] # "none",
         \A q \in Procs \ {p} : dir'[q] = dir[q],
         \A q \in Procs \ {p} : upd'[q] = upd[q],
         UNCHANGED <<brk, dataEnd, life>>
  PROVE  (\A q \in Procs : Program(q)') /\ DOMAIN op' = Procs /\ op'[p] # Idle
<1>1. PICK n : n = Moved(o)
  OBVIOUS
<1>2. op'[p] = n /\ DOMAIN op' = Procs /\ \A q \in Procs \ {p} : op'[q] = op[q]
  BY <1>1 DEF Programs, Tables
<1>3. o.call = "fork" => dir'[o.from] = dir[o.from]
  BY DEF Work, Forks, Placed, Shape
<1>4. Work(p, n)' /\ Placed(n)
  BY <1>1, <1>3, MovedWorks, MovedIs
<1>5. n # Idle
  BY <1>4, IdleIsNot DEF Placed
<1>6. Program(p)'
  BY <1>2, <1>4, <1>5 DEF Program, Resting
<1>7. \A q \in Procs : Program(q)'
  BY <1>2, <1>6, OneActs DEF May
<1> QED BY <1>1, <1>2, <1>5, <1>7

(* An update is one's own. *)
LEMMA OwnUpdate ==
  ASSUME Programs, NEW a \in Actors, NEW u, upd' = [upd EXCEPT ![a] = u]
  PROVE  \A q \in Procs \ {a} : upd'[q] = upd[q]
BY OthersSame DEF Programs, Inv, Actors

(* A page more of kernel memory changes no page of a program. *)
LEMMA Mapped ==
  ASSUME Programs, NEW a \in Actors, MapKernel(a)
  PROVE  /\ DOMAIN mem' = Frames /\ Takes(a) /\ ~Gives(a)
         /\ \A q \in Procs \ {a} : upd'[q] = upd[q]
         /\ ~raced' => \A q \in Procs : ~Gives(q) =>
              \A g \in Pages : dir[q][g] # 0 => mem'[dir[q][g]] = mem[dir[q][g]]
<1>1. ~raced /\ MarkBit(a) /\ mem' = [mem EXCEPT ![upd[a].f] = Code]
  BY DEF MapKernel, Allowed, Open, May
<1>2. /\ Takes(a) /\ upd' = [upd EXCEPT ![a] = Rest]
      /\ ~raced' => upd[a].f \in FreeFrames
  BY <1>1, MarkBitIs DEF Programs, Inv
<1>3. DOMAIN mem = Frames /\ DOMAIN mem' = Frames /\ Inv
  BY <1>1 DEF Programs, Tables
<1>4. \A q \in Procs \ {a} : upd'[q] = upd[q]
  BY <1>2, OwnUpdate
<1>5. ASSUME ~raced', NEW q \in Procs, ~Gives(q)
      PROVE  \A g \in Pages : dir[q][g] # 0 => mem'[dir[q][g]] = mem[dir[q][g]]
  <2>1. PICK f : f = upd[a].f /\ f \in FreeFrames /\ mem' = [mem EXCEPT ![f] = Code]
    BY <1>1, <1>2, <1>5
  <2> QED BY <1>1, <1>3, <1>5, <2>1, Fresh
<1> QED BY <1>2, <1>3, <1>4, <1>5 DEF Takes, Gives

(* What was done of o stays done when the memory of programs is the same. *)
LEMMA SameWork ==
  ASSUME NEW p \in Procs, NEW o, NEW n, Work(p, o), Placed(n),
         n.call = o.call, n.at = o.at, n.left = o.left, n.from = o.from, n.end = o.end,
         UNCHANGED <<dir, brk, dataEnd>>, cli' = cli, raced => raced',
         (op'[o.from] = op[o.from] /\ life'[o.from] = life[o.from]) \/ o.from = p,
         o.call = "fork" /\ ~raced' => \A q \in {p, o.from}, g \in Pages :
           dir[q][g] # 0 => mem'[dir[q][g]] = mem[dir[q][g]]
  PROVE  Work(p, n)'
<1>1. Placed(n)'
  BY DEF Placed
<1>2. \A m : Held(p, m)' <=> Held(p, m)
  BY DEF Held
<1>3. n.call = "grow" => Grows(p, n)'
  BY DEF Work, Grows
<1>4. n.call = "shrink" => Shrinks(p, n)'
  BY <1>2 DEF Work, Shrinks
<1>5. n.call \in {"grow", "refuse"} => Held(p, brk[p])'
  <2>1. PICK m : m = brk[p] /\ m = brk'[p]
    OBVIOUS
  <2> QED BY <1>2, <2>1 DEF Work, Held
<1>6. ASSUME n.call = "fork" PROVE Forks(p, n)'
  <2>1. Forks(p, o)
    BY <1>6 DEF Work
  <2>2. o.from \in Procs
    BY DEF Work, Placed, Shape
  <2>3. ~raced' /\ Copied(p, o.from, o.left) => Copied(p, n.from, n.left)'
    BY <1>6, <2>2 DEF Copied
  <2> QED BY <2>1, <2>3 DEF Forks
<1> QED BY <1>1, <1>3, <1>4, <1>5, <1>6 DEF Work

LEMMA TakeKeeps ==
  ASSUME Programs, NEW p \in Procs, Take(p)
  PROVE  (\A q \in Procs : Program(q)') /\ Tables' /\ op'[p] # Idle
<1>1. /\ MapKernel(p)
      /\ op' = [op EXCEPT ![p] = Moved([op[p] EXCEPT !.need = op[p].need - 1])]
  BY DEF Take
<1>2. /\ May(p) /\ op[p] # Idle /\ UNCHANGED <<dir, brk, dataEnd, life>> /\ ~raced
      /\ cli' = IF op[p].call = "create" /\ op'[p].at = 3 THEN p ELSE cli
  BY NoneAssumption DEF Take, MapKernel, Allowed, May
<1>3. PICK o : o = op[p] /\ Work(p, o) /\ Placed(o)
  BY <1>2 DEF Programs, Program, Work
<1>4. PICK n : n = [o EXCEPT !.need = o.need - 1]
  OBVIOUS
<1>5. /\ Placed(n) /\ n.call = o.call /\ n.at = o.at /\ n.left = o.left /\ n.from = o.from /\ n.end = o.end
  <2>1. o \in Shape /\ o.at \in 1 .. Len(Route[o.call])
    BY <1>3 DEF Placed
  <2>5. o.need \in Int
    BY <2>1 DEF Shape
  <2>2. PICK m : m = o.need - 1 /\ m \in Int
    BY <2>5
  <2>3. n = [o EXCEPT !.need = m]
    BY <1>4, <2>2
  <2>4. n \in Shape /\ n.call = o.call /\ n.at = o.at /\ n.left = o.left /\ n.from = o.from /\ n.end = o.end
    BY <2>1, <2>2, <2>3 DEF Shape
  <2> QED BY <2>1, <2>4 DEF Placed
<1>6. /\ DOMAIN mem' = Frames /\ ~Gives(p)
      /\ \A q \in Procs \ {p} : upd'[q] = upd[q]
      /\ ~raced' => \A q \in Procs : ~Gives(q) =>
           \A g \in Pages : dir[q][g] # 0 => mem'[dir[q][g]] = mem[dir[q][g]]
  BY <1>1, Mapped DEF Actors
<1>7. o.call = "fork" => cli' = cli /\ (op'[o.from] = op[o.from] \/ o.from = p)
  <2>1. o.from \in Procs
    BY <1>3 DEF Placed, Shape
  <2> QED BY <1>1, <1>2, <1>3, <2>1 DEF Programs, Tables
<1>8. Work(p, n)'
  <2>1. CASE o.call = "fork"
    <3>1. ~raced' => \A q \in {p, o.from}, g \in Pages :
            dir[q][g] # 0 => mem'[dir[q][g]] = mem[dir[q][g]]
      BY <1>3, <1>6, <2>1, ParentRests
    <3>2. (op'[o.from] = op[o.from] /\ life'[o.from] = life[o.from]) \/ o.from = p
      BY <1>2, <1>7, <2>1
    <3>3. cli' = cli
      BY <1>7, <2>1
    <3> QED BY <1>2, <1>3, <1>5, <2>1, <3>1, <3>2, <3>3, SameWork
  <2>2. CASE o.call # "fork"
    <3>1. Placed(n)'
      BY <1>5 DEF Placed
    <3> QED BY <1>2, <1>3, <1>5, <2>2, <3>1 DEF Work, Held, Grows, Shrinks
  <2> QED BY <2>1, <2>2
<1>9. op' = [op EXCEPT ![p] = Moved(n)]
  BY <1>1, <1>3, <1>4
<1>10. life[p] # "none"
  BY <1>2 DEF Programs, Program
<1>11. (\A q \in Procs : Program(q)') /\ DOMAIN op' = Procs /\ op'[p] # Idle
  BY <1>2, <1>5, <1>6, <1>8, <1>9, <1>10, GoesOn
<1> QED BY <1>2, <1>6, <1>11 DEF Programs, Tables

LEMMA TableKeeps ==
  ASSUME Programs, NEW p \in Procs, NEW g \in Pages, Table(p, g)
  PROVE  (\A q \in Procs : Program(q)') /\ Tables' /\ op' = op
<1>1. MapKernel(p)
  BY DEF Table
<1>2. May(p) /\ op[p] # Idle /\ UNCHANGED <<dir, brk, dataEnd, life, cli, op>> /\ ~raced
  BY DEF Table, Turn, May
<1>3. PICK o : o = op[p] /\ Work(p, o) /\ Placed(o)
  BY <1>2 DEF Programs, Program, Work
<1>4. /\ DOMAIN mem' = Frames /\ ~Gives(p)
      /\ \A q \in Procs \ {p} : upd'[q] = upd[q]
      /\ ~raced' => \A q \in Procs : ~Gives(q) =>
           \A h \in Pages : dir[q][h] # 0 => mem'[dir[q][h]] = mem[dir[q][h]]
  BY <1>1, Mapped DEF Actors
<1>5. Work(p, o)'
  <2>1. o.call = "fork" /\ ~raced' => \A q \in {p, o.from}, h \in Pages :
          dir[q][h] # 0 => mem'[dir[q][h]] = mem[dir[q][h]]
    BY <1>3, <1>4, ParentRests
  <2>2. (op'[o.from] = op[o.from] /\ life'[o.from] = life[o.from]) \/ o.from = p
    BY <1>2
  <2> QED BY <1>2, <1>3, <2>1, <2>2, SameWork
<1>6. Program(p)'
  BY <1>2, <1>3, <1>5 DEF Programs, Program, Resting
<1>7. \A q \in Procs : Program(q)'
  BY <1>2, <1>4, <1>6, OneActs DEF May
<1> QED BY <1>2, <1>4, <1>7 DEF Programs, Tables

(* The pages that are still to be gone through become fewer by one. *)
LEMMA PassedIs ==
  ASSUME Programs, NEW p \in Procs, NEW g \in Pages, Turn(p, g), Passed(p, g)
  PROVE  \E o, n :
           /\ o = op[p] /\ Work(p, o) /\ Placed(n) /\ op' = [op EXCEPT ![p] = Moved(n)]
           /\ n.call = o.call /\ n.at = o.at /\ n.left = o.left \ {g} /\ n.from = o.from /\ n.end = o.end
           /\ g \in o.left /\ Stage(p) = Route[o.call][o.at] /\ Placed(o) /\ life[p] # "none"
<1>1. op[p] # Idle /\ g \in op[p].left
  BY DEF Turn
<1>2. PICK o : o = op[p] /\ Work(p, o) /\ Placed(o)
  BY <1>1 DEF Programs, Program, Work
<1>3. PICK n : n = [o EXCEPT !.left = o.left \ {g}]
  OBVIOUS
<1>4. Placed(n) /\ n.call = o.call /\ n.at = o.at /\ n.left = o.left \ {g} /\ n.from = o.from /\ n.end = o.end
  BY <1>2, <1>3 DEF Placed, Shape
<1>5. op' = [op EXCEPT ![p] = Moved(n)]
  BY <1>2, <1>3 DEF Passed
<1>6. Stage(p) = Route[o.call][o.at] /\ life[p] # "none"
  BY <1>1, <1>2 DEF Stage, Programs, Program
<1> QED BY <1>1, <1>2, <1>4, <1>5, <1>6

LEMMA MapKeeps ==
  ASSUME Programs, NEW p \in Procs, NEW g \in Pages, Map(p, g)
  PROVE  (\A q \in Procs : Program(q)') /\ Tables' /\ op'[p] # Idle
<1>1. /\ May(p) /\ Turn(p, g) /\ Passed(p, g) /\ UNCHANGED <<brk, dataEnd, life, cli>>
      /\ ~raced /\ MarkBit(p)
  BY DEF Map, MapUser, Turn, May
<1>2. PICK o, n :
        /\ o = op[p] /\ Work(p, o) /\ Placed(n) /\ op' = [op EXCEPT ![p] = Moved(n)]
        /\ n.call = o.call /\ n.at = o.at /\ n.left = o.left \ {g} /\ n.from = o.from /\ n.end = o.end
        /\ g \in o.left /\ Stage(p) = Route[o.call][o.at] /\ Placed(o) /\ life[p] # "none"
  BY <1>1, PassedIs
<1>3. PICK s : s = Route[o.call][o.at] /\ s \in {"map", "args", "load", "copy"} /\ s = Stage(p)
  BY <1>2 DEF Map, Maps
<1>4. PICK f :
        /\ f = upd[p].f /\ dir[p][g] = 0 /\ dir' = [dir EXCEPT ![p][g] = f]
        /\ mem' = IF s = "copy" THEN [mem EXCEPT ![f] = mem[dir[o.from][g]]] ELSE mem
  BY <1>2, <1>3 DEF Map, Maps, MapUser
<1>14. /\ f \in Frames /\ Takes(p) /\ upd' = [upd EXCEPT ![p] = Rest]
       /\ ~raced' => f \in FreeFrames
  BY <1>1, <1>4, MarkBitIs DEF Programs, Inv, Actors
<1>15. \A q \in Procs \ {p} : upd'[q] = upd[q]
  BY <1>14, OwnUpdate DEF Actors
<1>5. f \in Frames /\ f # 0 /\ DOMAIN mem' = Frames
  BY <1>4, <1>14, SomeNumber DEF Programs, Tables
<1>16. ASSUME ~raced', NEW q \in Procs, ~Gives(q)
       PROVE  /\ \A h \in Pages : dir[q][h] # f
              /\ \A h \in Pages : dir[q][h] # 0 => mem'[dir[q][h]] = mem[dir[q][h]]
  <2>1. f \in FreeFrames /\ Inv /\ ~raced /\ DOMAIN mem = Frames
    BY <1>1, <1>14, <1>16 DEF Programs, Tables
  <2>2. /\ \A h \in Pages : dir[q][h] # f
        /\ \A v : \A h \in Pages :
             dir[q][h] # 0 => [mem EXCEPT ![f] = v][dir[q][h]] = mem[dir[q][h]]
    BY <1>16, <2>1, Fresh
  <2> QED BY <1>4, <2>2
<1>6. \A q \in Procs, h \in Pages : dir'[q][h] = IF q = p /\ h = g THEN f ELSE dir[q][h]
  <2>1. f \in Some /\ dir \in [Procs -> [Pages -> Some]] /\ dir' = [dir EXCEPT ![p][g] = f]
    BY <1>4, <1>5 DEF Programs, Inv, Types, Some
  <2> QED BY <2>1, OneEntry
<1>7. \A q \in Procs \ {p} : dir'[q] = dir[q]
  BY <1>4 DEF Programs, Inv, Types
<1>8. o.call \in {"create", "grow", "exec", "fork"}
  BY <1>2, <1>3, Stages
<1>9. ASSUME o.call = "grow" PROVE Work(p, n)'
  <2>1. Held(p, brk[p])'
    <3>1. Held(p, brk[p])
      BY <1>2, <1>9 DEF Work
    <3>2. \A b \in Breaks : Page(b) \in Pages
      BY BreaksAssumption DEF Page
    <3> QED BY <1>1, <1>5, <1>6, <3>1, <3>2 DEF Held
  <2>2. Grows(p, o)
    BY <1>2, <1>9 DEF Work
  <2>3. Grows(p, n)'
    <3>1. \A h \in Grown(brk[p], o.end) : h \in Pages
      BY DEF Grown
    <3> QED BY <1>1, <1>2, <1>5, <1>6, <2>2, <3>1 DEF Grows
  <2> QED BY <1>2, <1>9, <2>1, <2>3 DEF Work, Placed
<1>10. ASSUME o.call = "fork" PROVE Work(p, n)'
  <2>1. s = "copy" /\ o.at = 4
    BY <1>2, <1>3, <1>10, Stages
  <2>2. Forks(p, o) /\ o.from \in Procs
    BY <1>2, <1>10 DEF Work, Placed, Shape
  <2>3. PICK a \in Procs : a = o.from
    BY <2>2
  <2>4. /\ a # p /\ Copied(p, a, o.left) /\ op[a] = Idle /\ op'[a] = Idle
        /\ life[a] = "live"
    <3>1. a # p /\ op[a] = Idle /\ Copied(p, a, o.left) /\ life[a] = "live"
      BY <1>1, <2>1, <2>2, <2>3 DEF Forks
    <3> QED BY <1>2, <3>1 DEF Programs, Tables
  <2>8. ~Gives(p) /\ ~Gives(a)
    <3>1. ~Gives(a)
      BY <1>2, <1>10, <2>3, ParentRests
    <3> QED BY <1>14, <3>1 DEF Takes, Gives
  <2>9. ASSUME ~raced'
        PROVE  /\ \A q \in {a, p}, h \in Pages : dir[q][h] # f
               /\ \A q \in {a, p}, h \in Pages :
                    dir[q][h] # 0 => mem'[dir[q][h]] = mem[dir[q][h]]
    BY <1>16, <2>8, <2>9
  <2>5. mem'[f] = mem[dir[a][g]] /\ dir[a][g] # 0 /\ g # ArgsPage
    BY <1>2, <1>4, <1>5, <2>1, <2>3, <2>4 DEF Copied, Programs, Tables
  <2>6. ASSUME ~raced' PROVE Copied(p, a, n.left)'
    <3>1. ASSUME NEW h \in Pages, dir'[p][h] # 0
          PROVE  dir'[a][h] # 0 /\ h # ArgsPage /\ mem'[dir'[p][h]] = mem'[dir'[a][h]]
      <4>1. CASE h = g
        BY <1>5, <1>6, <2>4, <2>5, <2>6, <2>9, <4>1
      <4>2. CASE h # g
        BY <1>5, <1>6, <2>4, <2>6, <2>9, <3>1, <4>2 DEF Copied
      <4> QED BY <4>1, <4>2
    <3>2. ASSUME NEW h \in Pages, dir'[a][h] # 0, h # ArgsPage, h \notin n.left PROVE dir'[p][h] # 0
      BY <1>2, <1>5, <1>6, <2>4, <3>2 DEF Copied
    <3>3. ASSUME NEW h \in n.left PROVE dir'[a][h] # 0 /\ h # ArgsPage
      <4>1. h \in o.left /\ h \in Pages
        BY <1>2 DEF Placed, Shape
      <4> QED BY <1>6, <2>4, <4>1 DEF Copied
    <3> QED BY <3>1, <3>2, <3>3 DEF Copied
  <2>7. Forks(p, n)'
    BY <1>1, <1>2, <2>1, <2>2, <2>3, <2>4, <2>6 DEF Forks
  <2> QED BY <1>2, <1>10, <2>7 DEF Work, Placed
<1>11. ASSUME o.call \in {"create", "exec"} PROVE Work(p, n)'
  BY <1>2, <1>11 DEF Work, Placed
<1>12. Work(p, n)'
  BY <1>8, <1>9, <1>10, <1>11
<1>13. (\A q \in Procs : Program(q)') /\ DOMAIN op' = Procs /\ op'[p] # Idle
  BY <1>1, <1>2, <1>7, <1>12, <1>15, GoesOn
<1> QED BY <1>1, <1>5, <1>13 DEF Programs, Tables

LEMMA PassKeeps ==
  ASSUME Programs, NEW p \in Procs, NEW g \in Pages, Pass(p, g)
  PROVE  (\A q \in Procs : Program(q)') /\ Tables' /\ op'[p] # Idle
<1>1. /\ May(p) /\ Turn(p, g) /\ Passed(p, g) /\ UNCHANGED <<dir, mem, brk, dataEnd, life, raced, cli, upd>>
  BY DEF Pass, others, Turn
<1>2. PICK o, n :
        /\ o = op[p] /\ Work(p, o) /\ Placed(n) /\ op' = [op EXCEPT ![p] = Moved(n)]
        /\ n.call = o.call /\ n.at = o.at /\ n.left = o.left \ {g} /\ n.from = o.from /\ n.end = o.end
        /\ g \in o.left /\ Stage(p) = Route[o.call][o.at] /\ Placed(o) /\ life[p] # "none"
  BY <1>1, PassedIs
<1>3. PICK s : /\ s = Route[o.call][o.at]
               /\ \/ s \in {"map", "args"} /\ dir[p][g] # 0
                  \/ s = "unmap"
  BY <1>2 DEF Pass
<1>4. o.call \in {"create", "grow", "exec", "shrink"} /\ (o.call = "grow" => dir[p][g] # 0)
  BY <1>2, <1>3, Stages
<1>5. Work(p, n)'
  <2>1. o.call = "grow" => Grows(p, n)' /\ Held(p, brk[p])'
    BY <1>1, <1>2, <1>4 DEF Work, Grows, Held
  <2>2. o.call = "shrink" => Shrinks(p, n)'
    BY <1>1, <1>2 DEF Work, Shrinks, Held
  <2> QED BY <1>2, <1>4, <2>1, <2>2 DEF Work, Placed
<1>6. (\A q \in Procs : Program(q)') /\ DOMAIN op' = Procs /\ op'[p] # Idle
  BY <1>1, <1>2, <1>5, GoesOn
<1> QED BY <1>1, <1>6 DEF Programs, Tables

LEMMA UnmapKeeps ==
  ASSUME Programs, NEW p \in Procs, NEW g \in Pages, Unmap(p, g)
  PROVE  (\A q \in Procs : Program(q)') /\ Tables' /\ op'[p] # Idle
<1>1. /\ May(p) /\ Turn(p, g) /\ UNCHANGED <<mem, brk, dataEnd, life, raced, cli>> /\ op[p] # Idle
      /\ dir' = [dir EXCEPT ![p][g] = 0]
  BY DEF Unmap, UnmapUser, others, Turn
<1>6. \A q \in Procs \ {p} : upd'[q] = upd[q]
  <2>1. upd' = [upd EXCEPT ![p] = Rest]
    BY DEF Unmap, UnmapUser
  <2> QED BY <2>1, OwnUpdate DEF Actors
<1>2. \A q \in Procs, h \in Pages : dir'[q][h] = IF q = p /\ h = g THEN 0 ELSE dir[q][h]
  <2>1. dir \in [Procs -> [Pages -> Some]] /\ 0 \in Some
    BY DEF Programs, Inv, Types, Some
  <2> QED BY <1>1, <2>1, OneEntry
<1>3. \A q \in Procs \ {p} : dir'[q] = dir[q]
  BY <1>1 DEF Programs, Inv, Types
<1>4. CASE Stage(p) = "unmap"
  <2>1. Passed(p, g)
    BY <1>4 DEF Unmap
  <2>2. PICK o, n :
          /\ o = op[p] /\ Work(p, o) /\ Placed(n) /\ op' = [op EXCEPT ![p] = Moved(n)]
          /\ n.call = o.call /\ n.at = o.at /\ n.left = o.left \ {g} /\ n.from = o.from /\ n.end = o.end
          /\ g \in o.left /\ Stage(p) = Route[o.call][o.at] /\ Placed(o) /\ life[p] # "none"
    BY <1>1, <2>1, PassedIs
  <2>3. o.call = "shrink"
    BY <1>4, <2>2, Stages
  <2>4. Shrinks(p, n)'
    <3>1. Shrinks(p, o)
      BY <2>2, <2>3 DEF Work
    <3>2. ASSUME NEW b \in Breaks, dataEnd'[p] <= b, b < n.end PROVE dir'[p][Page(b)] # 0
      <4>1. dir[p][Page(b)] # 0
        BY <1>1, <2>2, <3>1, <3>2 DEF Shrinks, Held
      <4>2. Page(n.end) < g
        BY <2>2, <3>1 DEF Shrinks
      <4>3. Page(b) \in Pages /\ Page(b) <= Page(n.end)
        BY <2>2, <3>2, BreaksAssumption DEF Page, Placed, Shape
      <4>4. Page(b) # g
        <5>1. Page(b) \in Nat /\ Page(n.end) \in Nat /\ g \in Nat
          BY <2>2, <4>3, PagesAssumption DEF Page, Placed, Shape
        <5> QED BY <4>2, <4>3, <5>1
      <4> QED BY <1>2, <4>1, <4>3, <4>4
    <3>3. \A h \in n.left : Page(n.end) < h
      BY <2>2, <3>1 DEF Shrinks
    <3> QED BY <3>2, <3>3 DEF Shrinks, Held
  <2>5. Work(p, n)'
    BY <2>2, <2>3, <2>4 DEF Work, Placed
  <2>6. (\A q \in Procs : Program(q)') /\ DOMAIN op' = Procs /\ op'[p] # Idle
    BY <1>1, <1>3, <1>6, <2>2, <2>5, GoesOn
  <2> QED BY <1>1, <2>6 DEF Programs, Tables
<1>5. CASE Stage(p) = "load"
  <2>1. op' = op
    BY <1>5 DEF Unmap
  <2>2. PICK o : o = op[p] /\ Work(p, o) /\ Placed(o) /\ o.call = "exec"
    <3>1. PICK o : o = op[p] /\ Work(p, o) /\ Placed(o)
      BY <1>1 DEF Programs, Program, Work
    <3>2. Route[o.call][o.at] = "load"
      BY <1>1, <1>5, <3>1 DEF Stage
    <3> QED BY <3>1, <3>2, Stages
  <2>3. Work(p, o)'
    BY <2>2 DEF Work, Placed
  <2>4. Program(p)'
    BY <1>1, <2>1, <2>2, <2>3 DEF Programs, Program, Resting
  <2>5. \A q \in Procs : Program(q)'
    BY <1>1, <1>3, <1>6, <2>1, <2>4, OneActs DEF May
  <2> QED BY <1>1, <2>1, <2>5 DEF Programs, Tables
<1> QED BY <1>4, <1>5 DEF Unmap

LEMMA RemapKeeps ==
  ASSUME Programs, NEW p \in Procs, NEW g \in Pages, Remap(p, g)
  PROVE  (\A q \in Procs : Program(q)') /\ Tables' /\ op'[p] # Idle
<1>1. /\ May(p) /\ Turn(p, g) /\ Passed(p, g) /\ UNCHANGED <<mem, brk, dataEnd, life, raced, cli, upd>>
      /\ Stage(p) = "remap"
  BY DEF Remap, Turn
<1>2. PICK o, n :
        /\ o = op[p] /\ Work(p, o) /\ Placed(n) /\ op' = [op EXCEPT ![p] = Moved(n)]
        /\ n.call = o.call /\ n.at = o.at /\ n.left = o.left \ {g} /\ n.from = o.from /\ n.end = o.end
        /\ g \in o.left /\ Stage(p) = Route[o.call][o.at] /\ Placed(o) /\ life[p] # "none"
  BY <1>1, PassedIs
<1>3. o.call = "create"
  BY <1>1, <1>2, Stages
<1>4. \A q \in Procs \ {p} : dir'[q] = dir[q]
  <2>1. DOMAIN dir = Procs
    BY DEF Programs, Inv, Types
  <2>2. dir' = dir \/ \E v : dir' = [dir EXCEPT ![p][g] = v]
    BY DEF Remap
  <2> QED BY <2>1, <2>2
<1>5. Work(p, n)'
  BY <1>2, <1>3 DEF Work, Placed
<1>6. (\A q \in Procs : Program(q)') /\ DOMAIN op' = Procs /\ op'[p] # Idle
  BY <1>1, <1>2, <1>4, <1>5, GoesOn
<1> QED BY <1>1, <1>6 DEF Programs, Tables

LEMMA SectionsKeeps ==
  ASSUME Programs, NEW p \in Procs, Sections(p)
  PROVE  (\A q \in Procs : Program(q)') /\ Tables' /\ op'[p] # Idle
<1>1. /\ May(p) /\ Stage(p) = "strtab" /\ UNCHANGED <<dir, mem, brk, dataEnd, life, cli>>
      /\ upd' = [upd EXCEPT ![p] = Rest]
  BY NoneAssumption DEF Sections, UnmapKernel, Allowed
<1>13. \A q \in Procs \ {p} : upd'[q] = upd[q]
  BY <1>1, OwnUpdate DEF Actors
<1>2. op[p] # Idle
  BY <1>1 DEF Stage
<1>3. PICK o : o = op[p] /\ Work(p, o) /\ Placed(o)
  BY <1>2 DEF Programs, Program, Work
<1>4. o.call = "exec"
  <2>1. Route[o.call][o.at] = "strtab"
    BY <1>1, <1>2, <1>3 DEF Stage
  <2> QED BY <1>3, <2>1, Stages
<1>5. PICK n : n = Enter(o, 4)
  OBVIOUS
<1>6. op' = [op EXCEPT ![p] = n]
  BY <1>3, <1>5 DEF Sections
<1>7. Placed(n) /\ n.call = "exec" /\ n # Idle
  <2>1. Placed(n) /\ n.call = "exec"
    <3>1. o \in Shape /\ 4 \in 1 .. Len(Route[o.call])
      BY <1>3, <1>4, LenIs DEF Placed
    <3> QED BY <1>4, <1>5, <3>1, EnterIs
  <2> QED BY <2>1, IdleIsNot DEF Placed
<1>8. op'[p] = n /\ DOMAIN op' = Procs /\ \A q \in Procs \ {p} : op'[q] = op[q]
  BY <1>6 DEF Programs, Tables
<1>9. Work(p, n)'
  BY <1>7 DEF Work, Placed
<1>10. life[p] # "none"
  BY <1>2 DEF Programs, Program
<1>11. Program(p)'
  BY <1>1, <1>7, <1>8, <1>9, <1>10 DEF Program, Resting
<1>12. \A q \in Procs : Program(q)'
  BY <1>1, <1>8, <1>11, <1>13, OneActs DEF May
<1> QED BY <1>1, <1>7, <1>8, <1>12 DEF Programs, Tables

(* What a call leaves behind *)
LEMMA ReturnKeeps ==
  ASSUME Programs, NEW p \in Procs, Return(p)
  PROVE  (\A q \in Procs : Program(q)') /\ Tables'
<1>1. /\ May(p) /\ op[p] # Idle /\ op[p].left = {} /\ op[p].at = Len(Route[op[p].call])
      /\ UNCHANGED <<dir, mem, raced, upd>> /\ op' = [op EXCEPT ![p] = Idle]
      /\ life' = [life EXCEPT ![p] = "live"] /\ ~raced /\ upd[p] = Rest
  BY DEF Return, others, Ready, May
<1>2. PICK o : o = op[p] /\ Work(p, o) /\ Placed(o)
  BY <1>1 DEF Programs, Program, Work
<1>3. PICK a, b, e :
        /\ a = o.from
        /\ b = (IF o.call = "fork" THEN brk[a] ELSE o.end)
        /\ e = (CASE o.call = "fork" -> dataEnd[a]
                  [] o.call \in {"create", "exec"} -> o.end
                  [] OTHER -> dataEnd[p])
  OBVIOUS
<1>4. brk' = [brk EXCEPT ![p] = b] /\ dataEnd' = [dataEnd EXCEPT ![p] = e]
  BY <1>2, <1>3 DEF Return
<1>5. a \in Procs /\ b \in Nat /\ e \in Nat /\ o.call \in Calls
  <2>1. a \in Procs /\ o.end \in Nat /\ o.call \in Calls
    BY <1>2, <1>3 DEF Placed, Shape
  <2>2. brk[a] \in Nat /\ dataEnd[a] \in Nat /\ dataEnd[p] \in Nat
    BY <2>1 DEF Programs, Tables
  <2> QED BY <1>3, <2>1, <2>2
<1>6. /\ op'[p] = Idle /\ brk'[p] = b /\ dataEnd'[p] = e /\ life'[p] = "live" /\ dir' = dir
      /\ \A q \in Procs \ {p} : op'[q] = op[q] /\ brk'[q] = brk[q] /\ dataEnd'[q] = dataEnd[q] /\ life'[q] = life[q]
  BY <1>1, <1>4 DEF Programs, Tables
<1>7. \A x \in Breaks : e <= x /\ x < b => dir[p][Page(x)] # 0
  <2>1. CASE o.call \in {"create", "exec"}
    <3>1. e = b
      BY <1>3, <2>1
    <3> QED BY <1>5, <3>1, BreaksAssumption
  <2>2. CASE o.call = "refuse"
    BY <1>2, <1>3, <2>2 DEF Work, Held
  <2>3. CASE o.call = "grow"
    <3>1. Held(p, brk[p]) /\ Grows(p, o) /\ o.left = {} /\ b = o.end /\ e = dataEnd[p]
      BY <1>1, <1>2, <1>3, <2>3 DEF Work
    <3>2. PICK c \in Nat : c = brk[p]
      BY DEF Programs, Tables
    <3> SUFFICES ASSUME NEW x \in Breaks, e <= x, x < b, dir[p][Page(x)] = 0 PROVE FALSE
      OBVIOUS
    <3>3. x \in Nat /\ Page(x) \in Pages
      BY BreaksAssumption DEF Page
    <3>4. c <= x
      BY <3>1, <3>2, <3>3 DEF Held
    <3>5. Page(c) <= Page(x) /\ Page(x) <= Page(b)
      BY <1>5, <3>3, <3>4 DEF Page
    <3>6. Page(x) \in Grown(c, b)
      BY <3>3, <3>5 DEF Grown
    <3> QED BY <3>1, <3>2, <3>6 DEF Grows
  <2>4. CASE o.call = "shrink"
    BY <1>2, <1>3, <2>4 DEF Work, Shrinks, Held
  <2>5. CASE o.call = "fork"
    <3>1. Forks(p, o) /\ o.at = 4 /\ o.left = {} /\ b = brk[a] /\ e = dataEnd[a]
      BY <1>1, <1>2, <1>3, <2>5, LenIs DEF Work
    <3>2. Copied(p, a, {}) /\ op[a] = Idle
      BY <1>1, <1>3, <3>1 DEF Forks
    <3>3. Held(a, brk[a])
      BY <1>5, <3>2 DEF Programs, Program
    <3> SUFFICES ASSUME NEW x \in Breaks, e <= x, x < b PROVE dir[p][Page(x)] # 0
      OBVIOUS
    <3>4. Page(x) \in Pages /\ Page(x) # ArgsPage
      BY BreaksAssumption DEF Page
    <3>5. dir[a][Page(x)] # 0
      BY <3>1, <3>3 DEF Held
    <3> QED BY <3>2, <3>4, <3>5 DEF Copied
  <2> QED BY <1>5, <2>1, <2>2, <2>3, <2>4, <2>5 DEF Calls
<1>8. Program(p)'
  BY <1>1, <1>6, <1>7 DEF Program, Held, Resting
<1>9. \A q \in Procs : Program(q)'
  BY <1>1, <1>6, <1>8, OneActs DEF May
<1>10. Tables'
  BY <1>1, <1>4, <1>5 DEF Programs, Tables
<1> QED BY <1>9, <1>10

LEMMA BeganIs ==
  ASSUME NEW c \in Calls, NEW a \in Procs, NEW S \in SUBSET Pages, NEW e \in Nat
  PROVE  /\ Placed(Began(c, a, S, e)) /\ Began(c, a, S, e).call = c /\ Began(c, a, S, e).at = 1
         /\ Began(c, a, S, e).from = a /\ Began(c, a, S, e).end = e
         /\ c \in {"grow", "shrink"} => Began(c, a, S, e).left = S
<1>1. PICK o : o = [call |-> c, at |-> 1, need |-> 0, left |-> {},
                    from |-> a, pages |-> S, end |-> e]
  OBVIOUS
<1>2. o \in Shape /\ o.call = c /\ o.from = a /\ o.pages = S /\ o.end = e
  BY <1>1 DEF Shape
<1>3. 1 \in 1 .. Len(Route[o.call])
  <2>1. PICK m \in {1, 4, 5} : m = Len(Route[c])
    BY LenIs DEF Calls
  <2>2. o.call = c
    BY <1>2
  <2>3. m \in {1, 4, 5}
    BY <2>1
  <2>4. 1 \in 1 .. m
    BY <2>3
  <2> QED BY <2>1, <2>2, <2>4
<1>4. Began(c, a, S, e) = Enter(o, 1)
  BY <1>1 DEF Began
<1>5. c \in {"grow", "shrink"} => Goes(o, Route[o.call][1]) = S
  BY <1>2, RouteIs DEF Goes
<1> QED BY <1>2, <1>3, <1>4, <1>5, EnterIs

(* A call begins on p, while no other one has the interrupts off. *)
LEMMA StartKeeps ==
  ASSUME Programs, Open, NEW p \in Procs, NEW c \in Calls, NEW a \in Procs, NEW S \in SUBSET Pages, NEW e \in Nat,
         Start(p, c, a, S, e), UNCHANGED <<brk, dataEnd>>, life'[p] # "none", op[p] = Idle,
         \A q \in Procs \ {p} : life'[q] = life[q],
         c \in {"grow", "refuse"} => Held(p, brk[p]),
         c = "refuse" => e = brk[p],
         c = "grow" => S = Grown(brk[p], e),
         c = "shrink" => Held(p, e) /\ \A g \in S : Page(e) < g,
         c = "fork" => cli' = p /\ a # p /\ op[a] = Idle /\ life[a] = "live" /\ \A g \in Pages : dir[p][g] = 0
  PROVE  (\A q \in Procs : Program(q)') /\ DOMAIN op' = Procs /\ UNCHANGED <<dir, mem, upd>> /\ op'[p] # Idle
<1>1. PICK n : n = Began(c, a, S, e)
  OBVIOUS
<1>2. /\ Placed(n) /\ n.call = c /\ n.at = 1 /\ n.from = a /\ n.end = e
      /\ c \in {"grow", "shrink"} => n.left = S
  BY <1>1, BeganIs
<1>3. op' = [op EXCEPT ![p] = n] /\ UNCHANGED <<dir, mem, raced, upd>>
  BY <1>1 DEF Start
<1>4. n # Idle
  BY <1>2, IdleIsNot DEF Placed
<1>5. op'[p] = n /\ DOMAIN op' = Procs /\ \A q \in Procs \ {p} : op'[q] = op[q]
  BY <1>3 DEF Programs, Tables
<1>6. Work(p, n)'
  <2>1. Placed(n)'
    BY <1>2 DEF Placed
  <2>2. c \in {"grow", "refuse"} => Held(p, brk[p])'
    BY <1>3 DEF Held
  <2>3. c = "grow" => Grows(p, n)'
    BY <1>2, <1>3 DEF Grows
  <2>4. c = "shrink" => Shrinks(p, n)'
    BY <1>2, <1>3 DEF Shrinks, Held
  <2>5. c = "fork" => Forks(p, n)'
    BY <1>2, <1>3, <1>5 DEF Forks, Open
  <2> QED BY <1>2, <2>1, <2>2, <2>3, <2>4, <2>5 DEF Work
<1>7. Program(p)'
  BY <1>4, <1>5, <1>6 DEF Program, Resting
<1>8. \A q \in Procs : Program(q)'
  BY <1>3, <1>5, <1>7, OneActs DEF Open
<1> QED BY <1>3, <1>4, <1>5, <1>8

LEMMA CreateKeeps ==
  ASSUME Programs, NEW p \in Procs, Create(p)
  PROVE  (\A q \in Procs : Program(q)') /\ Tables'
<1>1. PICK l \in Loads : Start(p, "create", p, StackPages \cup l, 0)
  BY DEF Create
<1>2. Open /\ life[p] = "none" /\ life' = [life EXCEPT ![p] = "new"] /\ UNCHANGED <<brk, dataEnd>>
  BY <1>1 DEF Create, Start
<1>3. PICK S \in SUBSET Pages : S = StackPages \cup l
  BY PagesAssumption, LoadsAssumption
<1>4. op[p] = Idle /\ life'[p] = "new" /\ \A q \in Procs \ {p} : life'[q] = life[q]
  BY <1>2 DEF Programs, Program, Tables
<1>5. "create" \in Calls /\ 0 \in Nat
  BY DEF Calls
<1>6. (\A q \in Procs : Program(q)') /\ DOMAIN op' = Procs /\ UNCHANGED <<dir, mem>>
  BY <1>1, <1>2, <1>3, <1>4, <1>5, StartKeeps
<1> QED BY <1>2, <1>6 DEF Programs, Tables

LEMMA ExecKeeps ==
  ASSUME Programs, NEW p \in Procs, Exec(p)
  PROVE  (\A q \in Procs : Program(q)') /\ Tables'
<1>1. Open /\ op[p] = Idle /\ life[p] = "live" /\ UNCHANGED <<life, cli, brk, dataEnd>>
  BY DEF Exec, Runs, Start
<1>2. Held(p, brk[p]) /\ brk[p] \in Nat
  BY <1>1 DEF Programs, Program, Tables
<1>3. (\A q \in Procs : Program(q)') /\ DOMAIN op' = Procs /\ UNCHANGED <<dir, mem>>
  <2>1. ASSUME NEW i \in Images, Start(p, "exec", p, i.pages, i.end)
        PROVE  (\A q \in Procs : Program(q)') /\ DOMAIN op' = Procs /\ UNCHANGED <<dir, mem>>
    <3>1. PICK S \in SUBSET Pages, e \in Nat : S = i.pages /\ e = i.end
      BY ImagesAssumption, BreaksAssumption
    <3>2. "exec" \in Calls
      BY DEF Calls
    <3> QED BY <1>1, <2>1, <3>1, <3>2, StartKeeps
  <2>2. ASSUME Start(p, "refuse", p, {}, brk[p])
        PROVE  (\A q \in Procs : Program(q)') /\ DOMAIN op' = Procs /\ UNCHANGED <<dir, mem>>
    <3>1. "refuse" \in Calls /\ {} \in SUBSET Pages
      BY DEF Calls
    <3> QED BY <1>1, <1>2, <2>2, <3>1, StartKeeps
  <2> QED BY <2>1, <2>2 DEF Exec
<1> QED BY <1>1, <1>3 DEF Programs, Tables

LEMMA ForkKeeps ==
  ASSUME Programs, NEW p \in Procs, NEW c \in Procs, Fork(p, c)
  PROVE  (\A q \in Procs : Program(q)') /\ Tables'
<1>1. /\ Open /\ op[p] = Idle /\ life[p] = "live" /\ life[c] = "none" /\ life' = [life EXCEPT ![c] = "new"]
      /\ cli' = c /\ Start(c, "fork", p, {}, 0) /\ UNCHANGED <<brk, dataEnd>>
  BY DEF Fork, Runs, Start
<1>2. p # c /\ op[c] = Idle /\ \A g \in Pages : dir[c][g] = 0
  BY <1>1 DEF Programs, Program
<1>3. life'[c] = "new" /\ \A q \in Procs \ {c} : life'[q] = life[q]
  BY <1>1 DEF Programs, Tables
<1>4. "fork" \in Calls /\ {} \in SUBSET Pages /\ 0 \in Nat
  BY DEF Calls
<1>5. (\A q \in Procs : Program(q)') /\ DOMAIN op' = Procs /\ UNCHANGED <<dir, mem>>
  BY <1>1, <1>2, <1>3, <1>4, StartKeeps
<1> QED BY <1>1, <1>5 DEF Programs, Tables

LEMMA SbrkKeeps ==
  ASSUME Programs, NEW p \in Procs, Sbrk(p)
  PROVE  (\A q \in Procs : Program(q)') /\ Tables'
<1>1. Open /\ op[p] = Idle /\ life[p] = "live" /\ UNCHANGED <<life, cli, brk, dataEnd>>
  BY DEF Sbrk, Runs, Start
<1>2. Held(p, brk[p]) /\ brk[p] \in Nat
  BY <1>1 DEF Programs, Program, Tables
<1>3. PICK new \in Breaks \ {brk[p]} :
        IF new > brk[p]
          THEN Start(p, "grow", p, Grown(brk[p], new), new)
          ELSE Start(p, "shrink", p, Shrunk(brk[p], new), new)
  BY DEF Sbrk
<1>4. new \in Nat
  BY BreaksAssumption
<1>5. (\A q \in Procs : Program(q)') /\ DOMAIN op' = Procs /\ UNCHANGED <<dir, mem>>
  <2>1. CASE new > brk[p]
    <3>1. "grow" \in Calls /\ Grown(brk[p], new) \in SUBSET Pages
      BY DEF Calls, Grown
    <3> QED BY <1>1, <1>2, <1>3, <1>4, <2>1, <3>1, StartKeeps
  <2>2. CASE ~(new > brk[p])
    <3>1. "shrink" \in Calls /\ Shrunk(brk[p], new) \in SUBSET Pages
      BY DEF Calls, Shrunk
    <3>2. Held(p, new)
      <4>1. PICK c \in Nat : c = brk[p]
        BY <1>2
      <4>2. \A b \in Breaks : b \in Nat
        BY BreaksAssumption
      <4>3. \A b \in Breaks : b < new => b < c
        BY <1>4, <2>2, <4>1, <4>2
      <4>4. Held(p, c)
        BY <1>2, <4>1
      <4> QED BY <4>3, <4>4 DEF Held
    <3>3. \A g \in Shrunk(brk[p], new) : Page(new) < g
      <4>1. Page(new) \in Int /\ \A g \in Shrunk(brk[p], new) : g \in Int
        BY <1>4, PagesAssumption DEF Shrunk, Page
      <4>2. \A g \in Shrunk(brk[p], new) : Page(new) + 1 <= g
        BY DEF Shrunk
      <4> QED BY <4>1, <4>2
    <3> QED BY <1>1, <1>3, <1>4, <2>2, <3>1, <3>2, <3>3, StartKeeps
  <2> QED BY <2>1, <2>2
<1> QED BY <1>1, <1>5 DEF Programs, Tables

(* Steps that work on no pages of programs *)
LEMMA QuietKeeps ==
  ASSUME Programs, ~raced, cli = None \/ (mem' = mem /\ life' = life),
         UNCHANGED <<dir, brk, dataEnd, op, cli>>, DOMAIN mem' = Frames, DOMAIN life' = Procs,
         \A q \in Procs : life'[q] = life[q] \/ life'[q] # "none",
         \A q \in Procs : Resting(q)'
  PROVE  (\A q \in Procs : Program(q)') /\ Tables'
<1>1. ASSUME NEW q \in Procs PROVE Program(q)'
  <2>1. Program(q)
    BY DEF Programs
  <2>2. ASSUME NEW o, o = op[q], o # Idle PROVE Work(q, o)'
    <3>1. Work(q, o)
      BY <2>1, <2>2 DEF Program
    <3>2. CASE o.call = "fork"
      <4>1. UNCHANGED <<mem, life, cli, op, dir, brk, dataEnd>>
        BY <2>2, <3>2, NoneForks, NoneAssumption
      <4>2. Placed(o)
        BY <3>1 DEF Work
      <4> QED BY <3>1, <4>1, <4>2, SameWork
    <3>3. CASE o.call # "fork"
      BY <3>1, <3>3 DEF Work, Placed, Held, Grows, Shrinks
    <3> QED BY <3>2, <3>3
  <2> QED BY <2>1, <2>2 DEF Program, Held
<1> QED BY <1>1 DEF Programs, Tables

(* Who has a call under way, or is dead, may begin or go on with an update. *)
LEMMA UpdateRests ==
  ASSUME Programs, NEW a \in Actors, NEW u, upd' = [upd EXCEPT ![a] = u],
         UNCHANGED <<op, life>>,
         \/ a \notin Procs \/ op[a] # Idle \/ life[a] = "dead"
         \/ u = Rest \/ upd[a] # Rest
  PROVE  \A q \in Procs : Resting(q)'
<1> SUFFICES ASSUME NEW q \in Procs PROVE Resting(q)'
  OBVIOUS
<1>1. Resting(q) /\ (q # a => upd'[q] = upd[q]) /\ upd'[a] = u
  BY OwnUpdate, OthersSame DEF Programs, Program, Inv
<1> QED BY <1>1 DEF Resting

(* A page is looked for, or given back; a step of an update that leaves    *)
(* the tables alone.                                                       *)
LEMMA UpdateKeeps ==
  ASSUME Programs,
         \/ \E p \in Procs :
              \/ FindPage(p) \/ GiveBlock(p)
              \/ \E g \in Pages : FindTable(p, g) \/ FindUser(p, g) \/ GiveUser(p, g)
         \/ \E a \in Actors : LoadByte(a) \/ ClearBit(a)
  PROVE  (\A q \in Procs : Program(q)') /\ Tables' /\ op' = op
<1>1. UNCHANGED <<dir, brk, dataEnd, op, life, cli, mem>> /\ ~raced
  BY DEF FindPage, GiveBlock, FindTable, FindUser, GiveUser, LoadByte, ClearBit, spaces,
         Ready, Allowed, Open, May
<1>2. \E a \in Actors : \E u :
        /\ upd' = [upd EXCEPT ![a] = u]
        /\ a \notin Procs \/ op[a] # Idle \/ life[a] = "dead" \/ upd[a] # Rest
  <2>1. ASSUME NEW p \in Procs, \/ FindPage(p) \/ GiveBlock(p)
                                \/ \E g \in Pages : FindTable(p, g) \/ FindUser(p, g) \/ GiveUser(p, g)
        PROVE  \E u : upd' = [upd EXCEPT ![p] = u]
    BY <2>1 DEF FindPage, GiveBlock, FindTable, FindUser, GiveUser, FindHeap, Find, GiveHeap, GiveFrame
  <2>2. ASSUME NEW p \in Procs, \/ FindPage(p) \/ GiveBlock(p)
                                \/ \E g \in Pages : FindTable(p, g) \/ FindUser(p, g) \/ GiveUser(p, g)
        PROVE  op[p] # Idle \/ life[p] = "dead"
    BY <2>2 DEF FindPage, GiveBlock, FindTable, FindUser, GiveUser, Turn
  <2>3. ASSUME NEW a \in Actors, LoadByte(a) \/ ClearBit(a)
        PROVE  upd[a] # Rest /\ \E u : upd' = [upd EXCEPT ![a] = u]
    BY <2>3 DEF LoadByte, ClearBit, Rest
  <2> QED BY <2>1, <2>2, <2>3 DEF Actors
<1>3. \A q \in Procs : Resting(q)'
  BY <1>1, <1>2, UpdateRests
<1> QED BY <1>1, <1>3, QuietKeeps DEF Programs, Tables

(* The sections are copied: no fork is under way. *)
LEMMA StringsKeep ==
  ASSUME Programs, NEW p \in Procs, GiveStrings(p)
  PROVE  (\A q \in Procs : Program(q)') /\ Tables' /\ op' = op
<1>1. /\ May(p) /\ Stage(p) = "strtab" /\ UNCHANGED <<dir, brk, dataEnd, life, cli, op>>
      /\ DOMAIN mem' = Frames
  BY DEF GiveStrings, Ready, spaces
<1>2. op[p] # Idle
  BY <1>1 DEF Stage
<1>3. PICK o : o = op[p] /\ Work(p, o) /\ Placed(o)
  BY <1>2 DEF Programs, Program, Work
<1>4. o.call = "exec"
  <2>1. Route[o.call][o.at] = "strtab"
    BY <1>1, <1>2, <1>3 DEF Stage
  <2> QED BY <1>3, <2>1, Stages
<1>5. \A q \in Procs \ {p} : upd'[q] = upd[q]
  <2>1. \E u : upd' = [upd EXCEPT ![p] = u]
    BY DEF GiveStrings, GiveHeap, GiveFrame
  <2> QED BY <2>1, OwnUpdate DEF Actors
<1>6. Work(p, o)'
  BY <1>3, <1>4 DEF Work, Placed
<1>7. life[p] # "none"
  BY <1>2 DEF Programs, Program
<1>8. Program(p)'
  BY <1>1, <1>2, <1>3, <1>6, <1>7 DEF Program, Resting
<1>9. \A q \in Procs : Program(q)'
  BY <1>1, <1>5, <1>8, OneActs DEF May
<1> QED BY <1>1, <1>9 DEF Programs, Tables

LEMMA SpinKeeps ==
  ASSUME Programs, NEW p \in Procs, Spin(p)
  PROVE  (\A q \in Procs : Program(q)') /\ Tables' /\ op' = op
<1>1. /\ May(p) /\ op[p] # Idle /\ life' = [life EXCEPT ![p] = "stuck"]
      /\ UNCHANGED <<mem, dir, brk, dataEnd, op, cli, raced, upd>>
  BY DEF Spin, others, Ready
<1>2. life'[p] = "stuck" /\ \A q \in Procs \ {p} : life'[q] = life[q]
  BY <1>1 DEF Programs, Tables
<1>3. ASSUME NEW o, o = op[p], o # Idle PROVE Work(p, o)'
  <2>1. Work(p, o)
    BY <1>3 DEF Programs, Program
  <2>2. (op'[o.from] = op[o.from] /\ life'[o.from] = life[o.from]) \/ o.from = p
    <3>1. o.from \in Procs
      BY <2>1 DEF Work, Placed, Shape
    <3> QED BY <1>1, <1>2, <3>1
  <2>3. Placed(o)
    BY <2>1 DEF Work
  <2> QED BY <1>1, <2>1, <2>2, <2>3, SameWork
<1>4. Program(p)'
  BY <1>1, <1>2, <1>3 DEF Program, Resting
<1>5. \A q \in Procs : Program(q)'
  BY <1>1, <1>2, <1>4, OneActs DEF May
<1> QED BY <1>1, <1>5 DEF Programs, Tables

LEMMA KernelKeeps ==
  ASSUME Programs, FindScratch \/ TakeScratch \/ GiveScratch \/ FreeScratch
  PROVE  (\A q \in Procs : Program(q)') /\ Tables' /\ op' = op
<1>1. cli = None /\ ~raced /\ UNCHANGED <<dir, brk, dataEnd, op, life, cli>>
  BY DEF FindScratch, TakeScratch, GiveScratch, FreeScratch, MapKernel, UnmapKernel, Allowed,
         Open, spaces
<1>2. DOMAIN mem' = Frames
  BY DEF FindScratch, TakeScratch, GiveScratch, FreeScratch, MapKernel, Programs, Tables
<1>3. \E u : upd' = [upd EXCEPT ![None] = u]
  BY DEF FindScratch, TakeScratch, GiveScratch, FreeScratch, MapKernel, MarkBit, UnmapKernel,
         FindHeap, Find, GiveHeap, GiveFrame
<1>4. \A q \in Procs : Resting(q)'
  BY <1>1, <1>3, UpdateRests, NoneAssumption DEF Actors
<1> QED BY <1>1, <1>2, <1>4, QuietKeeps DEF Programs, Tables

LEMMA LifeKeeps ==
  ASSUME Programs, NEW p \in Procs, Exit(p) \/ Store(p)
  PROVE  (\A q \in Procs : Program(q)') /\ Tables' /\ op' = op
<1>1. cli = None /\ ~raced /\ UNCHANGED <<dir, brk, dataEnd, op, cli, upd>>
  BY DEF Exit, Store, Runs, Open, spaces
<1>2. DOMAIN mem' = Frames
  BY DEF Exit, Store, Programs, Tables
<1>3. /\ DOMAIN life' = Procs /\ \A q \in Procs : life'[q] = life[q] \/ life'[q] # "none"
      /\ \A q \in Procs : life'[q] # "dead" => life[q] # "dead"
  <2>1. CASE Exit(p)
    <3>1. life' = [life EXCEPT ![p] = "dead"]
      BY <2>1 DEF Exit
    <3> QED BY <3>1 DEF Exit, Runs, Programs, Tables
  <2>2. CASE Store(p)
    BY <2>2 DEF Store, spaces, Programs, Tables
  <2> QED BY <2>1, <2>2
<1>4. \A q \in Procs : Resting(q)'
  BY <1>1, <1>3 DEF Programs, Program, Resting
<1> QED BY <1>1, <1>2, <1>3, <1>4, QuietKeeps

LEMMA ReapKeeps ==
  ASSUME Programs, NEW p \in Procs, Reap(p)
  PROVE  (\A q \in Procs : Program(q)') /\ Tables' /\ op' = op
<1>1. /\ May(p) /\ UNCHANGED <<dir, brk, dataEnd, op, cli, mem>>
      /\ life[p] = "dead" /\ life' = [life EXCEPT ![p] = "gone"]
      /\ upd' = [upd EXCEPT ![p] = Rest]
  BY NoneAssumption DEF Reap, UnmapKernel, Allowed
<1>2. upd'[p] = Rest /\ \A q \in Procs \ {p} : upd'[q] = upd[q]
  BY <1>1, OthersSame, OwnUpdate DEF Actors, Programs, Inv
<1>3. life'[p] = "gone" /\ \A q \in Procs \ {p} : life'[q] = life[q]
  BY <1>1 DEF Programs, Tables
<1>4. Program(p)'
  <2>1. ASSUME NEW o, o = op[p], o # Idle PROVE Work(p, o)'
    <3>1. Work(p, o) /\ Placed(o)
      BY <2>1 DEF Programs, Program, Work
    <3>2. (op'[o.from] = op[o.from] /\ life'[o.from] = life[o.from]) \/ o.from = p
      <4>1. o.from \in Procs
        BY <3>1 DEF Placed, Shape
      <4> QED BY <1>1, <1>3, <4>1
    <3>3. raced => raced'
      BY <1>1 DEF May
    <3> QED BY <1>1, <3>1, <3>2, <3>3, SameWork
  <2>2. op'[p] = Idle => Held(p, brk[p])'
    BY <1>1 DEF Programs, Program, Held
  <2> QED BY <1>1, <1>2, <1>3, <2>1, <2>2 DEF Program, Resting
<1>5. \A q \in Procs : Program(q)'
  BY <1>1, <1>2, <1>3, <1>4, OneActs DEF May
<1> QED BY <1>1, <1>5 DEF Programs, Tables

LEMMA StillKeeps ==
  ASSUME Programs, UNCHANGED vars
  PROVE  (\A q \in Procs : Program(q)') /\ Tables'
<1>1. UNCHANGED <<dir, brk, dataEnd, op, life, cli, mem, raced, upd>>
  BY DEF vars, spaces, others
<1>2. ASSUME NEW q \in Procs, NEW o, o = op[q], o # Idle PROVE Work(q, o)'
  <2>1. Work(q, o)
    BY <1>2 DEF Programs, Program
  <2> QED BY <1>1, <2>1, SameWork DEF Work
<1>3. \A q \in Procs : Program(q)'
  BY <1>1, <1>2 DEF Programs, Program, Held, Resting
<1> QED BY <1>1, <1>3 DEF Programs, Tables

LEMMA StepPrograms == Programs /\ [Next]_vars => Programs'
<1> SUFFICES ASSUME Programs, [Next]_vars PROVE (\A q \in Procs : Program(q)') /\ Tables'
  BY StepOwner DEF Programs
<1>1. ASSUME NEW p \in Procs, Take(p) \/ GiveStrings(p) \/ Sections(p) \/ Return(p) \/ Spin(p)
      PROVE  (\A q \in Procs : Program(q)') /\ Tables'
  BY <1>1, TakeKeeps, StringsKeep, SectionsKeeps, ReturnKeeps, SpinKeeps
<1>2. ASSUME NEW p \in Procs, NEW g \in Pages, Table(p, g) \/ Map(p, g) \/ Pass(p, g) \/ Unmap(p, g) \/ Remap(p, g)
      PROVE  (\A q \in Procs : Program(q)') /\ Tables'
  BY <1>2, TableKeeps, MapKeeps, PassKeeps, UnmapKeeps, RemapKeeps
<1>3. ASSUME NEW p \in Procs, Create(p) \/ Exec(p) \/ Sbrk(p) \/ (\E c \in Procs : Fork(p, c))
      PROVE  (\A q \in Procs : Program(q)') /\ Tables'
  BY <1>3, CreateKeeps, ExecKeeps, SbrkKeeps, ForkKeeps
<1>4. ASSUME NEW p \in Procs, Exit(p) \/ Reap(p) \/ Store(p)
      PROVE  (\A q \in Procs : Program(q)') /\ Tables'
  BY <1>4, LifeKeeps, ReapKeeps
<1> QED BY <1>1, <1>2, <1>3, <1>4, UpdateKeeps, KernelKeeps, StillKeeps DEF Next

LEMMA InitPrograms == Init => Programs
<1> SUFFICES ASSUME Init PROVE Programs
  OBVIOUS
<1>1. Inv
  BY InitOwner
<1>2. Tables
  BY DEF Init, Tables
<1>3. ASSUME NEW p \in Procs PROVE Program(p)
  BY BreaksAssumption DEF Init, Program, Held, Resting, Actors
<1> QED BY <1>1, <1>2, <1>3 DEF Programs

(* A program finds a page behind every address from the end of its data to *)
(* its break, for any pages and any sequence of calls (task.c: user_sbrk,  *)
(* user_exec, user_fork).                                                  *)
THEOREM BreaksAreMapped == Spec => []BreakMapped
<1>1. Programs => BreakMapped
  BY DEF Programs, Program, Held, BreakMapped
<1> QED BY <1>1, InitPrograms, StepPrograms, PTL DEF Spec

(* A step that ends a fork is its return. *)
LEMMA ForkEnds ==
  ASSUME Programs, [Next]_vars, NEW c \in Procs, op[c] # Idle, op'[c] = Idle
  PROVE  Return(c)
<1>1. ASSUME NEW p \in Procs, NEW v, op' = [op EXCEPT ![p] = v], op'[p] # Idle PROVE FALSE
  BY <1>1 DEF Programs, Tables
<1>2. op' # op
  OBVIOUS
<1>3. ASSUME NEW p \in Procs, Return(p) PROVE p = c
  BY <1>3 DEF Return, Programs, Tables
<1>4. ASSUME NEW p \in Procs, Take(p) PROVE FALSE
  BY <1>1, <1>4, TakeKeeps DEF Take
<1>5. ASSUME NEW p \in Procs, Sections(p) PROVE FALSE
  BY <1>1, <1>5, SectionsKeeps DEF Sections
<1>6. ASSUME NEW p \in Procs, NEW g \in Pages, Map(p, g) \/ Pass(p, g) \/ Remap(p, g) PROVE FALSE
  <2>1. op'[p] # Idle
    BY <1>6, MapKeeps, PassKeeps, RemapKeeps
  <2> QED BY <1>1, <1>6, <2>1 DEF Map, Pass, Remap, Passed
<1>7. ASSUME NEW p \in Procs, NEW g \in Pages, Unmap(p, g) PROVE FALSE
  <2>1. op'[p] # Idle
    BY <1>7, UnmapKeeps
  <2> QED BY <1>1, <1>2, <1>7, <2>1 DEF Unmap, Passed
<1>8. ASSUME NEW p \in Procs, NEW g \in Pages, Table(p, g) PROVE FALSE
  BY <1>2, <1>8, TableKeeps
<1>9. ASSUME NEW p \in Procs, Create(p) \/ Exec(p) \/ Sbrk(p) PROVE FALSE
  <2>1. op[p] = Idle
    BY <1>9 DEF Create, Exec, Sbrk, Runs, Programs, Program
  <2>2. \E v : op' = [op EXCEPT ![p] = v]
    BY <1>9 DEF Create, Exec, Sbrk, Start
  <2>3. p # c => op'[c] = op[c]
    BY <2>2
  <2> QED BY <2>1, <2>3
<1>10. ASSUME NEW p \in Procs, NEW d \in Procs, Fork(p, d) PROVE FALSE
  <2>1. op[d] = Idle
    BY <1>10 DEF Fork, Programs, Program
  <2>2. \E v : op' = [op EXCEPT ![d] = v]
    BY <1>10 DEF Fork, Start
  <2>3. d # c => op'[c] = op[c]
    BY <2>2
  <2> QED BY <2>1, <2>3
<1>11. ASSUME NEW p \in Procs, Spin(p) \/ Exit(p) \/ Reap(p) \/ Store(p) PROVE FALSE
  BY <1>2, <1>11, SpinKeeps, LifeKeeps, ReapKeeps
<1>12. ~(FindScratch \/ TakeScratch \/ GiveScratch \/ FreeScratch \/ UNCHANGED vars)
  BY <1>2, KernelKeeps DEF vars, spaces
<1>13. ASSUME NEW p \in Procs, GiveStrings(p) PROVE FALSE
  BY <1>2, <1>13, StringsKeep
<1>14. ~ \/ \E p \in Procs :
              \/ FindPage(p) \/ GiveBlock(p)
              \/ \E g \in Pages : FindTable(p, g) \/ FindUser(p, g) \/ GiveUser(p, g)
         \/ \E a \in Actors : LoadByte(a) \/ ClearBit(a)
  BY <1>2, UpdateKeeps
<1> QED BY <1>3, <1>4, <1>5, <1>6, <1>7, <1>8, <1>9, <1>10, <1>11, <1>12, <1>13, <1>14 DEF Next

(* A fork returns with all that its parent has but the page of the         *)
(* arguments, whatever other threads are in the middle of (page.c:         *)
(* page_clone_user_page).                                                  *)
THEOREM ForksCopy == Spec => ForkCopies
<1> DEFINE A == \A c \in Procs :
                  op[c] # Idle /\ op[c].call = "fork" /\ op'[c] = Idle =>
                    View(c)' = [g \in MappedPages(op[c].from) \ {ArgsPage} |->
                                  View(op[c].from)[g]]
<1>1. ASSUME Programs, [Next]_vars PROVE A
  <2> SUFFICES ASSUME NEW c \in Procs, op[c] # Idle, op[c].call = "fork", op'[c] = Idle
               PROVE  View(c)' = [g \in MappedPages(op[c].from) \ {ArgsPage} |->
                                    View(op[c].from)[g]]
    OBVIOUS
  <2>1. Return(c)
    BY <1>1, ForkEnds
  <2>2. PICK o, a : o = op[c] /\ Forks(c, o) /\ a = o.from /\ a \in Procs
    BY <1>1 DEF Programs, Program, Work, Placed, Shape
  <2>3. o.at = 4 /\ o.left = {} /\ ~raced /\ UNCHANGED <<dir, mem>>
    BY <2>1, <2>2, LenIs DEF Return, Ready, May
  <2>4. Copied(c, a, {})
    BY <2>2, <2>3 DEF Forks
  <2>5. MappedPages(c) = MappedPages(a) \ {ArgsPage}
    BY <2>4 DEF Copied, MappedPages
  <2>6. \A g \in MappedPages(a) \ {ArgsPage} : mem[dir[c][g]] = View(a)[g]
    BY <2>4, <2>5 DEF Copied, MappedPages, View
  <2>7. View(c)' = [g \in MappedPages(c) |-> mem[dir[c][g]]]
    BY <2>3 DEF View, MappedPages
  <2> QED BY <2>2, <2>5, <2>6, <2>7
<1>2. Programs /\ [Next]_vars => [A]_vars
  BY <1>1
<1> QED BY <1>2, InitPrograms, StepPrograms, PTL DEF Spec, ForkCopies

(* ------------------------------ user heap ------------------------------- *)

LEMMA LeastNat ==
  ASSUME NEW T \in SUBSET Nat, T # {}
  PROVE  \E m \in T : \A n \in T : m <= n
  <1> DEFINE R == {p \in Nat \X Nat : p[1] < p[2]}
  <1>1. IsWellFoundedOn(R, Nat)
    BY NatLessThanWellFounded DEF OpToRel
  <1>2. PICK m \in T : \A n \in T : <<n, m>> \notin R
    <2> HIDE DEF R
    <2> QED
      BY <1>1, WFMin
  <1>3. \A n \in T : <<n, m>> \in Nat \X Nat
    OBVIOUS
  <1>4. \A n \in T : ~(n < m)
    BY <1>2, <1>3
  <1> QED
    BY <1>4

\* f goes along the ring, as the function in Along.
Walks(f, h, from, n) == f = [k \in 0 .. n |-> IF k = 0 THEN from ELSE h[f[k - 1]].ptr]

LEMMA WalksIs ==
  ASSUME NEW f, NEW h, NEW from, NEW n \in Nat
  PROVE  Walks(f, h, from, n) <=> /\ f = [k \in 0 .. n |-> f[k]] /\ f[0] = from
                                  /\ \A k \in 1 .. n : f[k] = h[f[k - 1]].ptr
  <1>1. ASSUME Walks(f, h, from, n)
        PROVE  f = [k \in 0 .. n |-> f[k]] /\ f[0] = from /\ \A k \in 1 .. n : f[k] = h[f[k - 1]].ptr
    <2>1. f = [k \in 0 .. n |-> f[k]]
      BY <1>1 DEF Walks
    <2>2. f[0] = from
      BY <1>1 DEF Walks
    <2>3. ASSUME NEW k \in 1 .. n PROVE f[k] = h[f[k - 1]].ptr
      <3>1. k \in 0 .. n /\ k # 0
        OBVIOUS
      <3> QED BY <1>1, <3>1 DEF Walks
    <2> QED BY <2>1, <2>2, <2>3
  <1>2. ASSUME f = [k \in 0 .. n |-> f[k]], f[0] = from, \A k \in 1 .. n : f[k] = h[f[k - 1]].ptr
        PROVE  Walks(f, h, from, n)
    <2>1. ASSUME NEW k \in 0 .. n PROVE f[k] = IF k = 0 THEN from ELSE h[f[k - 1]].ptr
      <3>1. CASE k = 0
        BY <1>2, <3>1
      <3>2. CASE k # 0
        <4>1. k \in 1 .. n
          BY <3>2
        <4> QED BY <1>2, <3>2, <4>1
      <3> QED BY <3>1, <3>2
    <2> QED BY <1>2, <2>1 DEF Walks
  <1> QED BY <1>1, <1>2

LEMMA WalksOne ==
  ASSUME NEW f, NEW g, NEW h, NEW from, NEW n \in Nat, Walks(f, h, from, n), Walks(g, h, from, n)
  PROVE  f = g
  <1> DEFINE T == {k \in 0 .. n : f[k] # g[k]}
  <1>0. /\ f = [k \in 0 .. n |-> f[k]] /\ f[0] = from /\ \A k \in 1 .. n : f[k] = h[f[k - 1]].ptr
        /\ g = [k \in 0 .. n |-> g[k]] /\ g[0] = from /\ \A k \in 1 .. n : g[k] = h[g[k - 1]].ptr
    BY WalksIs
  <1>1. ASSUME NEW m \in T, \A k \in T : m <= k PROVE FALSE
    <2>1. m \in 1 .. n /\ m - 1 \in 0 .. n
      BY <1>0, <1>1
    <2>2. m - 1 \notin T
      BY <1>1, <2>1
    <2>3. f[m - 1] = g[m - 1]
      BY <2>1, <2>2
    <2>4. f[m] = g[m]
      BY <1>0, <2>1, <2>3
    <2> QED BY <1>1, <2>4
  <1>2. T = {}
    <2>1. T \in SUBSET Nat
      OBVIOUS
    <2> HIDE DEF T
    <2> QED BY <1>1, <2>1, LeastNat
  <1>3. \A k \in 0 .. n : f[k] = g[k]
    BY <1>2
  <1> QED BY <1>0, <1>3

LEMMA WalksMore ==
  ASSUME NEW h, NEW from, NEW n \in Nat, NEW g, Walks(g, h, from, n)
  PROVE  \E f : Walks(f, h, from, n + 1)
  <1>1. /\ g = [k \in 0 .. n |-> g[k]] /\ g[0] = from /\ \A k \in 1 .. n : g[k] = h[g[k - 1]].ptr
    BY WalksIs
  <1>2. PICK m \in Nat : m = n + 1 /\ n = m - 1
    OBVIOUS
  <1>3. PICK f : f = [k \in 0 .. m |-> IF k = m THEN h[g[n]].ptr ELSE g[k]]
    OBVIOUS
  <1>4. f = [k \in 0 .. m |-> f[k]] /\ f[0] = from
    <2>1. 0 \in 0 .. m /\ 0 # m
      BY <1>2
    <2>2. f[0] = g[0]
      BY <1>3, <2>1
    <2>3. f = [k \in 0 .. m |-> f[k]]
      BY <1>3
    <2> QED BY <1>1, <2>2, <2>3
  <1>5. ASSUME NEW k \in 1 .. m PROVE f[k] = h[f[k - 1]].ptr
    <2>1. k \in 0 .. m /\ k - 1 \in 0 .. n /\ k - 1 \in 0 .. m /\ k - 1 # m
      BY <1>2
    <2>2. f[k - 1] = g[k - 1]
      BY <1>3, <2>1
    <2>3. CASE k = m
      <3>1. f[k] = h[g[n]].ptr
        BY <1>3, <2>1, <2>3
      <3>2. f[k - 1] = g[n]
        BY <1>2, <2>2, <2>3
      <3> QED BY <3>1, <3>2
    <2>4. CASE k # m
      <3>1. k \in 1 .. n
        BY <1>2, <2>4
      <3>2. f[k] = g[k]
        BY <1>3, <2>1, <2>4
      <3> QED BY <1>1, <2>2, <3>1, <3>2
    <2> QED BY <2>3, <2>4
  <1>6. Walks(f, h, from, m)
    BY <1>4, <1>5, WalksIs
  <1> QED BY <1>2, <1>6

LEMMA WalksThere ==
  ASSUME NEW h, NEW from, NEW n \in Nat
  PROVE  \E f : Walks(f, h, from, n)
  <1> DEFINE none == {k \in Nat : ~ \E f : Walks(f, h, from, k)}
  <1>1. 0 \notin none
    <2>1. PICK f : f = [k \in 0 .. 0 |-> from]
      OBVIOUS
    <2>2. f = [k \in 0 .. 0 |-> f[k]] /\ f[0] = from /\ \A k \in 1 .. 0 : f[k] = h[f[k - 1]].ptr
      BY <2>1
    <2>3. Walks(f, h, from, 0)
      BY <2>2, WalksIs
    <2> QED BY <2>3
  <1>2. ASSUME NEW m \in none, \A k \in none : m <= k PROVE FALSE
    <2>1. m \in Nat /\ m # 0
      BY <1>1
    <2>2. PICK c \in Nat : c = m - 1 /\ m = c + 1
      BY <2>1
    <2>3. c \notin none
      <3> HIDE DEF none
      <3> QED BY <1>2, <2>1, <2>2
    <2>4. PICK g : Walks(g, h, from, c)
      BY <2>3
    <2>5. \E f : Walks(f, h, from, c + 1)
      BY <2>4, WalksMore
    <2> QED BY <2>2, <2>5
  <1>3. none = {}
    <2>1. none \in SUBSET Nat
      OBVIOUS
    <2> HIDE DEF none
    <2> QED BY <1>2, <2>1, LeastNat
  <1> QED BY <1>3

\* A walk goes on from block to block.
LEMMA AlongIs ==
  ASSUME NEW h, NEW from
  PROVE  /\ Along(h, from, 0) = from
         /\ \A n \in Nat : Along(h, from, n + 1) = h[Along(h, from, n)].ptr
  <1>0. ASSUME NEW n \in Nat, NEW f, Walks(f, h, from, n) PROVE Along(h, from, n) = f[n]
    <2>1. Along(h, from, n) = (CHOOSE g : Walks(g, h, from, n))[n]
      BY DEF Along, Walks
    <2>2. Walks(CHOOSE g : Walks(g, h, from, n), h, from, n)
      BY <1>0
    <2>3. (CHOOSE g : Walks(g, h, from, n)) = f
      BY <1>0, <2>2, WalksOne
    <2> QED BY <2>1, <2>3
  <1>1. Along(h, from, 0) = from
    <2>1. PICK f : Walks(f, h, from, 0)
      BY WalksThere
    <2> QED BY <1>0, <2>1, WalksIs
  <1>2. ASSUME NEW n \in Nat PROVE Along(h, from, n + 1) = h[Along(h, from, n)].ptr
    <2>1. PICK m \in Nat : m = n + 1 /\ n = m - 1
      OBVIOUS
    <2>2. PICK f : Walks(f, h, from, m)
      BY WalksThere
    <2>3. /\ f = [k \in 0 .. m |-> f[k]] /\ f[0] = from /\ \A k \in 1 .. m : f[k] = h[f[k - 1]].ptr
      BY <2>2, WalksIs
    <2>4. PICK g : g = [k \in 0 .. n |-> f[k]]
      OBVIOUS
    <2>5. Walks(g, h, from, n)
      <3>1. g = [k \in 0 .. n |-> g[k]] /\ g[0] = from
        BY <2>3, <2>4
      <3>2. ASSUME NEW k \in 1 .. n PROVE g[k] = h[g[k - 1]].ptr
        <4>1. k \in 0 .. n /\ k - 1 \in 0 .. n /\ k \in 1 .. m
          BY <2>1
        <4>2. g[k] = f[k] /\ g[k - 1] = f[k - 1]
          BY <2>4, <4>1
        <4> QED BY <2>3, <4>1, <4>2
      <3> QED BY <3>1, <3>2, WalksIs
    <2>6. Along(h, from, n) = f[n]
      <3>1. n \in 0 .. n
        OBVIOUS
      <3>2. g[n] = f[n]
        BY <2>4, <3>1
      <3> QED BY <1>0, <2>5, <3>2
    <2>7. Along(h, from, m) = f[m]
      BY <1>0, <2>2
    <2>8. f[m] = h[f[m - 1]].ptr
      <3>1. m \in 1 .. m
        BY <2>1
      <3> QED BY <2>3, <3>1
    <2> QED BY <2>1, <2>6, <2>7, <2>8
  <1> QED BY <1>1, <1>2

\* The free blocks of a heap, below address t, linked in the order of their
\* addresses: each to the next one, the last to Base.
Ring(h, t) ==
  /\ t \in Nat /\ DOMAIN h \subseteq 0 .. t /\ Base \in DOMAIN h
  /\ \A a \in DOMAIN h :
       \/ h[a].ptr \in DOMAIN h /\ h[a].ptr > a /\ \A b \in DOMAIN h : b <= a \/ h[a].ptr <= b
       \/ h[a].ptr = Base /\ \A b \in DOMAIN h : b <= a

LEMMA GreatestNat ==
  ASSUME NEW t \in Nat, NEW S, S \subseteq 0 .. t, S # {}
  PROVE  \E m \in S : \A n \in S : n <= m
  <1> DEFINE T == {t - s : s \in S}
  <1>0. PICK s : s \in S
    OBVIOUS
  <1>1. T \in SUBSET Nat /\ T # {}
    <2>1. \A n \in S : t - n \in Nat
      OBVIOUS
    <2>2. t - s \in T
      BY <1>0
    <2> QED BY <2>1, <2>2
  <1>2. PICK d \in T : \A n \in T : d <= n
    <2> HIDE DEF T
    <2> QED BY <1>1, LeastNat
  <1>3. PICK m \in S : d = t - m
    OBVIOUS
  <1>4. ASSUME NEW n \in S PROVE n <= m
    <2>1. t - n \in T
      OBVIOUS
    <2>2. t - m <= t - n
      BY <1>2, <1>3, <2>1
    <2>3. m \in 0 .. t /\ n \in 0 .. t
      OBVIOUS
    <2> QED BY <2>2, <2>3
  <1> QED BY <1>4

LEMMA AlongIn ==
  ASSUME NEW h, NEW t, Ring(h, t), NEW from \in DOMAIN h
  PROVE  \A n \in Nat : Along(h, from, n) \in DOMAIN h
  <1> DEFINE out == {n \in Nat : Along(h, from, n) \notin DOMAIN h}
  <1>1. ASSUME NEW m \in out, \A k \in out : m <= k PROVE FALSE
    <2>1. m \in Nat /\ m # 0
      BY AlongIs
    <2>2. PICK c \in Nat : c = m - 1 /\ m = c + 1
      BY <2>1
    <2>3. c \notin out
      <3> HIDE DEF out
      <3> QED BY <1>1, <2>1, <2>2
    <2>4. PICK a \in DOMAIN h : a = Along(h, from, c)
      BY <2>3
    <2>5. Along(h, from, m) = h[a].ptr
      <3>1. Along(h, from, c + 1) = h[Along(h, from, c)].ptr
        BY AlongIs
      <3> QED BY <2>2, <2>4, <3>1
    <2>6. h[a].ptr \in DOMAIN h
      BY DEF Ring
    <2> QED BY <1>1, <2>5, <2>6
  <1>2. out = {}
    <2>1. out \in SUBSET Nat
      OBVIOUS
    <2> HIDE DEF out
    <2> QED BY <1>1, <2>1, LeastNat
  <1> QED BY <1>2

\* Two steps of a walk that are at one place go on alike.
LEMMA AlongAlike ==
  ASSUME NEW h, NEW from, NEW i \in Nat, NEW j \in Nat, Along(h, from, i) = Along(h, from, j)
  PROVE  \A d \in Nat : Along(h, from, i + d) = Along(h, from, j + d)
  <1> DEFINE bad == {d \in Nat : Along(h, from, i + d) # Along(h, from, j + d)}
  <1>1. ASSUME NEW m \in bad, \A k \in bad : m <= k PROVE FALSE
    <2>1. m \in Nat /\ m # 0
      <3>1. i + 0 = i /\ j + 0 = j
        OBVIOUS
      <3> QED BY <3>1
    <2>2. PICK c \in Nat : c = m - 1 /\ m = c + 1
      BY <2>1
    <2>3. c \notin bad
      <3> HIDE DEF bad
      <3> QED BY <1>1, <2>1, <2>2
    <2>4. Along(h, from, i + c) = Along(h, from, j + c)
      BY <2>3
    <2>5. i + m = (i + c) + 1 /\ j + m = (j + c) + 1 /\ i + c \in Nat /\ j + c \in Nat
      BY <2>2
    <2>6. Along(h, from, (i + c) + 1) = Along(h, from, (j + c) + 1)
      BY <2>4, <2>5, AlongIs
    <2> QED BY <1>1, <2>5, <2>6
  <1>2. bad = {}
    <2>1. bad \in SUBSET Nat
      OBVIOUS
    <2> HIDE DEF bad
    <2> QED BY <1>1, <2>1, LeastNat
  <1> QED BY <1>2

\* A walk comes to every free block: where it goes has a last block, after
\* which it is at Base, and with each block the next one.
LEMMA AlongAll ==
  ASSUME NEW h, NEW t, Ring(h, t), NEW from \in DOMAIN h, NEW p \in DOMAIN h
  PROVE  \E n \in Nat : Along(h, from, n) = p
  <1> DEFINE S == DOMAIN h
             C == {Along(h, from, n) : n \in Nat}
  <1>1. C \subseteq S /\ S \subseteq 0 .. t /\ t \in Nat /\ 0 \in S /\ Base = 0
    BY AlongIn DEF Ring, Base
  <1>2. from \in C
    BY AlongIs
  <1>3. ASSUME NEW c \in C PROVE h[c].ptr \in C
    <2>1. PICK n \in Nat : c = Along(h, from, n)
      BY <1>3
    <2>2. Along(h, from, n + 1) = h[Along(h, from, n)].ptr
      BY AlongIs
    <2>3. n + 1 \in Nat
      OBVIOUS
    <2> QED BY <2>1, <2>2, <2>3
  <1>4. \A a \in S : \/ h[a].ptr \in S /\ h[a].ptr > a /\ \A b \in S : b <= a \/ h[a].ptr <= b
                     \/ h[a].ptr = 0 /\ \A b \in S : b <= a
    BY DEF Ring, Base
  <1>n. \A a \in S : a \in Nat
    BY <1>1
  <1> HIDE DEF S, C
  <1>5. 0 \in C
    <2>1. C \subseteq 0 .. t /\ C # {}
      BY <1>1, <1>2
    <2>2. PICK m \in C : \A n \in C : n <= m
      BY <1>1, <2>1, GreatestNat
    <2>3. h[m].ptr \in C /\ m \in S
      BY <1>1, <1>3
    <2>4. h[m].ptr <= m /\ m \in Nat /\ h[m].ptr \in Nat
      <3>1. h[m].ptr \in S /\ h[m].ptr <= m
        BY <1>1, <2>2, <2>3
      <3> QED BY <1>n, <2>3, <3>1
    <2>5. h[m].ptr = 0
      BY <1>4, <2>3, <2>4
    <2> QED BY <2>3, <2>5
  <1>6. ASSUME NEW q \in S \ C, \A r \in S \ C : q <= r PROVE FALSE
    <2>1. q \in Nat /\ q > 0
      BY <1>n, <1>5
    <2> DEFINE P == {s \in S : s < q}
    <2>2. P \subseteq 0 .. t /\ P # {}
      BY <1>1, <2>1
    <2>3. PICK c \in P : \A s \in P : s <= c
      <3> HIDE DEF P
      <3> QED BY <1>1, <2>2, GreatestNat
    <2>4. c \in S /\ c < q /\ c \in Nat
      BY <1>n, <2>3
    <2>5. c \in C
      BY <1>6, <2>1, <2>4
    <2>6. h[c].ptr \in C /\ h[c].ptr \in S
      BY <1>1, <1>3, <2>5
    <2>7. h[c].ptr # q
      BY <1>6, <2>6
    <2>8. h[c].ptr \in Nat
      BY <1>n, <2>6
    <2>9. h[c].ptr > c /\ h[c].ptr <= q
      BY <1>4, <2>1, <2>4
    <2>10. h[c].ptr \in P
      BY <2>1, <2>6, <2>7, <2>8, <2>9
    <2>11. h[c].ptr <= c
      <3> HIDE DEF P
      <3> QED BY <2>3, <2>10
    <2> QED BY <2>4, <2>8, <2>9, <2>11
  <1>7. S \ C = {}
    <2>1. S \ C \in SUBSET Nat
      BY <1>1
    <2> QED BY <1>6, <2>1, LeastNat
  <1> QED BY <1>7 DEF S, C

\* It does so before it has made as many steps as there are blocks.
LEMMA AlongSoon ==
  ASSUME NEW h, NEW t, Ring(h, t), NEW from \in DOMAIN h, NEW p \in DOMAIN h
  PROVE  /\ IsFiniteSet(DOMAIN h) /\ Cardinality(DOMAIN h) \in Nat
         /\ \E n \in 0 .. Cardinality(DOMAIN h) - 1 : Along(h, from, n) = p
  <1>1. IsFiniteSet(DOMAIN h) /\ Cardinality(DOMAIN h) \in Nat
    <2>1. IsFiniteSet(0 .. t)
      BY FS_Interval DEF Ring
    <2> QED BY <2>1, FS_Subset, FS_CardinalityType DEF Ring
  <1>2. PICK N \in Nat : N = Cardinality(DOMAIN h)
    BY <1>1
  <1> DEFINE T == {n \in Nat : Along(h, from, n) = p}
  <1>3. PICK n \in T : \A k \in T : n <= k
    <2>1. T \in SUBSET Nat /\ T # {}
      BY AlongAll
    <2> HIDE DEF T
    <2> QED BY <2>1, LeastNat
  <1>4. n \in Nat /\ Along(h, from, n) = p
    OBVIOUS
  <1>5. ASSUME N <= n PROVE FALSE
    <2>1. IsFiniteSet(0 .. n) /\ Cardinality(0 .. n) = n + 1
      <3>1. IsFiniteSet(0 .. n) /\ Cardinality(0 .. n) = IF 0 > n THEN 0 ELSE n - 0 + 1
        BY FS_Interval
      <3> QED BY <3>1
    <2>2. PICK f \in [0 .. n -> DOMAIN h] : \A i \in 0 .. n : f[i] = Along(h, from, i)
      <3>1. PICK f : f = [i \in 0 .. n |-> Along(h, from, i)]
        OBVIOUS
      <3>2. \A i \in 0 .. n : Along(h, from, i) \in DOMAIN h
        BY AlongIn
      <3> QED BY <3>1, <3>2
    <2>3. Cardinality(DOMAIN h) < Cardinality(0 .. n)
      BY <1>2, <1>5, <2>1
    <2>4. PICK x \in 0 .. n, y \in 0 .. n : x # y /\ f[x] = f[y]
      BY <1>1, <2>1, <2>3, FS_PigeonHole
    <2>5. PICK i \in 0 .. n, j \in 0 .. n : i < j /\ Along(h, from, i) = Along(h, from, j)
      <3>1. Along(h, from, x) = Along(h, from, y)
        BY <2>2, <2>4
      <3>2. x < y \/ y < x
        BY <2>4
      <3> QED BY <3>1, <3>2
    <2>6. PICK d \in Nat : d = n - j /\ j + d = n /\ i + d \in Nat /\ i + d < n
      <3>1. n - j \in Nat /\ j + (n - j) = n /\ i + (n - j) \in Nat /\ i + (n - j) < n
        BY <2>5
      <3> QED BY <3>1
    <2>7. Along(h, from, i + d) = Along(h, from, j + d)
      BY <2>5, AlongAlike
    <2>8. i + d \in T
      BY <1>4, <2>6, <2>7
    <2>9. n <= i + d
      <3> HIDE DEF T
      <3> QED BY <1>3, <2>8
    <2> QED BY <1>4, <2>6, <2>9
  <1>6. n \in 0 .. N - 1
    BY <1>4, <1>5
  <1> QED BY <1>1, <1>2, <1>4, <1>6

LEMMA SmallestIs ==
  ASSUME NEW T \in SUBSET Nat, T # {}
  PROVE  Smallest(T) \in T /\ \A n \in T : Smallest(T) <= n
  <1>1. \E m \in T : \A n \in T : m <= n
    BY LeastNat
  <1> QED BY <1>1 DEF Smallest

\* The search of free ends at the last block below bp.
LEMMA BeforeIs ==
  ASSUME NEW h, NEW t, Ring(h, t), NEW from \in DOMAIN h,
         NEW bp \in Nat, bp > 0, bp \notin DOMAIN h, NEW p, p = Before(h, from, bp)
  PROVE  p \in DOMAIN h /\ p < bp /\ \A b \in DOMAIN h : b <= p \/ bp < b
  <1> DEFINE S == DOMAIN h
  <1>1. S \subseteq 0 .. t /\ t \in Nat /\ 0 \in S /\ Base = 0
    BY DEF Ring, Base
  <1>2. \A a \in S : \/ h[a].ptr \in S /\ h[a].ptr > a /\ \A b \in S : b <= a \/ h[a].ptr <= b
                     \/ h[a].ptr = 0 /\ \A b \in S : b <= a
    BY DEF Ring, Base
  <1>n. \A a \in S : a \in Nat
    BY <1>1
  <1>3. ASSUME NEW a \in S, Belongs(h, a, bp) PROVE a < bp /\ \A b \in S : b <= a \/ bp < b
    <2>1. CASE h[a].ptr \in S /\ h[a].ptr > a /\ \A b \in S : b <= a \/ h[a].ptr <= b
      <3>1. h[a].ptr \in Nat /\ a \in Nat
        BY <1>n, <2>1
      <3>2. bp > a /\ bp < h[a].ptr
        BY <1>3, <2>1, <3>1 DEF Belongs
      <3> QED BY <1>n, <2>1, <3>1, <3>2
    <2>2. CASE h[a].ptr = 0 /\ \A b \in S : b <= a
      <3>1. bp > a
        BY <1>n, <1>3, <2>2 DEF Belongs
      <3> QED BY <1>n, <2>2, <3>1
    <2> QED BY <1>2, <2>1, <2>2
  <1>4. PICK a \in S : Belongs(h, a, bp)
    <2> DEFINE P == {s \in S : s < bp}
    <2>1. P \subseteq 0 .. t /\ P # {}
      BY <1>1
    <2>2. PICK a \in P : \A s \in P : s <= a
      <3> HIDE DEF P
      <3> QED BY <1>1, <2>1, GreatestNat
    <2>3. a \in S /\ a < bp /\ a \in Nat
      BY <1>n
    <2>4. CASE h[a].ptr \in S /\ h[a].ptr > a /\ \A b \in S : b <= a \/ h[a].ptr <= b
      <3>1. h[a].ptr \in Nat
        BY <1>n, <2>4
      <3>2. h[a].ptr \notin P
        <4> HIDE DEF P
        <4> QED BY <2>2, <2>3, <2>4, <3>1
      <3>3. bp < h[a].ptr
        BY <2>4, <3>1, <3>2
      <3> QED BY <2>3, <3>3 DEF Belongs
    <2>5. CASE h[a].ptr = 0 /\ \A b \in S : b <= a
      BY <2>3, <2>5 DEF Belongs
    <2> QED BY <1>2, <2>3, <2>4, <2>5
  <1>5. PICK N \in Nat : N = Cardinality(S)
    BY AlongSoon
  <1> DEFINE T == {n \in 0 .. N : Belongs(h, Along(h, from, n), bp)}
  <1>6. T \in SUBSET Nat /\ T # {}
    <2>1. PICK n \in 0 .. N - 1 : Along(h, from, n) = a
      BY <1>5, AlongSoon
    <2>2. n \in T
      BY <1>4, <2>1
    <2> QED BY <2>2
  <1>7. Smallest(T) \in T
    <2> HIDE DEF T
    <2> QED BY <1>6, SmallestIs
  <1>8. p = Along(h, from, Smallest(T))
    BY <1>5 DEF Before
  <1>9. p \in S /\ Belongs(h, p, bp)
    BY <1>7, <1>8, AlongIn
  <1> QED BY <1>3, <1>9

\* Blocks in their places, none reaching into the next one
Listed(h, t) ==
  /\ Ring(h, t) /\ h \in [DOMAIN h -> [ptr : Nat, size : Nat]]
  /\ h[Base].size = 0 /\ \A a \in DOMAIN h \ {Base} : h[a].size > 0
  /\ \A a, b \in DOMAIN h : a < b => a + h[a].size <= b

Touch(h, a, b) == a \in DOMAIN h /\ b \in DOMAIN h /\ a < b /\ a + h[a].size = b

InFree(h, u) == \E a \in DOMAIN h : a <= u /\ u < a + h[a].size

\* bp, of the given size, put behind p
Put(h, p, bp, size) ==
  [a \in DOMAIN h \cup {bp} |->
     IF a = bp THEN [ptr |-> h[p].ptr, size |-> size]
     ELSE IF a = p THEN [ptr |-> bp, size |-> h[p].size] ELSE h[a]]

\* A block joined with the next one
Merge(h, a) ==
  LET b == h[a].ptr
  IN  [c \in DOMAIN h \ {b} |->
         IF c = a THEN [ptr |-> h[b].ptr, size |-> h[a].size + h[b].size] ELSE h[c]]

LEMMA ListedIs ==
  ASSUME NEW h, NEW t, Listed(h, t)
  PROVE  /\ t \in Nat /\ 0 \in DOMAIN h /\ Base = 0 /\ h[0].size = 0
         /\ \A a \in DOMAIN h : a \in Nat /\ a <= t /\ h[a].ptr \in Nat /\ h[a].size \in Nat
         /\ \A a \in DOMAIN h : a # 0 => h[a].size > 0
         /\ \A a \in DOMAIN h : h[a] = [ptr |-> h[a].ptr, size |-> h[a].size]
         /\ \A a, b \in DOMAIN h : a < b => a + h[a].size <= b
         /\ \A a \in DOMAIN h :
              \/ h[a].ptr \in DOMAIN h /\ h[a].ptr > a /\ \A b \in DOMAIN h : b <= a \/ h[a].ptr <= b
              \/ h[a].ptr = 0 /\ \A b \in DOMAIN h : b <= a
  <1> DEFINE S == DOMAIN h
  <1>1. /\ S \subseteq 0 .. t /\ t \in Nat /\ 0 \in S /\ Base = 0 /\ h[0].size = 0
        /\ h \in [S -> [ptr : Nat, size : Nat]] /\ \A a \in S \ {0} : h[a].size > 0
        /\ \A a, b \in S : a < b => a + h[a].size <= b
    BY DEF Listed, Ring, Base
  <1>2. \A a \in S : \/ h[a].ptr \in S /\ h[a].ptr > a /\ \A b \in S : b <= a \/ h[a].ptr <= b
                     \/ h[a].ptr = 0 /\ \A b \in S : b <= a
    BY DEF Listed, Ring, Base
  <1> HIDE DEF S
  <1>3. \A a \in S : a \in Nat /\ a <= t /\ h[a] \in [ptr : Nat, size : Nat]
    BY <1>1
  <1>4. \A a \in S : h[a].ptr \in Nat /\ h[a].size \in Nat /\ h[a] = [ptr |-> h[a].ptr, size |-> h[a].size]
    BY <1>3
  <1>5. \A a \in S : a # 0 => h[a].size > 0
    BY <1>1
  <1> QED BY <1>1, <1>2, <1>3, <1>4, <1>5 DEF S

\* What makes a list
LEMMA IsListed ==
  ASSUME NEW h, NEW S, NEW t \in Nat, DOMAIN h = S, h = [a \in S |-> h[a]], 0 \in S,
         \A a \in S : a \in Nat /\ a <= t /\ h[a] \in [ptr : Nat, size : Nat],
         h[0].size = 0, \A a \in S : a # 0 => h[a].size > 0,
         \A a, b \in S : a < b => a + h[a].size <= b,
         \A a \in S : \/ h[a].ptr \in S /\ h[a].ptr > a /\ \A b \in S : b <= a \/ h[a].ptr <= b
                      \/ h[a].ptr = 0 /\ \A b \in S : b <= a
  PROVE  Listed(h, t)
  <1>1. h \in [S -> [ptr : Nat, size : Nat]] /\ S \subseteq 0 .. t
    OBVIOUS
  <1>2. Ring(h, t)
    BY <1>1 DEF Ring, Base
  <1> QED BY <1>1, <1>2 DEF Listed, Base

\* bp of the given size lies between p and the next block.
Room(h, t, p, bp, size) ==
  /\ p \in DOMAIN h /\ bp \in Nat /\ p < bp /\ bp <= t /\ \A b \in DOMAIN h : b <= p \/ bp < b
  /\ size \in Nat /\ size > 0
  /\ \A a \in DOMAIN h : a + h[a].size <= bp \/ bp + size <= a

Within(u, bp, size) == bp <= u /\ u < bp + size

LEMMA PutKeeps ==
  ASSUME NEW h, NEW t, Listed(h, t), \A a, b : ~Touch(h, a, b),
         NEW p, NEW bp, NEW size, Room(h, t, p, bp, size), NEW g, g = Put(h, p, bp, size)
  PROVE  /\ Listed(g, t) /\ DOMAIN g = DOMAIN h \cup {bp}
         /\ g[p] = [ptr |-> bp, size |-> h[p].size] /\ g[bp] = [ptr |-> h[p].ptr, size |-> size]
         /\ \A a \in DOMAIN h : a # p => g[a] = h[a]
         /\ \A u \in Nat : InFree(g, u) <=> InFree(h, u) \/ Within(u, bp, size)
         /\ \A a, b : Touch(g, a, b) => \/ a = p /\ b = bp
                                        \/ a = bp /\ b = h[p].ptr
  <1>0. /\ p \in DOMAIN h /\ bp \in Nat /\ p < bp /\ bp <= t /\ \A b \in DOMAIN h : b <= p \/ bp < b
        /\ size \in Nat /\ size > 0
        /\ \A a \in DOMAIN h : a + h[a].size <= bp \/ bp + size <= a
    BY DEF Room
  <1> USE <1>0
  <1> DEFINE S == DOMAIN h
             R == S \cup {bp}
  <1>1. /\ t \in Nat /\ 0 \in S /\ h[0].size = 0
        /\ \A a \in S : a \in Nat /\ a <= t /\ h[a].ptr \in Nat /\ h[a].size \in Nat
        /\ \A a \in S : a # 0 => h[a].size > 0
        /\ \A a \in S : h[a] = [ptr |-> h[a].ptr, size |-> h[a].size]
        /\ \A a, b \in S : a < b => a + h[a].size <= b
    BY ListedIs
  <1>2. \A a \in S : \/ h[a].ptr \in S /\ h[a].ptr > a /\ \A b \in S : b <= a \/ h[a].ptr <= b
                     \/ h[a].ptr = 0 /\ \A b \in S : b <= a
    BY ListedIs
  <1>3. bp \notin S /\ p \in Nat /\ p # bp
    BY <1>1
  <1>4. DOMAIN g = R /\ g = [a \in R |-> g[a]]
    BY DEF Put
  <1>5. g[bp] = [ptr |-> h[p].ptr, size |-> size] /\ g[p] = [ptr |-> bp, size |-> h[p].size]
    BY <1>3 DEF Put
  <1>6. \A a \in S : a # p => g[a] = h[a]
    BY <1>3 DEF Put
  <1>7. /\ g[bp].ptr = h[p].ptr /\ g[bp].size = size /\ g[p].ptr = bp
        /\ \A a \in S : g[a].size = h[a].size /\ (a # p => g[a].ptr = h[a].ptr)
    BY <1>5, <1>6
  <1> HIDE DEF S
  <1>8. \A a \in R : a \in Nat /\ a <= t /\ g[a] \in [ptr : Nat, size : Nat]
    <2>1. g[bp] \in [ptr : Nat, size : Nat] /\ g[p] \in [ptr : Nat, size : Nat]
      BY <1>1, <1>5 DEF S
    <2>2. ASSUME NEW a \in S, a # p PROVE g[a] \in [ptr : Nat, size : Nat]
      <3>1. g[a] = [ptr |-> h[a].ptr, size |-> h[a].size] /\ h[a].ptr \in Nat /\ h[a].size \in Nat
        BY <1>1, <1>6, <2>2
      <3> QED BY <3>1
    <2> QED BY <1>1, <2>1, <2>2
  <1>9. \A a \in R : a # 0 => g[a].size > 0
    BY <1>1, <1>7
  <1>10. \A a, b \in R : a < b => a + g[a].size <= b
    <2>1. ASSUME NEW a \in S, a < bp PROVE a + g[a].size <= bp
      <3>1. a + h[a].size <= bp \/ bp + size <= a
        BY DEF S
      <3> QED BY <1>1, <1>7, <2>1, <3>1
    <2>2. ASSUME NEW b \in S, bp < b PROVE bp + g[bp].size <= b
      <3>1. b + h[b].size <= bp \/ bp + size <= b
        BY DEF S
      <3> QED BY <1>1, <1>7, <2>2, <3>1
    <2> QED BY <1>1, <1>7, <2>1, <2>2
  <1>11. \A a \in R : \/ g[a].ptr \in R /\ g[a].ptr > a /\ \A b \in R : b <= a \/ g[a].ptr <= b
                      \/ g[a].ptr = 0 /\ \A b \in R : b <= a
    <2>0. p \in S /\ \A b \in S : b <= p \/ bp < b
      BY DEF S
    <2>1. /\ g[p].ptr \in R /\ g[p].ptr > p /\ \A b \in R : b <= p \/ g[p].ptr <= b
      BY <1>1, <1>3, <1>7, <2>0
    <2>2. \/ g[bp].ptr \in R /\ g[bp].ptr > bp /\ \A b \in R : b <= bp \/ g[bp].ptr <= b
          \/ g[bp].ptr = 0 /\ \A b \in R : b <= bp
      <3>1. CASE h[p].ptr \in S /\ h[p].ptr > p /\ \A b \in S : b <= p \/ h[p].ptr <= b
        BY <1>1, <1>3, <1>7, <2>0, <3>1
      <3>2. CASE h[p].ptr = 0 /\ \A b \in S : b <= p
        BY <1>1, <1>3, <1>7, <2>0, <3>2
      <3> QED BY <1>2, <2>0, <3>1, <3>2
    <2>3. ASSUME NEW a \in S, a # p
          PROVE  \/ g[a].ptr \in R /\ g[a].ptr > a /\ \A b \in R : b <= a \/ g[a].ptr <= b
                 \/ g[a].ptr = 0 /\ \A b \in R : b <= a
      <3>1. CASE h[a].ptr \in S /\ h[a].ptr > a /\ \A b \in S : b <= a \/ h[a].ptr <= b
        <4>1. bp <= a \/ h[a].ptr <= bp
          BY <1>1, <1>3, <2>0, <2>3, <3>1
        <4> QED BY <1>1, <1>7, <2>3, <3>1, <4>1
      <3>2. CASE h[a].ptr = 0 /\ \A b \in S : b <= a
        BY <1>1, <1>3, <1>7, <2>0, <2>3, <3>2
      <3> QED BY <1>2, <3>1, <3>2
    <2> QED BY <2>1, <2>2, <2>3
  <1>12. Listed(g, t)
    <2>1. 0 \in R /\ g[0].size = 0
      BY <1>1, <1>7
    <2> HIDE DEF R
    <2> QED BY <1>1, <1>4, <1>8, <1>9, <1>10, <1>11, <2>1, IsListed
  <1>13. ASSUME NEW u \in Nat PROVE InFree(g, u) <=> InFree(h, u) \/ Within(u, bp, size)
    BY <1>4, <1>7 DEF InFree, Within, S
  <1>14. ASSUME NEW a, NEW b, Touch(g, a, b) PROVE (a = p /\ b = bp) \/ (a = bp /\ b = h[p].ptr)
    <2>1. a \in R /\ b \in R /\ a < b /\ a + g[a].size = b
      BY <1>4, <1>14 DEF Touch
    <2>2. CASE a \in S /\ b \in S
      <3>1. Touch(h, a, b)
        BY <1>7, <2>1, <2>2 DEF Touch, S
      <3> QED BY <2>2, <3>1 DEF S
    <2>3. CASE a \in S /\ b = bp
      <3>1. a <= p
        BY <1>1, <2>1, <2>3 DEF S
      <3>2. a < p => a + h[a].size <= p
        BY <1>1, <2>3 DEF S
      <3> QED BY <1>1, <1>3, <1>7, <2>1, <2>3, <3>1, <3>2
    <2>4. CASE a = bp /\ b \in S
      <3>1. p < b /\ p \in S
        BY <1>1, <1>3, <2>1, <2>4 DEF S
      <3>2. h[p].ptr \in S /\ h[p].ptr > p /\ h[p].ptr <= b
        BY <1>1, <1>2, <1>3, <2>4, <3>1
      <3>3. bp < h[p].ptr
        BY <1>1, <1>3, <3>2 DEF S
      <3>4. bp + g[bp].size <= h[p].ptr
        BY <1>10, <3>2, <3>3
      <3>5. PICK q \in Nat, e \in Nat : q = h[p].ptr /\ e = g[bp].size /\ b \in Nat
        BY <1>1, <1>7, <2>4, <3>1
      <3>6. q <= b /\ bp + e <= q /\ bp + e = b
        BY <2>1, <2>4, <3>2, <3>4, <3>5
      <3>7. b = q
        BY <3>5, <3>6
      <3> QED BY <2>4, <3>5, <3>7
    <2> QED BY <2>1, <2>2, <2>3, <2>4, <1>3
  <1> QED BY <1>4, <1>5, <1>6, <1>12, <1>13, <1>14 DEF S

\* a ends where the next block begins.
Meets(g, a) == a \in DOMAIN g /\ a # 0 /\ a + g[a].size = g[a].ptr

LEMMA MergeKeeps ==
  ASSUME NEW g, NEW t, Listed(g, t), NEW a, Meets(g, a),
         NEW b, b = g[a].ptr, NEW m, m = Merge(g, a)
  PROVE  /\ Listed(m, t) /\ DOMAIN m = DOMAIN g \ {b} /\ b \in DOMAIN g /\ a < b
         /\ m[a] = [ptr |-> g[b].ptr, size |-> g[a].size + g[b].size]
         /\ \A c \in DOMAIN g \ {b} : c # a => m[c] = g[c]
         /\ \A u \in Nat : InFree(m, u) <=> InFree(g, u)
         /\ \A c, d : Touch(m, c, d) => \/ c # a /\ d # b /\ Touch(g, c, d)
                                        \/ c = a /\ Touch(g, b, d)
  <1>0. a \in DOMAIN g /\ a # 0 /\ a + g[a].size = g[a].ptr
    BY DEF Meets
  <1> USE <1>0
  <1> DEFINE S == DOMAIN g
             R == S \ {b}
  <1>1. /\ t \in Nat /\ 0 \in S /\ g[0].size = 0
        /\ \A c \in S : c \in Nat /\ c <= t /\ g[c].ptr \in Nat /\ g[c].size \in Nat
        /\ \A c \in S : c # 0 => g[c].size > 0
        /\ \A c \in S : g[c] = [ptr |-> g[c].ptr, size |-> g[c].size]
        /\ \A c, d \in S : c < d => c + g[c].size <= d
    BY ListedIs
  <1>2. \A c \in S : \/ g[c].ptr \in S /\ g[c].ptr > c /\ \A d \in S : d <= c \/ g[c].ptr <= d
                     \/ g[c].ptr = 0 /\ \A d \in S : d <= c
    BY ListedIs
  <1>3. DOMAIN m = R /\ m = [c \in R |-> m[c]]
    BY DEF Merge
  <1>4. a \in S /\ a \in Nat /\ g[a].size > 0 /\ g[a].size \in Nat /\ b \in Nat
    BY <1>1
  <1>5. a < b /\ b # 0
    BY <1>4
  <1>6. b \in S /\ \A d \in S : d <= a \/ b <= d
    BY <1>2, <1>4, <1>5
  <1>7. m[a] = [ptr |-> g[b].ptr, size |-> g[a].size + g[b].size]
    BY <1>4, <1>5 DEF Merge
  <1>8. \A c \in R : c # a => m[c] = g[c]
    BY DEF Merge
  <1> HIDE DEF S
  <1>9. /\ m[a].ptr = g[b].ptr /\ m[a].size = g[a].size + g[b].size
        /\ \A c \in R : c # a => m[c].ptr = g[c].ptr /\ m[c].size = g[c].size
    BY <1>7, <1>8
  <1>10. PICK z \in Nat, e \in Nat, q \in Nat : z = g[a].size /\ e = g[b].size /\ q = g[b].ptr /\ z > 0 /\ e > 0
    BY <1>1, <1>4, <1>5, <1>6
  <1>11. b = a + z /\ m[a].ptr = q /\ m[a].size = z + e
    BY <1>4, <1>9, <1>10
  <1>12. \A c \in R : c \in Nat /\ c <= t /\ m[c] \in [ptr : Nat, size : Nat]
    <2>1. m[a] \in [ptr : Nat, size : Nat]
      BY <1>7, <1>10
    <2>2. ASSUME NEW c \in R, c # a PROVE m[c] \in [ptr : Nat, size : Nat]
      <3>1. m[c] = [ptr |-> g[c].ptr, size |-> g[c].size] /\ g[c].ptr \in Nat /\ g[c].size \in Nat
        BY <1>1, <1>8, <2>2
      <3> QED BY <3>1
    <2> QED BY <1>1, <2>1, <2>2
  <1>13. \A c \in R : c # 0 => m[c].size > 0
    BY <1>1, <1>9, <1>10, <1>11
  <1>14. \A c, d \in R : c < d => c + m[c].size <= d
    <2>1. ASSUME NEW d \in R, a < d PROVE a + m[a].size <= d
      <3>1. b < d /\ d \in Nat
        BY <1>1, <1>4, <1>6, <2>1
      <3>2. b + e <= d
        BY <1>1, <1>6, <1>10, <3>1
      <3>3. a + (z + e) = b + e
        BY <1>4, <1>10, <1>11
      <3> QED BY <1>11, <3>2, <3>3
    <2> QED BY <1>1, <1>9, <2>1
  <1>15. \A c \in R : \/ m[c].ptr \in R /\ m[c].ptr > c /\ \A d \in R : d <= c \/ m[c].ptr <= d
                      \/ m[c].ptr = 0 /\ \A d \in R : d <= c
    <2>1. \/ m[a].ptr \in R /\ m[a].ptr > a /\ \A d \in R : d <= a \/ m[a].ptr <= d
          \/ m[a].ptr = 0 /\ \A d \in R : d <= a
      <3>1. CASE q \in S /\ q > b /\ \A d \in S : d <= b \/ q <= d
        <4>1. \A d \in R : d <= a \/ q <= d
          BY <1>1, <1>4, <1>6, <3>1
        <4> QED BY <1>4, <1>5, <1>11, <3>1, <4>1
      <3>2. CASE q = 0 /\ \A d \in S : d <= b
        <4>1. \A d \in R : d <= a
          BY <1>1, <1>4, <1>6, <3>2
        <4> QED BY <1>11, <3>2, <4>1
      <3> QED BY <1>2, <1>6, <1>10, <3>1, <3>2
    <2>2. ASSUME NEW c \in R, c # a
          PROVE  \/ m[c].ptr \in R /\ m[c].ptr > c /\ \A d \in R : d <= c \/ m[c].ptr <= d
                 \/ m[c].ptr = 0 /\ \A d \in R : d <= c
      <3>1. CASE g[c].ptr \in S /\ g[c].ptr > c /\ \A d \in S : d <= c \/ g[c].ptr <= d
        <4>1. g[c].ptr # b
          <5>1. a <= c \/ b <= a \/ g[c].ptr # b
            BY <1>1, <1>4, <3>1
          <5>2. c <= a \/ b <= c
            BY <1>6, <2>2
          <5> QED BY <1>1, <1>4, <1>5, <2>2, <3>1, <5>1, <5>2
        <4> QED BY <1>9, <2>2, <3>1, <4>1
      <3>2. CASE g[c].ptr = 0 /\ \A d \in S : d <= c
        BY <1>9, <2>2, <3>2
      <3> QED BY <1>2, <2>2, <3>1, <3>2
    <2> QED BY <2>1, <2>2
  <1>16. Listed(m, t)
    <2>1. 0 \in R /\ m[0].size = 0
      BY <1>1, <1>5, <1>9
    <2> HIDE DEF R
    <2> QED BY <1>1, <1>3, <1>12, <1>13, <1>14, <1>15, <2>1, IsListed
  <1>17. ASSUME NEW u \in Nat PROVE InFree(m, u) <=> InFree(g, u)
    <2>1. InFree(m, u) <=> \E c \in R : c <= u /\ u < c + m[c].size
      BY <1>3 DEF InFree
    <2>2. InFree(g, u) <=> \E c \in S : c <= u /\ u < c + g[c].size
      BY DEF InFree, S
    <2>3. a <= u /\ u < a + (z + e) <=> (a <= u /\ u < a + z) \/ (b <= u /\ u < b + e)
      BY <1>4, <1>10, <1>11
    <2>4. ASSUME NEW c \in R, c <= u, u < c + m[c].size PROVE \E d \in S : d <= u /\ u < d + g[d].size
      <3>1. CASE c = a
        BY <1>4, <1>6, <1>10, <1>11, <2>3, <2>4, <3>1
      <3>2. CASE c # a
        BY <1>9, <2>4, <3>2
      <3> QED BY <3>1, <3>2
    <2>5. ASSUME NEW c \in S, c <= u, u < c + g[c].size PROVE \E d \in R : d <= u /\ u < d + m[d].size
      <3>1. CASE c = a \/ c = b
        <4>1. a \in R
          BY <1>4, <1>5
        <4> QED BY <1>10, <1>11, <2>3, <2>5, <3>1, <4>1
      <3>2. CASE c # a /\ c # b
        BY <1>9, <2>5, <3>2
      <3> QED BY <3>1, <3>2
    <2> QED BY <2>1, <2>2, <2>4, <2>5
  <1>18. ASSUME NEW c, NEW d, Touch(m, c, d)
         PROVE  \/ c # a /\ d # b /\ Touch(g, c, d)
                \/ c = a /\ Touch(g, b, d)
    <2>1. c \in R /\ d \in R /\ c < d /\ c + m[c].size = d
      BY <1>3, <1>18 DEF Touch
    <2>2. CASE c = a
      <3>1. b < d /\ d \in Nat
        BY <1>1, <1>4, <1>6, <2>1, <2>2
      <3>2. b + e = d
        BY <1>4, <1>10, <1>11, <2>1, <2>2, <3>1
      <3> QED BY <1>6, <1>10, <2>1, <2>2, <3>1, <3>2 DEF Touch, S
    <2>3. CASE c # a
      BY <1>9, <2>1, <2>3 DEF Touch, S
    <2> QED BY <2>2, <2>3
  <1> QED BY <1>3, <1>5, <1>6, <1>7, <1>8, <1>16, <1>17, <1>18 DEF S

\* free joins the new block with its neighbours as if it were first put in
\* its place and then merged.
LEMMA JoinedIs ==
  ASSUME NEW h, NEW t, Listed(h, t), NEW p \in DOMAIN h, NEW bp \in Nat, p < bp,
         \A b \in DOMAIN h : b <= p \/ bp < b, NEW size \in Nat,
         NEW i, i = Put(h, p, bp, size),
         NEW u, u = (IF bp + size = h[p].ptr THEN Merge(i, bp) ELSE i),
         NEW d, d = (IF p + u[p].size = bp THEN Merge(u, p) ELSE u)
  PROVE  JoinedDown(JoinedUp(h, p, bp, size), p, bp) = d
  <1> DEFINE S == DOMAIN h
             q == h[p].ptr
             j == JoinedUp(h, p, bp, size)
  <1>1. /\ \A a \in S : a \in Nat /\ h[a].ptr \in Nat /\ h[a].size \in Nat
        /\ \A a \in S : h[a] = [ptr |-> h[a].ptr, size |-> h[a].size]
    BY ListedIs
  <1>2. bp \notin S /\ p \in S /\ p \in Nat /\ p # bp
    BY <1>1
  <1>3. /\ DOMAIN i = S \cup {bp} /\ i[bp] = [ptr |-> q, size |-> size] /\ i[p] = [ptr |-> bp, size |-> h[p].size]
        /\ \A a \in S : a # p => i[a] = h[a]
    BY <1>2 DEF Put
  <1>4. /\ DOMAIN u = DOMAIN j /\ u = [a \in DOMAIN j |-> u[a]] /\ j = [a \in DOMAIN j |-> j[a]]
        /\ u[bp] = j[bp] /\ u[p] = [ptr |-> bp, size |-> h[p].size] /\ j[p] = h[p]
        /\ p \in DOMAIN j /\ bp \in DOMAIN j
        /\ \A a \in DOMAIN j : a # p => u[a] = j[a]
    <2>1. CASE bp + size = q
      <3>1. q \in Nat /\ q # p /\ bp <= q
        BY <1>1, <1>2, <2>1
      <3>2. q # bp /\ q # 0 /\ q \in S
        <4>1. q # 0
          BY <1>2, <2>1
        <4>2. q \in S
          BY <4>1, ListedIs
        <4> QED BY <1>2, <4>1, <4>2
      <3>3. /\ DOMAIN j = (S \ {q}) \cup {bp} /\ j = [a \in DOMAIN j |-> j[a]]
            /\ j[bp] = [ptr |-> h[q].ptr, size |-> size + h[q].size]
            /\ \A a \in DOMAIN j : a # bp => j[a] = h[a]
        BY <2>1 DEF JoinedUp
      <3>4. i[bp].ptr = q /\ i[bp].size = size /\ i[q] = h[q]
        BY <1>3, <3>1, <3>2
      <3>5. /\ DOMAIN u = (S \cup {bp}) \ {q} /\ u = [a \in DOMAIN u |-> u[a]]
            /\ u[bp] = [ptr |-> h[q].ptr, size |-> size + h[q].size]
            /\ \A a \in DOMAIN u : a # bp => u[a] = i[a]
        BY <1>3, <2>1, <3>2, <3>4 DEF Merge
      <3>6. DOMAIN u = DOMAIN j /\ p \in DOMAIN j /\ bp \in DOMAIN j
        BY <1>2, <3>1, <3>2, <3>3, <3>5
      <3> QED BY <1>2, <1>3, <3>3, <3>5, <3>6
    <2>2. CASE bp + size # q
      <3>1. /\ DOMAIN j = S \cup {bp} /\ j = [a \in DOMAIN j |-> j[a]] /\ j[bp] = [ptr |-> q, size |-> size]
            /\ \A a \in S : j[a] = h[a]
        BY <1>2, <2>2 DEF JoinedUp
      <3>2. u = i /\ u = [a \in DOMAIN u |-> u[a]]
        BY <2>2 DEF Put
      <3> QED BY <1>2, <1>3, <3>1, <3>2
    <2> QED BY <2>1, <2>2
  <1>5. u[p].ptr = bp /\ u[p].size = h[p].size /\ j[p].size = h[p].size /\ j[p] = [ptr |-> q, size |-> h[p].size]
    BY <1>1, <1>2, <1>4
  <1> HIDE DEF j, q
  <1>6. JoinedDown(j, p, bp) = d
    <2>1. CASE p + h[p].size = bp
      <3>1. JoinedDown(j, p, bp) = Unlinked([j EXCEPT ![p] = [ptr |-> j[bp].ptr, size |-> j[p].size + j[bp].size]], bp)
        BY <1>5, <2>1 DEF JoinedDown
      <3>2. JoinedDown(j, p, bp) = [a \in DOMAIN j \ {bp} |->
              IF a = p THEN [ptr |-> j[bp].ptr, size |-> h[p].size + j[bp].size] ELSE j[a]]
        BY <1>2, <1>4, <1>5, <3>1 DEF Unlinked
      <3>3. d = [a \in DOMAIN j \ {bp} |->
              IF a = p THEN [ptr |-> j[bp].ptr, size |-> h[p].size + j[bp].size] ELSE u[a]]
        <4>1. d = [a \in DOMAIN u \ {bp} |->
                IF a = p THEN [ptr |-> u[bp].ptr, size |-> u[p].size + u[bp].size] ELSE u[a]]
          BY <1>5, <2>1 DEF Merge
        <4> QED BY <1>4, <1>5, <4>1
      <3>4. \A a \in DOMAIN j \ {bp} : a # p => u[a] = j[a]
        BY <1>4
      <3> QED BY <3>2, <3>3, <3>4
    <2>2. CASE p + h[p].size # bp
      <3>1. JoinedDown(j, p, bp) = [j EXCEPT ![p].ptr = bp] /\ d = u
        BY <1>5, <2>2 DEF JoinedDown
      <3>2. [j EXCEPT ![p].ptr = bp] = [a \in DOMAIN j |-> IF a = p THEN [ptr |-> bp, size |-> h[p].size] ELSE j[a]]
        BY <1>4, <1>5
      <3>3. u = [a \in DOMAIN j |-> IF a = p THEN [ptr |-> bp, size |-> h[p].size] ELSE j[a]]
        BY <1>4
      <3> QED BY <3>1, <3>2, <3>3
    <2> QED BY <2>1, <2>2
  <1> QED BY <1>6 DEF j

\* ... and no two blocks touching
Tidy(h, t) == Listed(h, t) /\ \A a, b : ~Touch(h, a, b)

\* What free, and morecore, do to the list
LEMMA FreedKeeps ==
  ASSUME NEW h, NEW t, Tidy(h, t), NEW from \in DOMAIN h,
         NEW bp \in Nat, bp > 0, bp <= t, NEW size \in Nat, size > 0,
         \A a \in DOMAIN h : a + h[a].size <= bp \/ bp + size <= a,
         NEW r, r = FreedIn(h, from, bp, size)
  PROVE  /\ Tidy(r.hdr, t) /\ r.freep \in DOMAIN r.hdr
         /\ \A u \in Nat : InFree(r.hdr, u) <=> InFree(h, u) \/ Within(u, bp, size)
         /\ \E a \in DOMAIN r.hdr : a # 0 /\ r.hdr[a].size >= size
  <1>1. /\ Listed(h, t) /\ \A a, b : ~Touch(h, a, b)
        /\ h[0].size = 0 /\ \A a \in DOMAIN h : a \in Nat /\ h[a].ptr \in Nat /\ h[a].size \in Nat
        /\ \A a \in DOMAIN h : a # 0 => h[a].size > 0
    BY ListedIs DEF Tidy
  <1>2. bp \notin DOMAIN h
    BY <1>1
  <1>3. PICK p : p = Before(h, from, bp)
    OBVIOUS
  <1>4. p \in DOMAIN h /\ p < bp /\ \A b \in DOMAIN h : b <= p \/ bp < b
    BY <1>1, <1>2, <1>3, BeforeIs DEF Listed
  <1>5. PICK i : i = Put(h, p, bp, size)
    OBVIOUS
  <1>6. PICK u : u = IF bp + size = h[p].ptr THEN Merge(i, bp) ELSE i
    OBVIOUS
  <1>7. PICK d : d = IF p + u[p].size = bp THEN Merge(u, p) ELSE u
    OBVIOUS
  <1>8. r = [hdr |-> d, freep |-> p]
    <2>1. JoinedDown(JoinedUp(h, p, bp, size), p, bp) = d
      BY <1>1, <1>4, <1>5, <1>6, <1>7, JoinedIs
    <2> QED BY <1>3, <2>1 DEF FreedIn
  <1>9. /\ Listed(i, t) /\ DOMAIN i = DOMAIN h \cup {bp}
        /\ i[p] = [ptr |-> bp, size |-> h[p].size] /\ i[bp] = [ptr |-> h[p].ptr, size |-> size]
        /\ \A v \in Nat : InFree(i, v) <=> InFree(h, v) \/ Within(v, bp, size)
        /\ \A a, b : Touch(i, a, b) => \/ a = p /\ b = bp
                                       \/ a = bp /\ b = h[p].ptr
    <2>1. Listed(h, t) /\ (\A a, b : ~Touch(h, a, b)) /\ Room(h, t, p, bp, size) /\ i = Put(h, p, bp, size)
      BY <1>1, <1>4, <1>5 DEF Room
    <2> QED BY <2>1, PutKeeps
  <1>10. /\ Listed(u, t) /\ p \in DOMAIN u /\ bp \in DOMAIN u
         /\ u[p] = [ptr |-> bp, size |-> h[p].size] /\ u[bp].size \in Nat /\ u[bp].size >= size
         /\ \A v \in Nat : InFree(u, v) <=> InFree(i, v)
         /\ \A a, b : Touch(u, a, b) => a = p /\ b = bp
    <2>1. CASE bp + size = h[p].ptr
      <3>1. i[bp].ptr = h[p].ptr /\ i[bp].size = size /\ bp \in DOMAIN i /\ bp # 0
        BY <1>9
      <3>2. u = Merge(i, bp) /\ bp + i[bp].size = i[bp].ptr
        BY <1>6, <2>1, <3>1
      <3>3. PICK q : q = i[bp].ptr
        OBVIOUS
      <3>4. /\ Listed(u, t) /\ DOMAIN u = DOMAIN i \ {q} /\ q \in DOMAIN i /\ bp < q
            /\ u[bp] = [ptr |-> i[q].ptr, size |-> i[bp].size + i[q].size]
            /\ \A c \in DOMAIN i \ {q} : c # bp => u[c] = i[c]
            /\ \A v \in Nat : InFree(u, v) <=> InFree(i, v)
            /\ \A a, b : Touch(u, a, b) => \/ a # bp /\ b # q /\ Touch(i, a, b)
                                           \/ a = bp /\ Touch(i, q, b)
        <4>1. /\ Listed(i, t) /\ Meets(i, bp) /\ q = i[bp].ptr /\ u = Merge(i, bp)
          BY <1>9, <3>1, <3>2, <3>3 DEF Meets
        <4> QED BY <4>1, MergeKeeps
      <3>5. p \in Nat /\ q \in Nat /\ p # q /\ q # bp /\ p # bp
        BY <1>1, <1>4, <3>1, <3>3, <3>4
      <3>6. i[q].size \in Nat
        BY <1>9, <3>4, ListedIs
      <3>7. u[bp].size \in Nat /\ u[bp].size >= size
        BY <3>1, <3>4, <3>6
      <3>8. p \in DOMAIN u /\ bp \in DOMAIN u /\ u[p] = i[p]
        BY <1>4, <1>9, <3>4, <3>5
      <3>9. ASSUME NEW a, NEW b, Touch(u, a, b) PROVE a = p /\ b = bp
        <4>1. CASE a # bp /\ b # q /\ Touch(i, a, b)
          BY <1>9, <4>1
        <4>2. CASE a = bp /\ Touch(i, q, b)
          BY <1>9, <3>5, <4>2
        <4> QED BY <3>4, <3>9, <4>1, <4>2
      <3> QED BY <1>9, <3>4, <3>7, <3>8, <3>9
    <2>2. CASE bp + size # h[p].ptr
      <3>1. u = i /\ i[bp].size = size /\ i[bp].ptr = h[p].ptr /\ p \in DOMAIN i /\ bp \in DOMAIN i
        BY <1>4, <1>6, <1>9, <2>2
      <3>2. ASSUME NEW a, NEW b, Touch(i, a, b) PROVE a = p /\ b = bp
        <4>1. ~(a = bp /\ b = h[p].ptr)
          BY <2>2, <3>1, <3>2 DEF Touch
        <4> QED BY <1>9, <3>2, <4>1
      <3> QED BY <1>9, <3>1, <3>2
    <2> QED BY <2>1, <2>2
  <1>11. /\ Listed(d, t) /\ (\A a, b : ~Touch(d, a, b)) /\ p \in DOMAIN d
         /\ \A v \in Nat : InFree(d, v) <=> InFree(u, v)
         /\ \E a \in DOMAIN d : a # 0 /\ d[a].size >= size
    <2>1. u[p].ptr = bp /\ u[p].size = h[p].size /\ p \in Nat /\ h[p].size \in Nat
      BY <1>1, <1>4, <1>10
    <2>2. CASE p + u[p].size = bp
      <3>1. p # 0 /\ d = Merge(u, p) /\ p + u[p].size = u[p].ptr
        BY <1>1, <1>7, <2>1, <2>2
      <3>2. /\ Listed(d, t) /\ DOMAIN d = DOMAIN u \ {bp}
            /\ d[p] = [ptr |-> u[bp].ptr, size |-> u[p].size + u[bp].size]
            /\ \A v \in Nat : InFree(d, v) <=> InFree(u, v)
            /\ \A a, b : Touch(d, a, b) => \/ a # p /\ b # bp /\ Touch(u, a, b)
                                           \/ a = p /\ Touch(u, bp, b)
        <4>1. PICK q : q = bp
          OBVIOUS
        <4>2. /\ Listed(u, t) /\ Meets(u, p) /\ q = u[p].ptr /\ d = Merge(u, p)
          BY <1>10, <2>1, <3>1, <4>1 DEF Meets
        <4>3. /\ Listed(d, t) /\ DOMAIN d = DOMAIN u \ {q}
              /\ d[p] = [ptr |-> u[q].ptr, size |-> u[p].size + u[q].size]
              /\ \A v \in Nat : InFree(d, v) <=> InFree(u, v)
              /\ \A a, b : Touch(d, a, b) => \/ a # p /\ b # q /\ Touch(u, a, b)
                                             \/ a = p /\ Touch(u, q, b)
          BY <4>2, MergeKeeps
        <4> QED BY <4>1, <4>3
      <3>3. p \in DOMAIN d
        BY <1>4, <1>10, <2>1, <3>2
      <3>4. d[p].size >= size
        BY <1>10, <2>1, <3>2
      <3>5. ASSUME NEW a, NEW b, Touch(d, a, b) PROVE FALSE
        BY <1>4, <1>10, <2>1, <3>2, <3>5
      <3> QED BY <3>1, <3>2, <3>3, <3>4, <3>5
    <2>3. CASE p + u[p].size # bp
      <3>1. d = u
        BY <1>7, <2>3
      <3>2. ASSUME NEW a, NEW b, Touch(u, a, b) PROVE FALSE
        BY <1>10, <2>3, <3>2 DEF Touch
      <3> QED BY <1>10, <3>1, <3>2
    <2> QED BY <2>2, <2>3
  <1>12. r.hdr = d /\ r.freep = p
    BY <1>8
  <1> QED BY <1>9, <1>10, <1>11, <1>12 DEF Tidy

LEMMA AlongNext ==
  ASSUME NEW h, NEW from, NEW k \in Nat, NEW a, a = Along(h, from, k)
  PROVE  Along(h, from, k + 1) = h[a].ptr
  BY AlongIs

\* What the search of malloc finds
LEMMA FitsThere ==
  ASSUME NEW h, NEW t, Listed(h, t), NEW from \in DOMAIN h, NEW units,
         NEW a \in DOMAIN h, a # 0, h[a].size >= units
  PROVE  Fits(h, from, units) # {}
  <1> DEFINE S == DOMAIN h
  <1>1. /\ t \in Nat /\ 0 \in S /\ \A b \in S : b \in Nat /\ b <= t /\ h[b].ptr \in Nat
        /\ \A b \in S : \/ h[b].ptr \in S /\ h[b].ptr > b /\ \A c \in S : c <= b \/ h[b].ptr <= c
                        \/ h[b].ptr = 0 /\ \A c \in S : c <= b
    BY ListedIs
  <1>2. PICK c \in S : h[c].ptr = a
    <2> DEFINE P == {s \in S : s < a}
    <2>1. P \subseteq 0 .. t /\ P # {}
      BY <1>1
    <2>2. PICK c \in P : \A s \in P : s <= c
      <3> HIDE DEF P
      <3> QED BY <1>1, <2>1, GreatestNat
    <2>3. c \in S /\ c < a /\ c \in Nat /\ a \in Nat /\ h[c].ptr \in Nat
      BY <1>1
    <2>4. h[c].ptr \in S /\ h[c].ptr > c /\ h[c].ptr <= a
      BY <1>1, <2>3
    <2>5. h[c].ptr \notin P
      <3> HIDE DEF P
      <3> QED BY <2>2, <2>3, <2>4
    <2> QED BY <2>3, <2>4, <2>5
  <1>3. PICK N \in Nat : N = Cardinality(DOMAIN h)
    BY AlongSoon DEF Listed
  <1>4. PICK n \in 0 .. N - 1 : Along(h, from, n) = c
    <2>1. Ring(h, t)
      BY DEF Listed
    <2>2. \E n \in 0 .. Cardinality(DOMAIN h) - 1 : Along(h, from, n) = c
      BY <1>2, <2>1, AlongSoon
    <2> QED BY <1>3, <2>2
  <1>5. Along(h, from, n + 1) = a /\ n + 1 \in 1 .. N
    <2>1. PICK k \in Nat : k = n
      BY <1>3, <1>4
    <2>2. Along(h, from, k + 1) = h[c].ptr
      BY <1>4, <2>1, AlongNext
    <2>3. Along(h, from, n + 1) = a
      BY <1>2, <2>1, <2>2
    <2> QED BY <1>3, <1>4, <2>3
  <1> QED BY <1>3, <1>5 DEF Fits

LEMMA FitsIs ==
  ASSUME NEW h, NEW t, Listed(h, t), NEW from \in DOMAIN h, NEW units \in Nat, units > 0,
         Fits(h, from, units) # {},
         NEW n, n = Smallest(Fits(h, from, units)), NEW prevp, prevp = Along(h, from, n - 1),
         NEW p, p = Along(h, from, n)
  PROVE  /\ p \in DOMAIN h /\ prevp \in DOMAIN h /\ p = h[prevp].ptr /\ p # 0 /\ h[p].size >= units
         /\ prevp < p /\ \A b \in DOMAIN h : b <= prevp \/ p <= b
  <1>1. PICK N \in Nat : N = Cardinality(DOMAIN h)
    BY AlongSoon DEF Listed
  <1>2. Fits(h, from, units) \in SUBSET Nat
    BY <1>1 DEF Fits
  <1>3. n \in Fits(h, from, units)
    BY <1>2, SmallestIs
  <1>4. n \in 1 .. N /\ h[p].size >= units
    BY <1>1, <1>3 DEF Fits
  <1>5. PICK k \in Nat : k = n - 1 /\ n = k + 1
    BY <1>4
  <1>6. p \in DOMAIN h /\ prevp \in DOMAIN h /\ p = h[prevp].ptr
    <2>1. prevp = Along(h, from, k) /\ p = Along(h, from, k + 1)
      BY <1>5
    <2>2. Along(h, from, k + 1) = h[prevp].ptr
      BY <2>1, AlongNext
    <2>3. p = h[prevp].ptr
      BY <2>1, <2>2
    <2>4. Ring(h, t)
      BY DEF Listed
    <2>5. Along(h, from, k) \in DOMAIN h /\ Along(h, from, k + 1) \in DOMAIN h
      BY <1>5, <2>4, AlongIn
    <2>6. p \in DOMAIN h /\ prevp \in DOMAIN h
      BY <2>1, <2>5
    <2> QED BY <2>3, <2>6
  <1>7. p # 0
    BY <1>4, ListedIs
  <1> QED BY <1>4, <1>6, <1>7, ListedIs


\* p, behind q, taken out
Without(h, q, p) ==
  [b \in DOMAIN h \ {p} |-> IF b = q THEN [ptr |-> h[p].ptr, size |-> h[q].size] ELSE h[b]]

\* p made smaller
Shortened(h, p, units) ==
  [b \in DOMAIN h |-> IF b = p THEN [ptr |-> h[p].ptr, size |-> h[p].size - units] ELSE h[b]]

LEMMA UnlinkKeeps ==
  ASSUME NEW h, NEW t, Tidy(h, t), NEW q \in DOMAIN h, NEW p \in DOMAIN h, q < p, p # 0,
         p = h[q].ptr, \A b \in DOMAIN h : b <= q \/ p <= b, NEW g, g = Without(h, q, p)
  PROVE  /\ Tidy(g, t) /\ q \in DOMAIN g
         /\ \A u \in Nat : InFree(h, u) <=> InFree(g, u) \/ Within(u, p, h[p].size)
         /\ \A u \in Nat : ~(InFree(g, u) /\ Within(u, p, h[p].size))
  <1> DEFINE S == DOMAIN h
             R == S \ {p}
  <1>1. Listed(h, t) /\ \A a, b : ~Touch(h, a, b)
    BY DEF Tidy
  <1>2. /\ t \in Nat /\ 0 \in S /\ h[0].size = 0
        /\ \A a \in S : a \in Nat /\ a <= t /\ h[a].ptr \in Nat /\ h[a].size \in Nat
        /\ \A a \in S : a # 0 => h[a].size > 0
        /\ \A a \in S : h[a] = [ptr |-> h[a].ptr, size |-> h[a].size]
        /\ \A a, b \in S : a < b => a + h[a].size <= b
    BY <1>1, ListedIs
  <1>3. \A a \in S : \/ h[a].ptr \in S /\ h[a].ptr > a /\ \A b \in S : b <= a \/ h[a].ptr <= b
                     \/ h[a].ptr = 0 /\ \A b \in S : b <= a
    BY <1>1, ListedIs
  <1>4. DOMAIN g = R /\ g = [a \in R |-> g[a]] /\ q \in R
    BY <1>2 DEF Without
  <1>5. /\ g[q] = [ptr |-> h[p].ptr, size |-> h[q].size]
        /\ \A a \in R : a # q => g[a] = h[a]
    BY <1>4 DEF Without
  <1>6. /\ g[q].ptr = h[p].ptr /\ \A a \in R : g[a].size = h[a].size /\ (a # q => g[a].ptr = h[a].ptr)
    BY <1>5
  <1>7. p \in S /\ p \in Nat /\ q \in S /\ q \in Nat /\ \A b \in S : b <= q \/ p <= b
    BY <1>2
  <1> HIDE DEF S
  <1>8. \A a \in R : a \in Nat /\ a <= t /\ g[a] \in [ptr : Nat, size : Nat]
    <2>1. g[q] \in [ptr : Nat, size : Nat]
      BY <1>2, <1>5, <1>7
    <2>2. ASSUME NEW a \in R, a # q PROVE g[a] \in [ptr : Nat, size : Nat]
      <3>1. g[a] = [ptr |-> h[a].ptr, size |-> h[a].size] /\ h[a].ptr \in Nat /\ h[a].size \in Nat
        BY <1>2, <1>5, <2>2
      <3> QED BY <3>1
    <2> QED BY <1>2, <2>1, <2>2
  <1>9. \A a \in R : \/ g[a].ptr \in R /\ g[a].ptr > a /\ \A b \in R : b <= a \/ g[a].ptr <= b
                     \/ g[a].ptr = 0 /\ \A b \in R : b <= a
    <2>1. \/ g[q].ptr \in R /\ g[q].ptr > q /\ \A b \in R : b <= q \/ g[q].ptr <= b
          \/ g[q].ptr = 0 /\ \A b \in R : b <= q
      <3>1. CASE h[p].ptr \in S /\ h[p].ptr > p /\ \A b \in S : b <= p \/ h[p].ptr <= b
        BY <1>2, <1>6, <1>7, <3>1
      <3>2. CASE h[p].ptr = 0 /\ \A b \in S : b <= p
        BY <1>2, <1>6, <1>7, <3>2
      <3> QED BY <1>3, <1>7, <3>1, <3>2
    <2>2. ASSUME NEW a \in R, a # q
          PROVE  \/ g[a].ptr \in R /\ g[a].ptr > a /\ \A b \in R : b <= a \/ g[a].ptr <= b
                 \/ g[a].ptr = 0 /\ \A b \in R : b <= a
      <3>1. CASE h[a].ptr \in S /\ h[a].ptr > a /\ \A b \in S : b <= a \/ h[a].ptr <= b
        <4>1. a \in S /\ a \in Nat /\ (a <= q \/ p <= a) /\ a # p
          BY <1>2, <1>7
        <4>2. q <= a \/ h[a].ptr <= q
          BY <1>7, <3>1
        <4>3. h[a].ptr # p
          BY <1>7, <2>2, <3>1, <4>1, <4>2
        <4> QED BY <1>6, <2>2, <3>1, <4>3
      <3>2. CASE h[a].ptr = 0 /\ \A b \in S : b <= a
        BY <1>6, <2>2, <3>2
      <3> QED BY <1>3, <3>1, <3>2
    <2> QED BY <2>1, <2>2
  <1>10. Listed(g, t)
    <2>1. 0 \in R /\ g[0].size = 0
      BY <1>2, <1>6
    <2>2. \A a \in R : a # 0 => g[a].size > 0
      BY <1>2, <1>6
    <2>3. \A a, b \in R : a < b => a + g[a].size <= b
      BY <1>2, <1>6
    <2> HIDE DEF R
    <2> QED BY <1>2, <1>4, <1>8, <1>9, <2>1, <2>2, <2>3, IsListed
  <1>11. ASSUME NEW a, NEW b, Touch(g, a, b) PROVE FALSE
    <2>1. Touch(h, a, b)
      BY <1>4, <1>6, <1>11 DEF Touch, S
    <2> QED BY <1>1, <2>1
  <1>12. ASSUME NEW u \in Nat
         PROVE  /\ InFree(h, u) <=> InFree(g, u) \/ Within(u, p, h[p].size)
                /\ ~(InFree(g, u) /\ Within(u, p, h[p].size))
    <2>1. InFree(h, u) <=> \E a \in S : a <= u /\ u < a + h[a].size
      BY DEF InFree, S
    <2>2. InFree(g, u) <=> \E a \in R : a <= u /\ u < a + h[a].size
      BY <1>4, <1>6 DEF InFree
    <2>3. Within(u, p, h[p].size) <=> p <= u /\ u < p + h[p].size
      BY DEF Within
    <2>4. ASSUME NEW a \in R, a <= u, u < a + h[a].size, p <= u, u < p + h[p].size PROVE FALSE
      <3>1. PICK m \in Nat, n \in Nat, v \in Nat : m = h[a].size /\ n = h[p].size /\ v = a
        BY <1>2, <1>7
      <3>2. v + m <= p \/ p + n <= v
        BY <1>2, <1>7, <3>1
      <3> QED BY <1>7, <2>4, <3>1, <3>2
    <2> QED BY <1>7, <2>1, <2>2, <2>3, <2>4
  <1> QED BY <1>4, <1>10, <1>11, <1>12 DEF Tidy

LEMMA ShortenKeeps ==
  ASSUME NEW h, NEW t, Tidy(h, t), NEW p \in DOMAIN h, NEW units \in Nat, units > 0,
         units < h[p].size, NEW g, g = Shortened(h, p, units),
         NEW at, at = p + (h[p].size - units)
  PROVE  /\ Tidy(g, t) /\ DOMAIN g = DOMAIN h /\ at \in Nat /\ at > 0
         /\ \A u \in Nat : InFree(h, u) <=> InFree(g, u) \/ Within(u, at, units)
         /\ \A u \in Nat : ~(InFree(g, u) /\ Within(u, at, units))
  <1> DEFINE S == DOMAIN h
  <1>1. Listed(h, t) /\ \A a, b : ~Touch(h, a, b)
    BY DEF Tidy
  <1>2. /\ t \in Nat /\ 0 \in S /\ h[0].size = 0
        /\ \A a \in S : a \in Nat /\ a <= t /\ h[a].ptr \in Nat /\ h[a].size \in Nat
        /\ \A a \in S : a # 0 => h[a].size > 0
        /\ \A a \in S : h[a] = [ptr |-> h[a].ptr, size |-> h[a].size]
        /\ \A a, b \in S : a < b => a + h[a].size <= b
    BY <1>1, ListedIs
  <1>3. \A a \in S : \/ h[a].ptr \in S /\ h[a].ptr > a /\ \A b \in S : b <= a \/ h[a].ptr <= b
                     \/ h[a].ptr = 0 /\ \A b \in S : b <= a
    BY <1>1, ListedIs
  <1>4. DOMAIN g = S /\ g = [a \in S |-> g[a]]
    BY DEF Shortened
  <1>5. /\ g[p] = [ptr |-> h[p].ptr, size |-> h[p].size - units]
        /\ \A a \in S : a # p => g[a] = h[a]
    BY <1>4 DEF Shortened
  <1>6. PICK w \in Nat, n \in Nat : /\ w = h[p].size /\ n = w - units /\ n > 0 /\ w = n + units
                                    /\ g[p].size = n /\ at = p + n
    BY <1>2, <1>5
  <1>7. /\ \A a \in S : g[a].ptr = h[a].ptr
        /\ \A a \in S : a # p => g[a].size = h[a].size
    BY <1>5
  <1>8. p \in S /\ p \in Nat /\ p # 0 /\ h[p].ptr \in Nat
    BY <1>2, <1>6
  <1> HIDE DEF S
  <1>9. \A a \in S : a \in Nat /\ a <= t /\ g[a] \in [ptr : Nat, size : Nat]
    <2>1. g[p] \in [ptr : Nat, size : Nat]
      <3>1. g[p] = [ptr |-> h[p].ptr, size |-> n]
        BY <1>5, <1>6
      <3> QED BY <1>8, <3>1
    <2>2. ASSUME NEW a \in S, a # p PROVE g[a] \in [ptr : Nat, size : Nat]
      <3>1. g[a] = [ptr |-> h[a].ptr, size |-> h[a].size] /\ h[a].ptr \in Nat /\ h[a].size \in Nat
        BY <1>2, <1>5, <2>2
      <3> QED BY <3>1
    <2> QED BY <1>2, <2>1, <2>2
  <1>10. \A a, b \in S : a < b => a + g[a].size <= b
    <2>1. ASSUME NEW b \in S, p < b PROVE p + n <= b /\ p + n # b
      <3>1. p + w <= b /\ b \in Nat
        BY <1>2, <1>6, <1>8, <2>1
      <3> QED BY <1>6, <1>8, <3>1
    <2> QED BY <1>2, <1>6, <1>7, <2>1
  <1>11. Listed(g, t)
    <2>1. 0 \in S /\ g[0].size = 0
      BY <1>2, <1>7, <1>8
    <2>2. \A a \in S : a # 0 => g[a].size > 0
      BY <1>2, <1>6, <1>7
    <2>3. \A a \in S : \/ g[a].ptr \in S /\ g[a].ptr > a /\ \A b \in S : b <= a \/ g[a].ptr <= b
                       \/ g[a].ptr = 0 /\ \A b \in S : b <= a
      BY <1>3, <1>7
    <2> QED BY <1>2, <1>4, <1>9, <1>10, <2>1, <2>2, <2>3, IsListed
  <1>12. ASSUME NEW a, NEW b, Touch(g, a, b) PROVE FALSE
    <2>1. a \in S /\ b \in S /\ a < b /\ a + g[a].size = b
      BY <1>4, <1>12 DEF Touch
    <2>2. CASE a = p
      <3>1. p + w <= b /\ b \in Nat
        BY <1>2, <1>6, <1>8, <2>1, <2>2
      <3> QED BY <1>6, <1>8, <2>1, <2>2, <3>1
    <2>3. CASE a # p
      BY <1>1, <1>7, <2>1, <2>3 DEF Touch, S
    <2> QED BY <2>2, <2>3
  <1>13. ASSUME NEW u \in Nat
         PROVE  /\ InFree(h, u) <=> InFree(g, u) \/ Within(u, at, units)
                /\ ~(InFree(g, u) /\ Within(u, at, units))
    <2>1. InFree(h, u) <=> \E a \in S : a <= u /\ u < a + h[a].size
      BY DEF InFree, S
    <2>2. InFree(g, u) <=> \/ \E a \in S \ {p} : a <= u /\ u < a + h[a].size
                           \/ p <= u /\ u < p + n
      BY <1>4, <1>6, <1>7, <1>8 DEF InFree
    <2>3. Within(u, at, units) <=> p + n <= u /\ u < p + w
      BY <1>6, <1>8 DEF Within
    <2>4. ASSUME NEW a \in S \ {p}, a <= u, u < a + h[a].size, p + n <= u, u < p + w PROVE FALSE
      <3>1. PICK m \in Nat, v \in Nat : m = h[a].size /\ v = a
        BY <1>2, <1>8
      <3>2. v + m <= p \/ p + w <= v
        BY <1>2, <1>6, <1>8, <3>1
      <3> QED BY <1>6, <1>8, <2>4, <3>1, <3>2
    <2>5. p <= u /\ u < p + w <=> (p <= u /\ u < p + n) \/ (p + n <= u /\ u < p + w)
      BY <1>6, <1>8
    <2>6. InFree(h, u) <=> \/ \E a \in S \ {p} : a <= u /\ u < a + h[a].size
                           \/ p <= u /\ u < p + w
      BY <1>6, <1>8, <2>1
    <2>7. ~(p <= u /\ u < p + n /\ p + n <= u)
      BY <1>6, <1>8
    <2> QED BY <2>2, <2>3, <2>4, <2>5, <2>6, <2>7
  <1>14. Tidy(g, t)
    BY <1>11, <1>12 DEF Tidy
  <1>15. DOMAIN g = DOMAIN h
    BY <1>4 DEF S
  <1>16. at \in Nat /\ at > 0
    BY <1>6, <1>8
  <1> QED BY <1>13, <1>14, <1>15, <1>16

\* What malloc takes off the list
LEMMA TakenKeeps ==
  ASSUME NEW h, NEW t, Tidy(h, t), NEW from \in DOMAIN h, NEW units \in Nat, units > 0,
         Fits(h, from, units) # {}, NEW r, r = TakenFrom(h, from, units)
  PROVE  /\ Tidy(r.hdr, t) /\ r.freep \in DOMAIN r.hdr /\ r.at \in Nat /\ r.at > 0
         /\ \A u \in Nat : InFree(h, u) <=> InFree(r.hdr, u) \/ Within(u, r.at, units)
         /\ \A u \in Nat : ~(InFree(r.hdr, u) /\ Within(u, r.at, units))
  <1>1. PICK n : n = Smallest(Fits(h, from, units))
    OBVIOUS
  <1>2. PICK q : q = Along(h, from, n - 1)
    OBVIOUS
  <1>3. PICK p : p = Along(h, from, n)
    OBVIOUS
  <1>4. Listed(h, t)
    BY DEF Tidy
  <1>5. /\ p \in DOMAIN h /\ q \in DOMAIN h /\ p = h[q].ptr /\ p # 0 /\ h[p].size >= units
        /\ q < p /\ \A b \in DOMAIN h : b <= q \/ p <= b
    BY <1>1, <1>2, <1>3, <1>4, FitsIs
  <1>6. /\ p \in Nat /\ h[p].size \in Nat /\ q # p /\ h \in [DOMAIN h -> [ptr : Nat, size : Nat]]
        /\ \A a \in DOMAIN h : h[a] = [ptr |-> h[a].ptr, size |-> h[a].size]
    BY <1>4, <1>5, ListedIs DEF Listed
  <1>7. CASE h[p].size = units
    <2>1. PICK g : g = Without(h, q, p)
      OBVIOUS
    <2>2. Unlinked([h EXCEPT ![q].ptr = h[p].ptr], p) = g
      <3>1. [h EXCEPT ![q].ptr = h[p].ptr][q] = [ptr |-> h[p].ptr, size |-> h[q].size]
        BY <1>5, <1>6
      <3> QED BY <1>5, <2>1, <3>1 DEF Unlinked, Without
    <2>3. r = [hdr |-> g, freep |-> q, at |-> p]
      BY <1>1, <1>2, <1>3, <1>7, <2>2 DEF TakenFrom
    <2>4. /\ Tidy(g, t) /\ q \in DOMAIN g
          /\ \A u \in Nat : InFree(h, u) <=> InFree(g, u) \/ Within(u, p, h[p].size)
          /\ \A u \in Nat : ~(InFree(g, u) /\ Within(u, p, h[p].size))
      BY <1>5, <2>1, UnlinkKeeps
    <2> QED BY <1>5, <1>6, <1>7, <2>3, <2>4
  <1>8. CASE h[p].size # units
    <2>1. PICK g : g = Shortened(h, p, units)
      OBVIOUS
    <2>2. PICK at : at = p + (h[p].size - units)
      OBVIOUS
    <2>3. [h EXCEPT ![p].size = CutTo(@, units)] = g
      <3>1. [h EXCEPT ![p].size = h[p].size - units][p] = [ptr |-> h[p].ptr, size |-> h[p].size - units]
        BY <1>5, <1>6
      <3> QED BY <1>5, <2>1, <3>1 DEF CutTo, Shortened
    <2>4. r = [hdr |-> g, freep |-> q, at |-> at]
      BY <1>1, <1>2, <1>3, <1>8, <2>2, <2>3 DEF TakenFrom, CutTo
    <2>5. units < h[p].size
      BY <1>5, <1>6, <1>8
    <2>6. /\ Tidy(g, t) /\ DOMAIN g = DOMAIN h /\ at \in Nat /\ at > 0
          /\ \A u \in Nat : InFree(h, u) <=> InFree(g, u) \/ Within(u, at, units)
          /\ \A u \in Nat : ~(InFree(g, u) /\ Within(u, at, units))
      BY <1>5, <2>1, <2>2, <2>5, ShortenKeeps
    <2> QED BY <1>5, <2>4, <2>6
  <1> QED BY <1>7, <1>8

\* Two blocks have no unit in common.
Disjoint(H) == \A b, c \in H : \A u \in Nat : Within(u, b.at, b.size) /\ Within(u, c.at, c.size) => b = c

InHanded(H, u) == \E b \in H : Within(u, b.at, b.size)

(* Up to the break e, each unit of c, and no other, is in one free block or *)
(* in one of the program's blocks H.                                       *)
Heaped(h, e, c, H) ==
  /\ e \in Nat /\ e > 0 /\ Tidy(h, e)
  /\ H \subseteq [at : Nat \ {0}, size : Nat \ {0}] /\ Disjoint(H)
  /\ c \subseteq Nat /\ \A u \in c : u < e
  /\ \A u \in Nat : u \in c <=> InFree(h, u) \/ InHanded(H, u)
  /\ \A u \in Nat : ~(InFree(h, u) /\ InHanded(H, u))

HeapIInv ==
  /\ Heaped(hdr, heapEnd, cored, handed)
  /\ freep \in DOMAIN hdr \cup {NoHeap}
  /\ freep = NoHeap => handed = {}

\* A higher break changes nothing.
LEMMA TidyHigher ==
  ASSUME NEW h, NEW t, Tidy(h, t), NEW u \in Nat, t <= u
  PROVE  Tidy(h, u)
  <1>1. t \in Nat /\ DOMAIN h \subseteq 0 .. t
    BY DEF Tidy, Listed, Ring
  <1>2. DOMAIN h \subseteq 0 .. u
    BY <1>1
  <1> QED BY <1>2 DEF Tidy, Listed, Ring

\* A free block and a block that has no unit in common with it lie apart.
LEMMA ApartFromFree ==
  ASSUME NEW h, NEW t, Tidy(h, t), NEW at \in Nat, NEW size \in Nat, at > 0, size > 0,
         \A u \in Nat : ~(InFree(h, u) /\ Within(u, at, size)),
         NEW a \in DOMAIN h
  PROVE  a + h[a].size <= at \/ at + size <= a
  <1>1. a \in Nat /\ h[a].size \in Nat /\ (a # 0 => h[a].size > 0) /\ h[0].size = 0
    BY ListedIs DEF Tidy
  <1>2. PICK n \in Nat : n = h[a].size
    BY <1>1
  <1>3. CASE a < at /\ at < a + n
    <2>1. InFree(h, at)
      BY <1>1, <1>2, <1>3 DEF InFree
    <2>2. Within(at, at, size)
      BY DEF Within
    <2> QED BY <2>1, <2>2
  <1>4. CASE at <= a /\ a < at + size /\ n > 0
    <2>1. InFree(h, a)
      BY <1>1, <1>2, <1>4 DEF InFree
    <2>2. Within(a, at, size)
      BY <1>1, <1>4 DEF Within
    <2> QED BY <1>1, <2>1, <2>2
  <1>5. n = 0 => a = 0
    BY <1>1, <1>2
  <1> QED BY <1>1, <1>2, <1>3, <1>4, <1>5

LEMMA TakenHeaped ==
  ASSUME NEW h, NEW e, NEW c, NEW H, Heaped(h, e, c, H), NEW from \in DOMAIN h,
         NEW units \in Nat, units > 0, Fits(h, from, units) # {}, NEW r, r = TakenFrom(h, from, units)
  PROVE  /\ Heaped(r.hdr, e, c, H \cup {[at |-> r.at, size |-> units]})
         /\ r.freep \in DOMAIN r.hdr
  <1>1. /\ Tidy(r.hdr, e) /\ r.freep \in DOMAIN r.hdr /\ r.at \in Nat /\ r.at > 0
        /\ \A u \in Nat : InFree(h, u) <=> InFree(r.hdr, u) \/ Within(u, r.at, units)
        /\ \A u \in Nat : ~(InFree(r.hdr, u) /\ Within(u, r.at, units))
    <2>1. Tidy(h, e)
      BY DEF Heaped
    <2> QED BY <2>1, TakenKeeps
  <1>2. /\ e \in Nat /\ e > 0 /\ H \subseteq [at : Nat \ {0}, size : Nat \ {0}] /\ Disjoint(H)
        /\ c \subseteq Nat /\ \A u \in c : u < e
        /\ \A u \in Nat : u \in c <=> InFree(h, u) \/ InHanded(H, u)
        /\ \A u \in Nat : ~(InFree(h, u) /\ InHanded(H, u))
    BY DEF Heaped
  <1>3. PICK g, k : g = r.hdr /\ k = r.at
    OBVIOUS
  <1>4. PICK n : n = [at |-> k, size |-> units]
    OBVIOUS
  <1>5. n.at = k /\ n.size = units /\ n \in [at : Nat \ {0}, size : Nat \ {0}]
    BY <1>1, <1>3, <1>4
  <1>6. \A u \in Nat : InHanded(H \cup {n}, u) <=> InHanded(H, u) \/ Within(u, k, units)
    BY <1>5 DEF InHanded
  <1>7. Disjoint(H \cup {n})
    <2>1. ASSUME NEW b \in H, NEW u \in Nat, Within(u, b.at, b.size), Within(u, n.at, n.size)
          PROVE  FALSE
      <3>1. InHanded(H, u) /\ InFree(h, u)
        BY <1>1, <1>3, <1>5, <2>1 DEF InHanded
      <3> QED BY <1>2, <3>1
    <2> QED BY <1>2, <2>1 DEF Disjoint
  <1>8. Heaped(g, e, c, H \cup {n})
    BY <1>1, <1>2, <1>3, <1>5, <1>6, <1>7 DEF Heaped
  <1> QED BY <1>1, <1>3, <1>4, <1>8

\* Every free block ends at or below the break.
LEMMA FreeBelow ==
  ASSUME NEW h, NEW e, NEW c, NEW H, Heaped(h, e, c, H), NEW a \in DOMAIN h
  PROVE  a + h[a].size <= e
  <1>1. e \in Nat /\ Tidy(h, e) /\ (\A u \in Nat : InFree(h, u) => u < e)
    BY DEF Heaped
  <1>2. a \in Nat /\ a <= e /\ h[a].size \in Nat
    BY <1>1, ListedIs DEF Tidy
  <1>3. PICK n \in Nat : n = h[a].size
    BY <1>2
  <1>4. CASE n > 0
    <2>1. PICK u \in Nat : u = a + n - 1
      BY <1>2, <1>4
    <2>2. a <= u /\ u < a + n
      BY <1>2, <1>4, <2>1
    <2>3. InFree(h, u)
      BY <1>3, <2>2 DEF InFree
    <2> QED BY <1>1, <1>2, <1>3, <2>1, <2>3
  <1> QED BY <1>2, <1>3, <1>4

LEMMA GrownHeaped ==
  ASSUME NEW h, NEW e, NEW c, NEW H, Heaped(h, e, c, H), NEW from \in DOMAIN h,
         NEW nu \in Nat, nu > 0, NEW r, r = FreedIn(h, from, e, nu)
  PROVE  /\ Heaped(r.hdr, e + nu, c \cup Extent(e, nu), H)
         /\ r.freep \in DOMAIN r.hdr
         /\ \E a \in DOMAIN r.hdr : a # 0 /\ r.hdr[a].size >= nu
  <1>1. /\ e \in Nat /\ e > 0 /\ Tidy(h, e)
        /\ H \subseteq [at : Nat \ {0}, size : Nat \ {0}] /\ Disjoint(H)
        /\ c \subseteq Nat /\ \A u \in c : u < e
        /\ \A u \in Nat : u \in c <=> InFree(h, u) \/ InHanded(H, u)
        /\ \A u \in Nat : ~(InFree(h, u) /\ InHanded(H, u))
    BY DEF Heaped
  <1>2. PICK z \in Nat : z = e + nu
    BY <1>1
  <1>3. Tidy(h, z) /\ e <= z
    BY <1>1, <1>2, TidyHigher
  <1>4. \A a \in DOMAIN h : a + h[a].size <= e \/ e + nu <= a
    BY FreeBelow
  <1>5. /\ Tidy(r.hdr, z) /\ r.freep \in DOMAIN r.hdr
        /\ \A u \in Nat : InFree(r.hdr, u) <=> InFree(h, u) \/ Within(u, e, nu)
        /\ \E a \in DOMAIN r.hdr : a # 0 /\ r.hdr[a].size >= nu
    BY <1>1, <1>3, <1>4, FreedKeeps
  <1>6. PICK g, d : g = r.hdr /\ d = c \cup Extent(e, nu)
    OBVIOUS
  <1>7. /\ d \subseteq Nat /\ \A u \in Nat : u \in d <=> u \in c \/ Within(u, e, nu)
    BY <1>1, <1>6 DEF Extent, Within
  <1>8. ASSUME NEW u \in Nat, Within(u, e, nu) PROVE u < z /\ u \notin c
    BY <1>1, <1>2, <1>8 DEF Within
  <1>9. \A u \in d : u < z
    BY <1>1, <1>2, <1>7, <1>8
  <1>10. \A u \in Nat : u \in d <=> InFree(g, u) \/ InHanded(H, u)
    BY <1>1, <1>5, <1>6, <1>7
  <1>11. \A u \in Nat : ~(InFree(g, u) /\ InHanded(H, u))
    BY <1>1, <1>5, <1>6, <1>8
  <1>12. Heaped(g, z, d, H)
    <2>1. z > 0
      BY <1>1, <1>2
    <2> QED BY <1>1, <1>5, <1>6, <1>7, <1>9, <1>10, <1>11, <2>1 DEF Heaped
  <1> QED BY <1>2, <1>5, <1>6, <1>12

LEMMA FreedHeaped ==
  ASSUME NEW h, NEW e, NEW c, NEW H, Heaped(h, e, c, H), NEW from \in DOMAIN h,
         NEW b \in H, NEW r, r = FreedIn(h, from, b.at, b.size)
  PROVE  Heaped(r.hdr, e, c, H \ {b}) /\ r.freep \in DOMAIN r.hdr
  <1>1. /\ e \in Nat /\ e > 0 /\ Tidy(h, e)
        /\ H \subseteq [at : Nat \ {0}, size : Nat \ {0}] /\ Disjoint(H)
        /\ c \subseteq Nat /\ \A u \in c : u < e
        /\ \A u \in Nat : u \in c <=> InFree(h, u) \/ InHanded(H, u)
        /\ \A u \in Nat : ~(InFree(h, u) /\ InHanded(H, u))
    BY DEF Heaped
  <1>2. b.at \in Nat \ {0} /\ b.size \in Nat \ {0}
    BY <1>1
  <1>3. PICK k \in Nat, n \in Nat : k = b.at /\ n = b.size /\ k > 0 /\ n > 0
    BY <1>2
  <1>4. \A u \in Nat : InHanded(H, u) <=> InHanded(H \ {b}, u) \/ Within(u, k, n)
    BY <1>3 DEF InHanded
  <1>5. \A u \in Nat : ~(InHanded(H \ {b}, u) /\ Within(u, k, n))
    <2>1. \A x, y \in H : \A u \in Nat : Within(u, x.at, x.size) /\ Within(u, y.at, y.size) => x = y
      BY <1>1 DEF Disjoint
    <2> QED BY <1>3, <2>1 DEF InHanded
  <1>6. k <= e
    <2>1. Within(k, k, n)
      BY <1>3 DEF Within
    <2>2. k < e
      BY <1>1, <1>4, <2>1
    <2> QED BY <1>1, <2>2
  <1>7. \A u \in Nat : ~(InFree(h, u) /\ Within(u, k, n))
    BY <1>1, <1>4
  <1>8. \A a \in DOMAIN h : a + h[a].size <= k \/ k + n <= a
    BY <1>1, <1>3, <1>7, ApartFromFree
  <1>9. /\ Tidy(r.hdr, e) /\ r.freep \in DOMAIN r.hdr
        /\ \A u \in Nat : InFree(r.hdr, u) <=> InFree(h, u) \/ Within(u, k, n)
    <2>1. Tidy(h, e) /\ r = FreedIn(h, from, k, n)
      BY <1>1, <1>3
    <2> QED BY <1>3, <1>6, <1>8, <2>1, FreedKeeps
  <1>10. PICK g, J : g = r.hdr /\ J = H \ {b}
    OBVIOUS
  <1>11. J \subseteq [at : Nat \ {0}, size : Nat \ {0}] /\ Disjoint(J)
    BY <1>1, <1>10 DEF Disjoint
  <1>12. \A u \in Nat : u \in c <=> InFree(g, u) \/ InHanded(J, u)
    BY <1>1, <1>4, <1>9, <1>10
  <1>13. \A u \in Nat : ~(InFree(g, u) /\ InHanded(J, u))
    BY <1>1, <1>4, <1>5, <1>9, <1>10
  <1>14. Heaped(g, e, c, J)
    BY <1>1, <1>9, <1>10, <1>11, <1>12, <1>13 DEF Heaped
  <1> QED BY <1>9, <1>10, <1>14

LEMMA HeapInitially == HeapInit => HeapIInv
  <1> SUFFICES ASSUME HeapInit PROVE HeapIInv
    OBVIOUS
  <1>1. hdr = [a \in {Base} |-> [ptr |-> Base, size |-> 0]] /\ freep = NoHeap
        /\ heapEnd = 1 /\ cored = {} /\ handed = {}
    BY DEF HeapInit
  <1>2. PICK h : h = hdr
    OBVIOUS
  <1>3. DOMAIN h = {0} /\ h = [a \in {0} |-> h[a]] /\ h[0] = [ptr |-> 0, size |-> 0]
    BY <1>1, <1>2 DEF Base
  <1>4. h[0].size = 0 /\ h[0].ptr = 0
    BY <1>3
  <1>5. Listed(h, 1)
    <2>1. PICK S, t : S = {0} /\ t = 1
      OBVIOUS
    <2>2. \A a \in S : a \in Nat /\ a <= t /\ h[a] \in [ptr : Nat, size : Nat]
      BY <1>3, <2>1
    <2>3. \A a \in S : a # 0 => h[a].size > 0
      BY <2>1
    <2>4. \A a, b \in S : a < b => a + h[a].size <= b
      BY <2>1
    <2>5. \A a \in S : \/ h[a].ptr \in S /\ h[a].ptr > a /\ \A b \in S : b <= a \/ h[a].ptr <= b
                       \/ h[a].ptr = 0 /\ \A b \in S : b <= a
      BY <1>4, <2>1
    <2>6. DOMAIN h = S /\ h = [a \in S |-> h[a]] /\ 0 \in S /\ t \in Nat
      BY <1>3, <2>1
    <2>7. Listed(h, t)
      BY <1>4, <2>2, <2>3, <2>4, <2>5, <2>6, IsListed
    <2> QED BY <2>1, <2>7
  <1>6. \A a, b : ~Touch(h, a, b)
    BY <1>3 DEF Touch
  <1>7. \A u \in Nat : ~InFree(h, u)
    BY <1>3, <1>4 DEF InFree
  <1>8. Heaped(h, 1, {}, {})
    BY <1>5, <1>6, <1>7 DEF Heaped, Tidy, Disjoint, InHanded
  <1> QED BY <1>1, <1>2, <1>8 DEF HeapIInv

LEMMA MallocStep ==
  ASSUME HeapIInv, NEW units \in HeapRequests, UserMalloc(units)
  PROVE  HeapIInv'
  <1>1. units \in Nat /\ units > 0 /\ CoreUnits \in Nat /\ CoreUnits > 0
    BY HeapAssumption
  <1>2. PICK start : start = IF freep = NoHeap THEN Base ELSE freep
    OBVIOUS
  <1>3. PICK nu : nu = CoreFor(units)
    OBVIOUS
  <1>4. nu \in Nat /\ nu > 0 /\ nu >= units
    BY <1>1, <1>3 DEF CoreFor
  <1>5. PICK more : more = (Fits(hdr, start, units) = {})
    OBVIOUS
  <1>6. PICK ready : ready = IF more THEN FreedIn(hdr, start, heapEnd, nu)
                             ELSE [hdr |-> hdr, freep |-> start]
    OBVIOUS
  <1>7. PICK r : r = TakenFrom(ready.hdr, ready.freep, units)
    OBVIOUS
  <1>8. /\ heapEnd' = (IF more THEN heapEnd + nu ELSE heapEnd)
        /\ cored' = (IF more THEN cored \union Extent(heapEnd, nu) ELSE cored)
        /\ hdr' = r.hdr /\ freep' = r.freep
        /\ handed' = handed \union {[at |-> r.at, size |-> units]}
    BY <1>2, <1>3, <1>5, <1>6, <1>7 DEF UserMalloc
  <1>9. Heaped(hdr, heapEnd, cored, handed) /\ start \in DOMAIN hdr
    <2>1. Base \in DOMAIN hdr
      BY DEF HeapIInv, Heaped, Tidy, Listed, Ring
    <2> QED BY <1>2, <2>1 DEF HeapIInv
  <1>10. /\ Heaped(ready.hdr, heapEnd', cored', handed) /\ ready.freep \in DOMAIN ready.hdr
         /\ Fits(ready.hdr, ready.freep, units) # {}
    <2>1. CASE more
      <3>1. ready = FreedIn(hdr, start, heapEnd, nu) /\ heapEnd' = heapEnd + nu
            /\ cored' = cored \union Extent(heapEnd, nu)
        BY <1>6, <1>8, <2>1
      <3>2. /\ Heaped(ready.hdr, heapEnd + nu, cored \union Extent(heapEnd, nu), handed)
            /\ ready.freep \in DOMAIN ready.hdr
            /\ \E a \in DOMAIN ready.hdr : a # 0 /\ ready.hdr[a].size >= nu
        BY <1>4, <1>9, <3>1, GrownHeaped
      <3>3. PICK g, k, z : g = ready.hdr /\ k = ready.freep /\ z = heapEnd + nu
        OBVIOUS
      <3>4. Listed(g, z) /\ k \in DOMAIN g
        BY <3>2, <3>3 DEF Heaped, Tidy
      <3>5. PICK a \in DOMAIN g : a # 0 /\ g[a].size >= nu
        BY <3>2, <3>3
      <3>6. g[a].size >= units
        <4>1. g[a].size \in Nat
          BY <3>4, ListedIs
        <4> QED BY <1>1, <1>4, <3>5, <4>1
      <3>7. Fits(g, k, units) # {}
        BY <3>4, <3>5, <3>6, FitsThere
      <3> QED BY <3>1, <3>2, <3>3, <3>7
    <2>2. CASE ~more
      <3>1. ready.hdr = hdr /\ ready.freep = start /\ heapEnd' = heapEnd /\ cored' = cored
        BY <1>6, <1>8, <2>2
      <3> QED BY <1>5, <1>9, <2>2, <3>1
    <2> QED BY <2>1, <2>2
  <1>11. PICK h, f, e, c, H : h = ready.hdr /\ f = ready.freep /\ e = heapEnd' /\ c = cored' /\ H = handed
    OBVIOUS
  <1>12. Heaped(r.hdr, e, c, H \cup {[at |-> r.at, size |-> units]}) /\ r.freep \in DOMAIN r.hdr
    <2>1. /\ Heaped(h, e, c, H) /\ f \in DOMAIN h /\ Fits(h, f, units) # {}
          /\ r = TakenFrom(h, f, units)
      BY <1>7, <1>10, <1>11
    <2> QED BY <1>1, <2>1, TakenHeaped
  <1>13. freep' # NoHeap
    <2>1. \A a \in DOMAIN r.hdr : a \in Nat
      BY <1>12, ListedIs DEF Heaped, Tidy
    <2> QED BY <1>8, <1>12, <2>1 DEF NoHeap
  <1> QED BY <1>8, <1>11, <1>12, <1>13 DEF HeapIInv

LEMMA FreeStep ==
  ASSUME HeapIInv, NEW b \in handed, UserFree(b)
  PROVE  HeapIInv'
  <1>1. PICK r : r = FreedIn(hdr, freep, b.at, b.size)
    OBVIOUS
  <1>2. /\ hdr' = r.hdr /\ freep' = r.freep /\ handed' = handed \ {b}
        /\ heapEnd' = heapEnd /\ cored' = cored
    BY <1>1 DEF UserFree
  <1>3. Heaped(hdr, heapEnd, cored, handed) /\ freep \in DOMAIN hdr
    BY DEF HeapIInv
  <1>4. Heaped(r.hdr, heapEnd, cored, handed \ {b}) /\ r.freep \in DOMAIN r.hdr
    BY <1>1, <1>3, FreedHeaped
  <1>5. freep' # NoHeap
    <2>1. \A a \in DOMAIN r.hdr : a \in Nat
      BY <1>4, ListedIs DEF Heaped, Tidy
    <2> QED BY <1>2, <1>4, <2>1 DEF NoHeap
  <1> QED BY <1>2, <1>4, <1>5 DEF HeapIInv

LEMMA HeapStep == HeapIInv /\ [HeapNext]_heapVars => HeapIInv'
  <1> SUFFICES ASSUME HeapIInv, [HeapNext]_heapVars PROVE HeapIInv'
    OBVIOUS
  <1>1. ASSUME NEW units \in HeapRequests, UserMalloc(units) PROVE HeapIInv'
    BY <1>1, MallocStep
  <1>2. ASSUME NEW b \in handed, UserFree(b) PROVE HeapIInv'
    BY <1>2, FreeStep
  <1>3. CASE OwnSbrk
    <2>1. PICK z : z = heapEnd + OwnUnits
      OBVIOUS
    <2>2. /\ heapEnd' = z /\ hdr' = hdr /\ freep' = freep /\ cored' = cored /\ handed' = handed
      BY <1>3, <2>1 DEF OwnSbrk
    <2>3. heapEnd \in Nat /\ heapEnd > 0 /\ Tidy(hdr, heapEnd) /\ \A u \in cored : u \in Nat /\ u < heapEnd
      BY DEF HeapIInv, Heaped
    <2>4. z \in Nat /\ z > 0 /\ heapEnd <= z
      BY <2>1, <2>3, HeapAssumption
    <2>5. \A u \in cored : u < z
      BY <2>3, <2>4
    <2>6. Tidy(hdr, z)
      BY <2>3, <2>4, TidyHigher
    <2>7. Heaped(hdr, z, cored, handed)
      BY <2>4, <2>5, <2>6 DEF HeapIInv, Heaped
    <2> QED BY <2>2, <2>7 DEF HeapIInv
  <1>4. CASE UNCHANGED heapVars
    BY <1>4 DEF heapVars, HeapIInv
  <1> QED BY <1>1, <1>2, <1>3, <1>4 DEF HeapNext

LEMMA BlocksPartition ==
  ASSUME HeapIInv
  PROVE  HeapPartition
  <1>1. PICK h, H, c, e : h = hdr /\ H = handed /\ c = cored /\ e = heapEnd
    OBVIOUS
  <1>2. /\ e \in Nat /\ Tidy(h, e) /\ H \subseteq [at : Nat \ {0}, size : Nat \ {0}] /\ Disjoint(H)
        /\ c \subseteq Nat
        /\ \A u \in Nat : u \in c <=> InFree(h, u) \/ InHanded(H, u)
        /\ \A u \in Nat : ~(InFree(h, u) /\ InHanded(H, u))
    BY <1>1 DEF HeapIInv, Heaped
  <1>3. PICK F : F = {[at |-> a, size |-> h[a].size] : a \in DOMAIN h \ {0}}
    OBVIOUS
  <1>4. FreeBlocks = F
    BY <1>1, <1>3 DEF FreeBlocks, Base
  <1>5. /\ \A a \in DOMAIN h : a \in Nat /\ h[a].size \in Nat /\ (a # 0 => h[a].size > 0)
        /\ h[0].size = 0 /\ \A a, b \in DOMAIN h : a < b => a + h[a].size <= b
    BY <1>2, ListedIs DEF Tidy
  <1>6. \A b \in F : b.at \in DOMAIN h \ {0} /\ b.size = h[b.at].size /\ b = [at |-> b.at, size |-> b.size]
    BY <1>3
  <1>7. \A b \in F \cup H : b.at \in Nat \ {0} /\ b.size \in Nat \ {0}
    <2>1. \A b \in F : b.at \in Nat \ {0} /\ b.size \in Nat \ {0}
      BY <1>5, <1>6
    <2>2. \A b \in H : b.at \in Nat \ {0} /\ b.size \in Nat \ {0}
      BY <1>2
    <2> QED BY <2>1, <2>2
  <1>8. ASSUME NEW b \in F \cup H, NEW u
        PROVE  u \in Extent(b.at, b.size) <=> u \in Nat /\ Within(u, b.at, b.size)
    <2>1. PICK k \in Nat, n \in Nat : k = b.at /\ n = b.size
      BY <1>7
    <2>2. u \in k .. k + n - 1 <=> u \in Nat /\ k <= u /\ u < k + n
      OBVIOUS
    <2> QED BY <2>1, <2>2 DEF Extent, Within
  <1>9. ASSUME NEW u \in Nat
        PROVE  InFree(h, u) <=> \E b \in F : Within(u, b.at, b.size)
    <2>1. ASSUME InFree(h, u) PROVE \E b \in F : Within(u, b.at, b.size)
      <3>1. PICK a \in DOMAIN h : a <= u /\ u < a + h[a].size
        BY <2>1 DEF InFree
      <3>2. a # 0
        BY <1>5, <3>1
      <3>3. PICK b : b = [at |-> a, size |-> h[a].size]
        OBVIOUS
      <3>4. b \in F /\ b.at = a /\ b.size = h[a].size
        BY <1>3, <3>2, <3>3
      <3> QED BY <3>1, <3>4 DEF Within
    <2>2. ASSUME NEW b \in F, Within(u, b.at, b.size) PROVE InFree(h, u)
      BY <1>6, <2>2 DEF InFree, Within
    <2> QED BY <2>1, <2>2
  <1>10. UNION {Extent(b.at, b.size) : b \in F \cup H} = c
    <2>1. ASSUME NEW u PROVE u \in UNION {Extent(b.at, b.size) : b \in F \cup H} <=> u \in c
      <3>1. u \in UNION {Extent(b.at, b.size) : b \in F \cup H} <=> \E b \in F \cup H : u \in Extent(b.at, b.size)
        OBVIOUS
      <3>2. (\E b \in F \cup H : u \in Extent(b.at, b.size)) <=>
              u \in Nat /\ \E b \in F \cup H : Within(u, b.at, b.size)
        BY <1>8
      <3>3. (\E b \in F \cup H : Within(u, b.at, b.size)) <=>
              (\E b \in F : Within(u, b.at, b.size)) \/ InHanded(H, u)
        BY DEF InHanded
      <3>4. u \in c <=> u \in Nat /\ ((\E b \in F : Within(u, b.at, b.size)) \/ InHanded(H, u))
        BY <1>2, <1>9
      <3> QED BY <3>1, <3>2, <3>3, <3>4
    <2> QED BY <2>1
  <1>11. ASSUME NEW b \in F, NEW d \in F, b # d, NEW u \in Nat,
                Within(u, b.at, b.size), Within(u, d.at, d.size)
         PROVE  FALSE
    <2>1. b.at # d.at
      BY <1>6, <1>11
    <2>2. PICK k \in Nat, m \in Nat, l \in Nat, n \in Nat :
            k = b.at /\ m = b.size /\ l = d.at /\ n = d.size
      BY <1>7
    <2>3. k + m <= l \/ l + n <= k
      BY <1>5, <1>6, <2>1, <2>2
    <2>4. k <= u /\ u < k + m /\ l <= u /\ u < l + n
      BY <1>11, <2>2 DEF Within
    <2> QED BY <2>3, <2>4
  <1>12. ASSUME NEW b \in F, NEW d \in H, NEW u \in Nat,
                Within(u, b.at, b.size), Within(u, d.at, d.size)
         PROVE  FALSE
    BY <1>2, <1>9, <1>12 DEF InHanded
  <1>13. ASSUME NEW b \in F \cup H, NEW d \in F \cup H, b # d,
                NEW u, u \in Extent(b.at, b.size), u \in Extent(d.at, d.size)
         PROVE  FALSE
    <2>1. u \in Nat /\ Within(u, b.at, b.size) /\ Within(u, d.at, d.size)
      BY <1>8, <1>13
    <2>2. CASE b \in H /\ d \in H
      BY <1>2, <1>13, <2>1, <2>2 DEF Disjoint
    <2> QED BY <1>11, <1>12, <1>13, <2>1, <2>2
  <1>14. ASSUME NEW b \in F, b \in H PROVE FALSE
    <2>1. b.at \in Nat /\ Within(b.at, b.at, b.size)
      BY <1>7 DEF Within
    <2> QED BY <1>12, <1>14, <2>1
  <1>15. \A b, d \in F \cup H : b # d => Extent(b.at, b.size) \cap Extent(d.at, d.size) = {}
    BY <1>13
  <1> QED BY <1>1, <1>4, <1>10, <1>14, <1>15 DEF HeapPartition

LEMMA BlocksMerged ==
  ASSUME HeapIInv
  PROVE  HeapMerged
  <1>1. PICK h, e : h = hdr /\ e = heapEnd
    OBVIOUS
  <1>2. e \in Nat /\ Listed(h, e) /\ (\A a, b : ~Touch(h, a, b))
    BY <1>1 DEF HeapIInv, Heaped, Tidy
  <1>3. PICK S : S = DOMAIN h
    OBVIOUS
  <1>4. /\ \A a \in S : a \in Nat /\ h[a].ptr \in Nat /\ h[a].size \in Nat /\ (a # 0 => h[a].size > 0)
        /\ \A a \in S : \/ h[a].ptr \in S /\ h[a].ptr > a /\ \A b \in S : b <= a \/ h[a].ptr <= b
                        \/ h[a].ptr = 0 /\ \A b \in S : b <= a
    BY <1>2, <1>3, ListedIs
  <1>5. ASSUME NEW a \in S
        PROVE  h[a].ptr = IF \E b \in S : b > a THEN Smallest({b \in S : b > a}) ELSE Base
    <2>1. CASE h[a].ptr \in S /\ h[a].ptr > a /\ \A b \in S : b <= a \/ h[a].ptr <= b
      <3>1. PICK T : T = {b \in S : b > a}
        OBVIOUS
      <3>2. h[a].ptr \in T /\ (\A n \in T : h[a].ptr <= n) /\ T \in SUBSET Nat
        BY <1>4, <2>1, <3>1
      <3>3. PICK s : s = Smallest(T)
        OBVIOUS
      <3>4. s \in T /\ \A n \in T : s <= n
        BY <3>2, <3>3, SmallestIs
      <3>5. s \in Nat /\ h[a].ptr \in Nat /\ s <= h[a].ptr /\ h[a].ptr <= s
        BY <1>4, <3>2, <3>4
      <3>6. Smallest(T) = h[a].ptr
        BY <3>3, <3>5
      <3> QED BY <2>1, <3>1, <3>6
    <2>2. CASE h[a].ptr = 0 /\ \A b \in S : b <= a
      BY <1>4, <2>2 DEF Base
    <2> QED BY <1>4, <2>1, <2>2
  <1>6. ASSUME NEW b \in FreeBlocks, NEW c \in FreeBlocks PROVE b.at + b.size # c.at
    <2>1. b.at \in S /\ c.at \in S /\ b.at # 0 /\ b.size = h[b.at].size
      BY <1>1, <1>3 DEF FreeBlocks, Base
    <2>2. b.at \in Nat /\ c.at \in Nat /\ b.size \in Nat /\ b.size > 0
      BY <1>4, <2>1
    <2>3. ASSUME b.at + b.size = c.at PROVE FALSE
      <3>1. b.at < c.at
        BY <2>2, <2>3
      <3>2. Touch(h, b.at, c.at)
        BY <1>3, <2>1, <2>3, <3>1 DEF Touch
      <3> QED BY <1>2, <3>2
    <2> QED BY <2>3
  <1> QED BY <1>1, <1>3, <1>5, <1>6 DEF HeapMerged

(* Whatever a program asked and gave back and however it moved its break,  *)
(* every unit that morecore was given is in one block, and no two free     *)
(* blocks touch (lib/libc/malloc.c: malloc, morecore, free).               *)
THEOREM HeapIsWhole == HeapSpec => []HeapWhole
  <1>1. HeapIInv => HeapWhole
    BY BlocksPartition, BlocksMerged DEF HeapWhole
  <1> QED BY <1>1, HeapInitially, HeapStep, PTL DEF HeapSpec
=============================================================================
