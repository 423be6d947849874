-------------------------------- MODULE Heap --------------------------------
(* malloc and free of a user program (lib/libc/malloc.c): a ring of free     *)
(* blocks in the order of their addresses, searched from where the last      *)
(* search ended (freep), grown by sbrk.  Addresses and sizes count Headers;  *)
(* a block's size includes its own Header.  The kernel's sbrk never says no, *)
(* so malloc has no failure: the model stops asking at HeapTop.  The program *)
(* may move the break itself in between: what sbrk gives next is then not    *)
(* next to what it gave before.                                              *)
EXTENDS Integers, FiniteSets

CONSTANTS HeapRequests,  \* the sizes asked of malloc, in units with the Header
          CoreUnits,     \* 4096, the least that morecore asks of sbrk
          OwnUnits,      \* how far the program itself moves the break
          HeapTop        \* bound of the break

ASSUME HeapAssumption ==
  HeapRequests \subseteq Nat \ {0} /\ CoreUnits \in Nat \ {0} /\ OwnUnits \in Nat /\ HeapTop \in Nat

VARIABLES hdr,       \* the Headers of the free blocks, by address
          freep,     \* NoHeap before the first malloc
          heapEnd,   \* the program's break
          cored,     \* the units morecore was given
          handed     \* the blocks the program holds: [at, size]

heapVars == <<hdr, freep, heapEnd, cored, handed>>

NoHeap == -1
Base == 0          \* &base, which lies below the heap
Smallest(S) == CHOOSE n \in S : \A m \in S : n <= m
Extent(at, size) == at .. at + size - 1

HeapInit ==
  /\ hdr = [a \in {Base} |-> [ptr |-> Base, size |-> 0]]
  /\ freep = NoHeap /\ heapEnd = 1 /\ cored = {} /\ handed = {}

\* The block n steps along the ring from `from`.
Along(h, from, n) ==
  LET f[k \in 0 .. n] == IF k = 0 THEN from ELSE h[f[k - 1]].ptr IN f[n]

\* The loop of free: the first free block after which bp belongs.
Belongs(h, p, bp) ==
  \/ bp > p /\ bp < h[p].ptr
  \/ p >= h[p].ptr /\ (bp > p \/ bp < h[p].ptr)

Before(h, from, bp) ==
  Along(h, from, Smallest({n \in 0 .. Cardinality(DOMAIN h) : Belongs(h, Along(h, from, n), bp)}))

Unlinked(h, a) == [b \in DOMAIN h \ {a} |-> h[b]]

JoinedNever(h, p, bp, size) ==
  [b \in DOMAIN h \union {bp} |->
     IF b = bp THEN [ptr |-> h[p].ptr, size |-> size] ELSE h[b]]

\* bp, of the given size, joined with the free block above it, if they touch.
JoinedUp(h, p, bp, size) ==
  IF bp + size = h[p].ptr
  THEN [b \in (DOMAIN h \ {h[p].ptr}) \union {bp} |->
          IF b = bp THEN [ptr |-> h[h[p].ptr].ptr, size |-> size + h[h[p].ptr].size] ELSE h[b]]
  ELSE [b \in DOMAIN h \union {bp} |->
          IF b = bp THEN [ptr |-> h[p].ptr, size |-> size] ELSE h[b]]

\* ... and with the one below it.
JoinedDown(h, p, bp) ==
  IF p + h[p].size = bp
  THEN Unlinked([h EXCEPT ![p] = [ptr |-> h[bp].ptr, size |-> h[p].size + h[bp].size]], bp)
  ELSE [h EXCEPT ![p].ptr = bp]

FreedIn(h, from, bp, size) ==
  LET p == Before(h, from, bp)
  IN [hdr |-> JoinedDown(JoinedUp(h, p, bp, size), p, bp), freep |-> p]

\* malloc's search: how many steps after freep the first large enough block is.
Fits(h, from, units) ==
  {n \in 1 .. Cardinality(DOMAIN h) : h[Along(h, from, n)].size >= units}

CutToAll(size, units) == size

\* A block that is too large is cut, and its upper part handed out.
CutTo(size, units) == size - units

TakenFrom(h, from, units) ==
  LET n == Smallest(Fits(h, from, units))
      prevp == Along(h, from, n - 1)
      p == Along(h, from, n)
  IN IF h[p].size = units
     THEN [hdr |-> Unlinked([h EXCEPT ![prevp].ptr = h[p].ptr], p), freep |-> prevp, at |-> p]
     ELSE [hdr |-> [h EXCEPT ![p].size = CutTo(@, units)], freep |-> prevp,
           at |-> p + CutTo(h[p].size, units)]

CoreFor(units) == IF units < CoreUnits THEN CoreUnits ELSE units

UserMalloc(units) ==
  LET start == IF freep = NoHeap THEN Base ELSE freep
      more == Fits(hdr, start, units) = {}
      nu == CoreFor(units)
      ready == IF more THEN FreedIn(hdr, start, heapEnd, nu) ELSE [hdr |-> hdr, freep |-> start]
      taken == TakenFrom(ready.hdr, ready.freep, units)
  IN /\ more => heapEnd + nu <= HeapTop
     /\ heapEnd' = IF more THEN heapEnd + nu ELSE heapEnd
     /\ cored' = IF more THEN cored \union Extent(heapEnd, nu) ELSE cored
     /\ hdr' = taken.hdr /\ freep' = taken.freep
     /\ handed' = handed \union {[at |-> taken.at, size |-> units]}

UserFree(b) ==
  /\ b \in handed
  /\ hdr' = FreedIn(hdr, freep, b.at, b.size).hdr
  /\ freep' = FreedIn(hdr, freep, b.at, b.size).freep
  /\ handed' = handed \ {b}
  /\ UNCHANGED <<heapEnd, cored>>

OwnSbrk ==
  /\ heapEnd + OwnUnits <= HeapTop
  /\ heapEnd' = heapEnd + OwnUnits
  /\ UNCHANGED <<hdr, freep, cored, handed>>

HeapNext ==
  \/ \E units \in HeapRequests : UserMalloc(units)
  \/ \E b \in handed : UserFree(b)
  \/ OwnSbrk

HeapSpec == HeapInit /\ [][HeapNext]_heapVars

-----------------------------------------------------------------------------
FreeBlocks == {[at |-> a, size |-> hdr[a].size] : a \in DOMAIN hdr \ {Base}}

(* Whatever the program asked and gave back, in whatever order:              *)
(*  - every unit that morecore got from sbrk is in exactly one block, free or *)
(*    handed out, and no block reaches outside them;                         *)
(*  - the ring goes through every free block in the order of their addresses *)
(*    and no two free blocks touch: what was freed in pieces serves a larger *)
(*    request again.                                                         *)
HeapPartition ==
  LET blocks == FreeBlocks \union handed IN
  /\ UNION {Extent(b.at, b.size) : b \in blocks} = cored
  /\ \A b, c \in blocks : b # c => Extent(b.at, b.size) \cap Extent(c.at, c.size) = {}
  /\ \A b \in FreeBlocks : b \notin handed

HeapMerged ==
  /\ \A a \in DOMAIN hdr :
       hdr[a].ptr = IF \E b \in DOMAIN hdr : b > a
                    THEN Smallest({b \in DOMAIN hdr : b > a}) ELSE Base
  /\ \A b, c \in FreeBlocks : b.at + b.size # c.at

HeapWhole == HeapPartition /\ HeapMerged
=============================================================================
