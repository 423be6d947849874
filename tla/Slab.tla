-------------------------------- MODULE Slab --------------------------------
(***************************************************************************)
(* kmalloc, kfree and krealloc of kernel/mem/malloc.c.  Each size class    *)
(* (kslab_list[i]) is a chain of slabs; a slab has room for N units, a     *)
(* list of free ones (free_data) and a count of those in use (used_cnt).   *)
(* A call is one action here: nothing switches threads inside it when it   *)
(* is made at boot or with interrupts off.  Sizes above 2048 bytes, which  *)
(* kmalloc serves with a unit of 1024, are left out.                       *)
(***************************************************************************)
EXTENDS Integers, Sequences, FiniteSets

CONSTANTS
  Classes,    \* the size classes, 1 .. n, by size
  N,          \* total_max_cnt of every slab
  MaxSlabs    \* bound: slabs in a chain

ASSUME SlabAssumption ==
  /\ Classes \subseteq Nat
  /\ N \in Nat \ {0}
  /\ MaxSlabs \in Nat \ {0}

VARIABLES
  chain,   \* by class: the slabs linked by `next', each its free list and used_cnt
  live,    \* the units callers own: class, place of the slab in the chain, unit
  halted   \* a null free_data was followed; isr_handler has stopped the machine

slabVars == <<chain, live, halted>>

Units == 1 .. N
Slabs == [free : Seq(Units), cnt : 0 .. N]

(* What alloc_slab_unit and clone_slab_unit build: every unit is free. *)
Fresh == [free |-> [j \in Units |-> j], cnt |-> 0]

SlabInit ==
  /\ chain = [c \in Classes |-> <<Fresh>>]
  /\ live = {}
  /\ halted = FALSE

(* alloc_in_slab_unit looks for the first slab whose used_cnt leaves room, *)
(* and hangs a clone at the end of the chain when there is none.           *)
Slot(ch, s) ==
  /\ \A r \in 1 .. s - 1 : ch[r].cnt >= N
  /\ s \in DOMAIN ch => ch[s].cnt < N

Slab(ch, s) == IF s \in DOMAIN ch THEN ch[s] ELSE Fresh

(* Mutants of Taken: the count is not raised; free_data is not moved on.   *)
TakenUncounted(ch, s) ==
  [r \in DOMAIN ch \cup {s} |->
     IF r = s THEN [Slab(ch, s) EXCEPT !.free = Tail(@)] ELSE ch[r]]

TakenStays(ch, s) ==
  [r \in DOMAIN ch \cup {s} |->
     IF r = s THEN [Slab(ch, s) EXCEPT !.cnt = @ + 1] ELSE ch[r]]

(* The head of the free list is given out. *)
Taken(ch, s) ==
  [r \in DOMAIN ch \cup {s} |->
     IF r = s THEN [free |-> Tail(Slab(ch, s).free), cnt |-> Slab(ch, s).cnt + 1]
     ELSE ch[r]]

(* Mutant of Put: used_cnt stays. *)
PutUncounted(ch, s, j) ==
  [ch EXCEPT ![s].free = <<j>> \o Tail(@)]

(* free_in_slab_unit: the unit becomes the head, and its `next' is what    *)
(* came after the old head, which nothing points at any more.              *)
Put(ch, s, j) ==
  [ch EXCEPT ![s] = [free |-> <<j>> \o Tail(@.free), cnt |-> @.cnt - 1]]

----------------------------------------------------------------------------
Halt == halted' = TRUE /\ UNCHANGED <<chain, live>>

(* alloc_in_slab_unit reads head->next through free_data, null or not. *)
Kmalloc(c) ==
  \E s \in 1 .. MaxSlabs :
    /\ ~halted
    /\ s <= Len(chain[c]) + 1 /\ Slot(chain[c], s)
    /\ \/ /\ Slab(chain[c], s).free = <<>>
          /\ Halt
       \/ /\ Slab(chain[c], s).free # <<>>
          /\ chain' = [chain EXCEPT ![c] = Taken(@, s)]
          /\ live' = live \cup {<<c, s, Head(Slab(chain[c], s).free)>>}
          /\ UNCHANGED halted

(* So does free_in_slab_unit. *)
Kfree(c, s, j) ==
  /\ ~halted
  /\ <<c, s, j>> \in live
  /\ \/ /\ chain[c][s].free = <<>>
        /\ Halt
     \/ /\ chain[c][s].free # <<>>
        /\ chain' = [chain EXCEPT ![c] = Put(@, s, j)]
        /\ live' = live \ {<<c, s, j>>}
        /\ UNCHANGED halted

(* krealloc to more than the unit holds: a unit of a larger class d, then  *)
(* kfree of the old one.  When it fits already nothing changes.            *)
Krealloc(c, s, j, d) ==
  \E t \in 1 .. MaxSlabs :
    /\ ~halted
    /\ <<c, s, j>> \in live
    /\ c < d
    /\ t <= Len(chain[d]) + 1 /\ Slot(chain[d], t)
    /\ \/ /\ Slab(chain[d], t).free = <<>> \/ chain[c][s].free = <<>>
          /\ Halt
       \/ /\ Slab(chain[d], t).free # <<>> /\ chain[c][s].free # <<>>
          /\ chain' = [chain EXCEPT ![d] = Taken(@, t), ![c] = Put(@, s, j)]
          /\ live' = (live \ {<<c, s, j>>}) \cup {<<d, t, Head(Slab(chain[d], t).free)>>}
          /\ UNCHANGED halted

SlabNext ==
  \E c \in Classes :
    \/ Kmalloc(c)
    \/ \E s \in 1 .. MaxSlabs, j \in Units :
         Kfree(c, s, j) \/ \E d \in Classes : Krealloc(c, s, j, d)

SlabSpec == SlabInit /\ [][SlabNext]_slabVars
----------------------------------------------------------------------------
(* Chains grow by whole slabs, and used_cnt stays between zero and the     *)
(* slab's capacity.                                                        *)
SlabTypeOK ==
  /\ chain \in [Classes -> Seq(Slabs)]
  /\ live \subseteq Classes \X (1 .. MaxSlabs) \X Units
  /\ halted \in BOOLEAN

(* No unit has two owners: a free list holds each unit once, and none that *)
(* a caller owns, although kfree links a unit in place of the head.        *)
UnitsApart ==
  \A c \in Classes : \A s \in 1 .. Len(chain[c]) :
    LET free == chain[c][s].free
    IN  /\ \A i, j \in 1 .. Len(free) : i # j => free[i] # free[j]
        /\ \A i \in 1 .. Len(free) : <<c, s, free[i]>> \notin live

(* used_cnt is the number of units callers own, so that a slab which has   *)
(* been given back whole is not passed over, and used_cnt-- never wraps.   *)
CountIsLive ==
  \A c \in Classes : \A s \in 1 .. Len(chain[c]) :
    chain[c][s].cnt = Cardinality({j \in Units : <<c, s, j>> \in live})

(* Expected of kfree: krealloc calls it with "Nobody wants to waste the    *)
(* memory right?", and alloc_in_slab_unit relies on it when it takes a     *)
(* slab whose used_cnt is below total_max_cnt for one that is not full: a  *)
(* unit nobody owns is on the free list.                                   *)
NoWaste ==
  \A c \in Classes : \A s \in 1 .. Len(chain[c]) :
    Len(chain[c][s].free) + chain[c][s].cnt = N
=============================================================================
