------------------------------- MODULE Buddy -------------------------------
(***************************************************************************)
(* The page allocator of kernel/mem/vmm.c: one list of free blocks for     *)
(* each power of two up to 1024 pages.  A block is split when no smaller   *)
(* one is free, and merged once with a neighbour when it is freed.  Blocks *)
(* need not be aligned: init_vmm cuts up the pages behind the kernel       *)
(* wherever these begin, and vmm_page_merge takes any neighbour.           *)
(*                                                                         *)
(* A list (p_first_num and the next_page links) is the sequence of the     *)
(* pages it links.  Each call is one action here, as in user_fork, which   *)
(* has interrupts off, and at boot; two calls that interrupt each other    *)
(* are left out.                                                           *)
(***************************************************************************)
EXTENDS Integers, Sequences, FiniteSets

CONSTANTS
  FirstPage,   \* kfree_paddr_start/4096, the first page behind the kernel
  EndPage,     \* VMM_MAX_PAGE_NUM
  MaxOrder,    \* PG_1024
  Size         \* Size[k]: the pages in a block of order k, 2^k

Orders == 0 .. MaxOrder
Pages == FirstPage .. EndPage - 1

ASSUME BuddyAssumption ==
  /\ FirstPage \in Nat \ {0} /\ EndPage \in Nat /\ FirstPage <= EndPage
  /\ MaxOrder \in Nat
  /\ Size \in [Orders -> Nat \ {0}]
  /\ Size[0] = 1
  /\ \A k \in Orders \ {0} : Size[k] = 2 * Size[k - 1]
  /\ \A k, l \in Orders : k < l => 2 * Size[k] <= Size[l]

VARIABLES
  area,     \* kbuddy_list.area_list: the free blocks' first pages, by order
  held,     \* the blocks given out: pairs of first page and order
  unowned  \* pages whose block was given back in part: nobody has them

buddyVars == <<area, held, unowned>>

PagesOf(b) == b[1] .. b[1] + Size[b[2]] - 1

(* init_vmm, for each order from the largest down: vmm_alloc_pnum finds    *)
(* the first run of so many pages that is left, until there is none.  (The *)
(* three single pages it takes and frees again at its end are calls like   *)
(* any other.)                                                             *)
Cut(k) ==
  LET all == EndPage - FirstPage
      n   == IF k = MaxOrder THEN all \div Size[k] ELSE (all \div Size[k]) % 2
      end == FirstPage + (all \div Size[k]) * Size[k]
  IN  [i \in 1 .. n |-> end - i * Size[k]]

BuddyInit ==
  /\ area = [k \in Orders |-> Cut(k)]
  /\ held = {}
  /\ unowned = {}

----------------------------------------------------------------------------
(* The order of the free list vmm_page_alloc gets to, one call deeper for  *)
(* each empty list it meets.                                               *)
Found(k, j) ==
  /\ k <= j /\ area[j] # <<>>
  /\ \A i \in Orders : k <= i /\ i < j => area[i] = <<>>

(* Mutant of Left: the two halves are taken for each other. *)
LeftOther(top, j, i) == top + Size[j] - Size[i]

(* What is left on the list of order i when a block of order j at page     *)
(* `top' is split for a smaller one: the lower half; the upper half, last  *)
(* appended, is split or given out.                                        *)
Left(top, j, i) == top + Size[j] - Size[i + 1]

(* vmm_buddy_alloc for a size that is rounded up to order k.  When there   *)
(* is no such order the call changes nothing and never returns (while(1)). *)
Alloc(k) ==
  \E j \in Orders :
    LET top == Head(area[j])
    IN  /\ Found(k, j)
        /\ area' = [i \in Orders |->
                      IF i = j THEN Tail(area[i])
                      ELSE IF k <= i /\ i < j THEN <<Left(top, j, i)>>
                      ELSE area[i]]
        /\ held' = held \cup {<<top + Size[j] - Size[k], k>>}
        /\ UNCHANGED unowned

(* vmm_page_merge when page p has been put at the head of list k: the      *)
(* first block of the list next to p, the last one of the list excepted.   *)
Neighbours(p, k, q) == p = q + Size[k] \/ q = p + Size[k]

Mergeable(p, k, i) ==
  /\ k < MaxOrder
  /\ i \in 1 .. Len(area[k]) - 1
  /\ Neighbours(p, k, area[k][i])
  /\ \A m \in 1 .. i - 1 : ~Neighbours(p, k, area[k][m])

Without(s, i) == SubSeq(s, 1, i - 1) \o SubSeq(s, i + 1, Len(s))

(* Mutants of Merge: the neighbour stays on its list; the merged block is  *)
(* put down at p wherever the neighbour lies; or p_first_num is set to what *)
(* follows the neighbour, and what came before it is gone.                 *)
MergeKeeps(p, k, i) ==
  area' = [area EXCEPT
             ![k + 1] = <<IF area[k][i] < p THEN area[k][i] ELSE p>> \o area[k + 1]]

MergeAtPage(p, k, i) ==
  area' = [area EXCEPT ![k] = Without(area[k], i), ![k + 1] = <<p>> \o area[k + 1]]

MergeCutsList(p, k, i) ==
  area' = [area EXCEPT
             ![k] = SubSeq(area[k], i + 1, Len(area[k])),
             ![k + 1] = <<IF area[k][i] < p THEN area[k][i] ELSE p>> \o area[k + 1]]

(* Both leave list k, and the lower one goes on list k+1. *)
Merge(p, k, i) ==
  area' = [area EXCEPT
             ![k] = Without(area[k], i),
             ![k + 1] = <<IF area[k][i] < p THEN area[k][i] ELSE p>> \o area[k + 1]]

(* vmm_page_free: the block goes to the head of its list and is merged.   *)
PageFree(p, k) ==
  \/ \E i \in 1 .. Len(area[k]) : Mergeable(p, k, i) /\ Merge(p, k, i)
  \/ /\ \A i \in 1 .. Len(area[k]) : ~Mergeable(p, k, i)
     /\ area' = [area EXCEPT ![k] = <<p>> \o area[k]]

(* vmm_buddy_free by the holder of a block, with the size it asked for *)
Free(p, k) ==
  /\ <<p, k>> \in held
  /\ held' = held \ {<<p, k>>}
  /\ PageFree(p, k)
  /\ UNCHANGED unowned

(* The error paths of user_fork and create_user_thread: the TCB is a block *)
(* of two pages, and kfree_page is told of one.                            *)
FreeShort(p) ==
  /\ <<p, 1>> \in held
  /\ held' = held \ {<<p, 1>>}
  /\ PageFree(p, 0)
  /\ unowned' = unowned \cup {p + 1}

BuddyNext ==
  \/ \E k \in Orders : Alloc(k) \/ \E p \in Pages : Free(p, k)
  \/ \E p \in Pages : FreeShort(p)

BuddySpec == BuddyInit /\ [][BuddyNext]_buddyVars
----------------------------------------------------------------------------
(* Blocks come from the lists and from the holders; a free one is named by *)
(* its place, so that a block listed twice counts twice.                   *)
Places == {w \in Orders \X (1 .. EndPage) : w[2] <= Len(area[w[1]])}
At(w)  == <<area[w[1]][w[2]], w[1]>>

(* Every block, free or held, lies within the memory behind the kernel.    *)
BuddyTypeOK ==
  /\ area \in [Orders -> Seq(Pages)]
  /\ held \subseteq Pages \X Orders
  /\ unowned \subseteq Pages
  /\ \A w \in Places : PagesOf(At(w)) \subseteq Pages
  /\ \A b \in held : PagesOf(b) \subseteq Pages

(* A page is in one block only: no page is given out twice, none is given  *)
(* out while it is still listed as free, and no free page is listed twice, *)
(* through any sequence of splits and merges (vmm_page_alloc and           *)
(* vmm_page_merge keep no record of what a block was split from).          *)
NoOverlap ==
  /\ \A v, w \in Places : v # w => PagesOf(At(v)) \cap PagesOf(At(w)) = {}
  /\ \A w \in Places, b \in held : PagesOf(At(w)) \cap PagesOf(b) = {}
  /\ \A b, c \in held : b # c => PagesOf(b) \cap PagesOf(c) = {}

(* Splitting and merging lose no page: each is free, given out, or the     *)
(* second page of a TCB that an error path of user_fork or                 *)
(* create_user_thread gave back as one page.                               *)
NoPageLost ==
  LET free == UNION {PagesOf(At(w)) : w \in Places}
      used == UNION {PagesOf(b) : b \in held}
  IN  /\ free \cup used \cup unowned = Pages
      /\ (free \cup used) \cap unowned = {}

(* The allocator keeps the promise of module PagePool to the callers of    *)
(* kmalloc_page: nobody else has any page of the block they get.           *)
Pool == INSTANCE PagePool
ImplementsPool == Pool!PSpec
=============================================================================
