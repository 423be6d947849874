----------------------------- MODULE PagePool -----------------------------
(***************************************************************************)
(* What the kernel's page allocator promises to those who call             *)
(* kmalloc_page and kfree_page: a block of as many consecutive pages as    *)
(* were asked for, rounded up to a power of two, that nobody else holds.   *)
(***************************************************************************)
EXTENDS Integers

CONSTANTS
  Pages,    \* the pages the allocator gives out
  Orders,   \* the sizes of the blocks, as exponents of two
  Size      \* Size[k]: the number of pages in a block of order k

VARIABLE held   \* the blocks given out, each a pair of first page and order

PagesOf(b) == b[1] .. b[1] + Size[b[2]] - 1

PInit == held = {}

Give(b) ==
  /\ PagesOf(b) \subseteq Pages
  /\ \A c \in held : PagesOf(b) \cap PagesOf(c) = {}
  /\ held' = held \cup {b}

TakeBack(b) ==
  /\ b \in held
  /\ held' = held \ {b}

PNext == \E b \in Pages \X Orders : Give(b) \/ TakeBack(b)

PSpec == PInit /\ [][PNext]_held
=============================================================================
