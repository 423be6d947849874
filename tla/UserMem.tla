------------------------------ MODULE UserMem ------------------------------
(***************************************************************************)
(* Physical pages, page directories and the calls that build and change    *)
(* user address spaces: mem/pmm.c, mem/bitmap.c, mem/page.c, the remapping *)
(* of mem/vmm.c, the program headers of elf.c, and create_user_thread,     *)
(* user_exec, user_fork, user_sbrk and user_brk of process/task.c.         *)
(*                                                                         *)
(* A call is a sequence of stages and takes, maps or frees a page at a     *)
(* time.  A frame is found in the bitmap, the byte of its bit is loaded    *)
(* and stored back, and then the table is written: separate steps, when a  *)
(* page is freed as well.  Creating and forking hold the interrupts off,   *)
(* exec and sbrk do not: their steps interleave with those of the other    *)
(* processes and of kernel threads.  One scan of the bitmap is one step.   *)
(* What the processor caches of the tables is left out.                    *)
(***************************************************************************)
EXTENDS Integers, FiniteSets, Sequences

CONSTANTS
  Frames,       \* the frames that are free at boot; frame 0 never is
  KPages,       \* addresses of the kernel's heap, in pages
  Procs,        \* the address spaces that can be created
  Pages,        \* user pages from 0x80000000 up, as 0 .. n
  ArgsPage,     \* 0xfffff000, the last one
  StackPages,   \* 0xffffb000 .. 0xffffe000
  Area(_),      \* the page table a user page belongs to
  FilePages, TcbPages, DirPages,   \* sizes of the kernel blocks of a call
  Loads,        \* what v_loads of the first program may name
  Images,       \* what the program headers may say: pages and end
  Breaks,       \* the values of brk, in half pages
  Values,       \* contents of a page; Code is that of a program file
  Code,
  Bound(_),     \* how often exec, sbrk, stores, other threads' kmalloc_page
  None

ASSUME FramesAssumption == Frames \subseteq Nat \ {0}
ASSUME PagesAssumption ==
  /\ Pages \subseteq Nat /\ KPages \subseteq Nat \ {0}
  /\ ArgsPage \in Pages /\ StackPages \subseteq Pages
ASSUME SizesAssumption == FilePages \in Nat /\ TcbPages \in Nat /\ DirPages \in Nat
ASSUME LoadsAssumption == \A l \in Loads : l \subseteq Pages
ASSUME NoneAssumption == None \notin Procs /\ 0 \notin Procs
ASSUME ImagesAssumption ==
  \A i \in Images : i.pages \subseteq Pages /\ i.end \in Breaks
(* With a break in the last page the loop of user_sbrk never ends, because *)
(* the address after it is 0.                                              *)
ASSUME BreaksAssumption ==
  Breaks \subseteq Nat /\ \A b \in Breaks : b \div 2 \in Pages \ {ArgsPage}

VARIABLES
  bits,     \* pmm_bitmap: the frames marked as used
  kdir,     \* the kernel's tables: the frame of a heap page, 0 if not mapped
  dir,      \* the page directory of a process, likewise
  tables,   \* the areas for which it has a page table
  brk, dataEnd,
  mem,      \* what is in a frame
  op,       \* the call that works on an address space
  life,     \* none, live, stuck, dead or gone
  cli,      \* the address space whose call holds the interrupts off
  heap,     \* what the buddy system has given an address for, or Spare
  upd,      \* the page whose frame one is taking or giving back
  calls,    \* how often they were called (for the bound)
  lost,     \* frames marked for good that no table names (history)
  raced     \* two updates got in each other's way

spaces == <<dir, tables, brk, dataEnd, op, life, cli>>
others == <<lost, raced, calls>>
vars == <<bits, kdir, mem, heap, upd, spaces, others>>

-----------------------------------------------------------------------------
(* The calls.                                                              *)

Route ==
  [create |-> <<"file", "tcb", "dir", "map", "remap">>,
   exec   |-> <<"file", "load", "strtab", "args">>,
   refuse |-> <<"file">>,
   fork   |-> <<"tcb", "buf", "dir", "copy">>,
   grow   |-> <<"map">>,
   shrink |-> <<"unmap">>]

Counted == {"exec", "sbrk", "store", "kmalloc"}
Called(c) ==
  /\ calls[c] < Bound(c)
  /\ calls["exec"] + calls["sbrk"] + calls["store"] + calls["kmalloc"]
       < Bound("all")
  /\ calls' = [calls EXCEPT ![c] = @ + 1]

Idle == [call |-> "none"]
Stage(p) == IF op[p] = Idle THEN "idle" ELSE Route[op[p].call][op[p].at]

(* Pages of kernel memory the stage asks of kmalloc_page. *)
Needs(stage) ==
  CASE stage = "file" -> FilePages
    [] stage = "tcb" -> TcbPages
    [] stage = "dir" -> DirPages
    [] stage \in {"buf", "strtab"} -> 1
    [] OTHER -> 0

MappedPages(p) == {g \in Pages : dir[p][g] # 0}

(* User pages the stage goes through, lowest first. *)
Goes(o, stage) ==
  CASE stage \in {"map", "load", "unmap"} -> o.pages
    [] stage = "remap" -> {g \in Pages : g < FilePages}
    [] stage = "args" -> {ArgsPage}
    [] stage = "copy" -> MappedPages(o.from) \ {ArgsPage}
    [] OTHER -> {}

Enter(o, n) ==
  LET stage == Route[o.call][n]
  IN  [o EXCEPT !.at = n, !.need = Needs(stage), !.left = Goes(o, stage)]

(* With all of a stage done, the next one begins; that of the string table *)
(* ends with the copying of the sections.                                  *)
Moved(o) ==
  IF o.need = 0 /\ o.left = {} /\ o.at < Len(Route[o.call])
     /\ Route[o.call][o.at] # "strtab"
    THEN Enter(o, o.at + 1)
    ELSE o

Began(call, from, pages, end) ==
  Enter([call |-> call, at |-> 1, need |-> 0, left |-> {},
         from |-> from, pages |-> pages, end |-> end], 1)

(* Which steps the interrupt flag allows.  Two tables may name one frame   *)
(* after a race: the model stops there.  None stands for the other kernel  *)
(* threads.                                                                *)
Open == cli = None /\ ~raced
May(p) == cli \in {None, p} /\ ~raced /\ life[p] # "stuck"
Actors == Procs \cup {None}
Allowed(a) == IF a = None THEN Open ELSE May(a)
IsLowest(x, S) == \A y \in S : x <= y
FreeFrames == Frames \ bits

(* A heap page is given for a stage of a call, or to another thread. *)
Spare == <<None, "spare", 0>>
Scratch == <<None, "scratch", 0>>
Use(p) == <<p, Stage(p), op[p].need>>
FreeHeap == {k \in KPages : heap[k] = Spare}

-----------------------------------------------------------------------------
(* The bitmap.  A byte of it is shared by eight frames, and bitmap_set     *)
(* loads and stores all of it.                                             *)

Rest == [at |-> "rest"]
Ready(p) == May(p) /\ upd[p] = Rest

(* The frames whose bits are in the byte of that of f. *)
Together(f) == {h \in Frames \cup {0} : h \div 8 = f \div 8}

Marked(u) == (bits \ Together(u.f)) \cup u.val \cup {u.f}
Cleared(u) == (bits \ Together(u.f)) \cup (u.val \ {u.f})

(* The byte has changed since it was loaded, or the frame found has been   *)
(* given to another one since the scan.                                    *)
Torn(u) == bits \cap Together(u.f) # u.val
Given(u) == u.f \in u.val

(* A heap page, and the frame bitmap_scan finds: the lowest. *)
HeapPage(k) == LET H == FreeHeap IN k \in H /\ IsLowest(k, H)
Found(f) == LET F == FreeFrames IN f \in F /\ IsLowest(f, F)

(* pmm_get_page, called by alloc_page for a page that has no frame. *)
Find(a, kind, page) ==
  \E f \in FreeFrames :
    /\ Found(f)
    /\ upd' = [upd EXCEPT ![a] =
                 [at |-> "found", kind |-> kind, page |-> page, f |-> f,
                  val |-> {}]]

(* kmalloc_page: the address, then the frame.  kfree_page gives an address *)
(* back before it is unmapped: who gets it meanwhile gets no frame.        *)
Leaving(k) ==
  \E a \in Actors : /\ upd[a].at \in {"given", "clearing", "freed"}
                     /\ upd[a].kind = "heap" /\ upd[a].page = k
FindHeap(a, use) ==
  \E k \in KPages :
    /\ HeapPage(k)
    /\ heap' = [heap EXCEPT ![k] = use]
    /\ raced' = Leaving(k)
    /\ Find(a, "heap", k)

(* free_page.  On a page without a frame it does nothing. *)
GiveFrame(a, kind, page, f) ==
  upd' = [upd EXCEPT ![a] =
           [at |-> IF f = 0 THEN "freed" ELSE "given", kind |-> kind,
            page |-> page, f |-> f, val |-> {}]]

(* kfree_page, for a block of one page. *)
GiveHeap(a, use) ==
  \E k \in KPages :
    /\ heap[k] = use
    /\ heap' = [heap EXCEPT ![k] = Spare]
    /\ GiveFrame(a, "heap", k, kdir[k])

GoesTo(u, at, val) ==
  [at |-> at, kind |-> u.kind, page |-> u.page, f |-> u.f, val |-> val]

(* The load in bitmap_set. *)
LoadByte(a) ==
  /\ Allowed(a) /\ upd[a].at \in {"found", "given"}
  /\ upd' = [upd EXCEPT ![a] =
               GoesTo(@, IF @.at = "found" THEN "marking" ELSE "clearing",
                      bits \cap Together(@.f))]
  /\ UNCHANGED <<bits, kdir, mem, heap, spaces, others>>

(* The store in it, when a frame is given back: the table still names it. *)
ClearBit(a) ==
  /\ Allowed(a) /\ upd[a].at = "clearing"
  /\ bits' = Cleared(upd[a])
  /\ raced' = Torn(upd[a])
  /\ upd' = [upd EXCEPT ![a] = GoesTo(@, "freed", {})]
  /\ UNCHANGED <<kdir, mem, heap, spaces, lost, calls>>

(* The store when one is taken, with the table's entry, which nobody else  *)
(* reads or writes.                                                        *)
MarkBit(a) ==
  /\ upd[a].at = "marking"
  /\ bits' = Marked(upd[a])
  /\ raced' = (Torn(upd[a]) \/ Given(upd[a]))
  /\ upd' = [upd EXCEPT ![a] = Rest]

MapKernel(a) ==
  /\ Allowed(a) /\ MarkBit(a) /\ upd[a].kind = "heap"
  /\ kdir' = [kdir EXCEPT ![upd[a].page] = upd[a].f]
  /\ mem' = [mem EXCEPT ![upd[a].f] = Code]
  /\ heap' = heap

MapUser(p, g) ==
  /\ Allowed(p) /\ MarkBit(p) /\ upd[p].kind = "user" /\ upd[p].page = g
  /\ dir' = [dir EXCEPT ![p][g] = upd[p].f]

(* The entry of a page that is given back. *)
UnmapKernel(a) ==
  /\ Allowed(a) /\ upd[a].at = "freed" /\ upd[a].kind = "heap"
  /\ kdir' = [kdir EXCEPT ![upd[a].page] = 0]
  /\ upd' = [upd EXCEPT ![a] = Rest]
  /\ UNCHANGED <<bits, heap>>

UnmapUser(p, g) ==
  /\ Allowed(p) /\ upd[p].at = "freed" /\ upd[p].kind = "user"
  /\ upd[p].page = g
  /\ dir' = [dir EXCEPT ![p][g] = 0]
  /\ upd' = [upd EXCEPT ![p] = Rest]

Init ==
  /\ bits = {0}
  /\ kdir = [k \in KPages |-> 0]
  /\ dir = [p \in Procs |-> [g \in Pages |-> 0]]
  /\ tables = [p \in Procs |-> {}]
  /\ brk = [p \in Procs |-> 0]
  /\ dataEnd = [p \in Procs |-> 0]
  /\ mem \in [Frames -> {Code}]
  /\ op = [p \in Procs |-> Idle]
  /\ life = [p \in Procs |-> "none"]
  /\ cli = None
  /\ heap = [k \in KPages |-> Spare]
  /\ upd = [a \in Actors |-> Rest]
  /\ calls = [c \in Counted |-> 0]
  /\ lost = {}
  /\ raced = FALSE

-----------------------------------------------------------------------------
(* Steps of a call.                                                        *)

(* One page of a kernel block.  create_user_thread turns the interrupts    *)
(* off once it has the control block.                                      *)
FindPage(p) ==
  /\ Ready(p) /\ op[p] # Idle /\ op[p].need > 0
  /\ FindHeap(p, Use(p))
  /\ UNCHANGED <<bits, kdir, mem, spaces, lost, calls>>

Take(p) ==
  /\ op[p] # Idle /\ op[p].need > 0
  /\ MapKernel(p)
  /\ op' = [op EXCEPT ![p] = Moved([op[p] EXCEPT !.need = @ - 1])]
  /\ cli' = IF op[p].call = "create" /\ op'[p].at = 3 THEN p ELSE cli
  /\ UNCHANGED <<dir, tables, brk, dataEnd, life, lost, calls>>

Turn(p, g) ==
  May(p) /\ op[p] # Idle /\ g \in op[p].left /\ IsLowest(g, op[p].left)
Passed(p, g) == op' = [op EXCEPT ![p] = Moved([op[p] EXCEPT !.left = @ \ {g}])]

(* The pages of a stage that works on the tables without being asked       *)
(* whether they are mapped; a missing table is a page of kernel memory.    *)
FindTable(p, g) ==
  /\ Ready(p) /\ Turn(p, g)
  /\ Area(g) \notin tables[p]
  /\ FindHeap(p, Use(p))
  /\ UNCHANGED <<bits, kdir, mem, spaces, lost, calls>>

Table(p, g) ==
  /\ Turn(p, g)
  /\ Area(g) \notin tables[p]
  /\ MapKernel(p)
  /\ tables' = [tables EXCEPT ![p] = @ \cup {Area(g)}]
  /\ UNCHANGED <<dir, brk, dataEnd, op, life, cli, lost, calls>>

(* page_u_map_set on a page that has no frame.  The frame is not cleared;  *)
(* page_clone_user_page copies the parent's page into it.                  *)
Maps(p, g) == /\ Stage(p) \in {"map", "args", "load", "copy"}
              /\ Area(g) \in tables[p]
              /\ dir[p][g] = 0

FindUser(p, g) ==
  /\ Ready(p) /\ Turn(p, g) /\ Maps(p, g)
  /\ Find(p, "user", g)
  /\ UNCHANGED <<bits, kdir, mem, heap, spaces, others>>

(* Mutant: the parent's page is read through the child's directory. *)
MapCopiesItself(p, g) ==
  /\ Turn(p, g) /\ Maps(p, g)
  /\ MapUser(p, g)
  /\ mem' = mem
  /\ Passed(p, g)
  /\ UNCHANGED <<kdir, heap, tables, brk, dataEnd, life, cli, lost, calls>>

Map(p, g) ==
  /\ Turn(p, g) /\ Maps(p, g)
  /\ MapUser(p, g)
  /\ mem' = IF Stage(p) = "copy"
              THEN [mem EXCEPT ![upd[p].f] = mem[dir[op[p].from][g]]]
              ELSE mem
  /\ Passed(p, g)
  /\ UNCHANGED <<kdir, heap, tables, brk, dataEnd, life, cli, lost, calls>>

(* One that has a frame is left as it is, and page_u_map_unset on a page   *)
(* without one does nothing.                                               *)
Pass(p, g) ==
  /\ Ready(p) /\ Turn(p, g)
  /\ Area(g) \in tables[p]
  /\ \/ Stage(p) \in {"map", "args"} /\ dir[p][g] # 0
     \/ Stage(p) = "unmap" /\ dir[p][g] = 0
  /\ Passed(p, g)
  /\ UNCHANGED <<bits, kdir, mem, heap, upd, dir, tables, brk, dataEnd, life,
                 cli, others>>

(* program_header_32_parse unmaps a page the image covers before it maps   *)
(* it anew; user_sbrk unmaps the pages above the new break.                *)
GiveUser(p, g) ==
  /\ Ready(p) /\ Turn(p, g)
  /\ Stage(p) \in {"load", "unmap"}
  /\ dir[p][g] # 0
  /\ GiveFrame(p, "user", g, dir[p][g])
  /\ UNCHANGED <<bits, kdir, mem, heap, spaces, others>>

Unmap(p, g) ==
  /\ Turn(p, g)
  /\ Stage(p) \in {"load", "unmap"}
  /\ UnmapUser(p, g)
  /\ IF Stage(p) = "unmap" THEN Passed(p, g) ELSE op' = op
  /\ UNCHANGED <<bits, kdir, mem, heap, tables, brk, dataEnd, life, cli, others>>

(* The page of the file, which the first stage put in the heap. *)
FilePage(p, g) == <<p, "file", FilePages - g>>

(* Mutant: the kernel's table keeps the page that was handed over. *)
RemapLinked(p, g) ==
  /\ Ready(p) /\ Turn(p, g)
  /\ Stage(p) = "remap"
  /\ Area(g) \in tables[p]
  /\ \E k \in KPages :
       /\ heap[k] = FilePage(p, g)
       /\ heap' = [heap EXCEPT ![k] = Spare]
       /\ dir' = IF dir[p][g] # 0 THEN dir
                 ELSE [dir EXCEPT ![p][g] = kdir[k]]
       /\ bits' = bits \cup {kdir[k]}
  /\ Passed(p, g)
  /\ UNCHANGED <<kdir, mem, upd, tables, brk, dataEnd, life, cli, others>>

(* vmm_remap_pages: the file's page leaves the heap for the user's table.  *)
(* If the table names a frame already it stays, and the file's is lost.    *)
(* The frame's bit is set: a load and a store that change nothing.         *)
Remap(p, g) ==
  /\ Ready(p) /\ Turn(p, g)
  /\ Stage(p) = "remap"
  /\ Area(g) \in tables[p]
  /\ \E k \in KPages :
       /\ heap[k] = FilePage(p, g)
       /\ heap' = [heap EXCEPT ![k] = Spare]
       /\ kdir' = [kdir EXCEPT ![k] = 0]
       /\ IF dir[p][g] # 0
            THEN /\ lost' = lost \cup ({kdir[k]} \ {0})
                 /\ UNCHANGED <<bits, dir>>
            ELSE /\ dir' = [dir EXCEPT ![p][g] = kdir[k]]
                 /\ bits' = bits \cup {kdir[k]}
                 /\ lost' = lost
  /\ Passed(p, g)
  /\ UNCHANGED <<mem, upd, tables, brk, dataEnd, life, cli, raced, calls>>

(* section_header_32_parse copies the sections and gives its buffer back.  *)
GiveStrings(p) ==
  /\ Ready(p) /\ Stage(p) = "strtab" /\ op[p].need = 0
  /\ GiveHeap(p, <<p, "strtab", 1>>)
  /\ mem' = [f \in Frames |->
               IF \E g \in op[p].pages : dir[p][g] = f THEN Code ELSE mem[f]]
  /\ UNCHANGED <<bits, kdir, spaces, others>>

Sections(p) ==
  /\ Stage(p) = "strtab" /\ op[p].need = 0
  /\ UnmapKernel(p)
  /\ op' = [op EXCEPT ![p] = Enter(@, 4)]
  /\ UNCHANGED <<mem, dir, tables, brk, dataEnd, life, cli, others>>

(* The call returns: what it leaves in the control block. *)
Return(p) ==
  /\ Ready(p) /\ op[p] # Idle
  /\ op[p].need = 0 /\ op[p].left = {} /\ op[p].at = Len(Route[op[p].call])
  /\ LET o == op[p]
     IN  /\ life' = [life EXCEPT ![p] = "live"]
         /\ brk' = [brk EXCEPT ![p] =
                      IF o.call = "fork" THEN brk[o.from] ELSE o.end]
         /\ dataEnd' = [dataEnd EXCEPT ![p] =
                      CASE o.call = "fork" -> dataEnd[o.from]
                        [] o.call \in {"create", "exec"} -> o.end
                        [] OTHER -> @]
         /\ cli' = IF o.call \in {"create", "fork"} THEN None ELSE cli
  /\ op' = [op EXCEPT ![p] = Idle]
  /\ UNCHANGED <<bits, kdir, mem, heap, upd, dir, tables, others>>

(* bitmap_scan asserts that a bit is clear, and a failed ASSERT spins. *)
WantsFrame(p) ==
  \/ op[p].need > 0
  \/ \E g \in op[p].left :
       Turn(p, g) /\ (Area(g) \notin tables[p] \/ Maps(p, g))

Spin(p) ==
  /\ Ready(p) /\ op[p] # Idle /\ WantsFrame(p)
  /\ FreeFrames = {}
  /\ life' = [life EXCEPT ![p] = "stuck"]
  /\ UNCHANGED <<bits, kdir, mem, heap, upd, dir, tables, brk, dataEnd, op, cli,
                 others>>

-----------------------------------------------------------------------------
(* Calls begin.                                                            *)

Runs(p) == Open /\ life[p] = "live" /\ op[p] = Idle
Start(p, call, from, pages, end) ==
  /\ op' = [op EXCEPT ![p] = Began(call, from, pages, end)]
  /\ UNCHANGED <<bits, kdir, mem, heap, upd, dir, tables, brk, dataEnd, lost,
                 raced>>

(* create_user_thread, for the program of a file whose v_loads are given.  *)
(* main calls it once; every other process comes from a fork.              *)
Create(p) ==
  /\ Open /\ \A q \in Procs : life[q] = "none"
  /\ \E loads \in Loads : Start(p, "create", p, StackPages \cup loads, 0)
  /\ life' = [life EXCEPT ![p] = "new"]
  /\ UNCHANGED <<cli, calls>>

(* user_exec.  A file that is no program is refused after it was read. *)
Exec(p) ==
  /\ Runs(p) /\ Called("exec")
  /\ \/ \E i \in Images : Start(p, "exec", p, i.pages, i.end)
     \/ Start(p, "refuse", p, {}, brk[p])
  /\ UNCHANGED <<life, cli>>

Fork(p, c) ==
  /\ Runs(p) /\ life[c] = "none"
  /\ Start(c, "fork", p, {}, 0)
  /\ life' = [life EXCEPT ![c] = "new"]
  /\ cli' = c
  /\ UNCHANGED calls

Page(b) == b \div 2

(* Mutant: the page of the new break is left out. *)
GrownShort(old, new) == {g \in Pages : Page(old) <= g /\ g < Page(new)}

(* user_sbrk maps from the page of the old break to that of the new one,   *)
(* or unmaps from the page after that of the new one to that of the old.   *)
Grown(old, new) == {g \in Pages : Page(old) <= g /\ g <= Page(new)}
Shrunk(old, new) == {g \in Pages : Page(new) + 1 <= g /\ g <= Page(old)}

(* A program that was never loaded by exec has its break at 0, below the   *)
(* user's area; it does not call sbrk.                                     *)
Sbrk(p) ==
  /\ Runs(p) /\ dataEnd[p] # 0 /\ Called("sbrk")
  /\ \E new \in Breaks \ {brk[p]} :
       IF new > brk[p]
         THEN Start(p, "grow", p, Grown(brk[p], new), new)
         ELSE Start(p, "shrink", p, Shrunk(brk[p], new), new)
  /\ UNCHANGED <<life, cli>>

Exit(p) ==
  /\ Runs(p)
  /\ life' = [life EXCEPT ![p] = "dead"]
  /\ UNCHANGED <<bits, kdir, mem, heap, upd, dir, tables, brk, dataEnd, op, cli,
                 others>>

(* clean_up_dead frees one page of the control block, its first, and       *)
(* nothing else.                                                           *)
GiveBlock(p) ==
  /\ Ready(p) /\ life[p] = "dead"
  /\ GiveHeap(p, <<p, "tcb", TcbPages>>)
  /\ UNCHANGED <<bits, kdir, mem, spaces, others>>

Reap(p) ==
  /\ life[p] = "dead"
  /\ UnmapKernel(p)
  /\ life' = [life EXCEPT ![p] = "gone"]
  /\ UNCHANGED <<mem, dir, tables, brk, dataEnd, op, cli, others>>

(* The program writes to a page it has. *)
Store(p) ==
  /\ Runs(p) /\ Called("store")
  /\ \E g \in Pages, v \in Values :
       /\ dir[p][g] # 0
       /\ mem[dir[p][g]] # v
       /\ mem' = [mem EXCEPT ![dir[p][g]] = v]
  /\ UNCHANGED <<bits, kdir, heap, upd, spaces, lost, raced>>

-----------------------------------------------------------------------------
(* kmalloc_page and kfree_page of the other kernel threads.                *)

FindScratch ==
  /\ Open /\ upd[None] = Rest /\ Called("kmalloc")
  /\ FindHeap(None, Scratch)
  /\ UNCHANGED <<bits, kdir, mem, spaces, lost>>

TakeScratch ==
  /\ MapKernel(None)
  /\ UNCHANGED <<spaces, lost, calls>>

GiveScratch ==
  /\ Open /\ upd[None] = Rest
  /\ GiveHeap(None, Scratch)
  /\ UNCHANGED <<bits, kdir, mem, spaces, others>>

FreeScratch ==
  /\ UnmapKernel(None)
  /\ UNCHANGED <<mem, spaces, others>>

Next ==
  \/ \E p \in Procs :
       \/ FindPage(p) \/ Take(p) \/ GiveStrings(p) \/ Sections(p)
       \/ Return(p) \/ Spin(p)
       \/ \E g \in Pages : \/ FindTable(p, g) \/ Table(p, g)
                          \/ FindUser(p, g) \/ Map(p, g) \/ Pass(p, g)
                          \/ GiveUser(p, g) \/ Unmap(p, g) \/ Remap(p, g)
       \/ Create(p) \/ Exec(p) \/ Sbrk(p) \/ Exit(p) \/ Store(p)
       \/ GiveBlock(p) \/ Reap(p)
       \/ \E c \in Procs : Fork(p, c)
  \/ \E a \in Actors : LoadByte(a) \/ ClearBit(a)
  \/ FindScratch \/ TakeScratch \/ GiveScratch \/ FreeScratch

Spec == Init /\ [][Next]_vars

-----------------------------------------------------------------------------
(* The pages whose entries name a frame, without one whose frame has been  *)
(* given back and which is cleared next.                                   *)
Gone(a, kind, page) ==
  upd[a].at = "freed" /\ upd[a].kind = kind /\ upd[a].page = page
HeapPages ==
  {k \in KPages : kdir[k] # 0 /\ \A a \in Actors : ~Gone(a, "heap", k)}
UserPages(p) == {g \in Pages : dir[p][g] # 0 /\ ~Gone(p, "user", g)}

KernelFrames == {kdir[k] : k \in HeapPages}
UserFrames == UNION {{dir[p][g] : g \in UserPages(p)} : p \in Procs}

(* Every frame marked in the bitmap has one owner, every other has none:   *)
(* no two tables name the same frame, and none names a free one, but for   *)
(* the entry that free_page is about to clear.  Holds, whatever updates of *)
(* the bitmap are under way at once, until two of them change one byte     *)
(* between the load and the store of bitmap_set, two calls of pmm_get_page *)
(* find one frame, or kmalloc_page is given an address that kfree_page has *)
(* not unmapped yet: none of them holds the interrupts off.                *)
OneOwner ==
  ~raced =>
    /\ \A k, l \in HeapPages : kdir[k] = kdir[l] => k = l
    /\ \A p, q \in Procs : \A g \in UserPages(p), h \in UserPages(q) :
         dir[p][g] = dir[q][h] => p = q /\ g = h
    /\ KernelFrames \cap UserFrames = {}
    /\ lost \cap (KernelFrames \cup UserFrames) = {}
    /\ bits = {0} \cup KernelFrames \cup UserFrames \cup lost

(* A program finds a page behind every address from the end of its data    *)
(* up to its break, whatever it was given and gave back: user_sbrk works   *)
(* on whole pages, the break is any address.                               *)
BreakMapped ==
  \A p \in Procs :
    life[p] = "live" /\ op[p] = Idle =>
      \A b \in Breaks : dataEnd[p] <= b /\ b < brk[p] => dir[p][Page(b)] # 0

(* What the pages of a process hold. *)
View(p) == [g \in MappedPages(p) |-> mem[dir[p][g]]]

(* A fork returns with every page of the parent copied, except that of the *)
(* arguments, which page_clone_user_page stops short of.                   *)
ForkCopies ==
  [][\A c \in Procs :
       op[c] # Idle /\ op[c].call = "fork" /\ op'[c] = Idle =>
         View(c)' = [g \in MappedPages(op[c].from) \ {ArgsPage} |->
                       View(op[c].from)[g]]]_vars
=============================================================================
