# QNOS in TLA+

Specifications of QNOS, a 32-bit kernel for one i386 processor, with the TLC configurations that
check them on small instances and TLAPS proofs for every instance. Paths below are relative to the
repository; `kernel/` has about 9,000 lines of C, `lib/` and `sys/` the user side.

Check a run with `tlc -config MCSched.cfg MCSched`, a proof with `tlapm SchedProofs.tla`.
`PROJECT.json` maps every definition to the lines it models and lists the hazards the properties
are about.

## 1. The system

QNOS is a monolithic kernel. One processor runs kernel threads (a key thread and a screen thread)
and user threads forked from `init`. The timer interrupt calls `schedule()`. A system call arrives as
interrupt 128 and **turns interrupts on again** (`kernel/process/syscall.c:40-54`), so system calls
preempt one another anywhere except between `_IO_ATOMIC_IN` (cli) and `_IO_ATOMIC_OUT` (sti). The
build has no `-O`, so `x--` on shared memory is a load and a store. These three facts decide what is
one action in the models.

| component | source (under `kernel/`) | state | operations | interacts with | hard because |
|---|---|---|---|---|---|
| Scheduler, threads | `process/task.c`, `hardware/timer.c` | ring of TCBs, `cur_tcb`, statuses, slice, sleep stamps | `schedule`, tick, block, wakeup, sleep, create, fork, exit, wait | everything | the timer strikes between any two steps; the clock wraps |
| Kernel lock | `process/sync.c` | holder, nesting count, wait list | `lock_acquire`, `lock_release` | scheduler; keyboard, ATA | stray wakeups, hand-over, nesting |
| Keyboard | `hardware/keyboard/keyboard.c`, `utils/circlequeue.c` | modifier flags, ring of bytes | interrupt handler, `keyboard_get_key` | scheduler, lock | handler against reader; a count that is not atomic |
| Terminal | `init/main.c`, `hardware/vga.c`, `lib/libc/stdio.c`, `conio.c` | two pipes, the cursor, a colour and its lock | echo, `gets_s`, `printf`, scroll, `textcolor` | pipes, keyboard | three threads without a lock |
| Page allocator | `mem/vmm.c` | a free list per order | alloc (split), free (merge) | slab, tasks | blocks that are not aligned; no lock |
| Slab allocator | `mem/malloc.c` | chains of slabs, counts | `kmalloc`, `kfree`, `krealloc` | every component | list against count |
| Paging, user memory | `mem/page.c`, `mem/pmm.c`, `mem/bitmap.c`, `elf.c`, `process/task.c` | bitmap of frames, page directories, breaks | map, remap, create, exec, fork, sbrk, exit | page allocator | preempted allocations; failures half way; parts of pages |
| Pipes | `process/ipc/pipe.c` | a ring, two ends with counts | write, read, create, close | descriptors | one writer, one reader, no lock |
| Descriptors | `kobjects/objs/obj_fs.c`, `process/task.c` | `fd_list`, `ref_cnt` | open, dup, fork, close | pipes, VFS | counts changed with interrupts on |
| VFS, ISO9660 | `kobjects/objs/obj_fs.c`, `fs/fs_iso9660.c` | dentries loaded on demand, inodes, `refer_count`, offsets | open, create, read, write, lseek, list, close | FAT, devices | lookups that race; an offset parked in a shared inode |
| FAT32 | `fs/fs_fat32.c` | the table, a cache of one group, buffers of files | mount, create, enlarge, write, read, seek, flush | VFS, ATA | cache against disk; a stop between two writes |
| ATA driver | `hardware/ata.c` | `irq_called`, drives, the lock | detect, read, write, zero, interrupt | lock, FAT | one flag for two channels; late interrupts |
| Tables | `utils/hashmap.c`, `utils/fastmapper.c`, `list.c`, `hardware/devices.c` | open addressing, growing arrays, links | put, get, remove, grow | pids, `/dev`, locks | holes, stale cells |
| Formats, strings, user heap | `printf.c`, `string.c`, `lib/libc` | a format, a memory, a ring of free blocks | `printf`, `strtok`, `malloc`, ... | everything | ends of ranges, overlaps |
| The rest | modules, symbols, configuration, objects, boot, user programs | | | | see section 7 |

What makes each correct: the scheduler runs every READY thread, ends every sleep and revives no dead
thread; the lock excludes and is first come, first served; a key is read once and in order; no page,
unit, frame or cluster has two owners; a file lives as long as its last descriptor; a path leads to
the file it names; a file has the bytes written to it, after a restart too; a transfer moves the
sectors it was asked for; what is printed is what is shown.

## 2. Modules

| module | models | how |
|---|---|---|
| `Sched` | `task.c`, `timer.c` | One action per system call or cli section, and `Tick`. The `while` walk of `schedule()` is `Walk(S, q, ..)`: `S` are the threads passed over, `q` is where the probe stops; on a ring both are determined. `pc` says where a thread that is not running will resume. |
| `SchedTurns`, `SchedBoot` | same | a history of turns; the one `schedule()` that runs with interrupts on |
| `FifoMutex` | | abstract: a re-entrant mutex with a queue |
| `KLock` | `sync.c` | one action per cli section; `StrayWakeup` is any `thread_wakeup` by others |
| `Ata` | `ata.c` | **composes `KLock`** with its main user: `ide_dev_read` and `ide_dev_write` transfer between acquire and release. A device has a phase (busy, data, idle, fault), a loop that polls a register is an action that waits for it, an interrupt is pending until `Irq` sets `irq_called`. Two transfers on one channel (`ide_dev_zero` takes no lock) end the model (`torn`). |
| `Keyboard` | `keyboard.c`, `circlequeue.c` | the handler is one action per scan code; the reader is split at its test, its note of itself, its block, and the load and the store of `used_cnt--` |
| `Lines` | `main.c` (`test_t1`), `stdio.c` (`gets_s`) | keys go into a pipe a byte at a time and are edited into lines |
| `Texts` | `stdio.c` (`printf`), `main.c` (`test_t2`), `conio.c` | the shell's texts in a pipe, the screen thread, the lock on the colours |
| `Screen` | `vga.c` | the cursor in characters; each thread's load and store of it are two steps, but for newlines and scrolls, which are in cli |
| `PagePool` | | abstract: blocks of pages, each with one holder |
| `Buddy` | `vmm.c` | a free list is a sequence of first pages; the recursion of `vmm_page_alloc` is the order it gets to (`Found`) and what it leaves (`Left`) |
| `Slab` | `malloc.c` | a slab is its free list and its count; a chain is a sequence of slabs |
| `UserMem` | `pmm.c`, `bitmap.c`, `page.c`, `vmm.c` (remap), `elf.c`, `task.c` | a call is a sequence of stages that takes, maps or frees a page at a time. A frame taken or given back is several steps (`upd`): the scan, the load and the store of its byte of the bitmap, and for a free the table's entry after them; other calls and a kernel thread (`None`) interleave between them unless `cli` |
| `Pipe` | `pipe.c` | the ring with one writer and one reader; a write is two actions where it stores `right` twice |
| `Files` | `obj_fs.c`, `pipe.c`, `task.c` | `fd_list` and `ref_cnt`; a call is split between descriptor and count, and inside `ref_cnt++` and `ref_cnt--` |
| `Vfs` | `obj_fs.c`, `fs_iso9660.c` | directories are read from their disc when a path goes through them; a call is split where it reads what another may write |
| `FileStore` | | abstract: a file is a sequence of bytes; a restart changes only dirty files |
| `Fat` | `fs_fat32.c` | the table on disk and the cached group, chains, the buffer of a file. `fat_add_cluster_chain` is one action a turn, a write is split at its writes to the disk, and `Mount` may come between any two |
| `HashMap`, `Registry`, `List` | `hashmap.c`; `fastmapper.c` with `task.c` and `devices.c`; `list.c` | one action per call, each with a history of what should be there |
| `Heap`, `Format`, `Strings` | `lib/libc/malloc.c`; `printf.c`, `stdio.c`; `string.c` | free blocks by address; a directive of a format is a step; a call on a memory of any content is a step |
| `*Proofs` | | the theorems of section 5 |
| `MC*` | | constants for TLC. `MCStructures`, `MCKeyFiles` and `MCTerminal` check models side by side that have no state in common: one of them moves in a behaviour. |

Where models meet: `Ata` uses `KLock` itself. `KLock` and `Ata` let any thread that is not BLOCKED run,
which is what `ReadyRuns` of `Sched` provides; `Sched` lets any thread block and be woken, which covers
what a lock and the keyboard ask of it. `Lines` and `Texts` use of a pipe what `InOrder` of `Pipe` says.
`Vfs` takes descriptors for granted, which `Files` counts, and `Fat` the sectors that `Ata` moves.
Lists inside the lock are sequences, which `LinksHold` of `List` justifies.

A definition called "Mutant of X", or named after one next to it (`MarkedNot`, `GrownShort`), is a plausible
bug; each property of a run is known to fail when the definition is replaced by it.

## 3. Runs

| run | instance | shows |
|---|---|---|
| `sched_safety` | boot thread, key thread, init and a fork; slice of 1, clock modulo 8, naps of 2 | `RingOK`, `NoStaleStamp`, `DeadStaysDead`, `NoOvertaking` |
| `sched_live` | same, clock modulo 9 | `ReadyRuns`, `SleepEnds` under `WF(Tick)` |
| `sched_wait` | same | **violated** `WaitReturns` |
| `sched_boot` | boot thread and init | **violated** `BlockedNotRun` |
| `ata` | three threads; a disc and a disk on two channels, a disk without LBA, no drive | `MovesItsSectors`, `IrqComes`, `ImplementsMutex`, `WaiterServed` |
| `key_files` | a ring of 3; two threads, three descriptors, two files, one copy outside the tables | `NeverWokenForNothing`, `InOrder`; `RefExact`, `NoDangling` |
| `structures` | see below | `NoOverlap`, `ImplementsPool` (pages), `UnitsApart` (slabs), `MapHoldsLast`, `DevicesShown`, `PidMap`, `HeapWhole`, `ReadsBack` (formats), `InOrder` (pipe), `LinksHold`, `StringsRight` |
| `slab_waste` | two classes of slabs of four units | **violated** `NoWaste` |
| `fat` | two files, eight clusters of two bytes, a table of two groups, one bad cluster | `CacheAgrees`, `ChainsApart`, `SizeIsChain`, `ImplementsStore` |
| `vfs` | two threads, two descriptors, five directories of three kinds, four calls | `LookupRight`, `OneOfEach`, `ReferCounts`, `OwnPlace` |
| `usermem` | two address spaces of four pages, fourteen frames in three bytes of the bitmap | `OneOwner`, `BreakMapped`, `ForkCopies` |
| `terminal` | lines of three, texts of two bytes in a pipe of six, a screen of two by two | `LineIsEdited`, `TextsShown`, `ColourKept`, `ShowsTail` |

Many properties hold only up to a point that the code itself reaches: a full ring that overruns, two
threads that change one count at once. The models go on to that point, record it in a history variable
(`raced`, `crossed`, `astray`, `missed`, `early`, `both`, `lossy`, `overrun`, ...) and the comment on the property names it.
Those races are what the hazards with a note are about.

Bounds, and why they are enough to be interesting:

* `Sched`: three threads beside Main give a walk that passes over a sleeper to a READY thread, a child
  and a parent, and a creation behind the walker. `TickMod` is small so that the clock wraps inside a
  sleep; it is larger than a nap plus the slices of all threads, as 2^32 is.
* `Ata`: `MaxNest` = 2 is one nested acquire; two waiters stand behind a holder. Requests are on both sides of the sector from
  which the driver uses 48-bit commands (`Far`); `Byte` = 3 makes a request of three sectors one of none.
* `Keyboard`: with three slots an extended key (two bytes) finds no, one and two free slots; `MaxUnread`
  (4) lets one overflow happen and go on. `Keyed` leaves out scan codes whose path is that of another.
* `Files`: three descriptors give every path of `user_dup`, with `newfd` open, closed, equal to the
  slot of the copy, and outside the table (`Outside` stands for every such number); two files are a pipe.
  `MaxStrays` (1) lets a file have one copy outside, two when two calls meet. The tables begin empty:
  `init` has closed what `create_user_thread` installed without counting it.
* `Buddy`: page 3 makes every larger block unaligned; eight pages in three orders give splits two
  levels deep and merges of blocks that were never split from one. `Slab`: a slab of four can be filled, drained and run out
  of list; the second slab is cloned. `HashMap`: eight slots and one doubling, keys that collide at the end of the
  table and one that moves when it doubles. `Registry`: three pids, so that the last one is used, over arrays of
  two cells; a device more than `dev_list` holds. `Heap`: requests below and above what `sbrk` is asked for, and a
  program that moves the break itself. `Format`: eight-bit integers, every format of up to four characters.
  `Pipe`: five slots and writes of three give every way to wrap, to fill the ring and to run over it.
  `List`: two lists and three elements. `Strings`: every memory of five bytes over two letters and the zero.
* `Fat`: the second file makes the directory grow; the table's second group is reached by a chain, a search
  and an update; writes of up to two clusters in files of up to two.
* `Vfs`: a path through the disc, the volume and `/dev`, with `.` and `..`, a name that is missing, one
  that is a file where a directory should be, files created and listed; four calls are two by each thread.
  `Behind` is one file that lies behind the directory on the disc: enough for a lookup to end where its path does not lead.
* `UserMem`: a page of program, one above it that only `sbrk` maps, stack and arguments in two page tables; brks at half
  pages. `v_loads` names nothing, so that the remap links the file's page, or that page, so that it is lost. Of exec, sbrk, stores and the
  other thread's allocations there are three (`Bound`), enough for a fork and two calls at once; fourteen
  frames run out in some behaviours (`Spin`) and not in others, and lie in three bytes, so that updates meet in a byte or miss.
* `Terminal`: a control key, a backspace at either end, a line longer than the buffer; a text divided at the
  end of the ring; two printers and a clear on a screen that scrolls.

`CHECK_DEADLOCK FALSE` is set where the system stops (a page fault in the kernel, a null call, a full pid map,
all threads exited) or the model does (`torn`, a bound on calls).

## 4. Fairness

* `Sched!FairSpec` has `WF_vars(Tick)` alone: the timer goes on. Nothing is assumed of threads, which
  may compute for ever. `ReadyRuns` and `SleepEnds` hold because the tick preempts.
  `SleepEnds` leaves out a sleep stamped at tick 0 (`ticks_cnt` = 0 means "not sleeping" in
  `task.c:738`); that thread is never woken by the clock.
* `Ata!AFairSpec`: interrupts are taken and devices answer (weak); a READY thread runs (the scheduler's
  `ReadyRuns`); the holder of the lock releases as often as it has acquired (strong, because it may sleep in
  between), which the three callers do on every path; a holder that waits for a key gets one.

## 5. Proofs

All hold for every value of the constants that satisfies the named `ASSUME`s of the module.

* `SchedProofs`: `[]TypeOK`, `[]RingOK`, `[]OneRunning`, `[]NoStaleStamp` and `DeadStaysDead`, for any set
  of threads. `IInv` adds that Main is runnable and, for each place a thread can be in, its status and its
  stamp (`PlacesOK`). The key lemma is `WalkEnds`: a walk that comes back to its caller has visited a
  closed set of the ring, hence all threads, hence Main; so the caller is Main. That is why the branch of
  `schedule()` for "all threads are blocked" never revives a thread. `LinkKeepsRing` is the insertion of a TCB.
* `KLockProofs`: types, mutual exclusion, the exact wait list, no lost grant, exact nesting, and
  `ImplementsMutex`: every step of the lock is a step of `FifoMutex` or a stutter. `IInv` adds that the
  holder is waiting or inside and that depth is zero outside. Of the driver that composes with the lock it proves
  `MovesItsSectors` and `IrqComes` for any drives, requests and number of threads. `AInv` says where each transfer
  stands (`ATypes`, `Drives`), that a transfer under the lock is inside it (`InLock`), and, until two transfers mix on
  a channel, that each has its channel and its device for itself (`OwnChannel`) and has moved the sectors up to where it is (`Kept`).
* `TerminalProofs` has four parts. *Keys*: types, `UsedNeverAhead`, `NeverWokenForNothing` and `InOrder`, for a ring of any size. `IInv`
  adds what each place of the reader relies on: between the load and the store of `used_cnt--` the handler can
  only raise the count, so the store errs on the safe side. `RingOK`: the ring holds the newest of the unread bytes, in order up to `head`.
  *Texts*: `ColourKept` for texts and pipes of any length; while the lock of the tty is closed, every byte on its way is of a text in the
  current colour (`InColour`); `TextsShown`: `InTurn` says that buffer and pipe hold whole texts with consecutive numbers, but for the end of the
  last one that a wrapping write still has to copy. *Lines*: `LineIsEdited` for a buffer and a pipe of any size. `Laid` relates the bytes in the pipe
  to the keys they are of: each key has a place where its bytes begin, one after the other, the last code perhaps not written yet; so
  what `getch` reads is the next byte of the next key. `Holds` relates the buffer to the keys that are read: it has their text up to `str`.
  What `Edited` computes grows a key at a time (`EditedMore`, from the uniqueness of the function in it). *Screen*: `ShowsTail` for a screen of any size and any number of threads; `PlaceOK` says, for each place
  of a thread in `vga_gen_puchar`, which lines of the roll the screen shows: when the last row is full the roll is one line ahead (`Falls`).
* `FilesProofs`: `RefExact` and `NoDangling`, for any number of threads, files and descriptors, until two threads change one count
  at once. `Core` says that a file's count is one less than the slots that name it, leaving out a slot that a call has filled and not
  counted yet, or has given up and not cleared (`Owned`), and that a call between load and store has read what the count still is.
  The module also has the proofs about `Fat`, for a table, groups and clusters of any size and any files. `CacheAgrees`: what is handed
  from operator to operator is `Sound`, the cached group is the disk's, with its domain. `ChainsApart` and `SizeIsChain`: neither is
  inductive, because an enlarge leaves a chain that leads to a free cluster, and because a mount takes from the disk what the
  calls before it have flushed. `VolumeInv` says that there are sequences of clusters `ch`, one for each file and one for the directory,
  such that each is what the table strings together (`OwnChain`, not closed while it is enlarged), no two share a cluster (`Apart`), each
  inode has its end and length (`RightSize`), and for each file one entry, in the buffer of the directory and at the same
  place on the disk, names its first cluster (`Listing`, `InSlot`). A cluster that no file owns holds nothing that a mount could take for an
  entry, and a directory that grows has no entry in the cluster linked last (`Spared`), so that the mount finds the same files. `Relied`
  says what each call has still to rely on. The table of a sequence read back is that sequence (`ChainIs`, by the least place where
  they differ); the step lemmas then give the sequences after each action (`GrowStepStep`: the sequence one longer).
* `StructuresProofs` has five parts. *Slabs*: `UnitsApart` and the exact count; each slab `Fits` what callers own of it.
  *Pages*: `NoOverlap` and `ImplementsPool` for a memory of any size; blocks are `Apart` two by two, a split cuts a block into
  pieces apart from each other (`PartApart`), a merge joins two that touch. *Pids and devices*: `PidMap`, `DevicesShown`; a cell beyond
  the last pid may hold anything, as in the code. *Pipes*: types, `InOrder`, and that writes of one byte never overrun, for a ring of any
  size and writes of any length below it; `MidOK` says that inside a wrapping write, what is left to copy fits below `left`,
  which the reader can only raise meanwhile. *Lists*: `LinksHold` for any lists and elements; `ListInv` says that the links of each list
  go from place to place and back (`Linked`) and that an element is at one place of one list (`OnePlace`), so that mending the two
  links beside an element breaks no other (`NodesApart`).
* `VfsProofs`: for any discs, names, threads and descriptors, `ReferCounts`, `OwnPlace`, and that whatever a call, a descriptor
  or a leaked file refers to is there and stays what it is (`InPlace`, `Grows`). Each action has a lemma that says
  what it does to `dents`, `files` and its call (`CopyIs`, `OpenStoreIs`, ...), from which the three invariants
  are shown separately. `CountOK`: the one call between load and store has read what the count still is.
  `PosOK`: between parking an offset and taking it back, the inode has it, unless another call has been there.
* `LookupProofs`: `LookupRight` and `OneOfEach` for any discs, names, paths and threads. A path leads to what the sets
  `Trail` reach a component at a time; the lemmas `TrailGrows`, `TrailOne` and `TrailEnds` say how they change when a file is created and
  when they hold at most one place. `LookInv` is the invariant: the discs are the first ones with files added (`FromDisc`); an
  element is of an entry of its directory, and `d_dir` and `..` are the directories the disc says (`Agree`); each call is at a
  dentry that the part of its path it has gone leads to, with its name at hand (`Track`). That much survives every race but one: a directory of the ISO that is read
  by two calls (`astray`). The theorems are about what is before that, and give the first two parts of `LookupRight`.
  Until a call uses a dentry that another one fills (`crossed`), also `Single`: a dentry holds the
  first entries of its directory, all of them once it is `Whole`, one call fills it, and a directory without `d_dir` has no
  dentry yet. From that, a call that finds nothing missed nothing (`FailsRight`), and a directory has one dentry.
  That nothing is read astray before calls have crossed is a part of `OneOfEach` which only the run checks.
* `UserMemProofs`: `[]OneOwner` for any number of frames, address spaces and pages. `Inv` keeps the account (`Accounted`) over the
  tables as they will be: `Kern` and `User` have 0 where the frame has been given back and the entry is cleared next. `Pending` says what an
  update under way relies on: the address of a heap page that is to be mapped is its caller's alone and has no frame, one that is
  being unmapped is spare and keeps its entry. As long as no byte has changed between load and store, a store sets or clears one bit
  (`ByteOf`, `MarkedIs`); one lemma for each way in which a frame moves does the rest. `Types` adds
  the ranges of the tables; the assumption that frames are numbers keeps 0, "not mapped", apart from them. `BreakMapped` and
  `ForkCopies` for any address spaces and pages: `Work` says what a call has done of the pages it goes through, stage by stage
  (`MovedWorks`), and that a fork has the interrupts off, so that its parent cannot move (`Forks`); what it has copied stays
  copied until an update is lost, by `OneOwner`. The break is never in the last
  page (`BreaksAssumption`): `user_sbrk` would not come back from it.
  The module also has the proof about `Heap`: `HeapWhole` for any requests. `Heaped` says unit by unit what `HeapPartition` says of
  blocks, and that the free blocks are `Tidy`: linked in the order of their addresses (`Ring`), apart, none touching the next.
  On such a ring every block is found in as many steps as there are blocks, from wherever `freep` is (`AlongSoon`), so the search of
  `free` ends at the last block below the new one (`BeforeIs`) and that of `malloc` finds a block if there is one (`FitsThere`).
  `free` is then a block put behind another (`PutKeeps`) and joined with its neighbours (`MergeKeeps`).

The assumptions are those the boards and the code give: sizes are positive, tables are long enough for one entry, model values are not data
or records (`ValuesAssumption`),
a directory is in one entry of a disc, exactly one unless it is mounted at boot, and the entries of a directory have different names
(`VfsAssumption`), the boot thread is a thread.
`LeastNat` (every set of naturals has a least element) stands in for induction where "the first that matches" is meant, and along a path
(`Along`: a set that has 0 and, with every place, the next one, has them all).

Only model-checked:

* `NoOvertaking`, a count of turns;
* `ImplementsStore`: `VolumeInv` gives the chains it needs, but not the bytes of each file beside its chain,
  nor those of the call under way; the run checks that part, and no theorem does;
* `MapHoldsLast`, `ReadsBack`, `StringsRight`:
  contents, probes and formats are results of recursive functions over data,
  and what those give for every input needs induction over data, which the prover cannot use;
* liveness, outside the prover's reach, as is `ENABLED`.

## 6. Findings

* `sched_wait`: a child that exits before its parent calls `wait` wakes nobody (`task.c:881`, `941-945`),
  and the parent waits for ever. The shell of `sys/usertest/main.c:204` relies on it.
* `sched_boot`: the `schedule()` at `task.c:628` runs with interrupts on; a timer interrupt inside it lets
  the switch run a BLOCKED thread.
* `slab_waste`: `kfree` (`malloc.c:204`) drops the head of the free list. After enough calls the count
  promises a unit, the list is empty, and `kmalloc` follows a null pointer.

Seen while modelling, in the models and named at the property they limit:

* the lost wakeup in `keyboard_get_key` (`keyboard.c:325-333`);
* `user_dup` does not check `newfd` (`task.c:819`): outside the table it counts a copy that no descriptor names, so that
  the file is never freed, and writes a pointer there (`strays`);
* two lookups that load one directory of the ISO: the second reads from where the first left its inode's offset
  (`fs_iso9660.c:122`, `137`, `202`), so it takes the sectors behind the directory for its entries (`astray`);
* `vfs_fopen` and `user_pipe` keep a file whose descriptor found no room (`obj_fs.c:686`; `leaks`);
* a FAT file enlarged by two clusters at once gets the same cluster twice (`lossy`); a failed enlarge goes on
  with a freed buffer (`torn`);
* packet reads of several sectors report the error of the last only, writes report none (`ata.c:889`);
* the pid `MAX_PID` is never given back (`task.c:81`); when none is left `bitmap_scan` spins for ever;
* `printf("%d")` of the least int prints `-0` (`printf.c:45`), the user's printf does not; a user format that ends inside a
  directive runs past its end (`stdio.c:158`, `strayed`);
* a backspace at an empty line moves `gets_s` before its buffer (`stdio.c:382`); a line of exactly the buffer's length
  is not terminated;
* two threads that print at once leave the cursor below the screen or undo a scroll (`both`); a backspace at the start of
  a line moves the cursor to the right of the screen (`vga.c:135`, `odd`);
* `test_t2` opens the colour lock after reading nothing (`early`), and a text read while it is divided hides a later one (`missed`);
* a free and an allocation, or two of either, that meet in a byte of the frames' bitmap lose an update, also of a third frame in it
  (`bitmap.c:72-74`); two scans find one frame; a heap address is given out before it is unmapped (`malloc.c:38`; `raced`);
* a fork does not copy the page of the arguments; a remap over a mapped page loses its frame; frames of a
  program are not freed by its exit (`lost`).

## 7. Not modelled

* The dispatcher of system calls, kernel objects, modules and symbols, `qconfig.c`, the mouse, the RAM disk and the
  user programs: no state that changes, or code that `main.c` has commented out. Assembly and hardware
  set-up are premises: IRQ stubs run with interrupts off, a page fault in the kernel halts the machine, the context switch
  does what its name says. Parsing of the boot loader's memory map.
* `Buddy`, `Slab`: two calls that interrupt each other; requests above 2048 bytes. `UserMem`: the processor's translation cache;
  `used_pmm`; more than one `create_user_thread`; what follows an update of the bitmap that got lost (`raced`).
* `Pipe`: a writer in the middle of `pipe_read`, and two writers. `Files`: what the two ends of a pipe share,
  the uncounted descriptors of boot, and what `dup2` spoils when it writes outside a table.
* `Fat`: 8.3 names, groups of several sectors, the second copy of the table, negative offsets, calls that interrupt
  each other, the detection of a volume. `Vfs`: bytes of a directory record; more than one mounted volume.
* `Ata`: PCI, delays, the strings of the identify data. `HashMap`: the hash. `Heap`: requests near 2^32. `Strings`:
  `uint_to_string`, which nobody calls. `Screen`: pixels, fonts, tabs.
* Nothing here says how long a step takes.

## 8. Plan

1. `Fat`: `ImplementsStore`, from `VolumeInv` with the bytes of each file beside its chain.
2. `Pipe` with `pipe_read` split at its loads of `right`; `Buddy` with preempted calls.
3. `Vfs` with a second mounted volume.
