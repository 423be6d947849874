-------------------------------- MODULE Vfs --------------------------------
(***************************************************************************)
(* Names and offsets: kernel/kobjects/objs/obj_fs.c over the ISO9660 disc, *)
(* the FAT volume mounted in it and /dev.  A directory is read from its    *)
(* disc when a path first goes through it (__copy_dentry, then             *)
(* load_inode_dirs); a call parks the offset of its file in the inode,     *)
(* which all who opened that name share.                                   *)
(*                                                                         *)
(* System calls preempt each other and fs_lock is never taken: IN_LOCK is  *)
(* empty.  A call is split where it reads what another one may write.      *)
(* Threads have forked from each other and hold the same descriptors, so   *)
(* any of them may use any file; Files is about the counts of those.       *)
(***************************************************************************)
EXTENDS Integers, Sequences, FiniteSets

CONSTANTS
  Threads,
  Names,            \* of files and directories
  Dirs, Root,       \* directories; that of the disc the system starts from
  Kind,             \* by directory: whose ops its dentry has, "iso", "fat" or "null"
  Disc,             \* by directory: its entries, in order
  Behind,           \* what a reading that starts past a directory may find there
  Booted,           \* the directories loaded at boot, Root first
  Slots,              \* the descriptors
  Opens,            \* calls of open: path, and the flags O_CREAT and O_WRONLY;
                    \* list: a listing of the directory the path leads to
  Sizes,            \* bytes of a read or a write
  Offsets,          \* places that lseek is asked for
  CS,               \* bytes of a cluster
  MaxOff,           \* bound: the largest offset
  MaxDents,         \* bound: dentries
  MaxCalls,         \* bound: calls in all
  Dot, DotDot,      \* the names "." and ".."
  NoDir, Free, Idle \* model values

(* An entry of a directory on a disc: a name, and the directory it is, or  *)
(* NoDir for a file, of `size' bytes.                                      *)
Entries == [name : Names, is : Dirs \cup {NoDir}, size : Nat]
Parts == Names \cup {Dot, DotDot}
Places == Nat \X Nat      \* of an element: its dentry and its number there
BootDirs == {Booted[j] : j \in DOMAIN Booted}

(* What the calls of one file may do *)
Ops ==
  [do : {"read", "write"}, n : Sizes] \cup [do : {"seek"}, n : Offsets] \cup [do : {"end"}, n : {0}]

(* A vfs_file_t, and what a thread is doing *)
Opened == [e : Places, pos : Nat, o : Opens, own : Nat, mixed : BOOLEAN]

Loads == [do : {"load"}, o : Opens, rest : Seq(Parts), d : Nat, e : Places, into : Nat, k : Nat,
          got : {"nothing", "place", "bytes"}, from : Nat, on : Seq(Entries)]

Reasons == {"not a file", "missing", "not a directory", "not loaded", "no room"}

Doings ==
  [do : {"walk"}, o : Opens, rest : Seq(Parts), d : Nat]
  \cup [do : {"create"}, o : Opens, d : Nat, name : Names, seen : Nat]
  \cup [do : {"copy", "link"}, o : Opens, rest : Seq(Parts), d : Nat, e : Places, seen : Nat]
  \cup Loads
  \cup [do : {"listed"}, o : Opens, d : Nat]
  \cup [do : {"failed"}, why : Reasons, was : BOOLEAN]
  \cup [do : {"opened"}, o : Opens, e : Places]
  \cup [do : {"count"}, o : Opens, e : Places, r : Nat]
  \cup [do : {"drop"}, e : Places, r : Nat]
  \cup [do : {"act", "unpark"}, f : Slots, op : Ops]

(* A directory not loaded at boot is in one entry of one directory, whose  *)
(* entries have different names; what is loaded then is mounted in what is. *)
ASSUME VfsAssumption ==
  /\ Disc \in [Dirs -> Seq(Entries)] /\ Kind \in [Dirs -> {"iso", "fat", "null"}]
  /\ \A d \in Dirs : \A i, j \in DOMAIN Disc[d] : Disc[d][i].name = Disc[d][j].name => i = j
  /\ \A c, d \in Dirs : \A i \in DOMAIN Disc[c], j \in DOMAIN Disc[d] :
       Disc[c][i].is = Disc[d][j].is /\ Disc[c][i].is # NoDir => c = d /\ i = j
  /\ \A d \in Dirs \ BootDirs : \E c \in Dirs : \E i \in DOMAIN Disc[c] : Disc[c][i].is = d
  /\ Booted \in Seq(Dirs) /\ Len(Booted) > 0 /\ Booted[1] = Root
  /\ \A i, j \in DOMAIN Booted : Booted[i] = Booted[j] => i = j
  /\ \A d \in Dirs : \A i \in DOMAIN Disc[d] : Disc[d][i].is \in BootDirs => d \in BootDirs
  /\ NoDir \notin Dirs /\ NoDir \notin Names
  /\ Dot \notin Names /\ DotDot \notin Names /\ Dot # DotDot
  /\ Opens \subseteq [path : Seq(Parts), creat : BOOLEAN, wr : BOOLEAN, list : BOOLEAN]
  /\ IsFiniteSet(Slots) /\ Sizes \subseteq Nat /\ Offsets \subseteq Nat
  /\ Behind \subseteq Seq(Entries)
  /\ \A on \in Behind : \A i \in DOMAIN on : on[i].is # NoDir => Kind[on[i].is] = "iso"
  /\ CS \in Nat \ {0} /\ MaxDents \in Nat
  /\ Free \notin Opened /\ Idle \notin Doings

VARIABLES
  disc,    \* by directory: its entries on disc
  dents,   \* the dentries; 1 is root_sb->root_dir
  files,   \* by descriptor: the vfs_file_t
  pc,      \* by thread: the call it is in
  crossed,   \* history: a lookup has used what another was about to change
  astray,    \* history: a directory has been read from past its beginning
  drift,   \* history: names whose refer_count two calls changed at once
  leaks,   \* history: by name, files opened that got no descriptor
  halted,  \* a null or wild pointer has been called
  calls    \* calls made so far

vfsVars == <<disc, dents, files, pc, crossed, astray, drift, leaks, halted, calls>>

----------------------------------------------------------------------------
(* A vfs_dir_elem_t with its inode.  A name is known by its place <<d, i>>. *)
Elements == [name : Names, is : Dirs \cup {NoDir}, sub : Nat, seek : Nat, refer : Nat,
             size : Nat, cap : Nat]
Dentries == [dir : Dirs, up : Nat, set : BOOLEAN, elems : Seq(Elements)]

Elem(n, x) == [name |-> n.name, is |-> n.is, sub |-> x, seek |-> 0, refer |-> 0,
               size |-> n.size, cap |-> ((n.size + CS - 1) \div CS) * CS]

(* vfs_mkvdir, vfs_mount_subfs and the two mounts leave this. *)
BootIndex(x) == IF \E j \in DOMAIN Booted : Booted[j] = x
                THEN CHOOSE j \in DOMAIN Booted : Booted[j] = x ELSE 0

VfsInit ==
  /\ disc = Disc
  /\ dents = [j \in DOMAIN Booted |->
                [dir |-> Booted[j], set |-> TRUE,
                 up |-> IF Kind[Booted[j]] = "null" THEN 1 ELSE j,
                 elems |-> [i \in DOMAIN Disc[Booted[j]] |->
                              Elem(Disc[Booted[j]][i], BootIndex(Disc[Booted[j]][i].is))]]]
  /\ files = [f \in Slots |-> Free]
  /\ pc = [t \in Threads |-> Idle]
  /\ crossed = FALSE /\ astray = FALSE /\ drift = {} /\ leaks = <<>> /\ halted = FALSE /\ calls = 0

At(e) == dents[e[1]].elems[e[2]]
KindOf(e) == Kind[dents[e[1]].dir]
Doing(t, k) == ~halted /\ pc[t] # Idle /\ pc[t].do = k

(* list_traversal stops at the first of that name. *)
Matches(d, n) == {i \in DOMAIN dents[d].elems : dents[d].elems[i].name = n}
Find(d, n) == CHOOSE i \in Matches(d, n) : \A j \in Matches(d, n) : i <= j

(* Where a path leads by what is on the discs: to a directory, to file n   *)
(* of one, or nowhere; to two places, if calls that raced have given two   *)
(* entries one name.  The root of a mounted volume is its own parent.      *)
Above(on, d) ==
  IF d \in BootDirs THEN IF Kind[d] = "null" THEN Root ELSE d
  ELSE CHOOSE x \in Dirs : \E i \in DOMAIN on[x] : on[x][i].is = d

Place(d, n) == [dir |-> d, file |-> n]
Leaf(d, x) == IF x.is = NoDir THEN Place(d, x.name) ELSE Place(x.is, NoDir)

Under(on, d, n) ==
  IF n = Dot THEN {Place(d, NoDir)}
  ELSE IF n = DotDot THEN {Place(Above(on, d), NoDir)}
  ELSE {Leaf(d, on[d][i]) : i \in {j \in DOMAIN on[d] : on[d][j].name = n}}

Trail(on, p) ==
  LET at[i \in 0 .. Len(p)] ==
        IF i = 0 THEN {Place(Root, NoDir)}
        ELSE UNION {Under(on, x.dir, p[i]) : x \in {y \in at[i - 1] : y.file = NoDir}}
  IN  at

Leads(p) == Trail(disc, p)[Len(p)]

IsFile(p) == \E x \in Leads(p) : x.file # NoDir

IsDir(p) == \E x \in Leads(p) : x.file = NoDir

(* A call that fails; `was' is whether there is what it looked for. *)
Stop(t, why) ==
  pc' = [pc EXCEPT ![t] = [do |-> "failed", why |-> why,
                           was |-> IF @.o.list THEN IsDir(@.o.path) ELSE IsFile(@.o.path)]]

(* sys_open, and vfs_print_dir, which looks its directory up alike. *)
Call(t) == ~halted /\ pc[t] = Idle /\ calls < MaxCalls /\ calls' = calls + 1

Begin(t) ==
  /\ Call(t)
  /\ \E o \in Opens : pc' = [pc EXCEPT ![t] = [do |-> "walk", o |-> o, rest |-> o.path, d |-> 1]]
  /\ UNCHANGED <<disc, dents, files, crossed, astray, drift, leaks, halted>>

----------------------------------------------------------------------------
(* __search_file_elem, __search_dir: a component of the path a turn. *)
Deeper(t, d) == pc' = [pc EXCEPT ![t] = [do |-> "walk", o |-> @.o, rest |-> Tail(@.rest), d |-> d]]

(* Mutant of Known: a directory is read each time. *)
KnownNever(x) == FALSE

Known(x) == x.sub # 0

Loading(d) == ~dents[d].set \/ \E t \in Threads : Doing(t, "load") /\ pc[t].into = d

Reads(t, n) == Doing(t, "walk") /\ pc[t].rest # <<>> /\ Head(pc[t].rest) = n
IsLast(t) == Tail(pc[t].rest) = <<>>

WalkEnd(t) ==
  /\ Doing(t, "walk") /\ pc[t].rest = <<>>
  /\ \/ pc[t].o.list /\ pc' = [pc EXCEPT ![t] = [do |-> "listed", o |-> @.o, d |-> @.d]]
     \/ ~pc[t].o.list /\ Stop(t, "not a file")
  /\ UNCHANGED <<disc, dents, files, crossed, astray, drift, leaks, halted, calls>>

WalkDots(t) ==
  /\ \/ Reads(t, Dot) /\ Deeper(t, pc[t].d)
     \/ Reads(t, DotDot) /\ Deeper(t, dents[pc[t].d].up)
  /\ UNCHANGED <<disc, dents, files, crossed, astray, drift, leaks, halted, calls>>

WalkMissing(t) ==
  \E n \in Names :
    /\ Reads(t, n) /\ Matches(pc[t].d, n) = {}
    /\ \/ /\ IsLast(t) /\ pc[t].o.creat
          /\ pc' = [pc EXCEPT ![t] = [do |-> "create", o |-> @.o, d |-> @.d, name |-> n,
                                      seen |-> Len(dents[@.d].elems)]]
       \/ ~(IsLast(t) /\ pc[t].o.creat) /\ Stop(t, "missing")
    /\ crossed' = (crossed \/ Loading(pc[t].d))
    /\ UNCHANGED <<disc, dents, files, astray, drift, leaks, halted, calls>>

WalkFile(t) ==
  \E n \in Names :
    /\ Reads(t, n) /\ Matches(pc[t].d, n) # {}
    /\ LET e == <<pc[t].d, Find(pc[t].d, n)>>
       IN  /\ At(e).is = NoDir
           /\ \/ /\ IsLast(t) /\ ~pc[t].o.list
                 /\ pc' = [pc EXCEPT ![t] = [do |-> "opened", o |-> @.o, e |-> e]]
              \/ (~IsLast(t) \/ pc[t].o.list) /\ Stop(t, "not a directory")
    /\ UNCHANGED <<disc, dents, files, crossed, astray, drift, leaks, halted, calls>>

(* No one sets d_dir when the element is made: it may be taken for the     *)
(* address of a dentry.                                                    *)
WalkDir(t) ==
  \E n \in Names :
    /\ Reads(t, n) /\ Matches(pc[t].d, n) # {}
    /\ LET e == <<pc[t].d, Find(pc[t].d, n)>>
       IN  /\ At(e).is # NoDir
           /\ \/ Known(At(e)) /\ Deeper(t, At(e).sub) /\ UNCHANGED halted
              \/ /\ ~Known(At(e))
                 /\ pc' = [pc EXCEPT ![t] = [do |-> "copy", o |-> @.o, rest |-> @.rest, d |-> @.d,
                                             e |-> e, seen |-> At(e).sub]]
                 /\ halted' \in BOOLEAN
    /\ UNCHANGED <<disc, dents, files, crossed, astray, drift, leaks, calls>>

(* Mutant of Copied: the new dentry's parent is the root. *)
CopiedUnderRoot(d, dir) == [dir |-> dir, up |-> 1, set |-> FALSE, elems |-> <<>>]

Copied(d, dir) == [dir |-> dir, up |-> d, set |-> FALSE, elems |-> <<>>]

(* __copy_dentry; d_dir was null when it was tested. *)
Copy(t) ==
  /\ Doing(t, "copy") /\ Len(dents) < MaxDents
  /\ LET e == pc[t].e
     IN  /\ dents' = Append([dents EXCEPT ![e[1]].elems[e[2]].sub = Len(dents) + 1],
                            Copied(e[1], At(e).is))
         /\ crossed' = (crossed \/ At(e).sub # pc[t].seen)
  /\ pc' = [pc EXCEPT ![t].do = "link"]
  /\ UNCHANGED <<disc, files, astray, drift, leaks, halted, calls>>

(* dir_file is set and load_inode_dirs called, with d_dir as it is now. *)
Link(t) ==
  /\ Doing(t, "link")
  /\ LET d == At(pc[t].e).sub
     IN  /\ dents' = [dents EXCEPT ![d].set = TRUE]
         /\ pc' = [pc EXCEPT ![t] = [do |-> "load", o |-> @.o, rest |-> @.rest, d |-> @.d,
                                     e |-> @.e, into |-> d, k |-> 0, from |-> 0, on |-> <<>>,
                                     got |-> IF Kind[dents[d].dir] = "iso" THEN "nothing" ELSE "bytes"]]
         /\ crossed' = (crossed \/ \E u \in Threads : u # t /\ Doing(u, "load") /\ pc[u].into = d)
  /\ UNCHANGED <<disc, files, astray, drift, leaks, halted, calls>>

Least(a, b) == IF a <= b THEN a ELSE b

(* iso_inode_read clips to the size of the file, not to what is left; in   *)
(* fat_inode_read what is left wraps when the offset lies beyond the end.  *)
Read(k, x, n) ==
  CASE k = "iso" -> [x EXCEPT !.seek = @ + Least(n, x.size)]
    [] k = "fat" -> [x EXCEPT !.seek = IF x.seek > x.size THEN @ + n ELSE Least(@ + n, x.size)]
    [] k = "null" -> x

(* A directory of the ISO is read like a file, through its inode: from its *)
(* seek_offset, which this leaves behind the directory.  Whoever reads it  *)
(* again gets the sectors that follow.                                     *)
Ask(t) ==
  /\ Doing(t, "load") /\ pc[t].got = "nothing"
  /\ pc' = [pc EXCEPT ![t].got = "place", ![t].from = At(pc[t].e).seek]
  /\ UNCHANGED <<disc, dents, files, crossed, astray, drift, leaks, halted, calls>>

Fetch(t) ==
  /\ Doing(t, "load") /\ pc[t].got = "place"
  /\ LET e == pc[t].e
     IN  dents' = [dents EXCEPT ![e[1]].elems[e[2]] = Read("iso", @, @.size)]
  /\ \/ pc[t].from = 0 /\ pc' = [pc EXCEPT ![t].got = "bytes"]
     \/ pc[t].from # 0 /\ \E on \in Behind : pc' = [pc EXCEPT ![t].got = "bytes", ![t].on = on]
  /\ astray' = (astray \/ pc[t].from # 0)
  /\ UNCHANGED <<disc, files, crossed, drift, leaks, halted, calls>>

Source(c) == IF c.from = 0 THEN disc[dents[c.into].dir] ELSE c.on

(* iso_dentry_inode_load and fat_load_dentry: an entry a turn. *)
Load(t) ==
  /\ Doing(t, "load") /\ pc[t].got = "bytes"
  /\ LET d == pc[t].into
         on == Source(pc[t])
         k == pc[t].k + 1
     IN  /\ k <= Len(on)
         /\ dents' = [dents EXCEPT ![d].elems = Append(@, Elem(on[k], 0))]
         /\ pc' = [pc EXCEPT ![t].k = k]
  /\ UNCHANGED <<disc, files, crossed, astray, drift, leaks, halted, calls>>

(* Bytes that are of no directory end it, or the machine. *)
Garbled(t) ==
  /\ Doing(t, "load") /\ pc[t].got = "bytes" /\ pc[t].from # 0
  /\ Stop(t, "not loaded")
  /\ halted' \in BOOLEAN
  /\ UNCHANGED <<disc, dents, files, crossed, astray, drift, leaks, calls>>

Loaded(t) ==
  /\ Doing(t, "load") /\ pc[t].got = "bytes" /\ pc[t].k >= Len(Source(pc[t]))
  /\ pc' = [pc EXCEPT ![t] = [do |-> "walk", o |-> @.o, rest |-> Tail(@.rest),
                              d |-> At(@.e).sub]]
  /\ UNCHANGED <<disc, dents, files, crossed, astray, drift, leaks, halted, calls>>

----------------------------------------------------------------------------
(* lst->ops->add_delem: /dev has no ops, the ISO's have no such function,  *)
(* and fat_add_elem needs dir_file.  It may also find no cluster.          *)
CanAdd(d) == Kind[dents[d].dir] = "fat" /\ dents[d].set

Create(t) ==
  /\ Doing(t, "create")
  /\ LET d == pc[t].d
         new == [name |-> pc[t].name, is |-> NoDir, size |-> 0]
     IN  \/ /\ ~CanAdd(d)
            /\ halted' = TRUE
            /\ UNCHANGED <<disc, dents, pc, crossed>>
         \/ /\ CanAdd(d)
            /\ Stop(t, "no room")
            /\ UNCHANGED <<disc, dents, crossed, halted>>
         \/ /\ CanAdd(d)
            /\ disc' = [disc EXCEPT ![dents[d].dir] = Append(@, new)]
            /\ dents' = [dents EXCEPT ![d].elems = Append(@, [Elem(new, 0) EXCEPT !.cap = CS])]
            /\ pc' = [pc EXCEPT ![t] = [do |-> "opened", o |-> @.o,
                                        e |-> <<d, Len(dents[d].elems) + 1>>]]
            /\ crossed' = (crossed \/ Len(dents[d].elems) # pc[t].seen)
            /\ UNCHANGED halted
  /\ UNCHANGED <<files, astray, drift, leaks, calls>>

(* A failed call returns, and a listing. *)
Fail(t) ==
  /\ Doing(t, "failed") \/ Doing(t, "listed")
  /\ pc' = [pc EXCEPT ![t] = Idle]
  /\ UNCHANGED <<disc, dents, files, crossed, astray, drift, leaks, halted, calls>>

(* Two threads between the load and the store of one refer_count. *)
Counting(e) == {t \in Threads : pc[t] # Idle /\ pc[t].do \in {"count", "drop"} /\ pc[t].e = e}
Drifts(t, e) == IF Counting(e) \ {t} = {} THEN drift ELSE drift \cup {e}

(* Mutant of Raised: the count is set, not raised. *)
RaisedToOne(r) == 1

Raised(r) == r + 1

(* refer_count++, the load *)
OpenLoad(t) ==
  /\ Doing(t, "opened")
  /\ pc' = [pc EXCEPT ![t] = [do |-> "count", o |-> @.o, e |-> @.e, r |-> At(@.e).refer]]
  /\ drift' = Drifts(t, pc[t].e)
  /\ UNCHANGED <<disc, dents, files, crossed, astray, leaks, halted, calls>>

(* The store, and thread_add_fd.  With no descriptor left the file stays   *)
(* behind, counted.                                                        *)
OpenStore(t) ==
  /\ Doing(t, "count")
  /\ LET e == pc[t].e
     IN  /\ dents' = [dents EXCEPT ![e[1]].elems[e[2]].refer = Raised(pc[t].r)]
         /\ \/ \E f \in Slots :
                 /\ files[f] = Free
                 /\ files' = [files EXCEPT ![f] = [e |-> e, pos |-> 0, o |-> pc[t].o, own |-> 0,
                                                    mixed |-> FALSE]]
                 /\ UNCHANGED leaks
            \/ /\ \A f \in Slots : files[f] # Free
               /\ leaks' = Append(leaks, e)
               /\ UNCHANGED files
  /\ pc' = [pc EXCEPT ![t] = Idle]
  /\ UNCHANGED <<disc, crossed, astray, drift, halted, calls>>

Using(f) == {t \in Threads : pc[t] # Idle /\ pc[t].do \in {"act", "unpark"} /\ pc[t].f = f}

(* vfs_close of the last descriptor (Files has the others) *)
CloseLoad(t, f) ==
  /\ Call(t)
  /\ files[f] # Free /\ Using(f) = {}
  /\ LET e == files[f].e
     IN  /\ files' = [files EXCEPT ![f] = Free]
         /\ pc' = [pc EXCEPT ![t] = [do |-> "drop", e |-> e, r |-> At(e).refer]]
         /\ drift' = Drifts(t, e)
  /\ UNCHANGED <<disc, dents, crossed, astray, leaks, halted>>

Lowered(r) == IF r > 1 THEN r - 1 ELSE r

CloseStore(t) ==
  /\ Doing(t, "drop")
  /\ LET e == pc[t].e
     IN  dents' = [dents EXCEPT ![e[1]].elems[e[2]].refer = Lowered(pc[t].r)]
  /\ pc' = [pc EXCEPT ![t] = Idle]
  /\ UNCHANGED <<disc, files, crossed, astray, drift, leaks, halted, calls>>

----------------------------------------------------------------------------
(* What sys_read, sys_write and sys_lseek do to the inode x: seek_offset,  *)
(* size_in_byte and the bytes of its buffer.  Opened for writing is asked  *)
(* by sys_write; sys_read only refuses a file opened with no flag at all.  *)
Most(a, b) == IF a >= b THEN a ELSE b

Grown(x, n) == IF n <= x.cap THEN x.cap ELSE x.cap + ((n - x.cap + CS - 1) \div CS) * CS

Write(k, x, n) ==
  IF k = "fat" THEN [x EXCEPT !.seek = @ + n, !.size = Most(@, x.seek + n), !.cap = Grown(x, x.seek + n)]
  ELSE x

Seek(k, x, o) ==
  IF k = "fat" /\ o + 1 > x.cap THEN [x EXCEPT !.seek = o, !.size = o, !.cap = Grown(x, o + 1)]
  ELSE [x EXCEPT !.seek = o]

(* Calls of null functions: fs_write of the ISO, fs_lseek of a device. *)
IsNull(k, op) == (k = "iso" /\ op.do = "write") \/ (k = "null" /\ op.do \in {"seek", "end"})

Effect(k, x, op) ==
  CASE op.do = "read" -> Read(k, x, op.n)
    [] op.do = "write" -> Write(k, x, op.n)
    [] op.do = "seek" -> Seek(k, x, op.n)
    [] op.do = "end" -> Seek(k, x, x.size)

(* Mutant of Parked: the inode keeps the offset of the call before. *)
ParkedNot(x, pos) == x

Parked(x, pos) == [x EXCEPT !.seek = pos]

Overlap(e) == {f \in Slots : files[f] # Free /\ files[f].e = e /\ Using(f) # {}}

(* inode->seek_offset=file->lseek *)
Park(t, f, op) ==
  /\ Call(t)
  /\ files[f] # Free /\ (op.do = "write" => files[f].o.wr)
  /\ LET e == files[f].e
         mix == IF Overlap(e) = {} THEN {} ELSE Overlap(e) \cup {f}
     IN  /\ dents' = [dents EXCEPT ![e[1]].elems[e[2]] = Parked(@, files[f].pos)]
         /\ files' = [g \in Slots |-> IF g \in mix THEN [files[g] EXCEPT !.mixed = TRUE] ELSE files[g]]
         /\ pc' = [pc EXCEPT ![t] = [do |-> "act", f |-> f, op |-> op]]
  /\ UNCHANGED <<disc, crossed, astray, drift, leaks, halted>>

Act(t) ==
  /\ Doing(t, "act")
  /\ LET f == pc[t].f
         e == files[f].e
         k == KindOf(e)
         y == Effect(k, At(e), pc[t].op)
     IN  \/ /\ IsNull(k, pc[t].op)
            /\ halted' = TRUE
            /\ UNCHANGED <<dents, files, pc>>
         \/ /\ ~IsNull(k, pc[t].op) /\ y.seek <= MaxOff
            /\ dents' = [dents EXCEPT ![e[1]].elems[e[2]] = y]
            /\ files' = [files EXCEPT ![f].own = Effect(k, [At(e) EXCEPT !.seek = files[f].own], pc[t].op).seek]
            /\ pc' = [pc EXCEPT ![t].do = "unpark"]
            /\ UNCHANGED halted
  /\ UNCHANGED <<disc, crossed, astray, drift, leaks, calls>>

(* file->lseek=inode->seek_offset *)
Unpark(t) ==
  /\ Doing(t, "unpark")
  /\ LET f == pc[t].f
     IN  files' = [files EXCEPT ![f].pos = At(files[f].e).seek]
  /\ pc' = [pc EXCEPT ![t] = Idle]
  /\ UNCHANGED <<disc, dents, crossed, astray, drift, leaks, halted, calls>>

VfsNext ==
  \E t \in Threads :
    \/ Begin(t) \/ WalkEnd(t) \/ WalkDots(t) \/ WalkMissing(t) \/ WalkFile(t) \/ WalkDir(t)
    \/ Copy(t) \/ Link(t) \/ Ask(t) \/ Fetch(t) \/ Load(t) \/ Garbled(t) \/ Loaded(t)
    \/ Create(t) \/ Fail(t)
    \/ OpenLoad(t) \/ OpenStore(t) \/ CloseStore(t) \/ Act(t) \/ Unpark(t)
    \/ \E f \in Slots : CloseLoad(t, f) \/ \E op \in Ops : Park(t, f, op)

VfsSpec == VfsInit /\ [][VfsNext]_vfsVars
----------------------------------------------------------------------------
VfsTypeOK ==
  /\ disc \in [Dirs -> Seq(Entries)] /\ dents \in Seq(Dentries)
  /\ files \in [Slots -> Opened \cup {Free}] /\ pc \in [Threads -> Doings \cup {Idle}]
  /\ crossed \in BOOLEAN /\ astray \in BOOLEAN /\ drift \subseteq Places /\ leaks \in Seq(Places)
  /\ halted \in BOOLEAN /\ calls \in Nat

(* A descriptor is of the file its path names: no lookup ends in another   *)
(* directory or at another name, whatever calls race and also in a dentry  *)
(* that is loaded twice or was replaced while the lookup went through it,  *)
(* until one reads a directory of the ISO that another has read: that one  *)
(* takes what lies behind it for its entries.  And unless a lookup used a  *)
(* dentry another one was filling, a call that fails has not missed a      *)
(* file, or directory, that is there.                                      *)
LookupRight ==
  /\ \A f \in Slots :
       (~astray /\ files[f] # Free) =>
         LET e == files[f].e
         IN  Place(dents[e[1]].dir, At(e).name) \in Leads(files[f].o.path)
  /\ \A t \in Threads :
       (~astray /\ Doing(t, "listed")) => Place(dents[pc[t].d].dir, NoDir) \in Leads(pc[t].o.path)
  /\ \A t \in Threads : (Doing(t, "failed") /\ pc[t].was) => (crossed \/ pc[t].why = "no room")

(* Until then a directory is read once, from its beginning, and has one    *)
(* dentry, and a file one inode, hence one offset to park and one buffer.  *)
OneOfEach ==
  ~crossed =>
    /\ ~astray
    /\ \A d, c \in DOMAIN dents : dents[d].dir = dents[c].dir => d = c
    /\ \A d \in DOMAIN dents : \A i, j \in DOMAIN dents[d].elems :
         dents[d].elems[i].name = dents[d].elems[j].name => i = j

(* refer_count follows the files opened on an inode, those without a       *)
(* descriptor too, and is never less; the last close leaves it at one, so  *)
(* it may be one more.  (Of a device it starts with what the memory held.) *)
Held(e) == Cardinality({f \in Slots : files[f] # Free /\ files[f].e = e})
           + Cardinality({i \in DOMAIN leaks : leaks[i] = e})

ReferCounts ==
  \A d \in DOMAIN dents : \A i \in DOMAIN dents[d].elems :
    LET e == <<d, i>>
    IN  (Kind[dents[d].dir] # "null" /\ e \notin drift /\ Counting(e) = {}) =>
          At(e).refer - Held(e) \in {0, 1}

(* The offset of a descriptor is moved by the calls on it alone, although  *)
(* all of a file's descriptors park theirs in one inode, unless two calls  *)
(* on that file have been under way at once.                               *)
OwnPlace ==
  \A f \in Slots : (files[f] # Free /\ ~files[f].mixed /\ Using(f) = {}) => files[f].pos = files[f].own
=============================================================================
