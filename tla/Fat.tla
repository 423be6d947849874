-------------------------------- MODULE Fat --------------------------------
(***************************************************************************)
(* The FAT32 driver, kernel/fs/fs_fat32.c, on one volume with its root     *)
(* directory: the file allocation table behind a cache of one group of     *)
(* entries, the chain of clusters of each file, and the buffer that holds  *)
(* the whole of a file once it has been read or written.                   *)
(*                                                                         *)
(* The loop of fat_add_cluster_chain is one action a turn, and a write is  *)
(* split at its writes to the disk, because the machine can stop between   *)
(* any two of them (Mount).  One call is under way at a time: the file     *)
(* system takes no lock, and calls that interrupt each other are left out. *)
(* The model ends (torn) where the driver goes on with a freed buffer, a   *)
(* wild one, or a chain that ends in a free cluster.                       *)
(***************************************************************************)
EXTENDS Integers, Sequences, FiniteSets

CONSTANTS
  Files,        \* the names that may be created in the root directory
  NE,           \* entries of the table, clusters of the disk; NE is "no more"
  WS,           \* entries the cache holds: sectors_per_group*512/4
  CS, DS,       \* bytes of a cluster; directory entries of one
  Bad,          \* clusters the formatter has marked, not to be used
  LastUseful,   \* fs_info.cnt_in_last_useful_fat
  MaxLen,       \* bound: bytes of a file
  Lens,         \* bound: bytes of a write
  Zero, Junk,   \* the byte zero; any byte
  NoBuf, NoFile, Missing, Lost, Idle   \* model values

Entries == 0 .. NE - 1
Root == 2                       \* bpb.fat_of_root
Per(x) == IF x = Root THEN DS ELSE CS
Base(c) == c - (c % WS)          \* PALIGN_DOWN(cluster,512/4)
Windows == {Base(c) : c \in Entries}
InWindow(w) == {c \in Entries : Base(c) = w}

ASSUME FatAssumption ==
  /\ NE \in Nat /\ WS \in Nat \ {0} /\ CS \in Nat \ {0} /\ DS \in Nat \ {0} /\ LastUseful \in Nat
  /\ NE > Root /\ (NE % WS) = 0 /\ MaxLen \in Nat /\ Lens \subseteq Nat \ {0}

(* What a directory entry, the bytes of a file, an inode with its cache    *)
(* and an enlarge are; the model values are none of these.                 *)
Descs == [name : Files, fst : Entries, len : 0 .. MaxLen]
FileBytes == {Zero, Junk} \cup Files
Inodes == [fst : Entries, lst : Entries, size : Nat, buf : {NoBuf} \cup Seq(FileBytes),
           len : 0 .. MaxLen, slot : Nat \ {0}]
Grows == [do : {"grow"}, who : Files \cup {Root}, left : Nat, at : Entries, more : Nat,
          linked : BOOLEAN,
          then : [do : {"add"}, who : Files] \cup [do : {"seek"}, p : 0 .. MaxLen]
                 \cup [do : {"put"}, who : Files, p : Nat, n : Nat]]

ASSUME ValuesAssumption ==
  /\ Root \notin Files /\ Zero # Junk /\ Descs \cap FileBytes = {}
  /\ NoFile \notin Inodes /\ Idle \notin Grows

VARIABLES
  tab,     \* the table: disk, and fat_fattable_cache_t: win (start_cluster), dat
  data,    \* by cluster: its bytes on disk
  dir,     \* fat_file_cache_t of the root directory: lst (lst_fat), size, buf
  mem,     \* by file: its inode and fat_file_cache_t, or NoFile
  op,      \* the call under way, or Idle
  lossy,   \* history: files that lost their tail (Behind; GrowEnd)
  sought,  \* history: files stretched by lseek since their entry was written
  torn     \* see above

vars == <<tab, data, dir, mem, op, lossy, sought, torn>>

----------------------------------------------------------------------------
(* The table.  Operators take a table t and give one back, because reading *)
(* an entry moves the cache.                                               *)
Load(t, w) == [disk |-> t.disk, win |-> w, dat |-> [c \in InWindow(w) |-> t.disk[c]]]

MovedTo(t, c) == IF t.win = Base(c) THEN t ELSE Load(t, Base(c))

(* Mutant of SetValue: the sector is not written to the disk. *)
SetUnflushed(t, c, v) ==
  LET u == MovedTo(t, c)
  IN  [disk |-> u.disk, win |-> u.win, dat |-> [u.dat EXCEPT ![c] = v]]

SetValue(t, c, v) ==
  LET u == MovedTo(t, c)
      d == [u.dat EXCEPT ![c] = v]
  IN  [disk |-> [e \in Entries |-> IF Base(e) = u.win THEN d[e] ELSE u.disk[e]],
       win |-> u.win, dat |-> d]

ValueOf(t, c) == IF Base(c) = t.win THEN t.dat[c] ELSE t.disk[c]

(* fat_get_free_fat starts where the cache stands and never turns back. *)
Visited(t) == {t.win} \cup {w \in Windows : w > t.win /\ w <= LastUseful}
FreeFrom(t) == {c \in Entries : c >= 3 /\ Base(c) \in Visited(t) /\ ValueOf(t, c) = 0}
IsFirst(S, c) == c \in S /\ \A d \in S : c <= d
AtEnd(t) == CHOOSE w \in Visited(t) : \A x \in Visited(t) : x <= w

(* The clusters from c on; a chain that closes on itself gets NE + 1 long. *)
Chain(t, c) ==
  LET next == [e \in 0 .. NE |-> IF e = NE THEN NE ELSE ValueOf(t, e)]
      at[i \in 1 .. NE + 1] == IF i = 1 THEN c ELSE next[at[i - 1]]
      len  == Cardinality({i \in 1 .. NE + 1 : at[i] # NE})
  IN  [i \in 1 .. len |-> at[i]]

(* A walk leaves the cache at its last cluster. *)
Walked(t, c) == MovedTo(t, Chain(t, c)[Len(Chain(t, c))])

(* fat_create_file_cache and fat_cache_load_cluster: a buffer of `size'    *)
(* bytes gets what is in the chain, and keeps what kmalloc left behind it. *)
Buffer(t, D, c, size) ==
  LET s == Chain(t, c)
      n == Per(c)
  IN  [i \in 1 .. size |->
         IF (i - 1) \div n + 1 <= Len(s) THEN D[s[(i - 1) \div n + 1]][((i - 1) % n) + 1]
         ELSE Junk]

(* Mutant of Whole: the last cluster of a buffer is left out. *)
WholeButLast(k, n, len) == k * n < len

(* fat_flush_fcache writes cluster after cluster, as far as the chain goes, *)
(* while a whole one is left of the buffer.                                *)
Whole(k, n, len) == k * n <= len

Flushed(t, D, c, buf) ==
  LET s == Chain(t, c)
      n == Per(c)
      at(e) == {k \in 1 .. Len(s) : s[k] = e /\ Whole(k, n, Len(buf))}
  IN  [e \in Entries |->
         IF at(e) = {} THEN D[e]
         ELSE LET k == CHOOSE k \in at(e) : \A j \in at(e) : j <= k
              IN  [i \in 1 .. n |-> buf[(k - 1) * n + i]]]

Zeros(x) == [i \in 1 .. Per(x) |-> Zero]

----------------------------------------------------------------------------
(* A directory entry: whose it is, its first cluster, size_in_byte.  The   *)
(* 8+3 letters of a name are one value here.                               *)
IsEntry(x) == x \notin {Zero, Junk} \cup Files
Slots(buf) == {i \in 1 .. Len(buf) : IsEntry(buf[i])}

(* fat_load_dentry, for the entry in slot i. *)
Inode(t, buf, i) ==
  [fst |-> buf[i].fst, lst |-> Chain(t, buf[i].fst)[Len(Chain(t, buf[i].fst))],
   size |-> CS * Len(Chain(t, buf[i].fst)), buf |-> NoBuf, len |-> buf[i].len, slot |-> i]

(* What fat_mount builds from the disk. *)
Mounted(disk, D) ==
  LET t0  == Load([disk |-> disk, win |-> 0, dat |-> <<>>], 0)
      rc  == Chain(t0, Root)
      buf == Buffer(t0, D, Root, DS * Len(rc))
      has(f) == \E i \in Slots(buf) : buf[i].name = f
      slot(f) == CHOOSE i \in Slots(buf) : buf[i].name = f
      lastSlot == CHOOSE i \in Slots(buf) : \A j \in Slots(buf) : j <= i
  IN  [tab |-> IF Slots(buf) = {} THEN Walked(t0, Root) ELSE Walked(t0, buf[lastSlot].fst),
       dir |-> [lst |-> rc[Len(rc)], size |-> DS * Len(rc), buf |-> buf],
       mem |-> [f \in Files |-> IF has(f) THEN Inode(t0, buf, slot(f)) ELSE NoFile]]

(* A volume as it is formatted: media byte and reserved entry, then Root. *)
Blank == [c \in Entries |-> IF c <= Root \/ c \in Bad THEN NE ELSE 0]
NoData == [c \in Entries |-> Zeros(c)]

Init ==
  /\ tab = Mounted(Blank, NoData).tab
  /\ data = NoData
  /\ dir = Mounted(Blank, NoData).dir
  /\ mem = [f \in Files |-> NoFile]
  /\ op = Idle
  /\ lossy = {} /\ sought = {} /\ torn = FALSE

Busy(k) == ~torn /\ op # Idle /\ op.do = k

(* Files with bytes beyond the length their directory entry tells: lseek   *)
(* has stretched them, later writes changed what was then not the end.     *)
Behind ==
  {f \in sought : \E i \in dir.buf[mem[f].slot].len + 1 .. mem[f].len :
                    mem[f].buf # NoBuf /\ mem[f].buf[i] # Zero}

(* The volume is mounted again, after a stop at any point. *)
Mount ==
  LET m == Mounted(tab.disk, data)
  IN  /\ ~torn
      /\ tab' = m.tab /\ dir' = m.dir /\ mem' = m.mem
      /\ op' = Idle
      /\ torn' = (op # Idle /\ op.do = "grow" /\ op.linked)
      /\ sought' = {}
      /\ lossy' = lossy \cup Behind
      /\ UNCHANGED data

----------------------------------------------------------------------------
(* fat_fcache_enlarge by n bytes, then `then': the buffer is freed, and    *)
(* clusters are linked behind lst_fat one after the other.                 *)
Enlarge(who, n, lst, then) ==
  op' = [do |-> "grow", who |-> who, left |-> (n + Per(who) - 1) \div Per(who), at |-> lst,
         more |-> ((n + Per(who) - 1) \div Per(who)) * Per(who), linked |-> FALSE, then |-> then]

(* A turn of fat_add_cluster_chain.  With no cluster left it returns 0 and *)
(* the freed buffer stays in use.                                          *)
GrowStep ==
  /\ Busy("grow") /\ op.left > 0
  /\ \/ /\ FreeFrom(tab) = {}
        /\ torn' = TRUE
        /\ op' = Idle
        /\ tab' = MovedTo(tab, AtEnd(tab))
        /\ UNCHANGED data
     \/ \E v \in Entries :
          /\ IsFirst(FreeFrom(tab), v)
          /\ data' = [data EXCEPT ![v] = Zeros(op.who)]
          /\ tab' = SetValue(MovedTo(tab, v), op.at, v)
          /\ op' = [op EXCEPT !.left = @ - 1, !.at = v, !.linked = TRUE]
          /\ UNCHANGED torn
  /\ UNCHANGED <<dir, mem, lossy, sought>>

(* Mutant of Longer: lst_fat stays. *)
LongerSameEnd(x, at, more) == [x EXCEPT !.size = @ + more]

Longer(x, at, more) == [x EXCEPT !.lst = at, !.size = @ + more]

(* Its end: the last cluster is marked, the buffer loaded anew. *)
GrowEnd ==
  /\ Busy("grow") /\ op.left = 0
  /\ LET t     == SetValue(tab, op.at, NE)
         isDir == op.who = Root
         old   == IF isDir THEN dir ELSE mem[op.who]
         fst   == IF isDir THEN Root ELSE old.fst
         new   == [Longer(old, op.at, op.more) EXCEPT !.buf = Buffer(t, data, fst, old.size + op.more)]
     IN  /\ tab' = Walked(t, fst)
         /\ lossy' = IF new.size # Per(op.who) * Len(Chain(t, fst)) THEN lossy \cup {op.who} ELSE lossy
         /\ IF isDir THEN dir' = new /\ UNCHANGED mem
            ELSE /\ UNCHANGED dir
                 /\ mem' = [mem EXCEPT ![op.who] =
                              IF op.then.do = "seek" THEN [new EXCEPT !.len = op.then.p] ELSE new]
         /\ op' = IF op.then.do = "seek" THEN Idle ELSE op.then
         /\ sought' = IF op.then.do = "seek" THEN sought \cup {op.who} ELSE sought
  /\ UNCHANGED <<data, torn>>

----------------------------------------------------------------------------
(* fat_add_elem, as O_CREAT finds no such name.  A full directory is       *)
(* searched beyond its end: the next byte that looks like a free entry may *)
(* be any number of entries further.                                       *)
Create(f) ==
  /\ ~torn /\ op = Idle
  /\ mem[f] = NoFile
  /\ \/ /\ \E i \in 1 .. Len(dir.buf) : dir.buf[i] = Zero
        /\ op' = [do |-> "add", who |-> f]
     \/ /\ \A i \in 1 .. Len(dir.buf) : dir.buf[i] # Zero
        /\ \E k \in 1 .. DS + 1 : Enlarge(Root, k, dir.lst, [do |-> "add", who |-> f])
  /\ UNCHANGED <<tab, data, dir, mem, lossy, sought, torn>>

(* Mutant of Marked: the cluster stays free. *)
MarkedNot(t, v) == MovedTo(t, v)

Marked(t, v) == SetValue(MovedTo(t, v), v, NE)

(* A cluster is found, marked and cleared. *)
Add ==
  /\ Busy("add")
  /\ \/ /\ FreeFrom(tab) = {}
        /\ tab' = MovedTo(tab, AtEnd(tab))
        /\ op' = Idle
        /\ UNCHANGED data
     \/ \E v \in Entries :
          /\ IsFirst(FreeFrom(tab), v)
          /\ tab' = Marked(tab, v)
          /\ data' = [data EXCEPT ![v] = Zeros(op.who)]
          /\ op' = [do |-> "enter", who |-> op.who, at |-> v]
  /\ UNCHANGED <<dir, mem, lossy, sought, torn>>

(* The entry is written, and the inode made.  Its `buffer' is not set: the *)
(* unit's old bytes may be zero, or be taken for the address of a buffer.  *)
Enter ==
  /\ Busy("enter")
  /\ \E i \in 1 .. Len(dir.buf) :
       LET buf == [dir.buf EXCEPT ![i] = [name |-> op.who, fst |-> op.at, len |-> 0]]
       IN  /\ IsFirst({j \in 1 .. Len(dir.buf) : dir.buf[j] = Zero}, i)
           /\ dir' = [dir EXCEPT !.buf = buf]
           /\ data' = Flushed(tab, data, Root, buf)
           /\ tab' = Walked(tab, Root)
           /\ mem' = [mem EXCEPT ![op.who] = [fst |-> op.at, lst |-> op.at, size |-> CS,
                                              buf |-> NoBuf, len |-> 0, slot |-> i]]
  /\ op' = Idle
  /\ torn' \in BOOLEAN
  /\ UNCHANGED <<lossy, sought>>

----------------------------------------------------------------------------
(* The buffer is loaded when there is none. *)
Loaded(f) ==
  IF mem[f].buf = NoBuf
  THEN [mem[f] EXCEPT !.buf = Buffer(tab, data, mem[f].fst, mem[f].size)] ELSE mem[f]
LoadedTab(f) == IF mem[f].buf = NoBuf THEN Walked(tab, mem[f].fst) ELSE tab

(* An offset vfs_lseek or an earlier call may have left in the descriptor. *)
Reachable(f, p) == mem[f] # NoFile /\ (p < mem[f].size \/ p = mem[f].len)

(* fat_inode_write of n bytes at p *)
Write(f, p, n) ==
  /\ ~torn /\ op = Idle
  /\ Reachable(f, p) /\ p + n <= MaxLen
  /\ mem' = [mem EXCEPT ![f] = Loaded(f)]
  /\ tab' = LoadedTab(f)
  /\ LET then == [do |-> "put", who |-> f, p |-> p, n |-> n]
     IN  IF mem[f].size < p + n THEN Enlarge(f, p + n - mem[f].size, mem[f].lst, then)
         ELSE op' = then
  /\ UNCHANGED <<data, dir, lossy, sought, torn>>

(* memcpy; a longer file gets its length into the directory, which is      *)
(* flushed first.                                                          *)
Put ==
  /\ Busy("put")
  /\ LET f   == op.who
         end == op.p + op.n
         buf == [i \in 1 .. Len(mem[f].buf) |->
                   IF op.p < i /\ i <= end THEN f ELSE mem[f].buf[i]]
         ent == [dir.buf EXCEPT ![mem[f].slot].len = end]
     IN  IF end > mem[f].len
         THEN /\ mem' = [mem EXCEPT ![f].buf = buf, ![f].len = end]
              /\ dir' = [dir EXCEPT !.buf = ent]
              /\ data' = Flushed(tab, data, Root, ent)
              /\ tab' = Walked(tab, Root)
              /\ sought' = sought \ {f}
         ELSE /\ mem' = [mem EXCEPT ![f].buf = buf]
              /\ UNCHANGED <<dir, data, tab, sought>>
  /\ op' = [do |-> "flush", who |-> op.who]
  /\ UNCHANGED <<lossy, torn>>

Flush ==
  /\ Busy("flush")
  /\ data' = Flushed(tab, data, mem[op.who].fst, mem[op.who].buf)
  /\ tab' = Walked(tab, mem[op.who].fst)
  /\ op' = Idle
  /\ UNCHANGED <<dir, mem, lossy, sought, torn>>

(* fat_inode_read: all it changes is that the buffer is there. *)
Read(f) ==
  /\ ~torn /\ op = Idle
  /\ mem[f] # NoFile /\ mem[f].buf = NoBuf
  /\ mem' = [mem EXCEPT ![f] = Loaded(f)]
  /\ tab' = LoadedTab(f)
  /\ UNCHANGED <<data, dir, op, lossy, sought, torn>>

(* fat_inode_seek beyond the buffer; up to there it changes nothing here.  *)
(* A buffer that was never loaded is null, and freeing that does nothing.  *)
Seek(f, p) ==
  /\ ~torn /\ op = Idle
  /\ mem[f] # NoFile /\ p + 1 > mem[f].size
  /\ Enlarge(f, p + 1 - mem[f].size, mem[f].lst, [do |-> "seek", p |-> p])
  /\ UNCHANGED <<tab, data, dir, mem, lossy, sought, torn>>

Next ==
  \/ Mount
  \/ GrowStep \/ GrowEnd
  \/ Add \/ Enter \/ Put \/ Flush
  \/ \E f \in Files :
       \/ Create(f) \/ Read(f)
       \/ \E p \in 0 .. MaxLen : Seek(f, p) \/ \E n \in Lens : Write(f, p, n)

Spec == Init /\ [][Next]_vars
----------------------------------------------------------------------------
(* The table maps clusters to clusters, and a file has its own. *)
TypeOK ==
  /\ tab.disk \in [Entries -> 0 .. NE]
  /\ tab.win \in Windows
  /\ tab.dat \in [InWindow(tab.win) -> 0 .. NE]
  /\ \A c \in Entries : data[c] \in Seq({Zero, Junk} \cup Files \cup Descs)
  /\ lossy \subseteq Files \cup {Root} /\ sought \subseteq Files /\ torn \in BOOLEAN

(* What the cache holds of the table is what is on disk, wherever walks,   *)
(* searches and updates have moved it.                                     *)
CacheAgrees == tab.dat = [c \in InWindow(tab.win) |-> tab.disk[c]]

(* No cluster is in two chains, nor twice in one, and none that is in a    *)
(* chain is free for the next search to find.  (Between the first turn of  *)
(* an enlarge and its end that file's chain leads to a free cluster.)      *)
First(x) == IF x = Root THEN Root ELSE mem[x].fst
Owners == {Root} \cup {f \in Files : mem[f] # NoFile}
Settled == ~torn /\ (op # Idle => op.do # "grow")
SetOf(s) == {s[i] : i \in 1 .. Len(s)}

ChainsApart ==
  Settled =>
    /\ \A x \in Owners :
         LET s == Chain(tab, First(x))
         IN  Cardinality(SetOf(s)) = Len(s) /\ \A c \in SetOf(s) : ValueOf(tab, c) # 0
    /\ \A x, y \in Owners :
         x # y => SetOf(Chain(tab, First(x))) \cap SetOf(Chain(tab, First(y))) = {}

(* lst_fat is the end of the chain and size_byte its length, although each *)
(* is kept apart from the table.  An enlarge by more than one cluster may  *)
(* find the same free cluster twice, since it is still free when the next  *)
(* turn looks, and fall short: those files are in `lossy'.                 *)
SizeIsChain ==
  Settled =>
    \A x \in Owners :
      LET s == Chain(tab, First(x))
          c == IF x = Root THEN dir ELSE mem[x]
      IN  c.lst = s[Len(s)] /\ (x \in lossy \/ c.size = Per(x) * Len(s))

----------------------------------------------------------------------------
(* The volume as FileStore.  A file reads from its buffer when it has one, *)
(* else from its chain.                                                    *)
Content(f) ==
  IF mem[f] = NoFile THEN Missing
  ELSE IF f \in lossy THEN Lost
  ELSE [i \in 1 .. mem[f].len |-> Loaded(f).buf[i]]

Dirty == (sought \cup (IF op # Idle /\ op.do = "flush" THEN {op.who} ELSE {})) \ lossy

Store == INSTANCE FileStore WITH
  content <- [f \in Files |-> Content(f)], dirty <- Dirty,
  broken <- torn \/ Root \in lossy, Offsets <- 0 .. MaxLen

(* Whatever sequence of calls is made, and wherever the machine stops, a   *)
(* file has the bytes written to it, no other file's, and zeros in gaps;   *)
(* and what has been flushed is there after the next mount.                *)
ImplementsStore == Store!SSpec
=============================================================================
