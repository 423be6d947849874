---------------------------- MODULE LookupProofs ----------------------------
(***************************************************************************)
(* That a lookup ends where its path leads: LookupRight and OneOfEach of   *)
(* module Vfs.                                                             *)
(***************************************************************************)
EXTENDS VfsProofs, SequenceTheorems

(***************************************************************************)
(* Where a path leads                                                      *)
(***************************************************************************)
(* A disc as it may be after some files were created *)
FromDisc(on) ==
  /\ on \in [Dirs -> Seq(Entries)]
  /\ \A d \in Dirs :
       /\ Len(Disc[d]) <= Len(on[d])
       /\ \A i \in DOMAIN on[d] : IF i <= Len(Disc[d]) THEN on[d][i] = Disc[d][i] ELSE on[d][i].is = NoDir

(* That only entries were added *)
Extends(on, more) ==
  \A d \in Dirs : \A i \in DOMAIN on[d] : i \in DOMAIN more[d] /\ more[d][i] = on[d][i]

(* A directory is in the entry that the disc had at first. *)
LEMMA EntryIs ==
  ASSUME NEW on, FromDisc(on), NEW x \in Dirs, NEW i \in DOMAIN on[x]
  PROVE  /\ on[x][i] \in Entries /\ on[x][i].is \in Dirs \cup {NoDir} /\ on[x][i].name \in Names
         /\ on[x][i].is # NoDir => i \in DOMAIN Disc[x] /\ on[x][i] = Disc[x][i]
<1>1. on[x] \in Seq(Entries) /\ Disc[x] \in Seq(Entries)
  BY VfsAssumption DEF FromDisc
<1>2. on[x][i] \in Entries
  BY <1>1
<1>3. on[x][i].is # NoDir => i <= Len(Disc[x]) /\ on[x][i] = Disc[x][i]
  BY DEF FromDisc
<1>4. i \in Nat \ {0}
  BY <1>1
<1>5. on[x][i].is # NoDir => i \in DOMAIN Disc[x]
  BY <1>1, <1>3, <1>4
<1> QED BY <1>2, <1>3, <1>5 DEF Entries

LEMMA OneEntry ==
  ASSUME NEW on, FromDisc(on), NEW x \in Dirs, NEW i \in DOMAIN on[x],
         NEW y \in Dirs, NEW j \in DOMAIN on[y], on[x][i].is = on[y][j].is, on[x][i].is # NoDir
  PROVE  x = y /\ i = j
<1>1. i \in DOMAIN Disc[x] /\ on[x][i] = Disc[x][i] /\ j \in DOMAIN Disc[y] /\ on[y][j] = Disc[y][j]
  BY EntryIs
<1> QED BY <1>1, VfsAssumption

LEMMA DiscIs == FromDisc(Disc)
<1>1. Disc \in [Dirs -> Seq(Entries)]
  BY VfsAssumption
<1>2. ASSUME NEW d \in Dirs PROVE Len(Disc[d]) \in Nat /\ \A i \in DOMAIN Disc[d] : i <= Len(Disc[d])
  <2>1. Disc[d] \in Seq(Entries)
    BY <1>1
  <2> QED BY <2>1
<1> QED BY <1>1, <1>2 DEF FromDisc

LEMMA RootIs == Root \in BootDirs /\ BootDirs \subseteq Dirs
<1>1. Booted \in Seq(Dirs) /\ Len(Booted) > 0 /\ Booted[1] = Root
  BY VfsAssumption
<1>2. 1 \in DOMAIN Booted
  BY <1>1
<1> QED BY <1>1, <1>2 DEF BootDirs

(* The parent of a directory is the one whose entry it is in. *)
LEMMA AboveIs ==
  ASSUME NEW on, FromDisc(on), NEW d \in Dirs
  PROVE  /\ Above(on, d) = Above(Disc, d) /\ Above(Disc, d) \in Dirs
         /\ d \notin BootDirs =>
              \A x \in Dirs : \A i \in DOMAIN on[x] : on[x][i].is = d => Above(Disc, d) = x
<1>0. NoDir \notin Dirs
  BY VfsAssumption
<1>1. CASE d \in BootDirs
  BY <1>1, RootIs DEF Above
<1>2. CASE d \notin BootDirs
  <2>1. PICK c \in Dirs : \E i \in DOMAIN Disc[c] : Disc[c][i].is = d
    BY <1>2, VfsAssumption
  <2>i. PICK i \in DOMAIN Disc[c] : Disc[c][i].is = d
    BY <2>1
  <2>2. \A x \in Dirs : (\E j \in DOMAIN Disc[x] : Disc[x][j].is = d) <=> x = c
    BY <1>0, <2>i, DiscIs, OneEntry
  <2>3. i \in DOMAIN on[c] /\ on[c][i] = Disc[c][i]
    <3>1. Disc[c] \in Seq(Entries) /\ on[c] \in Seq(Entries) /\ Len(Disc[c]) <= Len(on[c])
      BY VfsAssumption DEF FromDisc
    <3>2. i \in DOMAIN on[c] /\ i <= Len(Disc[c])
      BY <3>1
    <3> QED BY <3>2 DEF FromDisc
  <2>4. \A x \in Dirs : (\E j \in DOMAIN on[x] : on[x][j].is = d) <=> x = c
    BY <1>0, <2>i, <2>3, OneEntry
  <2>5. Above(Disc, d) = c
    BY <1>2, <2>2 DEF Above
  <2>6. Above(on, d) = c
    BY <1>2, <2>4 DEF Above
  <2> QED BY <2>4, <2>5, <2>6
<1> QED BY <1>1, <1>2

(* The places that one more part of a path leads to *)
Turn(on, S, n) == UNION {Under(on, x.dir, n) : x \in {y \in S : y.file = NoDir}}

(* Trail is the function that its definition asks for. *)
LEMMA TrailIs ==
  ASSUME NEW on, NEW p, Len(p) \in Nat
  PROVE  /\ Trail(on, p)[0] = {Place(Root, NoDir)}
         /\ \A i \in 1 .. Len(p) : Trail(on, p)[i] = Turn(on, Trail(on, p)[i - 1], p[i])
<1> DEFINE body(f, n) == [i \in 0 .. n |-> IF i = 0 THEN {Place(Root, NoDir)}
                            ELSE UNION {Under(on, x.dir, p[i]) : x \in {y \in f[i - 1] : y.file = NoDir}}]
           none == {n \in Nat : ~ \E f : f = body(f, n)}
<1>1. ASSUME NEW m \in Nat, m \in none, \A n \in none : m <= n PROVE FALSE
  <2>1. CASE m = 0
    <3>1. PICK f : f = [i \in 0 .. 0 |-> {Place(Root, NoDir)}]
      OBVIOUS
    <3>2. f = body(f, 0)
      BY <3>1
    <3> QED BY <1>1, <2>1, <3>2
  <2>2. CASE m # 0
    <3>1. m - 1 \in Nat /\ m - 1 \notin none
      <4> HIDE DEF none
      <4> QED BY <1>1, <2>2
    <3>2. PICK g : g = body(g, m - 1)
      BY <3>1
    <3>3. PICK f : f = [i \in 0 .. m |-> IF i = m THEN Turn(on, g[m - 1], p[m]) ELSE g[i]]
      OBVIOUS
    <3>4. \A i \in 0 .. m - 1 : f[i] = g[i]
      BY <3>3
    <3>5. ASSUME NEW i \in 0 .. m PROVE f[i] = body(f, m)[i]
      <4>1. CASE i = m
        <5>1. f[m - 1] = g[m - 1]
          BY <3>1, <3>4
        <5> QED BY <2>2, <3>3, <4>1, <5>1 DEF Turn
      <4>2. CASE i # m /\ i # 0
        <5>1. i \in 0 .. m - 1 /\ i - 1 \in 0 .. m - 1
          BY <4>2
        <5>2. f[i] = g[i] /\ f[i - 1] = g[i - 1]
          BY <3>4, <5>1
        <5>3. g[i] = body(g, m - 1)[i]
          BY <3>2
        <5> QED BY <4>2, <5>1, <5>2, <5>3
      <4>3. CASE i = 0 /\ i # m
        <5>1. 0 \in 0 .. m - 1
          BY <2>2
        <5>2. g[0] = body(g, m - 1)[0]
          BY <3>2
        <5> QED BY <3>4, <4>3, <5>1, <5>2
      <4> QED BY <2>2, <4>1, <4>2, <4>3
    <3>6. f = body(f, m)
      <4>1. f = [i \in 0 .. m |-> f[i]]
        BY <3>3
      <4> QED BY <3>5, <4>1
    <3> QED BY <1>1, <3>6
  <2> QED BY <2>1, <2>2
<1>2. none = {}
  <2> HIDE DEF none
  <2>1. none \in SUBSET Nat
    BY DEF none
  <2> QED BY <1>1, <2>1, LeastNat
<1>3. \E f : f = body(f, Len(p))
  BY <1>2
<1>4. Trail(on, p) = CHOOSE f : f = body(f, Len(p))
  BY DEF Trail
<1>5. Trail(on, p) = body(Trail(on, p), Len(p))
  <2> HIDE DEF body
  <2> QED BY <1>3, <1>4
<1>6. ASSUME NEW i \in 1 .. Len(p) PROVE Trail(on, p)[i] = Turn(on, Trail(on, p)[i - 1], p[i])
  <2>1. i \in 0 .. Len(p) /\ i # 0
    OBVIOUS
  <2> QED BY <1>5, <2>1 DEF Turn
<1>7. 0 \in 0 .. Len(p)
  OBVIOUS
<1> QED BY <1>5, <1>6, <1>7

(* Induction along a path, the places where it has come so far as a set *)
LEMMA Along ==
  ASSUME NEW G, NEW n \in Nat, 0 \in G, \A i \in 1 .. n : i - 1 \in G => i \in G
  PROVE  \A i \in 0 .. n : i \in G
<1> DEFINE T == {i \in 0 .. n : i \notin G}
<1>1. ASSUME NEW m \in T, \A i \in T : m <= i PROVE FALSE
  <2>1. m \in 1 .. n /\ m - 1 \in 0 .. n
    BY <1>1
  <2>2. m - 1 \notin T
    BY <1>1, <2>1
  <2>3. m - 1 \in G
    BY <2>1, <2>2
  <2> QED BY <1>1, <2>1, <2>3
<1>2. T = {}
  <2>1. T \in SUBSET Nat
    OBVIOUS
  <2> HIDE DEF T
  <2> QED BY <1>1, <2>1, LeastNat
<1> QED BY <1>2

LEMMA PlaceIs ==
  ASSUME NEW d, NEW n
  PROVE  Place(d, n).dir = d /\ Place(d, n).file = n
BY DEF Place

(* No two entries of a directory have the same name. *)
Distinct(on) == \A d \in Dirs : \A i, j \in DOMAIN on[d] : on[d][i].name = on[d][j].name => i = j

LEMMA UnderIs ==
  ASSUME NEW on, FromDisc(on), NEW d \in Dirs, NEW n
  PROVE  /\ \A x \in Under(on, d, n) : x.dir \in Dirs
         /\ n \notin {Dot, DotDot} =>
              \A x : x \in Under(on, d, n) <=> \E i \in DOMAIN on[d] : on[d][i].name = n /\ x = Leaf(d, on[d][i])
         /\ n = Dot => Under(on, d, n) = {Place(d, NoDir)}
         /\ n = DotDot => Under(on, d, n) = {Place(Above(Disc, d), NoDir)}
<1>1. Dot # DotDot
  BY VfsAssumption
<1>2. Above(on, d) = Above(Disc, d) /\ Above(Disc, d) \in Dirs
  BY AboveIs
<1>3. \A i \in DOMAIN on[d] : Leaf(d, on[d][i]).dir \in Dirs
  BY EntryIs, PlaceIs DEF Leaf
<1>4. n \notin {Dot, DotDot} =>
        \A x : x \in Under(on, d, n) <=> \E i \in DOMAIN on[d] : on[d][i].name = n /\ x = Leaf(d, on[d][i])
  BY DEF Under
<1>5. n = Dot => Under(on, d, n) = {Place(d, NoDir)}
  BY DEF Under
<1>6. n = DotDot => Under(on, d, n) = {Place(Above(Disc, d), NoDir)}
  BY <1>1, <1>2 DEF Under
<1>7. ASSUME NEW x \in Under(on, d, n) PROVE x.dir \in Dirs
  BY <1>2, <1>3, <1>4, <1>5, <1>6, <1>7, PlaceIs
<1> QED BY <1>4, <1>5, <1>6, <1>7

LEMMA UnderGrows ==
  ASSUME NEW on, FromDisc(on), NEW more, FromDisc(more), Extends(on, more), NEW d \in Dirs, NEW n
  PROVE  Under(on, d, n) \subseteq Under(more, d, n)
<1>1. CASE n \in {Dot, DotDot}
  BY <1>1, UnderIs
<1>2. CASE n \notin {Dot, DotDot}
  <2>1. ASSUME NEW x \in Under(on, d, n) PROVE x \in Under(more, d, n)
    <3>1. PICK i \in DOMAIN on[d] : on[d][i].name = n /\ x = Leaf(d, on[d][i])
      BY <1>2, <2>1, UnderIs
    <3>2. i \in DOMAIN more[d] /\ more[d][i] = on[d][i]
      BY DEF Extends
    <3> QED BY <1>2, <3>1, <3>2, UnderIs
  <2> QED BY <2>1
<1> QED BY <1>1, <1>2

LEMMA UnderOne ==
  ASSUME NEW on, FromDisc(on), Distinct(on), NEW d \in Dirs, NEW n,
         NEW x \in Under(on, d, n), NEW y \in Under(on, d, n)
  PROVE  x = y
<1>1. CASE n \in {Dot, DotDot}
  BY <1>1, UnderIs
<1>2. CASE n \notin {Dot, DotDot}
  <2>1. PICK i \in DOMAIN on[d] : on[d][i].name = n /\ x = Leaf(d, on[d][i])
    BY <1>2, UnderIs
  <2>2. PICK j \in DOMAIN on[d] : on[d][j].name = n /\ y = Leaf(d, on[d][j])
    BY <1>2, UnderIs
  <2> QED BY <2>1, <2>2 DEF Distinct
<1> QED BY <1>1, <1>2

LEMMA TurnIs ==
  ASSUME NEW on, NEW S, NEW n, NEW x
  PROVE  x \in Turn(on, S, n) <=> \E y \in S : y.file = NoDir /\ x \in Under(on, y.dir, n)
BY DEF Turn

(* A path leads to directories that there are. *)
LEMMA TrailIn ==
  ASSUME NEW on, FromDisc(on), NEW p, Len(p) \in Nat
  PROVE  \A i \in 0 .. Len(p) : \A x \in Trail(on, p)[i] : x.dir \in Dirs
<1> DEFINE G == {i \in 0 .. Len(p) : \A x \in Trail(on, p)[i] : x.dir \in Dirs}
<1>1. 0 \in G
  <2>1. Trail(on, p)[0] = {Place(Root, NoDir)} /\ Root \in Dirs
    BY TrailIs, RootIs
  <2> QED BY <2>1, PlaceIs
<1>2. ASSUME NEW i \in 1 .. Len(p), i - 1 \in G PROVE i \in G
  <2>1. ASSUME NEW x \in Trail(on, p)[i] PROVE x.dir \in Dirs
    <3>1. x \in Turn(on, Trail(on, p)[i - 1], p[i])
      BY <2>1, TrailIs
    <3>2. PICK y \in Trail(on, p)[i - 1] : x \in Under(on, y.dir, p[i])
      BY <3>1, TurnIs
    <3>3. y.dir \in Dirs
      BY <1>2
    <3> QED BY <3>2, <3>3, UnderIs
  <2> QED BY <2>1
<1>3. \A i \in 0 .. Len(p) : i \in G
  <2> HIDE DEF G
  <2> QED BY <1>1, <1>2, Along
<1> QED BY <1>3

(* It leads at least where it led when there were fewer files. *)
LEMMA TrailGrows ==
  ASSUME NEW on, FromDisc(on), NEW more, FromDisc(more), Extends(on, more), NEW p, Len(p) \in Nat
  PROVE  \A i \in 0 .. Len(p) : Trail(on, p)[i] \subseteq Trail(more, p)[i]
<1> DEFINE G == {i \in 0 .. Len(p) : Trail(on, p)[i] \subseteq Trail(more, p)[i]}
<1>1. 0 \in G
  <2>1. Trail(on, p)[0] = Trail(more, p)[0]
    BY TrailIs
  <2> QED BY <2>1
<1>2. ASSUME NEW i \in 1 .. Len(p), i - 1 \in G PROVE i \in G
  <2>1. ASSUME NEW x \in Trail(on, p)[i] PROVE x \in Trail(more, p)[i]
    <3>1. x \in Turn(on, Trail(on, p)[i - 1], p[i])
      BY <2>1, TrailIs
    <3>2. PICK y \in Trail(on, p)[i - 1] : y.file = NoDir /\ x \in Under(on, y.dir, p[i])
      BY <3>1, TurnIs
    <3>i. i - 1 \in 0 .. Len(p)
      OBVIOUS
    <3>3. y.dir \in Dirs
      BY <3>2, <3>i, TrailIn
    <3>4. x \in Under(more, y.dir, p[i]) /\ y \in Trail(more, p)[i - 1]
      BY <1>2, <3>2, <3>3, UnderGrows
    <3>5. x \in Turn(more, Trail(more, p)[i - 1], p[i])
      BY <3>2, <3>4, TurnIs
    <3> QED BY <3>5, TrailIs
  <2> QED BY <2>1
<1>3. \A i \in 0 .. Len(p) : i \in G
  <2> HIDE DEF G
  <2> QED BY <1>1, <1>2, Along
<1> QED BY <1>3

(* To one place at most, if names are distinct *)
LEMMA TrailOne ==
  ASSUME NEW on, FromDisc(on), Distinct(on), NEW p, Len(p) \in Nat
  PROVE  \A i \in 0 .. Len(p) : \A x, y \in Trail(on, p)[i] : x = y
<1> DEFINE G == {i \in 0 .. Len(p) : \A x, y \in Trail(on, p)[i] : x = y}
<1>1. 0 \in G
  <2>1. Trail(on, p)[0] = {Place(Root, NoDir)}
    BY TrailIs
  <2> QED BY <2>1
<1>2. ASSUME NEW i \in 1 .. Len(p), i - 1 \in G PROVE i \in G
  <2>1. ASSUME NEW x \in Trail(on, p)[i], NEW y \in Trail(on, p)[i] PROVE x = y
    <3>1. x \in Turn(on, Trail(on, p)[i - 1], p[i]) /\ y \in Turn(on, Trail(on, p)[i - 1], p[i])
      BY <2>1, TrailIs
    <3>2. PICK v \in Trail(on, p)[i - 1] : v.file = NoDir /\ x \in Under(on, v.dir, p[i])
      BY <3>1, TurnIs
    <3>3. PICK w \in Trail(on, p)[i - 1] : w.file = NoDir /\ y \in Under(on, w.dir, p[i])
      BY <3>1, TurnIs
    <3>4. v = w /\ v.dir \in Dirs
      BY <1>2, <3>2, <3>3, TrailIn
    <3> QED BY <3>2, <3>3, <3>4, UnderOne
  <2> QED BY <2>1
<1>3. \A i \in 0 .. Len(p) : i \in G
  <2> HIDE DEF G
  <2> QED BY <1>1, <1>2, Along
<1> QED BY <1>3

(* And from what is no directory nowhere *)
LEMMA TrailEnds ==
  ASSUME NEW on, NEW p, Len(p) \in Nat, NEW i \in 0 .. Len(p), \A x \in Trail(on, p)[i] : x.file # NoDir
  PROVE  \A j \in i + 1 .. Len(p) : Trail(on, p)[j] = {}
<1> DEFINE G == {j \in 0 .. Len(p) : j <= i \/ Trail(on, p)[j] = {}}
<1>1. 0 \in G
  OBVIOUS
<1>2. ASSUME NEW j \in 1 .. Len(p), j - 1 \in G PROVE j \in G
  <2>1. CASE j <= i
    BY <2>1
  <2>2. CASE j > i
    <3>1. \A x \in Trail(on, p)[j - 1] : x.file # NoDir
      <4>1. CASE j - 1 = i
        BY <4>1
      <4>2. CASE j - 1 # i
        <5>1. ~(j - 1 <= i)
          BY <2>2, <4>2
        <5> QED BY <1>2, <5>1
      <4> QED BY <4>1, <4>2
    <3>2. Trail(on, p)[j] = Turn(on, Trail(on, p)[j - 1], p[j])
      BY TrailIs
    <3>3. \A x : x \notin Trail(on, p)[j]
      BY <3>1, <3>2, TurnIs
    <3> QED BY <3>3
  <2> QED BY <2>1, <2>2
<1>3. \A j \in 0 .. Len(p) : j \in G
  <2> HIDE DEF G
  <2> QED BY <1>1, <1>2, Along
<1>4. ASSUME NEW j \in i + 1 .. Len(p) PROVE Trail(on, p)[j] = {}
  <2>1. j \in 0 .. Len(p) /\ ~(j <= i)
    OBVIOUS
  <2> QED BY <1>3, <2>1
<1> QED BY <1>4

(***************************************************************************)
(* What the dentries and the calls have to do with the discs               *)
(***************************************************************************)
Here(d) == Place(dents[d].dir, NoDir)

(* An element is of an entry of its directory's disc, and d_dir of the     *)
(* directory it names; those loaded at boot have a dentry.                 *)
ElemOK(d, i) ==
  LET x == dents[d].elems[i]
  IN  /\ \E j \in DOMAIN disc[dents[d].dir] :
           disc[dents[d].dir][j].name = x.name /\ disc[dents[d].dir][j].is = x.is
      /\ x.sub # 0 => x.is # NoDir /\ dents[x.sub].dir = x.is
      /\ x.is \in BootDirs => x.sub # 0

Agree ==
  /\ dents[1].dir = Root
  /\ \A d \in DOMAIN dents :
       /\ dents[dents[d].up].dir = Above(Disc, dents[d].dir)
       /\ \A i \in DOMAIN dents[d].elems : ElemOK(d, i)

(* What is left of a path, and that its other parts lead to dentry d *)
Done(o, rest) == Len(o.path) - Len(rest)

Ends(o, rest) == Len(rest) <= Len(o.path) /\ \A i \in 1 .. Len(rest) : rest[i] = o.path[Done(o, rest) + i]

OnPath(o, rest, d) == Ends(o, rest) /\ Here(d) \in Trail(disc, o.path)[Done(o, rest)]

(* That the path leads to e *)
IsAt(o, e) == Place(dents[e[1]].dir, At(e).name) \in Leads(o.path)

OnWay(c) ==
  /\ c.do \in {"walk", "copy", "link", "load"} => OnPath(c.o, c.rest, c.d)
  /\ c.do \in {"copy", "link", "load"} =>
       c.e[1] = c.d /\ At(c.e).name = Head(c.rest) /\ At(c.e).is \notin BootDirs
  /\ c.do = "load" => dents[c.into].dir = At(c.e).is
  /\ c.do = "load" /\ c.got = "bytes" => c.from = 0
  /\ c.do = "copy" => c.seen = 0
  /\ c.do = "listed" => Here(c.d) \in Leads(c.o.path)
  /\ c.do = "create" => OnPath(c.o, <<c.name>>, c.d)
  /\ c.do \in {"opened", "count"} => IsAt(c.o, c.e)

Track ==
  /\ \A t \in Threads : pc[t] # Idle => OnWay(pc[t])
  /\ \A f \in Slots : files[f] # Free => IsAt(files[f].o, files[f].e)

(* Who is about to fill a dentry, and that no one is any more *)
Filler(t, d) ==
  pc[t] # Idle /\ ((pc[t].do = "link" /\ At(pc[t].e).sub = d) \/ (pc[t].do = "load" /\ pc[t].into = d))

Whole(d) == dents[d].set /\ \A t \in Threads : ~Filler(t, d)

(* The elements of a dentry are the first entries of its directory, all of *)
(* them when it is whole; one without d_dir is of a directory without      *)
(* dentry.                                                                 *)
AsOnDisc(d) ==
  /\ Len(dents[d].elems) <= Len(disc[dents[d].dir])
  /\ \A i \in DOMAIN dents[d].elems :
       /\ dents[d].elems[i].name = disc[dents[d].dir][i].name
       /\ dents[d].elems[i].is = disc[dents[d].dir][i].is
       /\ dents[d].elems[i].is # NoDir /\ dents[d].elems[i].sub = 0 =>
            \A c \in DOMAIN dents : dents[c].dir # dents[d].elems[i].is
  /\ Whole(d) => Len(dents[d].elems) = Len(disc[dents[d].dir])
  /\ ~dents[d].set => Len(dents[d].elems) = 0

Reached(d) ==
  \/ dents[d].dir \in BootDirs
  \/ \E c \in DOMAIN dents : \E i \in DOMAIN dents[c].elems : dents[c].elems[i].is = dents[d].dir

(* Only one call fills a dentry, from its first entry on. *)
FillOK(c) ==
  /\ c.do = "link" => ~dents[At(c.e).sub].set
  /\ c.do = "load" =>
       dents[c.into].set /\ c.into = At(c.e).sub /\ c.k = Len(dents[c.into].elems)
  /\ c.do = "create" =>
       /\ Whole(c.d) /\ c.seen <= Len(dents[c.d].elems)
       /\ \A i \in 1 .. c.seen : dents[c.d].elems[i].name # c.name

OneFills(t, u) == \A d \in DOMAIN dents : Filler(t, d) /\ Filler(u, d) => t = u

Single ==
  /\ Distinct(disc)
  /\ \A d, c \in DOMAIN dents : dents[d].dir = dents[c].dir => d = c
  /\ \A d \in DOMAIN dents : AsOnDisc(d) /\ Reached(d)
  /\ \A t \in Threads : pc[t] # Idle => FillOK(pc[t])
  /\ \A t, u \in Threads : OneFills(t, u)

FailsRight ==
  \A t \in Threads : pc[t] # Idle /\ pc[t].do = "failed" /\ pc[t].was => crossed \/ pc[t].why = "no room"

(* Until a directory is read from past its beginning *)
LookInv == ~astray => FromDisc(disc) /\ Agree /\ Track /\ (~crossed => Single) /\ FailsRight

LEMMA EntryAdded ==
  ASSUME NEW on, FromDisc(on), NEW d \in Dirs, NEW new \in Entries, new.is = NoDir,
         NEW more, more = WithEntry(on, d, new)
  PROVE  /\ FromDisc(more) /\ Extends(on, more) /\ more[d][Len(on[d]) + 1] = new
         /\ \A c \in Dirs : Len(more[c]) = IF c = d THEN Len(on[c]) + 1 ELSE Len(on[c])
<1>1. on \in [Dirs -> Seq(Entries)] /\ \A c \in Dirs : on[c] \in Seq(Entries) /\ Disc[c] \in Seq(Entries)
  BY VfsAssumption DEF FromDisc
<1>2. /\ Append(on[d], new) \in Seq(Entries) /\ Len(Append(on[d], new)) = Len(on[d]) + 1
      /\ DOMAIN Append(on[d], new) = 1 .. (Len(on[d]) + 1) /\ Append(on[d], new)[Len(on[d]) + 1] = new
      /\ \A i \in 1 .. Len(on[d]) : Append(on[d], new)[i] = on[d][i]
  BY <1>1, AppendIs
<1>3. more \in [Dirs -> Seq(Entries)] /\ more[d] = Append(on[d], new) /\ \A c \in Dirs \ {d} : more[c] = on[c]
  BY <1>1, <1>2 DEF WithEntry
<1>4. \A c \in Dirs : Len(more[c]) = IF c = d THEN Len(on[c]) + 1 ELSE Len(on[c])
  BY <1>2, <1>3
<1>5. PICK n \in Nat : n = Len(on[d])
  BY <1>1
<1>6. DOMAIN on[d] = 1 .. n /\ DOMAIN more[d] = 1 .. n + 1 /\ \A i \in 1 .. n : more[d][i] = on[d][i]
  BY <1>1, <1>2, <1>3, <1>5
<1>7. Extends(on, more)
  <2>1. ASSUME NEW c \in Dirs, NEW i \in DOMAIN on[c] PROVE i \in DOMAIN more[c] /\ more[c][i] = on[c][i]
    <3>1. CASE c # d
      BY <1>3, <3>1
    <3>2. CASE c = d
      BY <1>6, <3>2
    <3> QED BY <3>1, <3>2
  <2> QED BY <2>1 DEF Extends
<1>8. ASSUME NEW c \in Dirs
      PROVE  /\ Len(Disc[c]) <= Len(more[c])
             /\ \A i \in DOMAIN more[c] : IF i <= Len(Disc[c]) THEN more[c][i] = Disc[c][i] ELSE more[c][i].is = NoDir
  <2>1. CASE c # d
    BY <1>3, <2>1 DEF FromDisc
  <2>2. CASE c = d
    <3>1. PICK m \in Nat : m = Len(Disc[d])
      BY <1>1
    <3>2. m <= n /\ \A i \in 1 .. n : IF i <= m THEN on[d][i] = Disc[d][i] ELSE on[d][i].is = NoDir
      BY <1>5, <1>6, <3>1 DEF FromDisc
    <3>3. Len(more[d]) = n + 1 /\ more[d][n + 1] = new
      BY <1>2, <1>3, <1>5
    <3>4. ASSUME NEW i \in 1 .. n + 1 PROVE IF i <= m THEN more[d][i] = Disc[d][i] ELSE more[d][i].is = NoDir
      <4>1. CASE i \in 1 .. n
        BY <1>6, <3>2, <4>1
      <4>2. CASE i = n + 1
        BY <3>2, <3>3, <4>2
      <4> QED BY <4>1, <4>2
    <3> QED BY <1>6, <2>2, <3>1, <3>2, <3>3, <3>4
  <2> QED BY <2>1, <2>2
<1> QED BY <1>2, <1>3, <1>4, <1>7, <1>8 DEF FromDisc

LEMMA PathIs ==
  ASSUME NEW o \in Opens
  PROVE  /\ o.path \in Seq(Parts) /\ Len(o.path) \in Nat /\ o.list \in BOOLEAN /\ o.creat \in BOOLEAN
         /\ Leads(o.path) = Trail(disc, o.path)[Len(o.path)]
<1>1. o \in [path : Seq(Parts), creat : BOOLEAN, wr : BOOLEAN, list : BOOLEAN]
  BY VfsAssumption
<1>2. o.path \in Seq(Parts)
  BY <1>1
<1> QED BY <1>1, <1>2 DEF Leads

LEMMA TailIs ==
  ASSUME NEW s \in Seq(Parts), s # <<>>
  PROVE  /\ Head(s) = s[1] /\ Head(s) \in Parts /\ Tail(s) \in Seq(Parts) /\ Len(s) \in Nat \ {0} /\ Len(Tail(s)) = Len(s) - 1
         /\ \A i \in 1 .. Len(s) - 1 : Tail(s)[i] = s[i + 1]
         /\ (Tail(s) = <<>> <=> Len(s) = 1)
<1>1. Len(s) \in Nat \ {0}
  BY EmptySeq
<1>2. 1 \in DOMAIN s
  BY <1>1
<1>3. Head(s) = s[1] /\ Head(s) \in Parts
  BY HeadTailProperties
<1>4. /\ Tail(s) \in Seq(Parts) /\ Len(Tail(s)) = Len(s) - 1
      /\ \A i \in 1 .. Len(s) - 1 : Tail(s)[i] = s[i + 1]
  BY HeadTailProperties
<1>5. Tail(s) = <<>> <=> Len(s) = 1
  <2>1. Tail(s) = <<>> <=> Len(Tail(s)) = 0
    BY <1>4, EmptySeq
  <2> QED BY <1>1, <1>4, <2>1
<1> QED BY <1>1, <1>3, <1>4, <1>5

(* One part further *)
LEMMA EndsOn ==
  ASSUME NEW o \in Opens, NEW rest \in Seq(Parts), rest # <<>>, Ends(o, rest)
  PROVE  /\ Ends(o, Tail(rest)) /\ Done(o, Tail(rest)) = Done(o, rest) + 1
         /\ Done(o, Tail(rest)) \in 1 .. Len(o.path) /\ Done(o, rest) \in 0 .. Len(o.path)
         /\ o.path[Done(o, Tail(rest))] = Head(rest)
         /\ Tail(rest) = <<>> => Done(o, Tail(rest)) = Len(o.path)
<1>1. PICK n \in Nat, m \in Nat : n = Len(o.path) /\ m = Len(rest)
  BY PathIs
<1>2. m <= n /\ \A i \in 1 .. m : rest[i] = o.path[(n - m) + i]
  BY <1>1 DEF Ends, Done
<1>3. m # 0 /\ Len(Tail(rest)) = m - 1 /\ Head(rest) = rest[1] /\ \A i \in 1 .. m - 1 : Tail(rest)[i] = rest[i + 1]
  BY <1>1, TailIs
<1>4. Done(o, rest) = n - m /\ Done(o, Tail(rest)) = n - (m - 1)
  BY <1>1, <1>3 DEF Done
<1>5. \A i \in 1 .. m - 1 : Tail(rest)[i] = o.path[(n - (m - 1)) + i]
  <2>1. ASSUME NEW i \in 1 .. m - 1 PROVE Tail(rest)[i] = o.path[(n - (m - 1)) + i]
    <3>1. i + 1 \in 1 .. m /\ (n - m) + (i + 1) = (n - (m - 1)) + i
      BY <1>3
    <3> QED BY <1>2, <1>3, <3>1
  <2> QED BY <2>1
<1>6. rest[1] = o.path[n - (m - 1)]
  <2>1. 1 \in 1 .. m /\ (n - m) + 1 = n - (m - 1)
    BY <1>3
  <2> QED BY <1>2, <2>1
<1>7. Ends(o, Tail(rest))
  BY <1>1, <1>2, <1>3, <1>4, <1>5 DEF Ends
<1>8. Tail(rest) = <<>> => m = 1
  BY <1>1, TailIs
<1>9. n - (m - 1) \in 1 .. n /\ n - m \in 0 .. n /\ n - (m - 1) = (n - m) + 1 /\ (m = 1 => n - (m - 1) = n)
  BY <1>2, <1>3
<1> QED BY <1>1, <1>3, <1>4, <1>6, <1>7, <1>8, <1>9

LEMMA FurtherIn ==
  ASSUME NEW on, FromDisc(on), NEW o \in Opens, NEW rest \in Seq(Parts), rest # <<>>, Ends(o, rest),
         NEW z, z \in Trail(on, o.path)[Done(o, rest)], z.file = NoDir, NEW x, x \in Under(on, z.dir, Head(rest))
  PROVE  /\ Ends(o, Tail(rest)) /\ x \in Trail(on, o.path)[Done(o, Tail(rest))]
         /\ Tail(rest) = <<>> => x \in Trail(on, o.path)[Len(o.path)]
<1>1. /\ Ends(o, Tail(rest)) /\ Done(o, Tail(rest)) = Done(o, rest) + 1
      /\ Done(o, Tail(rest)) \in 1 .. Len(o.path) /\ Done(o, rest) \in 0 .. Len(o.path)
      /\ o.path[Done(o, Tail(rest))] = Head(rest)
      /\ Tail(rest) = <<>> => Done(o, Tail(rest)) = Len(o.path)
  BY EndsOn
<1>2. PICK i \in 1 .. Len(o.path) : i = Done(o, Tail(rest))
  BY <1>1
<1>3. i - 1 = Done(o, rest) /\ o.path[i] = Head(rest)
  BY <1>1, <1>2
<1>4. x \in Turn(on, Trail(on, o.path)[i - 1], o.path[i])
  BY <1>3, TurnIs
<1>5. x \in Trail(on, o.path)[i]
  BY <1>4, PathIs, TrailIs
<1> QED BY <1>1, <1>2, <1>5

LEMMA FurtherOn ==
  ASSUME FromDisc(disc), NEW o \in Opens, NEW rest \in Seq(Parts), rest # <<>>, NEW d,
         OnPath(o, rest, d), NEW x, x \in Under(disc, dents[d].dir, Head(rest))
  PROVE  /\ Ends(o, Tail(rest)) /\ x \in Trail(disc, o.path)[Done(o, Tail(rest))]
         /\ Tail(rest) = <<>> => x \in Leads(o.path)
<1>1. Ends(o, rest) /\ Here(d) \in Trail(disc, o.path)[Done(o, rest)] /\ Here(d).file = NoDir /\ Here(d).dir = dents[d].dir
  BY PlaceIs DEF OnPath, Here
<1> QED BY <1>1, FurtherIn DEF Leads

(***************************************************************************)
(* What a call or a file has found stays found.                            *)
(***************************************************************************)
DiscStays == FromDisc(disc) /\ FromDisc(disc') /\ Extends(disc, disc')

LEMMA LeadsStay ==
  ASSUME DiscStays, NEW o \in Opens, NEW x, x \in Leads(o.path)
  PROVE  x \in Leads(o.path)'
<1>1. PICK n \in Nat : n = Len(o.path)
  BY PathIs
<1>2. x \in Trail(disc, o.path)[n]
  BY <1>1 DEF Leads
<1>3. x \in Trail(disc', o.path)[n]
  BY <1>1, <1>2, TrailGrows DEF DiscStays
<1> QED BY <1>1, <1>3 DEF Leads

LEMMA PathStays ==
  ASSUME DiscStays, Grows, NEW o \in Opens, NEW rest, Len(rest) \in Nat, NEW d \in DOMAIN dents, OnPath(o, rest, d)
  PROVE  OnPath(o, rest, d)'
<1>1. PICK n \in Nat, m \in Nat : n = Len(o.path) /\ m = Len(rest)
  BY PathIs
<1>2. Done(o, rest) = n - m /\ n - m \in 0 .. n
  BY <1>1 DEF Done, OnPath, Ends
<1>3. Here(d) \in Trail(disc, o.path)[n - m]
  BY <1>2 DEF OnPath
<1>4. Here(d)' = Here(d)
  BY DEF Here, Grows
<1>5. Here(d) \in Trail(disc', o.path)[n - m]
  BY <1>1, <1>2, <1>3, TrailGrows DEF DiscStays
<1> QED BY <1>2, <1>4, <1>5 DEF OnPath, Ends, Done

LEMMA PlaceStays ==
  ASSUME DiscStays, Grows, NEW o \in Opens, NEW e, There(e), IsAt(o, e)
  PROVE  IsAt(o, e)'
<1>1. Place(dents'[e[1]].dir, At(e)'.name) = Place(dents[e[1]].dir, At(e).name)
  BY ThereStays DEF There, Grows
<1> QED BY <1>1, LeadsStay DEF IsAt

LEMMA WayStays ==
  ASSUME DiscStays, Grows, NEW c \in Doings, DoingOK(c), OnWay(c)
  PROVE  OnWay(c)'
<1>1. c.do \in {"walk", "copy", "link", "load"} => OnPath(c.o, c.rest, c.d)'
  <2>1. ASSUME c.do \in {"walk", "copy", "link", "load"} PROVE OnPath(c.o, c.rest, c.d)'
    <3>1. c.o \in Opens /\ c.rest \in Seq(Parts) /\ c.d \in DOMAIN dents /\ OnPath(c.o, c.rest, c.d)
      BY <2>1, DoingIs DEF DoingOK, OnWay
    <3> QED BY <3>1, PathStays
  <2> QED BY <2>1
<1>2. c.do = "create" => OnPath(c.o, <<c.name>>, c.d)'
  <2>1. ASSUME c.do = "create" PROVE OnPath(c.o, <<c.name>>, c.d)'
    <3>1. c.o \in Opens /\ c.d \in DOMAIN dents /\ OnPath(c.o, <<c.name>>, c.d)
      BY <2>1, DoingIs DEF DoingOK, OnWay
    <3>2. Len(<<c.name>>) = 1
      OBVIOUS
    <3> QED BY <3>1, <3>2, PathStays
  <2> QED BY <2>1
<1>3. c.do = "listed" => Here(c.d)' \in Leads(c.o.path)'
  <2>1. ASSUME c.do = "listed" PROVE Here(c.d)' \in Leads(c.o.path)'
    <3>1. c.o \in Opens /\ c.d \in DOMAIN dents /\ Here(c.d) \in Leads(c.o.path)
      BY <2>1, DoingIs DEF DoingOK, OnWay
    <3>2. Here(c.d)' = Here(c.d)
      BY <3>1 DEF Here, Grows
    <3> QED BY <3>1, <3>2, LeadsStay
  <2> QED BY <2>1
<1>4. c.do \in {"opened", "count"} => IsAt(c.o, c.e)'
  <2>1. ASSUME c.do \in {"opened", "count"} PROVE IsAt(c.o, c.e)'
    <3>1. c.o \in Opens /\ There(c.e) /\ IsAt(c.o, c.e)
      BY <2>1, DoingIs DEF DoingOK, OnWay
    <3> QED BY <3>1, PlaceStays
  <2> QED BY <2>1
<1>5. c.do \in {"copy", "link", "load"} =>
        c.e[1] = c.d /\ At(c.e)'.name = Head(c.rest) /\ At(c.e)'.is \notin BootDirs
  BY ThereStays DEF DoingOK, OnWay
<1>6. c.do = "load" => dents'[c.into].dir = At(c.e)'.is
  BY ThereStays DEF DoingOK, OnWay, Grows
<1> QED BY <1>1, <1>2, <1>3, <1>4, <1>5, <1>6 DEF OnWay

LEMMA TrackMoves ==
  ASSUME InPlace, DiscStays, Grows, Track, NEW t \in Threads, \A u \in Threads \ {t} : pc'[u] = pc[u],
         NEW c, pc'[t] = c, c # Idle => OnWay(c)',
         \A f \in Slots : files'[f] # Free =>
           \/ files[f] # Free /\ files'[f].o = files[f].o /\ files'[f].e = files[f].e
           \/ \A o, e : o = files'[f].o /\ e = files'[f].e => IsAt(o, e)'
  PROVE  Track'
<1>1. ASSUME NEW u \in Threads, pc'[u] # Idle PROVE OnWay(pc[u])'
  <2>1. CASE u = t
    BY <1>1, <2>1
  <2>2. CASE u # t
    <3>1. PICK x : x = pc[u]
      OBVIOUS
    <3>2. x \in Doings /\ DoingOK(x) /\ OnWay(x)
      BY <1>1, <2>2, <3>1 DEF InPlace, PcOK, Track
    <3>3. OnWay(x)'
      BY <3>2, WayStays
    <3> QED BY <2>2, <3>1, <3>3
  <2> QED BY <2>1, <2>2
<1>2. ASSUME NEW f \in Slots, files'[f] # Free PROVE IsAt(files[f].o, files[f].e)'
  <2>1. PICK o, e : o = files'[f].o /\ e = files'[f].e
    OBVIOUS
  <2>2. IsAt(o, e)'
    <3>1. CASE files[f] # Free /\ files'[f].o = files[f].o /\ files'[f].e = files[f].e
      <4>1. o \in Opens /\ There(e) /\ IsAt(o, e)
        BY <2>1, <3>1, FileIs DEF InPlace, FilesOK, FileAt, Track
      <4> QED BY <4>1, PlaceStays
    <3> QED BY <1>2, <2>1, <3>1
  <2> QED BY <2>1, <2>2
<1> QED BY <1>1, <1>2 DEF Track

(***************************************************************************)
(* The dentries stay in agreement with the discs.                          *)
(***************************************************************************)
LEMMA ElemStays ==
  ASSUME DentsOK, DiscStays, Grows, NEW d \in DOMAIN dents, NEW i \in DOMAIN dents[d].elems, ElemOK(d, i),
         dents'[d].elems[i].sub = dents[d].elems[i].sub
  PROVE  ElemOK(d, i)'
<1>1. /\ dents'[d].dir = dents[d].dir /\ dents'[d].elems[i].name = dents[d].elems[i].name
      /\ dents'[d].elems[i].is = dents[d].elems[i].is
  BY DEF Grows
<1>2. PICK j \in DOMAIN disc[dents[d].dir] :
        disc[dents[d].dir][j].name = dents[d].elems[i].name /\ disc[dents[d].dir][j].is = dents[d].elems[i].is
  BY DEF ElemOK
<1>3. j \in DOMAIN disc'[dents[d].dir] /\ disc'[dents[d].dir][j] = disc[dents[d].dir][j]
  BY DentIs DEF DiscStays, Extends
<1>4. dents[d].elems[i].sub # 0 =>
        /\ dents[d].elems[i].is # NoDir
        /\ dents'[dents[d].elems[i].sub].dir = dents[d].elems[i].is
  BY DentIs DEF ElemOK, Grows
<1>5. dents[d].elems[i].is \in BootDirs => dents[d].elems[i].sub # 0
  BY DEF ElemOK
<1> QED BY <1>1, <1>2, <1>3, <1>4, <1>5 DEF ElemOK

LEMMA OldAgree ==
  ASSUME DentsOK, Agree, Grows
  PROVE  /\ dents'[1].dir = Root
         /\ \A d \in DOMAIN dents : dents'[dents'[d].up].dir = Above(Disc, dents'[d].dir)
<1>1. 1 \in DOMAIN dents
  <2>1. dents \in Seq(Dentries) /\ dents # <<>>
    BY DEF DentsOK
  <2>2. Len(dents) \in Nat \ {0}
    BY <2>1, EmptySeq
  <2> QED BY <2>1, <2>2
<1>2. dents'[1].dir = Root
  BY <1>1 DEF Agree, Grows
<1>3. ASSUME NEW d \in DOMAIN dents
      PROVE  dents'[dents'[d].up].dir = Above(Disc, dents'[d].dir)
  <2>1. dents[dents[d].up].dir = Above(Disc, dents[d].dir)
    BY DEF Agree
  <2>2. dents[d].up \in DOMAIN dents
    BY DentIs
  <2>3. dents'[d].dir = dents[d].dir /\ dents'[d].up = dents[d].up
    BY DEF Grows
  <2>4. dents'[dents[d].up].dir = dents[dents[d].up].dir
    BY <2>2 DEF Grows
  <2> QED BY <2>1, <2>3, <2>4
<1> QED BY <1>2, <1>3

LEMMA AgreeKept ==
  ASSUME DentsOK, Agree, DiscStays, Grows, DOMAIN dents' = DOMAIN dents,
         \A d \in DOMAIN dents :
           /\ DOMAIN dents'[d].elems = DOMAIN dents[d].elems
           /\ \A i \in DOMAIN dents[d].elems : dents'[d].elems[i].sub = dents[d].elems[i].sub
  PROVE  Agree'
BY OldAgree, ElemStays DEF Agree

LEMMA AgreeElem ==
  ASSUME DentsOK, Agree, DiscStays, Grows, NEW d \in DOMAIN dents, NEW y \in Elements, y.sub = 0,
         dents' = WithElem(dents, d, y), y.is \notin BootDirs,
         \E j \in DOMAIN disc'[dents[d].dir] :
           disc'[dents[d].dir][j].name = y.name /\ disc'[dents[d].dir][j].is = y.is
  PROVE  Agree'
<1>1. /\ DOMAIN dents' = DOMAIN dents
      /\ \A c \in DOMAIN dents :
           /\ dents'[c].dir = dents[c].dir
           /\ Len(dents'[c].elems) = (IF c = d THEN Len(dents[c].elems) + 1 ELSE Len(dents[c].elems))
           /\ \A i \in DOMAIN dents[c].elems : dents'[c].elems[i] = dents[c].elems[i]
      /\ dents'[d].elems[Len(dents[d].elems) + 1] = y
      /\ DentsOK'
  BY ElemAdded
<1>2. ASSUME NEW c \in DOMAIN dents, NEW i \in DOMAIN dents'[c].elems PROVE ElemOK(c, i)'
  <2>1. CASE i \in DOMAIN dents[c].elems
    BY <1>1, <2>1, ElemStays DEF Agree
  <2>2. CASE i \notin DOMAIN dents[c].elems
    <3>1. PICK n \in Nat : n = Len(dents[c].elems)
      BY DentIs
    <3>2. DOMAIN dents[c].elems = 1 .. n /\ DOMAIN dents'[c].elems = 1 .. Len(dents'[c].elems)
      <4>1. dents'[c] \in Dentries
        BY <1>1 DEF DentsOK
      <4>2. dents'[c].elems \in Seq(Elements)
        BY <4>1 DEF Dentries
      <4> QED BY <3>1, <4>2, DentIs
    <3>3. c = d /\ i = n + 1
      BY <1>1, <2>2, <3>1, <3>2
    <3>4. dents'[c].elems[i] = y
      BY <1>1, <3>1, <3>3
    <3> QED BY <1>1, <3>3, <3>4 DEF ElemOK
  <2> QED BY <2>1, <2>2
<1> QED BY <1>1, <1>2, OldAgree DEF Agree

LEMMA AgreeDent ==
  ASSUME DentsOK, Agree, DiscStays, UNCHANGED disc, Grows, NEW d \in DOMAIN dents, NEW k \in DOMAIN dents[d].elems,
         dents[d].elems[k].is \in Dirs \ BootDirs,
         dents' = WithDent(dents, d, k, dents[d].elems[k].is)
  PROVE  Agree'
<1> DEFINE dir == dents[d].elems[k].is
           new == Len(dents) + 1
<1>0. dir \in Dirs /\ dents' = WithDent(dents, d, k, dir)
  OBVIOUS
<1>1. /\ Len(dents') = new /\ dents'[new] = Copied(d, dir) /\ DentsOK'
      /\ \A c \in DOMAIN dents :
           /\ c \in DOMAIN dents' /\ dents'[c].dir = dents[c].dir
           /\ DOMAIN dents'[c].elems = DOMAIN dents[c].elems
           /\ \A i \in DOMAIN dents[c].elems :
                /\ dents'[c].elems[i].name = dents[c].elems[i].name
                /\ dents'[c].elems[i].is = dents[c].elems[i].is
                /\ dents'[c].elems[i].sub = IF c = d /\ i = k THEN new ELSE dents[c].elems[i].sub
  <2> HIDE DEF dir
  <2> QED BY <1>0, DentAdded
<1>2. dents \in Seq(Dentries) /\ dents' \in Seq(Dentries)
  BY <1>1 DEF DentsOK
<1>3. DOMAIN dents' = DOMAIN dents \cup {new} /\ new \notin DOMAIN dents /\ new # 0
  <2>1. PICK n \in Nat : n = Len(dents)
    BY <1>2
  <2>2. DOMAIN dents = 1 .. n /\ DOMAIN dents' = 1 .. n + 1 /\ new = n + 1
    BY <1>1, <1>2, <2>1
  <2> HIDE DEF new
  <2> QED BY <2>2
<1>4. dents'[new].dir = dir /\ dents'[new].up = d /\ dents'[new].elems = <<>>
  BY <1>1 DEF Copied
<1>5. dir \in Dirs /\ dir \notin BootDirs /\ dir # NoDir /\ dents[d].dir \in Dirs
  BY VfsAssumption, DentIs
<1> HIDE DEF new
<1>6. ElemOK(d, k)'
  <2>1. /\ dents'[d].dir = dents[d].dir /\ dents'[d].elems[k].name = dents[d].elems[k].name
        /\ dents'[d].elems[k].is = dir /\ dents'[d].elems[k].sub = new
    BY <1>1
  <2>2. \E j \in DOMAIN disc[dents[d].dir] :
          disc[dents[d].dir][j].name = dents[d].elems[k].name /\ disc[dents[d].dir][j].is = dir
    BY DEF Agree, ElemOK
  <2> HIDE DEF dir
  <2> QED BY <1>3, <1>4, <1>5, <2>1, <2>2 DEF ElemOK
<1>7. ASSUME NEW c \in DOMAIN dents, NEW i \in DOMAIN dents[c].elems PROVE ElemOK(c, i)'
  <2>1. CASE c = d /\ i = k
    BY <1>6, <2>1
  <2>2. CASE ~(c = d /\ i = k)
    BY <1>1, <2>2, ElemStays DEF Agree
  <2> QED BY <2>1, <2>2
<1>8. dents'[d].dir = Above(Disc, dir)
  <2>1. PICK j \in DOMAIN disc[dents[d].dir] : disc[dents[d].dir][j].is = dir
    BY DEF Agree, ElemOK
  <2>2. Above(Disc, dir) = dents[d].dir
    BY <1>5, <2>1, AboveIs DEF DiscStays
  <2> QED BY <1>1, <2>2
<1>9. ASSUME NEW c \in DOMAIN dents' PROVE dents'[dents'[c].up].dir = Above(Disc, dents'[c].dir)
  <2>1. CASE c = new
    BY <1>4, <1>8, <2>1
  <2>2. CASE c # new
    BY <1>3, <2>2, OldAgree
  <2> QED BY <2>1, <2>2
<1>10. ASSUME NEW c \in DOMAIN dents', NEW i \in DOMAIN dents'[c].elems PROVE ElemOK(c, i)'
  <2>1. c # new
    <3>1. DOMAIN <<>> = {}
      OBVIOUS
    <3> QED BY <1>4, <1>10, <3>1
  <2> QED BY <1>1, <1>3, <1>7, <2>1
<1> QED BY <1>9, <1>10, OldAgree DEF Agree

(***************************************************************************)
(* The steps of a lookup follow its path.                                  *)
(***************************************************************************)
Sure == FromDisc(disc) /\ Agree /\ Track

LEMMA SameDisc ==
  ASSUME FromDisc(disc), UNCHANGED disc
  PROVE  DiscStays
BY DEF DiscStays, Extends, FromDisc

LEMMA SureSame ==
  ASSUME Sure, UNCHANGED <<disc, dents, files, pc>>
  PROVE  Sure'
<1>1. DiscStays
  BY SameDisc DEF Sure
<1>2. Agree'
  BY DEF Sure, Agree, ElemOK
<1>3. Track'
  BY DEF Sure, Track, OnWay, OnPath, Ends, Done, Here, IsAt, At, Leads
<1> QED BY <1>1, <1>2, <1>3 DEF Sure, DiscStays

LEMMA SureMoves ==
  ASSUME InPlace, Sure, UNCHANGED <<disc, dents, files>>, NEW t \in Threads,
         NEW c \in Doings \cup {Idle}, Does(t, c), c # Idle => OnWay(c)
  PROVE  Sure'
<1>1. DiscStays /\ Grows
  BY SameDisc, SameGrows DEF Sure
<1>2. Agree'
  BY DEF Sure, Agree, ElemOK
<1>3. c # Idle => OnWay(c)'
  BY DEF OnWay, OnPath, Ends, Done, Here, IsAt, At, Leads
<1>4. pc'[t] = c /\ \A u \in Threads \ {t} : pc'[u] = pc[u]
  BY DEF Does, InPlace, PcOK
<1>5. Track'
  BY <1>1, <1>3, <1>4, TrackMoves DEF Sure
<1> QED BY <1>2, <1>5 DEF Sure

(* A call that is not looking anything up *)
LEMMA NoWay ==
  ASSUME NEW c, c.do \in {"failed", "drop", "act", "unpark"}
  PROVE  OnWay(c)
BY DEF OnWay

LEMMA SureStops ==
  ASSUME InPlace, Sure, UNCHANGED <<disc, dents, files>>, NEW t \in Threads,
         NEW why \in Reasons, Stop(t, why)
  PROVE  Sure'
<1>1. PICK c \in Doings : Does(t, c) /\ c.do = "failed"
  BY StopIs DEF InPlace, PcOK
<1>2. OnWay(c)
  BY <1>1 DEF OnWay
<1> QED BY <1>1, <1>2, SureMoves

(* What an element names is under its directory. *)
LEMMA ElemLeads ==
  ASSUME DentsOK, FromDisc(disc), Agree, NEW e, There(e)
  PROVE  /\ At(e).name \notin {Dot, DotDot}
         /\ At(e).is = NoDir =>
              Place(dents[e[1]].dir, At(e).name) \in Under(disc, dents[e[1]].dir, At(e).name)
         /\ At(e).is # NoDir => Place(At(e).is, NoDir) \in Under(disc, dents[e[1]].dir, At(e).name)
<1>1. At(e).name \in Names /\ dents[e[1]].dir \in Dirs
  BY AtIs, DentIs DEF There
<1>2. At(e).name \notin {Dot, DotDot}
  BY <1>1, VfsAssumption
<1>3. PICK j \in DOMAIN disc[dents[e[1]].dir] :
        disc[dents[e[1]].dir][j].name = At(e).name /\ disc[dents[e[1]].dir][j].is = At(e).is
  BY DEF Agree, ElemOK, There, At
<1>4. Leaf(dents[e[1]].dir, disc[dents[e[1]].dir][j]) \in Under(disc, dents[e[1]].dir, At(e).name)
  BY <1>1, <1>2, <1>3, UnderIs
<1> QED BY <1>2, <1>3, <1>4 DEF Leaf

LEMMA WalkIs ==
  ASSUME InPlace, Sure, NEW t \in Threads, pc[t] # Idle, pc[t].do \in {"walk", "copy", "link", "load", "create", "listed"}
  PROVE  /\ pc[t] \in Doings /\ DoingOK(pc[t]) /\ OnWay(pc[t]) /\ pc[t].o \in Opens /\ pc[t].d \in DOMAIN dents
         /\ pc[t].do \in {"walk", "copy", "link", "load"} => pc[t].rest \in Seq(Parts) /\ OnPath(pc[t].o, pc[t].rest, pc[t].d)
<1>1. pc[t] \in Doings /\ DoingOK(pc[t]) /\ OnWay(pc[t])
  BY Now DEF Sure, Track
<1>2. PICK c : c = pc[t]
  OBVIOUS
<1>3. c \in Doings /\ DoingOK(c) /\ OnWay(c) /\ c.do \in {"walk", "copy", "link", "load", "create", "listed"}
  BY <1>1, <1>2
<1>4. c.o \in Opens /\ c.d \in DOMAIN dents
  BY <1>3, DoingIs DEF DoingOK
<1>5. c.do \in {"walk", "copy", "link", "load"} => c.rest \in Seq(Parts) /\ OnPath(c.o, c.rest, c.d)
  BY <1>3, DoingIs DEF OnWay
<1> QED BY <1>1, <1>2, <1>4, <1>5

LEMMA BeginSure ==
  ASSUME InPlace, Sure, NEW t \in Threads, Begin(t)
  PROVE  Sure'
<1>1. PICK o \in Opens : pc' = [pc EXCEPT ![t] = [do |-> "walk", o |-> o, rest |-> o.path, d |-> 1]]
  BY DEF Begin
<1>2. PICK c : c = [do |-> "walk", o |-> o, rest |-> o.path, d |-> 1]
  OBVIOUS
<1>3. c \in Doings
  BY <1>2, PathIs DEF Doings
<1>4. PICK n \in Nat : n = Len(o.path)
  BY PathIs
<1>5. Ends(o, o.path) /\ Done(o, o.path) = 0
  BY <1>4 DEF Ends, Done
<1>6. OnPath(o, o.path, 1)
  <2>1. Here(1) \in Trail(disc, o.path)[0]
    BY <1>4, TrailIs DEF Here, Sure, Agree
  <2> QED BY <1>5, <2>1 DEF OnPath
<1>7. OnWay(c)
  BY <1>2, <1>6 DEF OnWay
<1>8. Does(t, c)
  BY <1>1, <1>2 DEF Does
<1> QED BY <1>3, <1>7, <1>8, SureMoves DEF Begin

LEMMA WalkEndSure ==
  ASSUME InPlace, Sure, NEW t \in Threads, WalkEnd(t)
  PROVE  Sure'
<1>1. pc[t].do = "walk" /\ pc[t] # Idle /\ pc[t].rest = <<>> /\ UNCHANGED <<disc, dents, files>>
  BY DEF WalkEnd, Doing
<1>2. CASE pc' = [pc EXCEPT ![t] = [do |-> "listed", o |-> @.o, d |-> @.d]]
  <2>1. PICK c : c = [do |-> "listed", o |-> pc[t].o, d |-> pc[t].d]
    OBVIOUS
  <2>2. pc[t].o \in Opens /\ pc[t].d \in Nat /\ OnPath(pc[t].o, <<>>, pc[t].d)
    BY <1>1, WalkIs, DoingIs
  <2>3. c \in Doings
    BY <2>1, <2>2 DEF Doings
  <2>4. PICK n \in Nat : n = Len(pc[t].o.path)
    BY <2>2, PathIs
  <2>5. Done(pc[t].o, <<>>) = Len(pc[t].o.path)
    BY <2>4 DEF Done
  <2>6. Here(pc[t].d) \in Leads(pc[t].o.path)
    BY <2>2, <2>5 DEF OnPath, Leads
  <2>7. OnWay(c)
    BY <2>1, <2>6 DEF OnWay
  <2>8. Does(t, c)
    BY <1>2, <2>1 DEF Does
  <2> QED BY <1>1, <2>3, <2>7, <2>8, SureMoves
<1> QED BY <1>1, <1>2, SureStops DEF WalkEnd, Reasons

(* One part further, to dentry d *)
LEMMA DeeperSure ==
  ASSUME InPlace, Sure, UNCHANGED <<disc, dents, files>>, NEW t \in Threads, pc[t] # Idle,
         pc[t].do \in {"walk", "load"}, pc[t].rest # <<>>, NEW d \in DOMAIN dents, Deeper(t, d),
         Here(d) \in Under(disc, dents[pc[t].d].dir, Head(pc[t].rest))
  PROVE  Sure'
<1>1. pc[t] \in Doings /\ pc[t].o \in Opens /\ pc[t].rest \in Seq(Parts) /\ OnPath(pc[t].o, pc[t].rest, pc[t].d)
  BY WalkIs
<1>2. PICK c \in Doings : Does(t, c) /\ c.do = "walk" /\ c.d = d /\ c.o = pc[t].o /\ c.rest = Tail(pc[t].rest)
  BY <1>1, DeeperIs
<1>3. OnPath(c.o, c.rest, d)
  BY <1>1, <1>2, FurtherOn DEF OnPath, Sure
<1>4. OnWay(c)
  BY <1>2, <1>3 DEF OnWay
<1> QED BY <1>2, <1>4, SureMoves

LEMMA WalkDotsSure ==
  ASSUME InPlace, Sure, NEW t \in Threads, WalkDots(t)
  PROVE  Sure'
<1>1. pc[t].do = "walk" /\ pc[t] # Idle /\ pc[t].rest # <<>> /\ UNCHANGED <<disc, dents, files>>
  BY DEF WalkDots, Reads, Doing
<1>2. PICK d \in DOMAIN dents : d = pc[t].d
  BY <1>1, WalkIs
<1>3. dents[d].dir \in Dirs /\ dents[d].up \in DOMAIN dents /\ dents[dents[d].up].dir = Above(Disc, dents[d].dir)
  BY DentIs DEF InPlace, Sure, Agree
<1>4. CASE Head(pc[t].rest) = Dot /\ Deeper(t, pc[t].d)
  <2>1. Here(d) \in Under(disc, dents[d].dir, Dot)
    BY <1>3, UnderIs DEF Here, Sure
  <2> QED BY <1>1, <1>2, <1>4, <2>1, DeeperSure
<1>5. CASE Head(pc[t].rest) = DotDot /\ Deeper(t, dents[pc[t].d].up)
  <2>1. Here(dents[d].up) \in Under(disc, dents[d].dir, DotDot)
    BY <1>3, UnderIs DEF Here, Sure
  <2> QED BY <1>1, <1>2, <1>3, <1>5, <2>1, DeeperSure
<1> QED BY <1>4, <1>5 DEF WalkDots, Reads

LEMMA WalkMissingSure ==
  ASSUME InPlace, Sure, NEW t \in Threads, WalkMissing(t)
  PROVE  Sure'
<1>1. pc[t].do = "walk" /\ pc[t] # Idle /\ pc[t].rest # <<>> /\ UNCHANGED <<disc, dents, files>>
  BY DEF WalkMissing, Reads, Doing
<1>2. CASE Stop(t, "missing")
  BY <1>1, <1>2, SureStops DEF Reasons
<1>3. CASE ~Stop(t, "missing")
  <2>1. PICK n \in Names : /\ Head(pc[t].rest) = n /\ Tail(pc[t].rest) = <<>>
                          /\ pc' = [pc EXCEPT ![t] = [do |-> "create", o |-> @.o, d |-> @.d, name |-> n,
                                                  seen |-> Len(dents[@.d].elems)]]
    BY <1>3 DEF WalkMissing, Reads, IsLast
  <2>2. PICK c : c = [do |-> "create", o |-> pc[t].o, d |-> pc[t].d, name |-> n,
                      seen |-> Len(dents[pc[t].d].elems)]
    OBVIOUS
  <2>3. /\ pc[t] \in Doings /\ pc[t].o \in Opens /\ pc[t].rest \in Seq(Parts) /\ pc[t].d \in DOMAIN dents
        /\ OnPath(pc[t].o, pc[t].rest, pc[t].d)
    BY <1>1, WalkIs
  <2>4. Len(dents[pc[t].d].elems) \in Nat /\ pc[t].d \in Nat
    BY <2>3, DentIs DEF InPlace
  <2>5. c \in Doings /\ c.do = "create" /\ c.d = pc[t].d /\ c.o = pc[t].o /\ c.name = n
    BY <2>2, <2>3, <2>4 DEF Doings
  <2>6. pc[t].rest = <<n>>
    <3>1. Len(pc[t].rest) = 1 /\ pc[t].rest[1] = n
      BY <1>1, <2>1, <2>3, TailIs
    <3> QED BY <2>3, <3>1
  <2>7. OnWay(c)
    BY <2>3, <2>5, <2>6 DEF OnWay
  <2>8. Does(t, c)
    BY <2>1, <2>2 DEF Does
  <2> QED BY <1>1, <2>5, <2>7, <2>8, SureMoves
<1> QED BY <1>2, <1>3

LEMMA WalkFileSure ==
  ASSUME InPlace, Sure, NEW t \in Threads, WalkFile(t)
  PROVE  Sure'
<1>1. pc[t].do = "walk" /\ pc[t] # Idle /\ pc[t].rest # <<>> /\ UNCHANGED <<disc, dents, files>>
  BY DEF WalkFile, Reads, Doing
<1>2. CASE Stop(t, "not a directory")
  BY <1>1, <1>2, SureStops DEF Reasons
<1>3. CASE ~Stop(t, "not a directory")
  <2>1. PICK n \in Names : /\ Matches(pc[t].d, n) # {} /\ Head(pc[t].rest) = n /\ Tail(pc[t].rest) = <<>>
                          /\ At(<<pc[t].d, Find(pc[t].d, n)>>).is = NoDir
                          /\ pc' = [pc EXCEPT ![t] = [do |-> "opened", o |-> @.o,
                                                      e |-> <<pc[t].d, Find(pc[t].d, n)>>]]
    BY <1>3 DEF WalkFile, Reads, IsLast
  <2>2. PICK e : e = <<pc[t].d, Find(pc[t].d, n)>>
    OBVIOUS
  <2>3. /\ pc[t] \in Doings /\ pc[t].o \in Opens /\ pc[t].rest \in Seq(Parts) /\ pc[t].d \in DOMAIN dents
        /\ OnPath(pc[t].o, pc[t].rest, pc[t].d)
    BY <1>1, WalkIs
  <2>4. There(e) /\ e \in Places /\ At(e).name = n /\ e[1] = pc[t].d
    BY <2>1, <2>2, <2>3, FirstIs DEF InPlace, There, At
  <2>5. PICK c : c = [do |-> "opened", o |-> pc[t].o, e |-> e]
    OBVIOUS
  <2>6. c \in Doings /\ c.do = "opened" /\ c.e = e /\ c.o = pc[t].o
    BY <2>3, <2>4, <2>5 DEF Doings
  <2>7. Place(dents[e[1]].dir, At(e).name) \in Under(disc, dents[pc[t].d].dir, n)
    BY <2>1, <2>2, <2>4, ElemLeads DEF InPlace, Sure
  <2>8. IsAt(pc[t].o, e)
    BY <1>1, <2>1, <2>3, <2>7, FurtherOn DEF IsAt, Sure
  <2>9. OnWay(c)
    BY <2>6, <2>8 DEF OnWay
  <2>10. Does(t, c)
    BY <2>1, <2>2, <2>5 DEF Does
  <2> QED BY <1>1, <2>6, <2>9, <2>10, SureMoves
<1> QED BY <1>2, <1>3

LEMMA WalkDirSure ==
  ASSUME InPlace, Sure, NEW t \in Threads, WalkDir(t)
  PROVE  Sure'
<1>1. pc[t].do = "walk" /\ pc[t] # Idle /\ pc[t].rest # <<>> /\ UNCHANGED <<disc, dents, files>>
  BY DEF WalkDir, Reads, Doing
<1>2. PICK n \in Names :
        /\ Matches(pc[t].d, n) # {} /\ At(<<pc[t].d, Find(pc[t].d, n)>>).is # NoDir /\ Head(pc[t].rest) = n
        /\ LET e == <<pc[t].d, Find(pc[t].d, n)>>
           IN  \/ Known(At(e)) /\ Deeper(t, At(e).sub)
               \/ /\ ~Known(At(e))
                  /\ pc' = [pc EXCEPT ![t] = [do |-> "copy", o |-> @.o, rest |-> @.rest, d |-> @.d,
                                              e |-> e, seen |-> At(e).sub]]
  BY DEF WalkDir, Reads
<1>3. PICK e : e = <<pc[t].d, Find(pc[t].d, n)>>
  OBVIOUS
<1>4. /\ pc[t] \in Doings /\ pc[t].o \in Opens /\ pc[t].rest \in Seq(Parts) /\ pc[t].d \in DOMAIN dents
      /\ OnPath(pc[t].o, pc[t].rest, pc[t].d)
  BY <1>1, WalkIs
<1>5. There(e) /\ e \in Places /\ At(e).name = n /\ e[1] = pc[t].d /\ e[2] \in DOMAIN dents[e[1]].elems
  BY <1>2, <1>3, <1>4, FirstIs DEF InPlace, There, At
<1>6. At(e).sub \in {0} \cup DOMAIN dents /\ ElemOK(e[1], e[2]) /\ At(e) = dents[e[1]].elems[e[2]]
  BY <1>5, AtIs DEF InPlace, Sure, Agree, There, At
<1>7. CASE Known(At(e)) /\ Deeper(t, At(e).sub)
  <2>1. PICK d \in DOMAIN dents : d = At(e).sub
    BY <1>6, <1>7 DEF Known
  <2>2. At(e).is # NoDir /\ dents[d].dir = At(e).is
    BY <1>2, <1>3, <1>6, <1>7, <2>1 DEF ElemOK, Known
  <2>3. Place(At(e).is, NoDir) \in Under(disc, dents[e[1]].dir, At(e).name)
    BY <1>5, <2>2, ElemLeads DEF InPlace, Sure
  <2>4. Here(d) \in Under(disc, dents[pc[t].d].dir, Head(pc[t].rest))
    BY <1>2, <1>5, <2>2, <2>3 DEF Here
  <2> QED BY <1>1, <1>7, <2>1, <2>4, DeeperSure
<1>8. CASE ~Known(At(e)) /\ pc' = [pc EXCEPT ![t] = [do |-> "copy", o |-> @.o, rest |-> @.rest, d |-> @.d,
                                    e |-> e, seen |-> At(e).sub]]
  <2>1. PICK c : c = [do |-> "copy", o |-> pc[t].o, rest |-> pc[t].rest, d |-> pc[t].d,
                      e |-> e, seen |-> 0]
    OBVIOUS
  <2>2. At(e).sub = 0 /\ At(e).is \notin BootDirs
    BY <1>6, <1>8 DEF Known, ElemOK
  <2>3. pc[t].d \in Nat
    BY <1>4, DentIs DEF InPlace
  <2>4. /\ c \in Doings /\ c.do = "copy" /\ c.d = pc[t].d /\ c.e = e /\ c.rest = pc[t].rest /\ c.o = pc[t].o
        /\ c.seen = 0
    BY <1>4, <1>5, <2>1, <2>2, <2>3 DEF Doings
  <2>5. OnWay(c)
    BY <1>2, <1>4, <1>5, <2>2, <2>4 DEF OnWay
  <2>6. Does(t, c)
    BY <1>8, <2>1, <2>2 DEF Does
  <2> QED BY <1>1, <2>4, <2>5, <2>6, SureMoves
<1> QED BY <1>2, <1>3, <1>7, <1>8

LEMMA LoadedSure ==
  ASSUME InPlace, Sure, NEW t \in Threads, Loaded(t)
  PROVE  Sure'
<1>1. /\ pc[t].do = "load" /\ pc[t] # Idle /\ UNCHANGED <<disc, dents, files>>
      /\ pc' = [pc EXCEPT ![t] = [do |-> "walk", o |-> @.o, rest |-> Tail(@.rest), d |-> At(@.e).sub]]
  BY DEF Loaded, Doing
<1>2. /\ pc[t].e[1] = pc[t].d /\ At(pc[t].e).name = Head(pc[t].rest) /\ There(pc[t].e)
      /\ At(pc[t].e).sub # 0 /\ pc[t].rest # <<>> /\ pc[t].d \in DOMAIN dents /\ At(pc[t].e).is \in Dirs
  BY <1>1, WalkIs DEF DoingOK, OnWay
<1>3. PICK e : e = pc[t].e
  OBVIOUS
<1>4. There(e) /\ At(e).sub # 0 /\ e[1] = pc[t].d /\ At(e).name = Head(pc[t].rest)
  BY <1>2, <1>3
<1>5. At(e).sub \in {0} \cup DOMAIN dents /\ ElemOK(e[1], e[2]) /\ At(e) = dents[e[1]].elems[e[2]]
  BY <1>4, AtIs DEF InPlace, Sure, Agree, There, At
<1>6. PICK d \in DOMAIN dents : d = At(e).sub
  BY <1>4, <1>5
<1>7. At(e).is # NoDir /\ dents[d].dir = At(e).is
  BY <1>4, <1>5, <1>6 DEF ElemOK
<1>8. Place(At(e).is, NoDir) \in Under(disc, dents[e[1]].dir, At(e).name)
  BY <1>4, <1>7, ElemLeads DEF InPlace, Sure
<1>9. Here(d) \in Under(disc, dents[pc[t].d].dir, Head(pc[t].rest))
  BY <1>4, <1>7, <1>8 DEF Here
<1>10. Deeper(t, d)
  BY <1>1, <1>3, <1>6 DEF Deeper
<1> QED BY <1>1, <1>2, <1>9, <1>10, DeeperSure

LEMMA CopySure ==
  ASSUME InPlace, Grows, Sure, NEW t \in Threads, Copy(t)
  PROVE  Sure'
<1>1. PICK d, k : \E c \in Doings :
           /\ d \in DOMAIN dents /\ k \in DOMAIN dents[d].elems
           /\ pc[t] \in Doings /\ DoingOK(pc[t]) /\ pc[t].do = "copy"
           /\ pc[t].e = <<d, k>> /\ At(pc[t].e) = dents[d].elems[k]
           /\ dents' = WithDent(dents, d, k, dents[d].elems[k].is)
           /\ Does(t, c) /\ c.do = "link" /\ c.o = pc[t].o /\ c.rest = pc[t].rest /\ c.d = pc[t].d
           /\ c.e = pc[t].e
  BY CopyIs
<1>2. PICK c \in Doings : Does(t, c) /\ c.do = "link" /\ c.o = pc[t].o /\ c.rest = pc[t].rest /\ c.d = pc[t].d
                          /\ c.e = pc[t].e
  BY <1>1
<1>3. PICK x : x = pc[t]
  OBVIOUS
<1>4. x \in Doings /\ DoingOK(x) /\ x.do = "copy" /\ OnWay(x) /\ UNCHANGED <<disc, files>>
  BY <1>1, <1>3, DoingIs DEF Sure, Track, Copy
<1>5. dents[d].elems[k].is \in Dirs \ BootDirs
  BY <1>1, <1>3, <1>4 DEF DoingOK, OnWay
<1>6. DiscStays
  BY <1>4, SameDisc DEF Sure
<1>7. Agree'
  BY <1>1, <1>4, <1>5, <1>6, AgreeDent DEF InPlace, Sure
<1>8. OnWay(x)'
  BY <1>4, <1>6, WayStays
<1>9. OnWay(c)'
  BY <1>2, <1>3, <1>4, <1>8 DEF OnWay
<1>10. pc'[t] = c /\ \A u \in Threads \ {t} : pc'[u] = pc[u]
  BY <1>2 DEF Does, InPlace, PcOK
<1>11. Track'
  BY <1>4, <1>6, <1>9, <1>10, TrackMoves DEF Sure
<1> QED BY <1>6, <1>7, <1>11 DEF Sure, DiscStays

LEMMA LinkSure ==
  ASSUME InPlace, Grows, Sure, NEW t \in Threads, Link(t)
  PROVE  Sure'
<1>1. PICK d \in DOMAIN dents : \E c \in Doings :
           /\ pc[t] \in Doings /\ DoingOK(pc[t]) /\ pc[t].do = "link" /\ d = At(pc[t].e).sub
           /\ dents' = [dents EXCEPT ![d].set = TRUE]
           /\ Does(t, c) /\ c.do = "load" /\ c.o = pc[t].o /\ c.rest = pc[t].rest /\ c.d = pc[t].d
           /\ c.e = pc[t].e /\ c.into = d /\ c.k = 0 /\ c.from = 0
  BY LinkIs
<1>2. PICK c \in Doings : Does(t, c) /\ c.do = "load" /\ c.o = pc[t].o /\ c.rest = pc[t].rest /\ c.d = pc[t].d
                          /\ c.e = pc[t].e /\ c.into = d /\ c.from = 0
  BY <1>1
<1>3. PICK x : x = pc[t]
  OBVIOUS
<1>4. x \in Doings /\ DoingOK(x) /\ x.do = "link" /\ OnWay(x) /\ UNCHANGED <<disc, files>> /\ There(x.e)
  BY <1>1, <1>3, DoingIs DEF Sure, Track, Link, DoingOK
<1>5. /\ DOMAIN dents' = DOMAIN dents
      /\ \A b \in DOMAIN dents : dents'[b].elems = dents[b].elems
  BY <1>1, FlagSet DEF InPlace
<1>6. DiscStays
  BY <1>4, SameDisc DEF Sure
<1>7. Agree'
  BY <1>5, <1>6, AgreeKept DEF InPlace, Sure
<1>8. OnWay(x)'
  BY <1>4, <1>6, WayStays
<1>9. dents'[d].dir = At(x.e)'.is
  <2>1. At(x.e) = dents[x.e[1]].elems[x.e[2]] /\ ElemOK(x.e[1], x.e[2]) /\ At(x.e).sub # 0
    BY <1>4 DEF At, There, Sure, Agree, DoingOK
  <2>2. dents[d].dir = At(x.e).is
    BY <1>1, <1>3, <2>1 DEF ElemOK
  <2>3. At(x.e)'.is = At(x.e).is
    BY <1>4, ThereStays
  <2> QED BY <2>2, <2>3 DEF Grows
<1>10. OnWay(c)'
  BY <1>2, <1>3, <1>4, <1>8, <1>9 DEF OnWay
<1>11. pc'[t] = c /\ \A u \in Threads \ {t} : pc'[u] = pc[u]
  BY <1>2 DEF Does, InPlace, PcOK
<1>12. Track'
  BY <1>4, <1>6, <1>10, <1>11, TrackMoves DEF Sure
<1> QED BY <1>6, <1>7, <1>12 DEF Sure, DiscStays

(* What is read from a directory loaded later is not loaded at boot. *)
LEMMA NotBoot ==
  ASSUME NEW on, FromDisc(on), NEW x \in Dirs \ BootDirs, NEW i \in DOMAIN on[x]
  PROVE  on[x][i].is \notin BootDirs
<1>1. SUFFICES ASSUME on[x][i].is \in BootDirs PROVE FALSE
  OBVIOUS
<1>2. on[x][i].is # NoDir
  BY <1>1, RootIs, VfsAssumption
<1>3. i \in DOMAIN Disc[x] /\ Disc[x][i].is \in BootDirs
  BY <1>1, <1>2, EntryIs
<1> QED BY <1>3, VfsAssumption

(* Bytes that were asked for from the beginning are of the directory. *)
LEMMA ReadFromDisc ==
  ASSUME NEW c, OnWay(c), c.do = "load", c.got = "bytes"
  PROVE  Source(c) = disc[dents[c.into].dir]
BY DEF OnWay, Source

LEMMA LoadSure ==
  ASSUME InPlace, Grows, Sure, NEW t \in Threads, Load(t)
  PROVE  Sure'
<1>1. PICK d \in DOMAIN dents : \E k \in Nat : \E c \in Doings : \E z \in Entries :
           /\ Reading(t, c) /\ d = pc[t].into /\ c.k = k /\ c.from = pc[t].from /\ c.got = "bytes"
           /\ pc[t].got = "bytes" /\ k = pc[t].k + 1 /\ k <= Len(Source(pc[t])) /\ z = Source(pc[t])[k]
           /\ dents' = WithElem(dents, d, Elem(z, 0))
  BY LoadIs
<1>2. PICK k \in Nat : \E c \in Doings : \E z \in Entries :
           /\ Reading(t, c) /\ d = pc[t].into /\ c.k = k /\ c.from = pc[t].from /\ c.got = "bytes"
           /\ pc[t].got = "bytes" /\ k = pc[t].k + 1 /\ k <= Len(Source(pc[t])) /\ z = Source(pc[t])[k]
           /\ dents' = WithElem(dents, d, Elem(z, 0))
  BY <1>1
<1>3. PICK c \in Doings : \E z \in Entries :
           /\ Reading(t, c) /\ d = pc[t].into /\ c.from = pc[t].from /\ c.got = "bytes"
           /\ pc[t].got = "bytes" /\ k = pc[t].k + 1 /\ k <= Len(Source(pc[t])) /\ z = Source(pc[t])[k]
           /\ dents' = WithElem(dents, d, Elem(z, 0))
  BY <1>2
<1>4. PICK z \in Entries :
           /\ k <= Len(Source(pc[t])) /\ z = Source(pc[t])[k] /\ dents' = WithElem(dents, d, Elem(z, 0))
  BY <1>3
<1>5. PICK x : x = pc[t]
  OBVIOUS
<1>6. /\ x \in Doings /\ DoingOK(x) /\ x.do = "load" /\ OnWay(x) /\ x.got = "bytes" /\ x.into = d
      /\ k = x.k + 1 /\ Source(x) = Source(pc[t]) /\ UNCHANGED <<disc, files>>
  BY <1>3, <1>5, DoingIs DEF Sure, Track, Load, Reading
<1>7. x.from = 0 /\ Source(pc[t]) = disc[dents[d].dir]
  BY <1>6, ReadFromDisc DEF OnWay
<1>8. DiscStays
  BY <1>6, SameDisc DEF Sure
<1>9. PICK y : y = Elem(z, 0)
  OBVIOUS
<1>10. y \in Elements /\ y.sub = 0 /\ y.name = z.name /\ y.is = z.is
  BY <1>9, ElemIs
<1>11. dents[d].dir \in Dirs \ BootDirs
  BY <1>3, <1>6, DentIs DEF InPlace, OnWay
<1>12. k \in DOMAIN disc[dents[d].dir]
  <2>1. disc[dents[d].dir] \in Seq(Entries)
    BY <1>11 DEF InPlace, RestOK
  <2>2. x.k \in Nat
    BY <1>6, DoingIs
  <2>3. PICK m \in Nat : m = Len(disc[dents[d].dir])
    BY <2>1
  <2>4. k \in 1 .. m
    BY <1>4, <1>6, <1>7, <2>2, <2>3
  <2> QED BY <2>1, <2>3, <2>4
<1>13. z = disc[dents[d].dir][k]
  BY <1>4, <1>7
<1>14. y.is \notin BootDirs
  BY <1>10, <1>11, <1>12, <1>13, NotBoot DEF Sure
<1>15. Agree'
  <2>1. dents' = WithElem(dents, d, y)
    BY <1>4, <1>9
  <2>2. \E j \in DOMAIN disc'[dents[d].dir] :
           disc'[dents[d].dir][j].name = y.name /\ disc'[dents[d].dir][j].is = y.is
    BY <1>6, <1>10, <1>12, <1>13
  <2> QED BY <1>8, <1>10, <1>14, <2>1, <2>2, AgreeElem DEF InPlace, Sure
<1>16. OnWay(x)'
  BY <1>6, <1>8, WayStays
<1>17. OnWay(c)'
  BY <1>3, <1>5, <1>6, <1>7, <1>16 DEF OnWay, Reading
<1>18. pc'[t] = c /\ \A u \in Threads \ {t} : pc'[u] = pc[u]
  BY <1>3 DEF Does, InPlace, PcOK, Reading
<1>19. Track'
  BY <1>6, <1>8, <1>17, <1>18, TrackMoves DEF Sure
<1> QED BY <1>8, <1>15, <1>19 DEF Sure, DiscStays

LEMMA CreateSure ==
  ASSUME InPlace, Grows, Sure, NEW t \in Threads, Create(t)
  PROVE  Sure'
<1>1. /\ pc[t] \in Doings /\ DoingOK(pc[t]) /\ pc[t].do = "create" /\ pc[t].d \in DOMAIN dents
      /\ UNCHANGED files
  BY CreateIs
<1>2. CASE UNCHANGED <<disc, dents, crossed, pc>>
  BY <1>1, <1>2, SureSame
<1>3. CASE UNCHANGED <<disc, dents, crossed, halted>> /\ Stop(t, "no room")
  BY <1>1, <1>3, SureStops DEF Reasons
<1>4. CASE \E d, y, new, c :
                 /\ d = pc[t].d /\ CanAdd(d)
                 /\ new \in Entries /\ new.name = pc[t].name /\ new.is = NoDir
                 /\ disc' = WithEntry(disc, dents[d].dir, new)
                 /\ y \in Elements /\ y.sub = 0 /\ y.name = pc[t].name /\ y.is = NoDir /\ y.refer = 0
                 /\ dents' = WithElem(dents, d, y)
                 /\ crossed' = (crossed \/ Len(dents[d].elems) # pc[t].seen) /\ halted' = halted
                 /\ c \in Doings /\ Does(t, c) /\ c.do = "opened" /\ c.o = pc[t].o
                 /\ c.e = <<d, Len(dents[d].elems) + 1>>
  <2>1. PICK d, y, new, c :
                 /\ d = pc[t].d
                 /\ new \in Entries /\ new.name = pc[t].name /\ new.is = NoDir
                 /\ disc' = WithEntry(disc, dents[d].dir, new)
                 /\ y \in Elements /\ y.sub = 0 /\ y.name = pc[t].name /\ y.is = NoDir
                 /\ dents' = WithElem(dents, d, y)
                 /\ c \in Doings /\ Does(t, c) /\ c.do = "opened" /\ c.o = pc[t].o
                 /\ c.e = <<d, Len(dents[d].elems) + 1>>
    BY <1>4
  <2>2. PICK x : x = pc[t]
    OBVIOUS
  <2>3. x \in Doings /\ DoingOK(x) /\ x.do = "create" /\ OnWay(x) /\ x.o \in Opens /\ x.name \in Names /\ x.d = d
    BY <1>1, <2>1, <2>2, DoingIs DEF Sure, Track
  <2>4. d \in DOMAIN dents /\ dents[d].dir \in Dirs
    BY <1>1, <2>1, DentIs DEF InPlace
  <2>5. PICK dir \in Dirs : dir = dents[d].dir
    BY <2>4
  <2>6. FromDisc(disc') /\ Extends(disc, disc') /\ disc'[dir][Len(disc[dir]) + 1] = new /\ Len(disc'[dir]) = Len(disc[dir]) + 1
    <3>1. new \in Entries /\ new.is = NoDir /\ disc' = WithEntry(disc, dir, new)
      BY <2>1, <2>5
    <3> QED BY <3>1, EntryAdded DEF Sure
  <2>7. DiscStays
    BY <2>6 DEF Sure, DiscStays
  <2>8. PICK j \in DOMAIN disc'[dir] : disc'[dir][j] = new
    <3>1. disc[dir] \in Seq(Entries) /\ disc'[dir] \in Seq(Entries)
      BY <2>7 DEF DiscStays, FromDisc
    <3>2. Len(disc[dir]) + 1 \in DOMAIN disc'[dir]
      BY <2>6, <3>1
    <3> QED BY <2>6, <3>2
  <2>9. y.is \notin BootDirs
    BY <2>1, RootIs, VfsAssumption
  <2>10. Agree'
    <3>1. \E i \in DOMAIN disc'[dents[d].dir] :
             disc'[dents[d].dir][i].name = y.name /\ disc'[dents[d].dir][i].is = y.is
      BY <2>1, <2>5, <2>8
    <3> QED BY <2>1, <2>4, <2>7, <2>9, <3>1, AgreeElem DEF InPlace, Sure
  <2>11. /\ dents'[d].elems[Len(dents[d].elems) + 1] = y /\ dents'[d].dir = dir
    BY <2>1, <2>4, <2>5, ElemAdded DEF InPlace
  <2>12. OnPath(x.o, <<x.name>>, d)'
    BY <2>3, <2>7, WayStays DEF OnWay
  <2>13. Place(dir, x.name) \in Under(disc', dir, x.name)
    <3>1. x.name \notin {Dot, DotDot}
      BY <2>3, VfsAssumption
    <3>2. Leaf(dir, disc'[dir][j]) \in Under(disc', dir, x.name)
      BY <2>1, <2>2, <2>6, <2>8, <3>1, UnderIs
    <3> QED BY <2>1, <2>2, <2>8, <3>2 DEF Leaf
  <2>14. Place(dir, x.name) \in Trail(disc', x.o.path)[Len(x.o.path)]
    <3>1. <<x.name>> \in Seq(Parts) /\ <<x.name>> # <<>> /\ Head(<<x.name>>) = x.name /\ Tail(<<x.name>>) = <<>>
      BY <2>3 DEF Parts
    <3>2. Ends(x.o, <<x.name>>) /\ Place(dir, NoDir) \in Trail(disc', x.o.path)[Done(x.o, <<x.name>>)]
      BY <2>11, <2>12 DEF OnPath, Here, Ends, Done
    <3>3. PICK z : z = Place(dir, NoDir)
      OBVIOUS
    <3>4. z.file = NoDir /\ z.dir = dir
      BY <3>3, PlaceIs
    <3>5. PICK r : r = <<x.name>>
      OBVIOUS
    <3>6. PICK v : v = Place(dir, x.name)
      OBVIOUS
    <3>7. r \in Seq(Parts) /\ r # <<>> /\ Tail(r) = <<>> /\ Ends(x.o, r) /\ v \in Under(disc', z.dir, Head(r))
      BY <2>13, <3>1, <3>2, <3>4, <3>5, <3>6
    <3> QED BY <2>3, <2>6, <3>2, <3>3, <3>4, <3>5, <3>6, <3>7, FurtherIn
  <2>15. IsAt(c.o, c.e)'
    <3>1. At(c.e)' = y /\ dents'[c.e[1]].dir = dir
      BY <2>1, <2>11 DEF At
    <3> QED BY <2>1, <2>2, <2>14, <3>1 DEF IsAt, Leads
  <2>16. OnWay(c)'
    BY <2>1, <2>15 DEF OnWay
  <2>17. pc'[t] = c /\ \A u \in Threads \ {t} : pc'[u] = pc[u]
    BY <2>1 DEF Does, InPlace, PcOK
  <2>18. Track'
    BY <1>1, <2>7, <2>16, <2>17, TrackMoves DEF Sure
  <2> QED BY <2>7, <2>10, <2>18 DEF Sure, DiscStays
<1> QED BY <1>2, <1>3, <1>4, CreateIs

(***************************************************************************)
(* The steps of open files change no name.                                 *)
(***************************************************************************)
LEMMA SurePut ==
  ASSUME InPlace, Grows, Sure, UNCHANGED disc, NEW q \in Places, There(q), NEW y \in Elements,
         y.sub = At(q).sub, y.name = At(q).name, y.is = At(q).is, dents' = Put(dents, q[1], q[2], y),
         NEW t \in Threads, NEW c, Does(t, c), c # Idle => OnWay(c)',
         \A f \in Slots : files'[f] # Free =>
           \/ files[f] # Free /\ files'[f].o = files[f].o /\ files'[f].e = files[f].e
           \/ \A o, e : o = files'[f].o /\ e = files'[f].e => IsAt(o, e)'
  PROVE  Sure'
<1>1. DiscStays
  BY SameDisc DEF Sure
<1>2. /\ DOMAIN dents' = DOMAIN dents
      /\ \A d \in DOMAIN dents :
           /\ DOMAIN dents'[d].elems = DOMAIN dents[d].elems
           /\ \A i \in DOMAIN dents[d].elems : dents'[d].elems[i] = IF <<d, i>> = q THEN y ELSE dents[d].elems[i]
  BY PutElem DEF InPlace
<1>3. \A d \in DOMAIN dents : \A i \in DOMAIN dents[d].elems : dents'[d].elems[i].sub = dents[d].elems[i].sub
  BY <1>2 DEF At
<1>4. Agree'
  BY <1>1, <1>2, <1>3, AgreeKept DEF InPlace, Sure
<1>5. pc'[t] = c /\ \A u \in Threads \ {t} : pc'[u] = pc[u]
  BY DEF Does, InPlace, PcOK
<1>6. Track'
  BY <1>1, <1>5, TrackMoves DEF Sure
<1> QED BY <1>1, <1>4, <1>6 DEF Sure, DiscStays

LEMMA SureFiles ==
  ASSUME InPlace, Grows, Sure, UNCHANGED <<disc, dents>>, NEW t \in Threads, NEW c, Does(t, c), c # Idle => OnWay(c)',
         \A f \in Slots : files'[f] # Free => files[f] # Free /\ files'[f].o = files[f].o /\ files'[f].e = files[f].e
  PROVE  Sure'
<1>1. DiscStays
  BY SameDisc DEF Sure
<1>2. Agree'
  BY DEF Sure, Agree, ElemOK
<1>3. pc'[t] = c /\ \A u \in Threads \ {t} : pc'[u] = pc[u]
  BY DEF Does, InPlace, PcOK
<1>4. Track'
  BY <1>1, <1>3, TrackMoves DEF Sure
<1> QED BY <1>1, <1>2, <1>4 DEF Sure, DiscStays

LEMMA FailSure ==
  ASSUME InPlace, Sure, NEW t \in Threads, Fail(t)
  PROVE  Sure'
BY SureMoves DEF Fail, Does

LEMMA OpenLoadSure ==
  ASSUME InPlace, Sure, NEW t \in Threads, OpenLoad(t)
  PROVE  Sure'
<1>1. PICK c \in Doings :
           /\ pc[t] \in Doings /\ DoingOK(pc[t]) /\ pc[t].do = "opened"
           /\ Does(t, c) /\ c.do = "count" /\ c.o = pc[t].o /\ c.e = pc[t].e
  BY OpenLoadIs
<1>2. IsAt(c.o, c.e)
  BY <1>1, DoingIs DEF Sure, Track, OnWay
<1>3. OnWay(c)
  BY <1>1, <1>2 DEF OnWay
<1> QED BY <1>1, <1>3, SureMoves DEF OpenLoad

LEMMA OpenStoreSure ==
  ASSUME InPlace, Grows, Sure, NEW t \in Threads, OpenStore(t)
  PROVE  Sure'
<1>1. PICK y \in Elements, x \in Opened :
           /\ pc[t] \in Doings /\ DoingOK(pc[t]) /\ pc[t].do = "count" /\ Does(t, Idle)
           /\ y.sub = At(pc[t].e).sub /\ y.name = At(pc[t].e).name /\ y.is = At(pc[t].e).is
           /\ y.seek = At(pc[t].e).seek /\ y.refer = pc[t].r + 1
           /\ dents' = Put(dents, pc[t].e[1], pc[t].e[2], y)
           /\ x.e = pc[t].e /\ x.o = pc[t].o /\ x.pos = 0 /\ x.own = 0 /\ x.mixed = FALSE
           /\ \/ leaks' = leaks /\ \E f \in Slots : files[f] = Free /\ files' = [files EXCEPT ![f] = x]
              \/ leaks' = Append(leaks, pc[t].e) /\ files' = files
  BY OpenStoreIs
<1>2. PICK q, o : q = pc[t].e /\ o = pc[t].o
  OBVIOUS
<1>3. q \in Places /\ There(q) /\ o \in Opens /\ IsAt(o, q) /\ UNCHANGED disc
  BY <1>1, <1>2, DoingIs DEF Sure, Track, OnWay, DoingOK, OpenStore
<1>4. IsAt(o, q)'
  BY <1>3, SameDisc, PlaceStays DEF Sure
<1>5. ASSUME NEW f \in Slots, files'[f] # Free
      PROVE  \/ files[f] # Free /\ files'[f].o = files[f].o /\ files'[f].e = files[f].e
             \/ files'[f].o = o /\ files'[f].e = q
  BY <1>1, <1>2, <1>5 DEF InPlace, FilesOK
<1> QED BY <1>1, <1>2, <1>3, <1>4, <1>5, SurePut

LEMMA CloseLoadSure ==
  ASSUME InPlace, Grows, Sure, NEW t \in Threads, NEW f \in Slots, CloseLoad(t, f)
  PROVE  Sure'
<1>1. PICK c \in Doings : files' = [files EXCEPT ![f] = Free] /\ Does(t, c) /\ c.do = "drop"
  BY CloseLoadIs
<1>2. OnWay(c)'
  BY <1>1 DEF OnWay
<1>3. \A g \in Slots : files'[g] # Free => files[g] # Free /\ files'[g] = files[g]
  BY <1>1 DEF InPlace, FilesOK
<1> QED BY <1>1, <1>2, <1>3, SureFiles DEF CloseLoad

LEMMA CloseStoreSure ==
  ASSUME InPlace, Grows, Sure, NEW t \in Threads, CloseStore(t)
  PROVE  Sure'
<1>1. PICK y \in Elements :
           /\ pc[t] \in Doings /\ DoingOK(pc[t]) /\ pc[t].do = "drop" /\ Does(t, Idle)
           /\ y.sub = At(pc[t].e).sub /\ y.name = At(pc[t].e).name /\ y.is = At(pc[t].e).is
           /\ y.seek = At(pc[t].e).seek /\ y.refer = Lowered(pc[t].r)
           /\ dents' = Put(dents, pc[t].e[1], pc[t].e[2], y)
  BY CloseStoreIs
<1>2. PICK q : q = pc[t].e
  OBVIOUS
<1>3. q \in Places /\ There(q) /\ UNCHANGED <<disc, files>>
  BY <1>1, <1>2, DoingIs DEF DoingOK, CloseStore
<1> QED BY <1>1, <1>2, <1>3, SurePut

LEMMA ParkSure ==
  ASSUME InPlace, Grows, Sure, NEW t \in Threads, NEW f \in Slots, NEW op \in Ops, Park(t, f, op)
  PROVE  Sure'
<1>1. PICK y \in Elements, c \in Doings, e \in Places : Parks(t, f, op, y, c, e)
  BY ParkIs
<1>2. /\ There(e) /\ y.sub = At(e).sub /\ y.name = At(e).name /\ y.is = At(e).is
      /\ dents' = Put(dents, e[1], e[2], y) /\ Does(t, c) /\ c.do = "act"
      /\ \A g \in Slots : files'[g] # Free => files[g] # Free /\ files'[g].e = files[g].e /\ files'[g].o = files[g].o
  BY <1>1 DEF Parks
<1>3. OnWay(c)'
  BY <1>2 DEF OnWay
<1> QED BY <1>2, <1>3, SurePut DEF Park

LEMMA ActSure ==
  ASSUME InPlace, Grows, Sure, NEW t \in Threads, Act(t)
  PROVE  Sure'
<1>1. CASE UNCHANGED <<dents, files, pc>>
  BY <1>1, SureSame DEF Act
<1>2. CASE ~UNCHANGED <<dents, files, pc>>
  <2>1. PICK y \in Elements, c \in Doings, e \in Places, x \in Opened, f \in Slots : Acts(t, y, c, e, x, f)
    BY <1>2, ActIs
  <2>2. /\ files[f] # Free /\ e = files[f].e /\ There(e) /\ y.sub = At(e).sub /\ y.name = At(e).name /\ y.is = At(e).is
        /\ dents' = Put(dents, e[1], e[2], y) /\ Does(t, c) /\ c.do = "unpark"
        /\ x.e = e /\ x.o = files[f].o /\ files' = [files EXCEPT ![f] = x]
    BY <2>1 DEF Acts
  <2>3. \A g \in Slots : files'[g] # Free => files[g] # Free /\ files'[g].e = files[g].e /\ files'[g].o = files[g].o
    BY <2>2 DEF InPlace, FilesOK
  <2>4. OnWay(c)'
    BY <2>2 DEF OnWay
  <2> QED BY <2>2, <2>3, <2>4, SurePut DEF Act
<1> QED BY <1>1, <1>2

LEMMA UnparkSure ==
  ASSUME InPlace, Grows, Sure, NEW t \in Threads, Unpark(t)
  PROVE  Sure'
<1>1. PICK x \in Opened, f \in Slots :
           /\ pc[t] \in Doings /\ DoingOK(pc[t]) /\ pc[t].do = "unpark" /\ f = pc[t].f
           /\ files[f] \in Opened /\ There(files[f].e)
           /\ x.e = files[f].e /\ x.o = files[f].o /\ x.own = files[f].own /\ x.mixed = files[f].mixed
           /\ x.pos = At(files[f].e).seek
           /\ files' = [files EXCEPT ![f] = x] /\ Does(t, Idle)
  BY UnparkIs
<1>2. \A g \in Slots : files'[g] # Free => files[g] # Free /\ files'[g].e = files[g].e /\ files'[g].o = files[g].o
  BY <1>1, FileIs DEF InPlace, FilesOK
<1> QED BY <1>1, <1>2, SureFiles DEF Unpark

LEMMA AskSure ==
  ASSUME InPlace, Sure, NEW t \in Threads, Ask(t)
  PROVE  Sure'
<1>1. PICK c \in Doings : Reading(t, c) /\ c.got = "place"
  BY AskIs
<1>2. OnWay(pc[t])
  BY <1>1, WalkIs, DoingIs DEF Reading
<1>3. OnWay(c)
  BY <1>1, <1>2 DEF OnWay, Reading
<1> QED BY <1>1, <1>3, SureMoves DEF Reading, Ask

LEMMA FetchSure ==
  ASSUME InPlace, Grows, Sure, NEW t \in Threads, Fetch(t), ~astray'
  PROVE  Sure'
<1>1. PICK d, k : \E y \in Elements : \E c \in Doings :
           /\ d \in DOMAIN dents /\ k \in DOMAIN dents[d].elems
           /\ Reading(t, c) /\ c.from = pc[t].from
           /\ pc[t].e = <<d, k>> /\ At(pc[t].e) = dents[d].elems[k]
           /\ y.sub = dents[d].elems[k].sub /\ y.name = dents[d].elems[k].name
           /\ y.is = dents[d].elems[k].is /\ dents' = Put(dents, d, k, y)
  BY FetchIs
<1>2. PICK y \in Elements : \E c \in Doings :
           /\ d \in DOMAIN dents /\ k \in DOMAIN dents[d].elems
           /\ Reading(t, c) /\ c.from = pc[t].from
           /\ pc[t].e = <<d, k>> /\ At(pc[t].e) = dents[d].elems[k]
           /\ y.sub = dents[d].elems[k].sub /\ y.name = dents[d].elems[k].name
           /\ y.is = dents[d].elems[k].is /\ dents' = Put(dents, d, k, y)
  BY <1>1
<1>3. PICK c \in Doings : Reading(t, c) /\ c.from = pc[t].from
  BY <1>2
<1>4. PICK x, q : x = pc[t] /\ q = pc[t].e
  OBVIOUS
<1>5. /\ x \in Doings /\ DoingOK(x) /\ x.do = "load" /\ OnWay(x) /\ x.from = 0 /\ x.e = q
      /\ UNCHANGED <<disc, files>>
  BY <1>3, <1>4, DoingIs DEF Sure, Track, Fetch, Reading
<1>6. DiscStays
  BY <1>5, SameDisc DEF Sure
<1>7. OnWay(x)'
  BY <1>5, <1>6, WayStays
<1>8. OnWay(c)'
  BY <1>3, <1>4, <1>5, <1>7 DEF OnWay, Reading
<1>9. q \in Places /\ There(q) /\ q[1] = d /\ q[2] = k /\ At(q) = dents[d].elems[k]
  BY <1>2, <1>4, <1>5, DoingIs DEF DoingOK
<1> QED BY <1>2, <1>3, <1>5, <1>8, <1>9, SurePut DEF Reading

LEMMA GarbledSure ==
  ASSUME InPlace, Sure, NEW t \in Threads
  PROVE  ~Garbled(t)
<1>1. SUFFICES ASSUME Garbled(t) PROVE FALSE
  OBVIOUS
<1>2. pc[t] # Idle /\ pc[t].do = "load" /\ pc[t].got = "bytes" /\ pc[t].from # 0
  BY <1>1 DEF Garbled, Doing
<1> QED BY <1>2, WalkIs DEF OnWay

LEMMA NextSure ==
  ASSUME InPlace, Sure, [VfsNext]_vfsVars, ~astray'
  PROVE  Sure'
<1>0. Grows
  BY NextInPlace
<1>1. CASE UNCHANGED vfsVars
  BY <1>1, SureSame DEF vfsVars
<1>2. ASSUME NEW t \in Threads, NEW f \in Slots, CloseLoad(t, f) \/ \E op \in Ops : Park(t, f, op)
      PROVE  Sure'
  BY <1>0, <1>2, CloseLoadSure, ParkSure
<1>3. ASSUME NEW t \in Threads, OpenLoad(t) \/ OpenStore(t) \/ CloseStore(t) \/ Act(t) \/ Unpark(t) \/ Fail(t)
      PROVE  Sure'
  BY <1>0, <1>3, OpenLoadSure, OpenStoreSure, CloseStoreSure, ActSure, UnparkSure, FailSure
<1>4. ASSUME NEW t \in Threads, Begin(t) \/ WalkEnd(t) \/ WalkDots(t) \/ WalkMissing(t) \/ WalkFile(t) \/ WalkDir(t)
      PROVE  Sure'
  BY <1>4, BeginSure, WalkEndSure, WalkDotsSure, WalkMissingSure, WalkFileSure, WalkDirSure
<1>5. ASSUME NEW t \in Threads, Copy(t) \/ Link(t) \/ Load(t) \/ Loaded(t) \/ Create(t)
      PROVE  Sure'
  BY <1>0, <1>5, CopySure, LinkSure, LoadSure, LoadedSure, CreateSure
<1>6. ASSUME NEW t \in Threads, Ask(t) \/ Fetch(t) \/ Garbled(t)
      PROVE  Sure'
  BY <1>0, <1>6, AskSure, FetchSure, GarbledSure
<1> QED BY <1>1, <1>2, <1>3, <1>4, <1>5, <1>6 DEF VfsNext

LEMMA InitSure ==
  ASSUME VfsInit
  PROVE  Sure /\ Single /\ FailsRight
<1>1. /\ DentsOK /\ Len(dents) = Len(Booted) /\ disc = Disc
      /\ \A t \in Threads : pc[t] = Idle
      /\ \A f \in Slots : files[f] = Free
  BY InitDents DEF VfsInit
<1>2. Booted \in Seq(Dirs) /\ Booted[1] = Root /\ DOMAIN dents = DOMAIN Booted /\ 1 \in DOMAIN dents
  BY <1>1, VfsAssumption DEF DentsOK
<1>3. ASSUME NEW d \in DOMAIN dents
      PROVE  /\ dents[d].dir = Booted[d] /\ dents[d].set /\ Booted[d] \in BootDirs /\ Booted[d] \in Dirs
             /\ dents[d].up = (IF Kind[Booted[d]] = "null" THEN 1 ELSE d)
             /\ Len(dents[d].elems) = Len(Disc[Booted[d]]) /\ DOMAIN dents[d].elems = DOMAIN Disc[Booted[d]]
  <2>1. Disc[Booted[d]] \in Seq(Entries) /\ Booted[d] \in Dirs
    BY <1>2, VfsAssumption
  <2>2. DOMAIN dents[d].elems = DOMAIN Disc[Booted[d]]
    BY <1>1, <2>1, InitDents, DentIs
  <2> QED BY <1>2, <2>1, <2>2, InitDents DEF BootDirs
<1>4. ASSUME NEW d \in DOMAIN dents, NEW i \in DOMAIN dents[d].elems
      PROVE  /\ dents[d].elems[i].name = Disc[Booted[d]][i].name
             /\ dents[d].elems[i].is = Disc[Booted[d]][i].is
             /\ dents[d].elems[i].sub = BootIndex(Disc[Booted[d]][i].is)
  <2>1. dents[d].elems[i] = Elem(Disc[Booted[d]][i], BootIndex(Disc[Booted[d]][i].is))
    BY InitDents
  <2>2. Disc[Booted[d]][i] \in Entries
    BY <1>3, DiscIs, EntryIs
  <2>3. BootIndex(Disc[Booted[d]][i].is) \in Nat
    BY <1>2, BootIs
  <2> QED BY <2>1, <2>2, <2>3, ElemIs
<1>5. ASSUME NEW d \in DOMAIN dents, NEW i \in DOMAIN dents[d].elems
      PROVE  ElemOK(d, i)
  <2>1. \E j \in DOMAIN disc[dents[d].dir] :
          disc[dents[d].dir][j].name = dents[d].elems[i].name /\ disc[dents[d].dir][j].is = dents[d].elems[i].is
    BY <1>1, <1>3, <1>4
  <2>2. PICK x, z : x = Disc[Booted[d]][i].is /\ z = BootIndex(x)
    OBVIOUS
  <2>3. /\ z \in {0} \cup DOMAIN Booted /\ (x \in BootDirs => z # 0 /\ Booted[z] = x)
        /\ (z # 0 => Booted[z] = x)
    BY <2>2, BootIs
  <2>4. z # 0 => x # NoDir /\ dents[z].dir = x
    BY <1>2, <1>3, <2>3, VfsAssumption
  <2> QED BY <1>4, <2>1, <2>2, <2>3, <2>4 DEF ElemOK
<1>6. ASSUME NEW d \in DOMAIN dents PROVE dents[dents[d].up].dir = Above(Disc, dents[d].dir)
  BY <1>2, <1>3 DEF Above
<1>7. Agree
  BY <1>2, <1>3, <1>5, <1>6 DEF Agree
<1>8. FromDisc(disc) /\ Track
  BY <1>1, DiscIs DEF Track
<1>9. ASSUME NEW d \in DOMAIN dents PROVE AsOnDisc(d) /\ Reached(d)
  <2>1. ASSUME NEW i \in DOMAIN dents[d].elems, dents[d].elems[i].sub = 0, NEW c \in DOMAIN dents
        PROVE  dents[c].dir # dents[d].elems[i].is
    BY <1>3, <1>4, <2>1, BootIs
  <2>2. Disc[Booted[d]] \in Seq(Entries)
    BY <1>3, VfsAssumption
  <2> QED BY <1>1, <1>3, <1>4, <2>1, <2>2 DEF AsOnDisc, Reached
<1>10. \A d, c \in DOMAIN dents : dents[d].dir = dents[c].dir => d = c
  BY <1>2, <1>3, VfsAssumption
<1>11. Distinct(disc)
  BY <1>1, VfsAssumption DEF Distinct
<1>12. Single
  BY <1>1, <1>9, <1>10, <1>11 DEF Single, OneFills, Filler
<1> QED BY <1>1, <1>7, <1>8, <1>12 DEF Sure, FailsRight

(***************************************************************************)
(* As long as lookups have not crossed, a directory has one dentry.        *)
(***************************************************************************)
SubsKept ==
  \A d \in DOMAIN dents : \A i \in DOMAIN dents[d].elems :
    dents[d].elems[i].sub # 0 => dents'[d].elems[i].sub = dents[d].elems[i].sub

Others(t) == \A u \in Threads \ {t} : pc'[u] = pc[u]

LEMMA FillerIs ==
  ASSUME InPlace, NEW t \in Threads, NEW d, Filler(t, d)
  PROVE  /\ pc[t] # Idle /\ pc[t] \in Doings /\ DoingOK(pc[t]) /\ d \in DOMAIN dents
         /\ pc[t].do = "link" => At(pc[t].e).sub = d /\ There(pc[t].e) /\ d # 0
         /\ pc[t].do = "load" => pc[t].into = d
         /\ pc[t].do \in {"link", "load"}
<1>1. pc[t] # Idle /\ pc[t] \in Doings /\ DoingOK(pc[t]) /\ pc[t].do \in {"link", "load"}
  BY Now DEF Filler
<1>2. pc[t].do = "link" => At(pc[t].e).sub = d /\ There(pc[t].e) /\ d # 0
  BY <1>1 DEF Filler, DoingOK
<1>3. pc[t].do = "load" => pc[t].into = d /\ d \in DOMAIN dents
  BY <1>1 DEF Filler, DoingOK
<1>4. pc[t].do = "link" => d \in DOMAIN dents
  BY <1>2, AtIs DEF InPlace
<1> QED BY <1>1, <1>2, <1>3, <1>4

LEMMA FillerKept ==
  ASSUME InPlace, Grows, SubsKept, NEW u \in Threads, pc'[u] = pc[u], NEW d
  PROVE  Filler(u, d)' <=> Filler(u, d)
<1>1. CASE pc[u] # Idle /\ pc[u].do = "link"
  <2>1. There(pc[u].e) /\ At(pc[u].e).sub # 0
    BY <1>1, Now DEF DoingOK
  <2>2. At(pc[u].e)'.sub = At(pc[u].e).sub
    BY <2>1 DEF SubsKept, There, At
  <2> QED BY <1>1, <2>2 DEF Filler
<1>2. CASE ~(pc[u] # Idle /\ pc[u].do = "link")
  BY <1>2 DEF Filler
<1> QED BY <1>1, <1>2

LEMMA ReachedKept ==
  ASSUME Grows, NEW d \in DOMAIN dents, Reached(d)
  PROVE  Reached(d)'
BY DEF Reached, Grows

(* Whole only becomes what was set and is not filled. *)
LEMMA WholeWas ==
  ASSUME InPlace, Grows, SubsKept, NEW t \in Threads, Others(t), NEW d \in DOMAIN dents,
         Whole(d)', dents[d].set, ~Filler(t, d)
  PROVE  Whole(d)
<1>1. ASSUME NEW u \in Threads PROVE ~Filler(u, d)
  <2>1. CASE u # t
    BY <2>1, FillerKept DEF Others, Whole
  <2> QED BY <2>1
<1> QED BY <1>1 DEF Whole

LEMMA AsOnDiscKept ==
  ASSUME NEW d \in DOMAIN dents, AsOnDisc(d), Grows, dents'[d].set = dents[d].set,
         disc'[dents[d].dir] = disc[dents[d].dir],
         Len(dents'[d].elems) = Len(dents[d].elems), DOMAIN dents'[d].elems = DOMAIN dents[d].elems,
         \A i \in DOMAIN dents[d].elems :
           dents[d].elems[i].is # NoDir /\ dents'[d].elems[i].sub = 0 =>
             /\ dents[d].elems[i].sub = 0
             /\ \A c \in DOMAIN dents' : dents'[c].dir = dents[d].elems[i].is => c \in DOMAIN dents,
         Whole(d)' => Whole(d) \/ Len(dents[d].elems) = Len(disc[dents[d].dir])
  PROVE  AsOnDisc(d)'
<1>1. dents'[d].dir = dents[d].dir
  BY DEF Grows
<1>2. Len(dents'[d].elems) <= Len(disc'[dents'[d].dir])
  BY <1>1 DEF AsOnDisc
<1>3. Whole(d)' => Len(dents'[d].elems) = Len(disc'[dents'[d].dir])
  BY <1>1 DEF AsOnDisc
<1>4. ASSUME NEW i \in DOMAIN dents'[d].elems
      PROVE  /\ dents'[d].elems[i].name = disc'[dents'[d].dir][i].name
             /\ dents'[d].elems[i].is = disc'[dents'[d].dir][i].is
             /\ dents'[d].elems[i].is # NoDir /\ dents'[d].elems[i].sub = 0 =>
                  \A c \in DOMAIN dents' : dents'[c].dir # dents'[d].elems[i].is
  <2>1. /\ i \in DOMAIN dents[d].elems /\ dents'[d].elems[i].name = dents[d].elems[i].name
        /\ dents'[d].elems[i].is = dents[d].elems[i].is
    BY DEF Grows
  <2>2. \A c \in DOMAIN dents : dents'[c].dir = dents[c].dir
    BY DEF Grows
  <2> QED BY <1>1, <2>1, <2>2 DEF AsOnDisc
<1>5. ~dents'[d].set => Len(dents'[d].elems) = 0
  BY DEF AsOnDisc
<1> QED BY <1>2, <1>3, <1>4, <1>5 DEF AsOnDisc

(* What a step must do to keep all this *)
LEMMA SingleStep ==
  ASSUME InPlace, DentsOK', Single, Grows, SubsKept, NEW t \in Threads, Others(t),
         Distinct(disc'), \A d, c \in DOMAIN dents' : dents'[d].dir = dents'[c].dir => d = c,
         \A d \in DOMAIN dents' : AsOnDisc(d)' /\ Reached(d)',
         pc'[t] # Idle => FillOK(pc[t])',
         \A u \in Threads \ {t} : \A d : Filler(u, d) =>
           dents'[d].set = dents[d].set /\ Len(dents'[d].elems) = Len(dents[d].elems) /\ ~Filler(t, d)',
         \A d \in DOMAIN dents :
           Len(dents[d].elems) <= Len(dents'[d].elems) /\ (Whole(d) => dents'[d].set /\ ~Filler(t, d)')
  PROVE  Single'
<1>1. ASSUME NEW u \in Threads \ {t}, pc[u] # Idle PROVE FillOK(pc[u])'
  <2>1. PICK c : c = pc[u]
    OBVIOUS
  <2>2. c \in Doings /\ DoingOK(c) /\ FillOK(c) /\ pc'[u] = c
    BY <1>1, <2>1, Now DEF Single, Others
  <2>3. c.do = "link" => ~dents'[At(c.e)'.sub].set
    <3>1. ASSUME c.do = "link" PROVE ~dents'[At(c.e)'.sub].set
      <4>1. There(c.e) /\ At(c.e).sub # 0
        BY <2>2, <3>1 DEF DoingOK
      <4>2. At(c.e)'.sub = At(c.e).sub
        BY <4>1 DEF SubsKept, There, At
      <4>3. Filler(u, At(c.e).sub)
        BY <1>1, <2>1, <3>1 DEF Filler
      <4> QED BY <2>2, <3>1, <4>2, <4>3 DEF FillOK
    <3> QED BY <3>1
  <2>4. c.do = "load" =>
          dents'[c.into].set /\ c.into = At(c.e)'.sub /\ c.k = Len(dents'[c.into].elems)
    <3>1. ASSUME c.do = "load"
          PROVE  dents'[c.into].set /\ c.into = At(c.e)'.sub /\ c.k = Len(dents'[c.into].elems)
      <4>1. There(c.e) /\ At(c.e).sub # 0
        BY <2>2, <3>1 DEF DoingOK
      <4>2. At(c.e)'.sub = At(c.e).sub
        BY <4>1 DEF SubsKept, There, At
      <4>3. Filler(u, c.into)
        BY <1>1, <2>1, <3>1 DEF Filler
      <4> QED BY <2>2, <3>1, <4>2, <4>3 DEF FillOK
    <3> QED BY <3>1
  <2>5. c.do = "create" =>
          /\ Whole(c.d)' /\ c.seen <= Len(dents'[c.d].elems)
          /\ \A i \in 1 .. c.seen : dents'[c.d].elems[i].name # c.name
    <3>1. ASSUME c.do = "create"
          PROVE  /\ Whole(c.d)' /\ c.seen <= Len(dents'[c.d].elems)
                 /\ \A i \in 1 .. c.seen : dents'[c.d].elems[i].name # c.name
      <4>1. c.d \in DOMAIN dents /\ c.seen \in Nat /\ Whole(c.d) /\ c.seen <= Len(dents[c.d].elems)
        BY <2>2, <3>1, DoingIs DEF DoingOK, FillOK
      <4>2. \A i \in 1 .. c.seen : i \in DOMAIN dents[c.d].elems /\ dents[c.d].elems[i].name # c.name
        BY <2>2, <3>1, <4>1, DentIs DEF FillOK, InPlace
      <4>3. \A i \in 1 .. c.seen : dents'[c.d].elems[i].name # c.name
        BY <4>1, <4>2 DEF Grows
      <4>4. Len(dents[c.d].elems) \in Nat /\ Len(dents[c.d].elems) <= Len(dents'[c.d].elems)
        BY <4>1, DentIs DEF InPlace
      <4>5. c.seen <= Len(dents'[c.d].elems)
        <5>1. c.d \in DOMAIN dents' /\ dents' \in Seq(Dentries)
          BY <4>1 DEF Grows, DentsOK
        <5>2. dents'[c.d] \in Dentries
          BY <5>1
        <5>3. dents'[c.d].elems \in Seq(Elements)
          BY <5>2 DEF Dentries
        <5>4. Len(dents'[c.d].elems) \in Nat
          BY <5>3
        <5> QED BY <4>1, <4>4, <5>4
      <4>6. ASSUME NEW v \in Threads PROVE ~Filler(v, c.d)'
        <5>1. CASE v = t
          BY <4>1, <5>1
        <5>2. CASE v # t
          BY <4>1, <5>2, FillerKept DEF Others, Whole
        <5> QED BY <5>1, <5>2
      <4> QED BY <4>1, <4>3, <4>5, <4>6 DEF Whole
    <3> QED BY <3>1
  <2>6. FillOK(c)'
    BY <2>3, <2>4, <2>5 DEF FillOK
  <2> QED BY <2>1, <2>2, <2>6
<1>2. ASSUME NEW u \in Threads, NEW v \in Threads, NEW d, Filler(u, d)', Filler(v, d)' PROVE u = v
  <2>1. \A w \in Threads \ {t} : Filler(w, d)' => Filler(w, d)
    BY FillerKept DEF Others
  <2>2. CASE u # t /\ v # t
    BY <1>2, <2>1, <2>2, FillerIs DEF Single, OneFills
  <2> QED BY <1>2, <2>1, <2>2
<1>3. \A u \in Threads : pc'[u] # Idle => FillOK(pc[u])'
  <2> TAKE u \in Threads
  <2>1. CASE u = t
    BY <2>1
  <2>2. CASE u # t
    BY <1>1, <2>2 DEF Others
  <2> QED BY <2>1, <2>2
<1> QED BY <1>2, <1>3 DEF Single, OneFills

(* A step that changes no entry, no dentry's state and no name *)
MarksSame ==
  /\ disc' = disc /\ DOMAIN dents' = DOMAIN dents
  /\ \A d \in DOMAIN dents :
       /\ dents'[d].dir = dents[d].dir /\ dents'[d].set = dents[d].set
       /\ Len(dents'[d].elems) = Len(dents[d].elems) /\ DOMAIN dents'[d].elems = DOMAIN dents[d].elems
       /\ \A i \in DOMAIN dents[d].elems :
            /\ dents'[d].elems[i].name = dents[d].elems[i].name
            /\ dents'[d].elems[i].is = dents[d].elems[i].is
            /\ dents'[d].elems[i].sub = dents[d].elems[i].sub

LEMMA SingleQuiet ==
  ASSUME InPlace, DentsOK', Single, Grows, MarksSame, NEW t \in Threads, Others(t),
         pc'[t] # Idle => FillOK(pc[t])',
         \A d \in DOMAIN dents :
           /\ Filler(t, d)' => Filler(t, d)
           /\ Filler(t, d) /\ ~Filler(t, d)' => Len(dents[d].elems) = Len(disc[dents[d].dir])
  PROVE  Single'
<1>1. SubsKept
  BY DEF SubsKept, MarksSame
<1>2. Distinct(disc') /\ \A d, c \in DOMAIN dents' : dents'[d].dir = dents'[c].dir => d = c
  BY DEF MarksSame, Single
<1>3. ASSUME NEW d \in DOMAIN dents PROVE AsOnDisc(d)' /\ Reached(d)'
  <2>1. AsOnDisc(d) /\ Reached(d)
    BY DEF Single
  <2>2. Whole(d)' => Whole(d) \/ Len(dents[d].elems) = Len(disc[dents[d].dir])
    <3>1. Whole(d)' => dents[d].set /\ ~Filler(t, d)'
      BY DEF Whole, MarksSame
    <3> QED BY <1>1, <3>1, WholeWas
  <2>3. AsOnDisc(d)'
    BY <2>1, <2>2, AsOnDiscKept DEF MarksSame
  <2> QED BY <2>1, <2>3, ReachedKept
<1>4. ASSUME NEW u \in Threads \ {t}, NEW d, Filler(u, d)
      PROVE  dents'[d].set = dents[d].set /\ Len(dents'[d].elems) = Len(dents[d].elems) /\ ~Filler(t, d)'
  <2>1. d \in DOMAIN dents
    BY <1>4, FillerIs
  <2> QED BY <1>4, <2>1 DEF MarksSame, Single, OneFills
<1>5. ASSUME NEW d \in DOMAIN dents
      PROVE  Len(dents[d].elems) <= Len(dents'[d].elems) /\ (Whole(d) => dents'[d].set /\ ~Filler(t, d)')
  BY DentIs DEF MarksSame, Whole, InPlace
<1>6. \A d \in DOMAIN dents' : AsOnDisc(d)' /\ Reached(d)'
  BY <1>3 DEF MarksSame
<1> QED BY <1>1, <1>2, <1>4, <1>5, <1>6, SingleStep

LEMMA SinglePlain ==
  ASSUME InPlace, DentsOK', Single, Grows, MarksSame, NEW t \in Threads, NEW c, Does(t, c),
         pc[t] = Idle \/ pc[t].do \notin {"link", "load"},
         c = Idle \/ c.do \notin {"link", "load", "create"}
  PROVE  Single'
<1>1. pc'[t] = c /\ Others(t)
  BY DEF Does, InPlace, PcOK, Others
<1>2. pc'[t] # Idle => FillOK(pc[t])'
  BY <1>1 DEF FillOK
<1>3. \A d : ~Filler(t, d) /\ ~Filler(t, d)'
  BY <1>1 DEF Filler
<1> QED BY <1>1, <1>2, <1>3, SingleQuiet

LEMMA SingleSame ==
  ASSUME InPlace, UNCHANGED <<disc, dents>>
  PROVE  DentsOK' /\ Grows /\ MarksSame
BY DEF InPlace, DentsOK, Grows, MarksSame

LEMMA SingleMoves ==
  ASSUME InPlace, UNCHANGED <<disc, dents>>, Single, NEW t \in Threads, NEW c, Does(t, c),
         pc[t] = Idle \/ pc[t].do \notin {"link", "load"},
         c = Idle \/ c.do \notin {"link", "load", "create"}
  PROVE  Single'
BY SingleSame, SinglePlain

LEMMA SingleStops ==
  ASSUME InPlace, UNCHANGED <<disc, dents>>, Single, NEW t \in Threads,
         NEW why \in Reasons, Stop(t, why),
         pc[t].do \notin {"link", "load"}
  PROVE  Single'
<1>1. PICK c \in Doings : Does(t, c) /\ c.do = "failed"
  BY StopIs DEF InPlace, PcOK
<1> QED BY <1>1, SingleMoves

LEMMA SingleDeeper ==
  ASSUME InPlace, UNCHANGED <<disc, dents>>, Single, NEW t \in Threads, NEW d, Deeper(t, d),
         pc[t].do \notin {"link", "load"}
  PROVE  Single'
<1>1. PICK c : c = [do |-> "walk", o |-> pc[t].o, rest |-> Tail(pc[t].rest), d |-> d]
  OBVIOUS
<1>2. Does(t, c) /\ c.do = "walk"
  BY <1>1 DEF Deeper, Does
<1> QED BY <1>2, SingleMoves

LEMMA PutMarks ==
  ASSUME InPlace, UNCHANGED disc, NEW e \in Places, There(e), NEW y \in Elements,
         y.sub = At(e).sub, y.name = At(e).name, y.is = At(e).is, dents' = Put(dents, e[1], e[2], y)
  PROVE  DentsOK' /\ Grows /\ MarksSame
<1>1. /\ DentsOK' /\ Grows /\ DOMAIN dents' = DOMAIN dents
      /\ \A c \in DOMAIN dents :
           /\ dents'[c].set = dents[c].set /\ dents'[c].dir = dents[c].dir
           /\ DOMAIN dents'[c].elems = DOMAIN dents[c].elems
           /\ \A i \in DOMAIN dents[c].elems : dents'[c].elems[i] = IF <<c, i>> = e THEN y ELSE dents[c].elems[i]
  BY PutElem DEF InPlace
<1>2. ASSUME NEW c \in DOMAIN dents PROVE Len(dents'[c].elems) = Len(dents[c].elems)
  <2>1. dents'[c] \in Dentries
    BY <1>1 DEF DentsOK
  <2>2. PICK s \in Seq(Elements) : s = dents'[c].elems
    BY <2>1 DEF Dentries
  <2>3. PICK r \in Seq(Elements) : r = dents[c].elems
    BY DentIs DEF InPlace
  <2>4. DOMAIN s = DOMAIN r
    BY <1>1, <2>2, <2>3
  <2>5. Len(s) = Len(r)
    BY <2>4
  <2> QED BY <2>2, <2>3, <2>5
<1>3. \A c \in DOMAIN dents : \A i \in DOMAIN dents[c].elems : dents[c].elems[i] = At(<<c, i>>)
  BY DEF At
<1>4. ASSUME NEW c \in DOMAIN dents, NEW i \in DOMAIN dents[c].elems
      PROVE  /\ dents'[c].elems[i].name = dents[c].elems[i].name
             /\ dents'[c].elems[i].is = dents[c].elems[i].is
             /\ dents'[c].elems[i].sub = dents[c].elems[i].sub
  BY <1>1, <1>3
<1> QED BY <1>1, <1>2, <1>4 DEF MarksSame

LEMMA WalkSingle ==
  ASSUME InPlace, Single, NEW t \in Threads,
         Begin(t) \/ WalkEnd(t) \/ WalkDots(t) \/ WalkFile(t) \/ WalkDir(t) \/ Fail(t)
  PROVE  Single'
<1>1. CASE Begin(t)
  <2>1. PICK o, c : c = [do |-> "walk", o |-> o, rest |-> o.path, d |-> 1] /\ pc' = [pc EXCEPT ![t] = c]
    BY <1>1 DEF Begin
  <2>2. Does(t, c) /\ c.do = "walk" /\ pc[t] = Idle /\ UNCHANGED <<disc, dents>>
    BY <1>1, <2>1 DEF Begin, Call, Does
  <2> QED BY <2>2, SingleMoves
<1>2. CASE WalkEnd(t)
  <2>1. pc[t].do = "walk" /\ UNCHANGED <<disc, dents>>
    BY <1>2 DEF WalkEnd, Doing
  <2>2. CASE pc' = [pc EXCEPT ![t] = [do |-> "listed", o |-> @.o, d |-> @.d]]
    <3>1. PICK c : c = [do |-> "listed", o |-> pc[t].o, d |-> pc[t].d]
      OBVIOUS
    <3>2. Does(t, c) /\ c.do = "listed"
      BY <2>2, <3>1 DEF Does
    <3> QED BY <2>1, <3>2, SingleMoves
  <2>3. CASE Stop(t, "not a file")
    BY <2>1, <2>3, SingleStops DEF Reasons
  <2> QED BY <1>2, <2>2, <2>3 DEF WalkEnd
<1>3. CASE WalkDots(t)
  BY <1>3, SingleDeeper DEF WalkDots, Reads, Doing
<1>4. CASE WalkFile(t)
  <2>1. pc[t].do = "walk" /\ UNCHANGED <<disc, dents>>
    BY <1>4 DEF WalkFile, Reads, Doing
  <2>2. PICK e : \/ pc' = [pc EXCEPT ![t] = [do |-> "opened", o |-> @.o, e |-> e]]
                 \/ Stop(t, "not a directory")
    BY <1>4 DEF WalkFile
  <2>3. CASE pc' = [pc EXCEPT ![t] = [do |-> "opened", o |-> @.o, e |-> e]]
    <3>1. PICK c : c = [do |-> "opened", o |-> pc[t].o, e |-> e]
      OBVIOUS
    <3>2. Does(t, c) /\ c.do = "opened"
      BY <2>3, <3>1 DEF Does
    <3> QED BY <2>1, <3>2, SingleMoves
  <2>4. CASE Stop(t, "not a directory")
    BY <2>1, <2>4, SingleStops DEF Reasons
  <2> QED BY <2>2, <2>3, <2>4
<1>5. CASE WalkDir(t)
  <2>1. pc[t].do = "walk" /\ UNCHANGED <<disc, dents>>
    BY <1>5 DEF WalkDir, Reads, Doing
  <2>2. PICK e : \/ Deeper(t, At(e).sub)
                 \/ pc' = [pc EXCEPT ![t] = [do |-> "copy", o |-> @.o, rest |-> @.rest, d |-> @.d,
                                             e |-> e, seen |-> At(e).sub]]
    BY <1>5 DEF WalkDir
  <2>3. CASE Deeper(t, At(e).sub)
    BY <2>1, <2>3, SingleDeeper
  <2>4. CASE pc' = [pc EXCEPT ![t] = [do |-> "copy", o |-> @.o, rest |-> @.rest, d |-> @.d,
                                      e |-> e, seen |-> At(e).sub]]
    <3>1. PICK c : c = [do |-> "copy", o |-> pc[t].o, rest |-> pc[t].rest, d |-> pc[t].d,
                        e |-> e, seen |-> At(e).sub]
      OBVIOUS
    <3>2. Does(t, c) /\ c.do = "copy"
      BY <2>4, <3>1 DEF Does
    <3> QED BY <2>1, <3>2, SingleMoves
  <2> QED BY <2>2, <2>3, <2>4
<1>6. CASE Fail(t)
  BY <1>6, SingleMoves DEF Fail, Does, Doing
<1> QED BY <1>1, <1>2, <1>3, <1>4, <1>5, <1>6

LEMMA FilesSingle ==
  ASSUME InPlace, Single, NEW t \in Threads,
         \/ OpenLoad(t) \/ OpenStore(t) \/ CloseStore(t) \/ Act(t) \/ Unpark(t)
         \/ \E f \in Slots : CloseLoad(t, f) \/ \E op \in Ops : Park(t, f, op)
  PROVE  Single'
<1>1. CASE OpenLoad(t)
  <2>1. PICK c \in Doings : pc[t].do = "opened" /\ Does(t, c) /\ c.do = "count"
    BY <1>1, OpenLoadIs
  <2> QED BY <1>1, <2>1, SingleMoves DEF OpenLoad
<1>2. CASE OpenStore(t)
  <2>1. PICK y \in Elements, x \in Opened :
           /\ pc[t] \in Doings /\ DoingOK(pc[t]) /\ pc[t].do = "count" /\ Does(t, Idle)
           /\ y.sub = At(pc[t].e).sub /\ y.name = At(pc[t].e).name /\ y.is = At(pc[t].e).is
           /\ dents' = Put(dents, pc[t].e[1], pc[t].e[2], y)
    BY <1>2, OpenStoreIs
  <2>2. pc[t].e \in Places /\ There(pc[t].e) /\ UNCHANGED disc
    BY <1>2, <2>1, DoingIs DEF DoingOK, OpenStore
  <2>3. DentsOK' /\ Grows /\ MarksSame
    BY <2>1, <2>2, PutMarks
  <2> QED BY <2>1, <2>3, SinglePlain
<1>3. CASE CloseStore(t)
  <2>1. PICK y \in Elements :
           /\ pc[t] \in Doings /\ DoingOK(pc[t]) /\ pc[t].do = "drop" /\ Does(t, Idle)
           /\ y.sub = At(pc[t].e).sub /\ y.name = At(pc[t].e).name /\ y.is = At(pc[t].e).is
           /\ dents' = Put(dents, pc[t].e[1], pc[t].e[2], y)
    BY <1>3, CloseStoreIs
  <2>2. pc[t].e \in Places /\ There(pc[t].e) /\ UNCHANGED disc
    BY <1>3, <2>1, DoingIs DEF DoingOK, CloseStore
  <2>3. DentsOK' /\ Grows /\ MarksSame
    BY <2>1, <2>2, PutMarks
  <2> QED BY <2>1, <2>3, SinglePlain
<1>4. CASE Act(t)
  <2>0. pc[t].do = "act" /\ UNCHANGED disc
    BY <1>4, ActIs DEF Act
  <2>1. CASE UNCHANGED <<dents, files, pc>>
    <3>1. PICK c : c = pc[t]
      OBVIOUS
    <3>2. Does(t, c)
      BY <2>1, <3>1 DEF Does, InPlace, PcOK
    <3> QED BY <2>0, <2>1, <3>1, <3>2, SingleMoves
  <2>2. CASE ~UNCHANGED <<dents, files, pc>>
    <3>1. PICK y \in Elements, c \in Doings, e \in Places, x \in Opened, f \in Slots : Acts(t, y, c, e, x, f)
      BY <1>4, <2>2, ActIs
    <3>2. /\ There(e) /\ y.sub = At(e).sub /\ y.name = At(e).name /\ y.is = At(e).is
          /\ dents' = Put(dents, e[1], e[2], y) /\ Does(t, c) /\ c.do = "unpark"
      BY <3>1 DEF Acts
    <3>3. DentsOK' /\ Grows /\ MarksSame
      BY <2>0, <3>2, PutMarks
    <3> QED BY <2>0, <3>2, <3>3, SinglePlain
  <2> QED BY <2>1, <2>2
<1>5. CASE Unpark(t)
  <2>1. pc[t].do = "unpark" /\ Does(t, Idle) /\ UNCHANGED <<disc, dents>>
    BY <1>5 DEF Unpark, Doing, Does
  <2> QED BY <2>1, SingleMoves
<1>6. ASSUME NEW f \in Slots, CloseLoad(t, f) PROVE Single'
  <2>1. PICK c \in Doings : Does(t, c) /\ c.do = "drop"
    BY <1>6, CloseLoadIs
  <2> QED BY <1>6, <2>1, SingleMoves DEF CloseLoad, Call
<1>7. ASSUME NEW f \in Slots, NEW op \in Ops, Park(t, f, op) PROVE Single'
  <2>1. PICK y \in Elements, c \in Doings, e \in Places : Parks(t, f, op, y, c, e)
    BY <1>7, ParkIs
  <2>2. /\ There(e) /\ y.sub = At(e).sub /\ y.name = At(e).name /\ y.is = At(e).is
        /\ dents' = Put(dents, e[1], e[2], y) /\ Does(t, c) /\ c.do = "act"
    BY <2>1 DEF Parks
  <2>3. pc[t] = Idle /\ UNCHANGED disc
    BY <1>7 DEF Park, Call
  <2>4. DentsOK' /\ Grows /\ MarksSame
    BY <2>2, <2>3, PutMarks
  <2> QED BY <2>2, <2>3, <2>4, SinglePlain
<1> QED BY <1>1, <1>2, <1>3, <1>4, <1>5, <1>6, <1>7

LEMMA NotLoading ==
  ASSUME InPlace, Single, ~halted, NEW d \in DOMAIN dents, ~Loading(d)
  PROVE  Whole(d)
<1>1. dents[d].set
  BY DEF Loading
<1>2. ASSUME NEW u \in Threads PROVE ~Filler(u, d)
  BY <1>1 DEF Filler, Single, FillOK, Loading, Doing
<1> QED BY <1>1, <1>2 DEF Whole

LEMMA WalkMissingSingle ==
  ASSUME InPlace, Single, NEW t \in Threads, WalkMissing(t), ~crossed'
  PROVE  Single'
<1>1. PICK n \in Names :
        /\ Reads(t, n) /\ Matches(pc[t].d, n) = {} /\ crossed' = (crossed \/ Loading(pc[t].d))
        /\ UNCHANGED <<disc, dents>>
        /\ \/ pc' = [pc EXCEPT ![t] = [do |-> "create", o |-> @.o, d |-> @.d, name |-> n,
                                       seen |-> Len(dents[@.d].elems)]]
           \/ Stop(t, "missing")
  BY DEF WalkMissing
<1>2. pc[t].do = "walk" /\ pc[t] # Idle /\ ~halted
  BY <1>1 DEF Reads, Doing
<1>3. CASE Stop(t, "missing")
  BY <1>1, <1>2, <1>3, SingleStops DEF Reasons
<1>4. CASE pc' = [pc EXCEPT ![t] = [do |-> "create", o |-> @.o, d |-> @.d, name |-> n,
                                    seen |-> Len(dents[@.d].elems)]]
  <2>1. PICK d \in DOMAIN dents : d = pc[t].d
    BY <1>2, Now DEF DoingOK
  <2>2. PICK c : c = [do |-> "create", o |-> pc[t].o, d |-> d, name |-> n, seen |-> Len(dents[d].elems)]
    OBVIOUS
  <2>3. Does(t, c) /\ c.do = "create" /\ c.d = d /\ c.name = n /\ c.seen = Len(dents[d].elems)
    BY <1>4, <2>1, <2>2 DEF Does
  <2>4. pc'[t] = c /\ Others(t)
    BY <2>3 DEF Does, InPlace, PcOK, Others
  <2>5. Whole(d)
    BY <1>1, <1>2, <2>1, NotLoading
  <2>6. DentsOK' /\ Grows /\ MarksSame
    BY <1>1, SingleSame
  <2>7. \A b : ~Filler(t, b) /\ ~Filler(t, b)'
    BY <1>2, <2>3, <2>4 DEF Filler
  <2>8. Whole(d)'
    <3>1. SubsKept
      BY <1>1 DEF SubsKept
    <3>2. \A u \in Threads : ~Filler(u, d)'
      BY <2>4, <2>5, <2>6, <2>7, <3>1, FillerKept DEF Whole, Others
    <3> QED BY <2>5, <2>6, <3>2 DEF Whole, MarksSame
  <2>9. FillOK(c)'
    <3>1. Len(dents[d].elems) \in Nat /\ DOMAIN dents[d].elems = 1 .. Len(dents[d].elems)
      BY DentIs DEF InPlace
    <3>2. \A i \in 1 .. c.seen : dents[d].elems[i].name # n
      BY <1>1, <2>1, <2>3, <3>1 DEF Matches
    <3> QED BY <1>1, <2>3, <2>8, <3>1, <3>2 DEF FillOK
  <2> QED BY <2>4, <2>6, <2>7, <2>9, SingleQuiet
<1> QED BY <1>1, <1>3, <1>4

LEMMA LoadedSingle ==
  ASSUME InPlace, Sure, Single, NEW t \in Threads, Loaded(t)
  PROVE  Single'
<1>1. /\ pc[t].do = "load" /\ pc[t] # Idle /\ UNCHANGED <<disc, dents>>
      /\ pc' = [pc EXCEPT ![t] = [do |-> "walk", o |-> @.o, rest |-> Tail(@.rest), d |-> At(@.e).sub]]
      /\ pc[t].k >= Len(disc[dents[pc[t].into].dir])
  <2>1. pc[t].do = "load" /\ pc[t].got = "bytes" /\ pc[t] # Idle
    BY DEF Loaded, Doing
  <2>2. Source(pc[t]) = disc[dents[pc[t].into].dir]
    BY <2>1, WalkIs, ReadFromDisc
  <2> QED BY <2>1, <2>2 DEF Loaded
<1>2. pc'[t].do = "walk" /\ Others(t)
  BY <1>1 DEF InPlace, PcOK, Others
<1>3. PICK d \in DOMAIN dents : d = pc[t].into
  BY <1>1, Now DEF DoingOK
<1>4. pc[t].k = Len(dents[d].elems)
  BY <1>1, <1>3 DEF Single, FillOK
<1>5. disc[dents[d].dir] \in Seq(Entries)
  BY DentIs DEF InPlace, Sure, FromDisc
<1>6. Len(dents[d].elems) = Len(disc[dents[d].dir])
  <2>1. Len(dents[d].elems) <= Len(disc[dents[d].dir])
    BY DEF Single, AsOnDisc
  <2>2. Len(dents[d].elems) \in Nat /\ Len(disc[dents[d].dir]) \in Nat
    BY <1>5, DentIs DEF InPlace
  <2> QED BY <1>1, <1>3, <1>4, <2>1, <2>2
<1>7. DentsOK' /\ Grows /\ MarksSame
  BY <1>1, SingleSame
<1>8. \A b : ~Filler(t, b)' /\ (Filler(t, b) => b = d)
  BY <1>1, <1>2, <1>3 DEF Filler
<1>9. FillOK(pc[t])'
  BY <1>2 DEF FillOK
<1> QED BY <1>2, <1>6, <1>7, <1>8, <1>9, SingleQuiet

LEMMA LinkSingle ==
  ASSUME InPlace, Single, NEW t \in Threads, Link(t), ~crossed'
  PROVE  Single'
<1>1. PICK d \in DOMAIN dents : \E c \in Doings :
           /\ pc[t] \in Doings /\ DoingOK(pc[t]) /\ pc[t].do = "link" /\ d = At(pc[t].e).sub
           /\ dents' = [dents EXCEPT ![d].set = TRUE]
           /\ Does(t, c) /\ c.do = "load" /\ c.e = pc[t].e /\ c.into = d /\ c.k = 0
  BY LinkIs
<1>2. PICK c \in Doings : Does(t, c) /\ c.do = "load" /\ c.e = pc[t].e /\ c.into = d /\ c.k = 0
  BY <1>1
<1>3. pc'[t] = c /\ Others(t)
  BY <1>2 DEF Does, InPlace, PcOK, Others
<1>4. /\ DentsOK' /\ Grows /\ DOMAIN dents' = DOMAIN dents /\ dents'[d].set
      /\ \A b \in DOMAIN dents :
           /\ dents'[b].dir = dents[b].dir /\ dents'[b].elems = dents[b].elems
           /\ b # d => dents'[b].set = dents[b].set
  BY <1>1, FlagSet DEF InPlace
<1>5. SubsKept
  BY <1>4 DEF SubsKept
<1>6. pc[t] # Idle /\ ~halted /\ UNCHANGED disc
  BY DEF Link, Doing
<1>7. Filler(t, d) /\ (\A b : Filler(t, b) => b = d) /\ (\A b : Filler(t, b)' => b = d)
  BY <1>1, <1>2, <1>3, <1>6 DEF Filler
<1>8. ~dents[d].set /\ Len(dents[d].elems) = 0
  BY <1>1, <1>6 DEF Single, FillOK, AsOnDisc
<1>9. ASSUME NEW u \in Threads \ {t}, NEW b, Filler(u, b)
      PROVE  dents'[b].set = dents[b].set /\ Len(dents'[b].elems) = Len(dents[b].elems) /\ ~Filler(t, b)'
  <2>1. b \in DOMAIN dents
    BY <1>9, FillerIs
  <2>2. b # d
    BY <1>7, <1>9, <2>1 DEF Single, OneFills
  <2> QED BY <1>4, <1>7, <2>1, <2>2
<1>10. ASSUME NEW b \in DOMAIN dents
       PROVE  Len(dents[b].elems) <= Len(dents'[b].elems) /\ (Whole(b) => dents'[b].set /\ ~Filler(t, b)')
  <2>1. Len(dents[b].elems) <= Len(dents'[b].elems)
    BY <1>4, DentIs DEF InPlace
  <2>2. CASE b = d
    <3>1. ~Whole(b)
      BY <1>8, <2>2 DEF Whole
    <3> QED BY <2>1, <3>1
  <2>3. CASE b # d
    <3>1. dents'[b].set = dents[b].set
      BY <1>4, <2>3
    <3>2. ~Filler(t, b)'
      BY <1>7, <2>3
    <3> QED BY <2>1, <3>1, <3>2 DEF Whole
  <2> QED BY <2>2, <2>3
<1>11. FillOK(c)'
  <2>1. There(c.e) /\ At(c.e).sub = d /\ d # 0
    BY <1>1, <1>2 DEF DoingOK
  <2>2. At(c.e)'.sub = d
    BY <1>5, <2>1 DEF SubsKept, There, At
  <2> QED BY <1>2, <1>4, <1>8, <2>2 DEF FillOK
<1>12. ASSUME NEW b \in DOMAIN dents PROVE AsOnDisc(b)' /\ Reached(b)'
  <2>1. AsOnDisc(b) /\ Reached(b)
    BY DEF Single
  <2>2. CASE b # d
    <3>1. Whole(b)' => Whole(b)
      <4>1. Whole(b)' => dents[b].set
        BY <1>4, <2>2 DEF Whole
      <4> QED BY <1>3, <1>4, <1>5, <1>7, <2>2, <4>1, WholeWas
    <3>2. AsOnDisc(b)'
      BY <1>4, <1>6, <2>1, <2>2, <3>1, AsOnDiscKept
    <3> QED BY <1>4, <2>1, <3>2, ReachedKept
  <2>3. CASE b = d
    <3>1. ~Whole(d)'
      <4>1. Filler(t, d)'
        BY <1>2, <1>3, DoingIs DEF Filler
      <4> QED BY <4>1 DEF Whole
    <3>2. AsOnDisc(d)'
      BY <1>4, <1>6, <2>1, <2>3, <3>1 DEF AsOnDisc
    <3> QED BY <1>4, <2>1, <2>3, <3>2, ReachedKept
  <2> QED BY <2>2, <2>3
<1>13. Distinct(disc') /\ \A b, a \in DOMAIN dents' : dents'[b].dir = dents'[a].dir => b = a
  BY <1>4, <1>6 DEF Single
<1>14. \A b \in DOMAIN dents' : AsOnDisc(b)' /\ Reached(b)'
  BY <1>4, <1>12
<1> QED BY <1>3, <1>4, <1>5, <1>9, <1>10, <1>11, <1>13, <1>14, SingleStep

(* The number of an element is that of its entry. *)
LEMMA EntryOf ==
  ASSUME InPlace, Sure, Single, NEW d \in DOMAIN dents, NEW i \in DOMAIN dents[d].elems
  PROVE  /\ dents[d].dir \in Dirs /\ i \in DOMAIN disc[dents[d].dir]
         /\ disc[dents[d].dir][i].is = dents[d].elems[i].is
<1>1. AsOnDisc(d) /\ dents[d].dir \in Dirs /\ disc[dents[d].dir] \in Seq(Entries)
  BY DentIs DEF Single, InPlace, Sure, FromDisc
<1>2. i \in 1 .. Len(dents[d].elems) /\ Len(dents[d].elems) \in Nat
  BY DentIs DEF InPlace
<1>3. Len(dents[d].elems) <= Len(disc[dents[d].dir]) /\ Len(disc[dents[d].dir]) \in Nat
  BY <1>1 DEF AsOnDisc
<1>4. i \in 1 .. Len(disc[dents[d].dir])
  BY <1>2, <1>3
<1> QED BY <1>1, <1>4 DEF AsOnDisc

(* An entry not read yet is of no directory that has a dentry. *)
LEMMA NotReached ==
  ASSUME InPlace, Sure, Single, NEW d \in DOMAIN dents, dents[d].dir \notin BootDirs,
         NEW k \in DOMAIN disc[dents[d].dir], k > Len(dents[d].elems), disc[dents[d].dir][k].is # NoDir,
         NEW c \in DOMAIN dents
  PROVE  dents[c].dir # disc[dents[d].dir][k].is
<1>1. SUFFICES ASSUME dents[c].dir = disc[dents[d].dir][k].is PROVE FALSE
  OBVIOUS
<1>2. dents[d].dir \in Dirs \ BootDirs
  BY DentIs DEF InPlace
<1>3. dents[c].dir \notin BootDirs
  BY <1>1, <1>2, NotBoot DEF Sure
<1>4. PICK b \in DOMAIN dents : \E i \in DOMAIN dents[b].elems : dents[b].elems[i].is = dents[c].dir
  BY <1>3 DEF Single, Reached
<1>5. PICK i \in DOMAIN dents[b].elems : dents[b].elems[i].is = dents[c].dir
  BY <1>4
<1>6. dents[b].dir \in Dirs
  BY EntryOf
<1>7. i \in DOMAIN disc[dents[b].dir] /\ disc[dents[b].dir][i].is = dents[c].dir
  BY <1>5, EntryOf
<1>8. dents[b].dir = dents[d].dir /\ i = k
  <2>1. disc[dents[b].dir][i].is = disc[dents[d].dir][k].is
    BY <1>1, <1>7
  <2> QED BY <1>2, <1>6, <1>7, <2>1, OneEntry DEF Sure
<1>9. b = d
  BY <1>8 DEF Single
<1>10. k \in 1 .. Len(dents[d].elems) /\ Len(dents[d].elems) \in Nat
  BY <1>5, <1>8, <1>9, DentIs DEF InPlace
<1> QED BY <1>10

(* A call that goes on reading fills the dentry that it did. *)
LEMMA ReadsOn ==
  ASSUME InPlace, Single, Grows, SubsKept, NEW t \in Threads, NEW c, Reading(t, c)
  PROVE  \A b : /\ Filler(t, b) <=> b = pc[t].into
                /\ Filler(t, b)' <=> b = pc[t].into
                /\ c.into = At(c.e)'.sub
<1>1. pc'[t] = c /\ pc[t] # Idle /\ c # Idle
  BY DoingIs DEF Reading, Does, InPlace, PcOK
<1>2. There(c.e) /\ At(c.e).sub # 0 /\ c.into = At(c.e).sub
  BY <1>1 DEF Reading, DoingOK, Single, FillOK
<1>3. At(c.e)'.sub = At(c.e).sub
  BY <1>2 DEF SubsKept, There, At
<1> QED BY <1>1, <1>2, <1>3 DEF Reading, Filler

LEMMA AskSingle ==
  ASSUME InPlace, Single, NEW t \in Threads, Ask(t)
  PROVE  Single'
<1>1. PICK c \in Doings : Reading(t, c) /\ c.k = pc[t].k
  BY AskIs
<1>2. UNCHANGED <<disc, dents>>
  BY DEF Ask
<1>3. DentsOK' /\ Grows /\ MarksSame /\ SubsKept
  BY <1>2, SingleSame DEF SubsKept
<1>4. pc'[t] = c /\ Others(t) /\ pc[t] # Idle
  BY <1>1, DoingIs DEF Reading, Does, InPlace, PcOK, Others
<1>5. FillOK(c)'
  BY <1>1, <1>2, <1>4 DEF Reading, Single, FillOK, At
<1>6. \A d \in DOMAIN dents : Filler(t, d)' <=> Filler(t, d)
  BY <1>1, <1>3, ReadsOn
<1> QED BY <1>3, <1>4, <1>5, <1>6, SingleQuiet

LEMMA FetchSingle ==
  ASSUME InPlace, Single, NEW t \in Threads, Fetch(t)
  PROVE  Single'
<1>1. PICK d, k : \E y \in Elements : \E c \in Doings :
           /\ d \in DOMAIN dents /\ k \in DOMAIN dents[d].elems /\ Reading(t, c) /\ c.k = pc[t].k
           /\ pc[t].e = <<d, k>> /\ At(pc[t].e) = dents[d].elems[k]
           /\ y.sub = dents[d].elems[k].sub /\ y.name = dents[d].elems[k].name
           /\ y.is = dents[d].elems[k].is /\ dents' = Put(dents, d, k, y)
  BY FetchIs
<1>2. PICK y \in Elements : \E c \in Doings :
           /\ Reading(t, c) /\ c.k = pc[t].k /\ pc[t].e = <<d, k>> /\ At(pc[t].e) = dents[d].elems[k]
           /\ y.sub = dents[d].elems[k].sub /\ y.name = dents[d].elems[k].name
           /\ y.is = dents[d].elems[k].is /\ dents' = Put(dents, d, k, y)
  BY <1>1
<1>3. PICK c \in Doings : Reading(t, c) /\ c.k = pc[t].k
  BY <1>2
<1>4. PICK q : q = pc[t].e
  OBVIOUS
<1>5. q \in Places /\ There(q) /\ q[1] = d /\ q[2] = k /\ At(q) = dents[d].elems[k] /\ UNCHANGED disc
  <2>1. pc[t].e \in Places /\ There(pc[t].e)
    BY <1>3, DoingIs DEF DoingOK, Reading
  <2>2. UNCHANGED disc
    BY DEF Fetch
  <2> QED BY <1>2, <1>4, <2>1, <2>2
<1>6. DentsOK' /\ Grows /\ MarksSame
  <2>1. y.sub = At(q).sub /\ y.name = At(q).name /\ y.is = At(q).is
    BY <1>2, <1>5
  <2>2. dents' = Put(dents, q[1], q[2], y)
    BY <1>2, <1>5
  <2> QED BY <1>5, <2>1, <2>2, PutMarks
<1>7. SubsKept
  BY <1>6 DEF SubsKept, MarksSame
<1>8. pc'[t] = c /\ Others(t) /\ pc[t] # Idle
  BY <1>3, DoingIs DEF Reading, Does, InPlace, PcOK, Others
<1>9. FillOK(c)'
  <2>1. PICK b \in DOMAIN dents : b = c.into
    BY <1>3, <1>8 DEF Reading, DoingOK
  <2>2. dents[b].set /\ c.k = Len(dents[b].elems)
    BY <1>3, <1>8, <2>1 DEF Reading, Single, FillOK
  <2>3. c.into = At(c.e)'.sub /\ c.do = "load"
    BY <1>3, <1>6, <1>7, ReadsOn DEF Reading
  <2>4. dents'[b].set /\ c.k = Len(dents'[b].elems)
    BY <1>6, <2>2 DEF MarksSame
  <2> QED BY <2>1, <2>3, <2>4 DEF FillOK
<1>10. \A b \in DOMAIN dents : Filler(t, b)' <=> Filler(t, b)
  BY <1>3, <1>6, <1>7, ReadsOn
<1> QED BY <1>6, <1>8, <1>9, <1>10, SingleQuiet

LEMMA LoadSingle ==
  ASSUME InPlace, Sure, Single, NEW t \in Threads, Load(t)
  PROVE  Single'
<1>1. PICK d \in DOMAIN dents : \E k \in Nat : \E c \in Doings :
           /\ pc[t] \in Doings /\ DoingOK(pc[t]) /\ pc[t].do = "load" /\ d = pc[t].into
           /\ k = pc[t].k + 1 /\ k <= Len(disc[dents[d].dir]) /\ disc[dents[d].dir][k] \in Entries
           /\ dents' = WithElem(dents, d, Elem(disc[dents[d].dir][k], 0))
           /\ Does(t, c) /\ c.do = "load" /\ c.e = pc[t].e /\ c.into = pc[t].into /\ c.k = k
  <2>1. PICK d \in DOMAIN dents : \E k \in Nat : \E c \in Doings : \E z \in Entries :
           /\ Reading(t, c) /\ d = pc[t].into /\ c.k = k /\ pc[t].got = "bytes"
           /\ k = pc[t].k + 1 /\ k <= Len(Source(pc[t])) /\ z = Source(pc[t])[k]
           /\ dents' = WithElem(dents, d, Elem(z, 0))
    BY LoadIs
  <2>2. pc[t].do = "load" /\ pc[t] # Idle /\ pc[t].got = "bytes"
    BY <2>1, DoingIs DEF Reading
  <2>3. Source(pc[t]) = disc[dents[d].dir]
    BY <2>1, <2>2, WalkIs, ReadFromDisc
  <2> QED BY <2>1, <2>3 DEF Reading
<1>2. PICK k \in Nat : \E c \in Doings :
           /\ pc[t] \in Doings /\ DoingOK(pc[t]) /\ pc[t].do = "load" /\ d = pc[t].into
           /\ k = pc[t].k + 1 /\ k <= Len(disc[dents[d].dir]) /\ disc[dents[d].dir][k] \in Entries
           /\ dents' = WithElem(dents, d, Elem(disc[dents[d].dir][k], 0))
           /\ Does(t, c) /\ c.do = "load" /\ c.e = pc[t].e /\ c.into = pc[t].into /\ c.k = k
  BY <1>1
<1>3. PICK c \in Doings : Does(t, c) /\ c.do = "load" /\ c.e = pc[t].e /\ c.into = d /\ c.k = k
  BY <1>2
<1>4. pc'[t] = c /\ Others(t)
  BY <1>3 DEF Does, InPlace, PcOK, Others
<1>5. PICK y : y = Elem(disc[dents[d].dir][k], 0)
  OBVIOUS
<1>6. y \in Elements /\ y.sub = 0 /\ y.name = disc[dents[d].dir][k].name /\ y.is = disc[dents[d].dir][k].is
  BY <1>2, <1>5, ElemIs
<1>7. /\ DentsOK' /\ Grows /\ DOMAIN dents' = DOMAIN dents
      /\ \A b \in DOMAIN dents :
           /\ dents'[b].set = dents[b].set /\ dents'[b].dir = dents[b].dir
           /\ Len(dents'[b].elems) = (IF b = d THEN Len(dents[b].elems) + 1 ELSE Len(dents[b].elems))
           /\ \A i \in DOMAIN dents[b].elems : dents'[b].elems[i] = dents[b].elems[i]
      /\ dents'[d].elems[Len(dents[d].elems) + 1] = y
  <2>1. dents' = WithElem(dents, d, y)
    BY <1>2, <1>5
  <2> QED BY <1>6, <2>1, ElemAdded DEF InPlace
<1>8. SubsKept
  BY <1>7 DEF SubsKept
<1>9. pc[t] # Idle /\ UNCHANGED disc
  BY DEF Load, Doing
<1>10. Filler(t, d) /\ Filler(t, d)' /\ (\A b : Filler(t, b) => b = d) /\ (\A b : Filler(t, b)' => b = d)
  BY <1>2, <1>3, <1>4, <1>9, DoingIs DEF Filler
<1>11. PICK n \in Nat : n = Len(dents[d].elems) /\ k = n + 1 /\ DOMAIN dents[d].elems = 1 .. n
  <2>1. dents[d].set /\ pc[t].k = Len(dents[d].elems)
    BY <1>2, <1>9 DEF Single, FillOK
  <2> QED BY <1>2, <2>1, DentIs DEF InPlace
<1>12. dents[d].set /\ At(pc[t].e).sub = d
  BY <1>2, <1>9 DEF Single, FillOK
<1>13. dents[d].dir \notin BootDirs
  BY <1>2, <1>9, Now DEF Sure, Track, OnWay
<1>14. k \in DOMAIN disc[dents[d].dir] /\ k > Len(dents[d].elems)
  <2>1. disc[dents[d].dir] \in Seq(Entries)
    BY DentIs DEF InPlace, RestOK
  <2>2. k \in 1 .. Len(disc[dents[d].dir])
    BY <1>2, <1>11, <2>1
  <2> QED BY <1>11, <2>1, <2>2
<1>15. ASSUME NEW b \in DOMAIN dents PROVE y.is # NoDir => dents[b].dir # y.is
  BY <1>6, <1>13, <1>14, NotReached
<1>16. ASSUME NEW u \in Threads \ {t}, NEW b, Filler(u, b)
       PROVE  dents'[b].set = dents[b].set /\ Len(dents'[b].elems) = Len(dents[b].elems) /\ ~Filler(t, b)'
  <2>1. b \in DOMAIN dents
    BY <1>16, FillerIs
  <2>2. b # d
    BY <1>10, <1>16, <2>1 DEF Single, OneFills
  <2> QED BY <1>7, <1>10, <2>1, <2>2
<1>17. ASSUME NEW b \in DOMAIN dents
       PROVE  Len(dents[b].elems) <= Len(dents'[b].elems) /\ (Whole(b) => dents'[b].set /\ ~Filler(t, b)')
  <2>1. Len(dents[b].elems) \in Nat
    BY DentIs DEF InPlace
  <2>2. Whole(b) => b # d
    BY <1>10 DEF Whole
  <2> QED BY <1>7, <1>10, <2>1, <2>2 DEF Whole
<1>18. FillOK(c)'
  <2>1. There(c.e) /\ At(c.e).sub = d /\ d # 0
    BY <1>2, <1>3, <1>12 DEF DoingOK
  <2>2. At(c.e)'.sub = d
    BY <1>8, <2>1 DEF SubsKept, There, At
  <2>3. Len(dents'[d].elems) = k /\ dents'[d].set
    BY <1>7, <1>11, <1>12
  <2> QED BY <1>3, <2>2, <2>3 DEF FillOK
<1>19. ASSUME NEW b \in DOMAIN dents PROVE AsOnDisc(b)' /\ Reached(b)'
  <2>1. AsOnDisc(b) /\ Reached(b)
    BY DEF Single
  <2>2. CASE b # d
    <3>1. Whole(b)' => Whole(b)
      <4>1. Whole(b)' => dents[b].set
        BY <1>7 DEF Whole
      <4> QED BY <1>4, <1>7, <1>8, <1>10, <2>2, <4>1, WholeWas
    <3>2. DOMAIN dents'[b].elems = DOMAIN dents[b].elems
      <4>1. dents'[b] \in Dentries
        BY <1>7 DEF DentsOK
      <4>2. dents'[b].elems \in Seq(Elements)
        BY <4>1 DEF Dentries
      <4>3. Len(dents'[b].elems) = Len(dents[b].elems)
        BY <1>7, <2>2
      <4> QED BY <4>2, <4>3, DentIs DEF InPlace
    <3>3. AsOnDisc(b)'
      BY <1>7, <1>9, <2>1, <2>2, <3>1, <3>2, AsOnDiscKept
    <3> QED BY <1>7, <2>1, <3>3, ReachedKept
  <2>3. CASE b = d
    <3>1. ~Whole(d)'
      BY <1>10 DEF Whole
    <3>2. dents'[d].elems \in Seq(Elements) /\ DOMAIN dents'[d].elems = 1 .. n + 1
      <4>1. dents'[d] \in Dentries
        BY <1>7 DEF DentsOK
      <4>2. dents'[d].elems \in Seq(Elements)
        BY <4>1 DEF Dentries
      <4>3. Len(dents'[d].elems) = n + 1
        BY <1>7, <1>11
      <4> QED BY <4>2, <4>3
    <3>3. ASSUME NEW i \in 1 .. n + 1
          PROVE  /\ dents'[d].elems[i].name = disc'[dents'[d].dir][i].name
                 /\ dents'[d].elems[i].is = disc'[dents'[d].dir][i].is
                 /\ dents'[d].elems[i].is # NoDir /\ dents'[d].elems[i].sub = 0 =>
                      \A a \in DOMAIN dents' : dents'[a].dir # dents'[d].elems[i].is
      <4>1. CASE i \in 1 .. n
        <5>1. PICK x : x = dents[d].elems[i]
          OBVIOUS
        <5>2. dents'[d].elems[i] = x
          BY <1>7, <1>11, <4>1, <5>1
        <5>3. /\ x.name = disc[dents[d].dir][i].name /\ x.is = disc[dents[d].dir][i].is
              /\ x.is # NoDir /\ x.sub = 0 => \A a \in DOMAIN dents : dents[a].dir # x.is
          BY <1>11, <2>1, <2>3, <4>1, <5>1 DEF AsOnDisc
        <5> QED BY <1>7, <1>9, <5>2, <5>3
      <4>2. CASE i = n + 1
        BY <1>6, <1>7, <1>9, <1>11, <1>15, <4>2
      <4> QED BY <4>1, <4>2
    <3>4. Len(dents'[d].elems) <= Len(disc'[dents'[d].dir])
      BY <1>2, <1>7, <1>9, <1>11
    <3>5. AsOnDisc(d)'
      BY <1>7, <1>12, <3>1, <3>2, <3>3, <3>4 DEF AsOnDisc
    <3> QED BY <1>7, <2>1, <2>3, <3>5, ReachedKept
  <2> QED BY <2>2, <2>3
<1>20. Distinct(disc') /\ \A b, a \in DOMAIN dents' : dents'[b].dir = dents'[a].dir => b = a
  BY <1>7, <1>9 DEF Single
<1>21. \A b \in DOMAIN dents' : AsOnDisc(b)' /\ Reached(b)'
  BY <1>7, <1>19
<1> QED BY <1>4, <1>7, <1>8, <1>16, <1>17, <1>18, <1>20, <1>21, SingleStep

LEMMA CopySingle ==
  ASSUME InPlace, Sure, Single, NEW t \in Threads, Copy(t), ~crossed'
  PROVE  Single'
<1>1. PICK d, k : \E c \in Doings :
           /\ d \in DOMAIN dents /\ k \in DOMAIN dents[d].elems
           /\ pc[t] \in Doings /\ DoingOK(pc[t]) /\ pc[t].do = "copy"
           /\ pc[t].e = <<d, k>> /\ At(pc[t].e) = dents[d].elems[k]
           /\ dents' = WithDent(dents, d, k, dents[d].elems[k].is)
           /\ Does(t, c) /\ c.do = "link" /\ c.e = pc[t].e
  BY CopyIs
<1>2. PICK c \in Doings : Does(t, c) /\ c.do = "link" /\ c.e = <<d, k>>
  BY <1>1
<1>3. pc'[t] = c /\ Others(t)
  BY <1>2 DEF Does, InPlace, PcOK, Others
<1>4. pc[t] # Idle /\ UNCHANGED disc /\ At(pc[t].e).sub = pc[t].seen
  BY DEF Copy, Doing
<1>5. PICK dir \in Dirs \ BootDirs : dir = dents[d].elems[k].is
  <2>1. At(pc[t].e).is \in Dirs /\ At(pc[t].e).is \notin BootDirs
    BY <1>1, <1>4 DEF DoingOK, Sure, Track, OnWay
  <2> QED BY <1>1, <2>1
<1>6. dents[d].elems[k].sub = 0 /\ dir # NoDir
  <2>1. pc[t].seen = 0
    BY <1>1, <1>4 DEF Sure, Track, OnWay
  <2> QED BY <1>1, <1>4, <2>1, VfsAssumption
<1>7. PICK new \in Nat : new = Len(dents) + 1 /\ DOMAIN dents = 1 .. new - 1 /\ new # 0
  BY DEF InPlace, DentsOK
<1>8. /\ DentsOK' /\ Grows /\ Len(dents') = new /\ dents'[new] = Copied(d, dir)
      /\ \A b \in DOMAIN dents :
           /\ b \in DOMAIN dents'
           /\ dents'[b].set = dents[b].set /\ dents'[b].dir = dents[b].dir
           /\ Len(dents'[b].elems) = Len(dents[b].elems)
           /\ DOMAIN dents'[b].elems = DOMAIN dents[b].elems
           /\ \A i \in DOMAIN dents[b].elems :
                /\ dents'[b].elems[i].name = dents[b].elems[i].name
                /\ dents'[b].elems[i].is = dents[b].elems[i].is
                /\ dents'[b].elems[i].sub = IF b = d /\ i = k THEN new ELSE dents[b].elems[i].sub
  <2>1. dents' = WithDent(dents, d, k, dir)
    BY <1>1, <1>5
  <2> QED BY <1>1, <1>7, <2>1, DentAdded DEF InPlace
<1>9. DOMAIN dents' = DOMAIN dents \cup {new} /\ new \notin DOMAIN dents
  <2>1. DOMAIN dents' = 1 .. new
    BY <1>8 DEF DentsOK
  <2> QED BY <1>7, <2>1
<1>10. dents'[new].dir = dir /\ ~dents'[new].set /\ dents'[new].elems = <<>>
  BY <1>8 DEF Copied
<1>11. SubsKept
  <2>1. ASSUME NEW b \in DOMAIN dents, NEW i \in DOMAIN dents[b].elems, dents[b].elems[i].sub # 0
        PROVE  dents'[b].elems[i].sub = dents[b].elems[i].sub
    BY <1>6, <1>8, <2>1
  <2> QED BY <2>1 DEF SubsKept
<1>12. At(c.e)'.sub = new
  BY <1>1, <1>2, <1>8 DEF At
<1>13. (\A b : ~Filler(t, b)) /\ (\A b : Filler(t, b)' <=> b = new)
  BY <1>1, <1>2, <1>3, <1>4, <1>12, DoingIs DEF Filler
<1>14. \A b \in DOMAIN dents : dents[b].dir # dir
  BY <1>1, <1>5, <1>6 DEF Single, AsOnDisc
<1>15. ASSUME NEW u \in Threads \ {t}, NEW b, Filler(u, b)
       PROVE  dents'[b].set = dents[b].set /\ Len(dents'[b].elems) = Len(dents[b].elems) /\ ~Filler(t, b)'
  <2>1. b \in DOMAIN dents
    BY <1>15, FillerIs
  <2> QED BY <1>8, <1>9, <1>13, <2>1
<1>16. ASSUME NEW b \in DOMAIN dents
       PROVE  Len(dents[b].elems) <= Len(dents'[b].elems) /\ (Whole(b) => dents'[b].set /\ ~Filler(t, b)')
  BY <1>8, <1>9, <1>13, DentIs DEF Whole, InPlace
<1>17. FillOK(c)'
  BY <1>2, <1>10, <1>12 DEF FillOK
<1>18. ASSUME NEW b \in DOMAIN dents PROVE AsOnDisc(b)' /\ Reached(b)'
  <2>1. AsOnDisc(b) /\ Reached(b)
    BY DEF Single
  <2>2. Whole(b)' => Whole(b)
    <3>1. Whole(b)' => dents[b].set
      BY <1>8 DEF Whole
    <3> QED BY <1>3, <1>8, <1>11, <1>13, <3>1, WholeWas
  <2>3. ASSUME NEW i \in DOMAIN dents[b].elems, dents[b].elems[i].is # NoDir, dents'[b].elems[i].sub = 0
        PROVE  /\ dents[b].elems[i].sub = 0
               /\ \A a \in DOMAIN dents' : dents'[a].dir = dents[b].elems[i].is => a \in DOMAIN dents
    <3>1. ~(b = d /\ i = k) /\ dents[b].elems[i].sub = 0
      BY <1>7, <1>8, <2>3
    <3>2. dents[b].elems[i].is # dir
      <4>1. SUFFICES ASSUME dents[b].elems[i].is = dir PROVE FALSE
        OBVIOUS
      <4>2. i \in DOMAIN disc[dents[b].dir] /\ disc[dents[b].dir][i].is = dir /\ dents[b].dir \in Dirs
        BY <4>1, EntryOf
      <4>3. k \in DOMAIN disc[dents[d].dir] /\ disc[dents[d].dir][k].is = dir /\ dents[d].dir \in Dirs
        BY <1>1, <1>5, EntryOf
      <4>4. disc[dents[b].dir][i].is = disc[dents[d].dir][k].is /\ disc[dents[b].dir][i].is # NoDir
        BY <1>6, <4>2, <4>3
      <4>5. dents[b].dir = dents[d].dir /\ i = k
        BY <4>2, <4>3, <4>4, OneEntry DEF Sure
      <4> QED BY <1>1, <3>1, <4>5 DEF Single
    <3> QED BY <1>9, <1>10, <3>1, <3>2
  <2>4. AsOnDisc(b)'
    BY <1>4, <1>8, <2>1, <2>2, <2>3, AsOnDiscKept
  <2> QED BY <1>8, <2>1, <2>4, ReachedKept
<1>19. AsOnDisc(new)' /\ Reached(new)'
  <2>1. ~Whole(new)'
    BY <1>10 DEF Whole
  <2>2. Len(dents'[new].elems) = 0 /\ DOMAIN dents'[new].elems = {}
    BY <1>10
  <2>3. Len(disc'[dents'[new].dir]) \in Nat
    <3>1. disc'[dir] \in Seq(Entries)
      BY <1>4 DEF Sure, FromDisc
    <3> QED BY <1>10, <3>1
  <2>4. AsOnDisc(new)'
    BY <1>10, <2>1, <2>2, <2>3 DEF AsOnDisc
  <2>5. d \in DOMAIN dents' /\ k \in DOMAIN dents'[d].elems /\ dents'[d].elems[k].is = dents'[new].dir
    BY <1>1, <1>5, <1>8, <1>10
  <2> QED BY <2>4, <2>5 DEF Reached
<1>20. Distinct(disc') /\ \A b, a \in DOMAIN dents' : dents'[b].dir = dents'[a].dir => b = a
  <2>1. Distinct(disc')
    BY <1>4 DEF Single
  <2>2. ASSUME NEW b \in DOMAIN dents', NEW a \in DOMAIN dents', dents'[b].dir = dents'[a].dir PROVE b = a
    BY <1>8, <1>9, <1>10, <1>14, <2>2 DEF Single
  <2> QED BY <2>1, <2>2
<1>21. \A b \in DOMAIN dents' : AsOnDisc(b)' /\ Reached(b)'
  BY <1>9, <1>18, <1>19
<1> QED BY <1>3, <1>8, <1>11, <1>15, <1>16, <1>17, <1>20, <1>21, SingleStep

LEMMA CreateSingle ==
  ASSUME InPlace, Sure, Single, NEW t \in Threads, Create(t), ~crossed'
  PROVE  Single'
<1>1. /\ pc[t] \in Doings /\ DoingOK(pc[t]) /\ pc[t].do = "create" /\ pc[t].d \in DOMAIN dents
  BY CreateIs
<1>2. CASE UNCHANGED <<disc, dents, crossed, pc>>
  <2>1. PICK c : c = pc[t]
    OBVIOUS
  <2>2. pc'[t] = c /\ Others(t) /\ c.do = "create" /\ pc[t] # Idle
    BY <1>1, <1>2, <2>1, DoingIs DEF Others
  <2>3. FillOK(c)'
    BY <1>2, <2>1, <2>2 DEF Single, FillOK, Whole, Filler, At
  <2>4. \A b : ~Filler(t, b) /\ ~Filler(t, b)'
    BY <2>1, <2>2 DEF Filler
  <2>5. DentsOK' /\ Grows /\ MarksSame
    BY <1>2, SingleSame
  <2> QED BY <2>2, <2>3, <2>4, <2>5, SingleQuiet
<1>3. CASE UNCHANGED <<disc, dents, crossed, halted>> /\ Stop(t, "no room")
  BY <1>1, <1>3, SingleStops DEF Reasons
<1>4. CASE \E d, y, new, c :
                 /\ d = pc[t].d /\ CanAdd(d)
                 /\ new \in Entries /\ new.name = pc[t].name /\ new.is = NoDir
                 /\ disc' = WithEntry(disc, dents[d].dir, new)
                 /\ y \in Elements /\ y.sub = 0 /\ y.name = pc[t].name /\ y.is = NoDir /\ y.refer = 0
                 /\ dents' = WithElem(dents, d, y)
                 /\ crossed' = (crossed \/ Len(dents[d].elems) # pc[t].seen) /\ halted' = halted
                 /\ c \in Doings /\ Does(t, c) /\ c.do = "opened" /\ c.o = pc[t].o
                 /\ c.e = <<d, Len(dents[d].elems) + 1>>
  <2>1. PICK d, y, new, c :
                 /\ d = pc[t].d
                 /\ new \in Entries /\ new.name = pc[t].name /\ new.is = NoDir
                 /\ disc' = WithEntry(disc, dents[d].dir, new)
                 /\ y \in Elements /\ y.sub = 0 /\ y.name = pc[t].name /\ y.is = NoDir
                 /\ dents' = WithElem(dents, d, y)
                 /\ crossed' = (crossed \/ Len(dents[d].elems) # pc[t].seen)
                 /\ c \in Doings /\ Does(t, c) /\ c.do = "opened"
    BY <1>4
  <2>2. d \in DOMAIN dents /\ pc[t] # Idle /\ pc'[t] = c /\ Others(t) /\ c # Idle
    BY <1>1, <2>1, DoingIs DEF Does, InPlace, PcOK, Others
  <2>3. PICK dir \in Dirs : dir = dents[d].dir /\ disc[dir] \in Seq(Entries)
    BY <2>2, DentIs DEF InPlace, RestOK
  <2>4. /\ FromDisc(disc') /\ Extends(disc, disc') /\ disc'[dir][Len(disc[dir]) + 1] = new
        /\ \A b \in Dirs : Len(disc'[b]) = IF b = dir THEN Len(disc[b]) + 1 ELSE Len(disc[b])
    <3>1. new \in Entries /\ new.is = NoDir /\ disc' = WithEntry(disc, dir, new)
      BY <2>1, <2>3
    <3> QED BY <3>1, EntryAdded DEF Sure
  <2>5. /\ DentsOK' /\ Grows /\ DOMAIN dents' = DOMAIN dents
        /\ \A b \in DOMAIN dents :
             /\ dents'[b].set = dents[b].set /\ dents'[b].dir = dents[b].dir
             /\ Len(dents'[b].elems) = (IF b = d THEN Len(dents[b].elems) + 1 ELSE Len(dents[b].elems))
             /\ \A i \in DOMAIN dents[b].elems : dents'[b].elems[i] = dents[b].elems[i]
        /\ dents'[d].elems[Len(dents[d].elems) + 1] = y
    BY <2>1, <2>2, ElemAdded DEF InPlace
  <2>6. SubsKept
    BY <2>5 DEF SubsKept
  <2>7. \A b : ~Filler(t, b) /\ ~Filler(t, b)'
    BY <1>1, <2>1, <2>2 DEF Filler
  <2>8. PICK n \in Nat : n = Len(dents[d].elems) /\ DOMAIN dents[d].elems = 1 .. n
    BY <2>2, DentIs DEF InPlace
  <2>9. /\ Whole(d) /\ pc[t].seen = n /\ \A i \in 1 .. n : dents[d].elems[i].name # new.name
    BY <1>1, <2>1, <2>2, <2>8 DEF Single, FillOK
  <2>10. AsOnDisc(d) /\ Len(disc[dir]) = n
    BY <2>2, <2>3, <2>8, <2>9 DEF Single, AsOnDisc
  <2>11. DOMAIN disc[dir] = 1 .. n /\ DOMAIN disc'[dir] = 1 .. n + 1 /\ disc'[dir][n + 1] = new
         /\ \A i \in 1 .. n : disc'[dir][i] = disc[dir][i]
    <3>1. disc'[dir] \in Seq(Entries) /\ Len(disc'[dir]) = n + 1
      BY <2>4, <2>10 DEF FromDisc
    <3>2. DOMAIN disc[dir] = 1 .. n /\ DOMAIN disc'[dir] = 1 .. n + 1
      BY <2>3, <2>10, <3>1
    <3> QED BY <2>4, <2>10, <3>2 DEF Extends
  <2>12. \A b \in Dirs \ {dir} : disc'[b] = disc[b]
    BY <2>1, <2>3 DEF WithEntry, InPlace, RestOK
  <2>13. Distinct(disc')
    <3>1. ASSUME NEW i \in 1 .. n PROVE disc[dir][i].name # new.name
      BY <2>3, <2>8, <2>9, <2>10 DEF AsOnDisc
    <3>2. ASSUME NEW i \in 1 .. n + 1, NEW j \in 1 .. n + 1, disc'[dir][i].name = disc'[dir][j].name PROVE i = j
      <4>1. CASE i \in 1 .. n /\ j \in 1 .. n
        BY <2>11, <3>2, <4>1 DEF Single, Distinct
      <4>2. CASE i = n + 1 \/ j = n + 1
        <5>1. \A m \in 1 .. n + 1 : m = n + 1 \/ m \in 1 .. n
          OBVIOUS
        <5> QED BY <2>11, <3>1, <3>2, <4>2, <5>1
      <4> QED BY <4>1, <4>2
    <3> QED BY <2>11, <2>12, <3>2 DEF Single, Distinct
  <2>14. \A b, a \in DOMAIN dents' : dents'[b].dir = dents'[a].dir => b = a
    BY <2>5 DEF Single
  <2>15. ASSUME NEW u \in Threads \ {t}, NEW b, Filler(u, b)
         PROVE  dents'[b].set = dents[b].set /\ Len(dents'[b].elems) = Len(dents[b].elems) /\ ~Filler(t, b)'
    <3>1. b \in DOMAIN dents /\ b # d
      BY <2>9, <2>15, FillerIs DEF Whole
    <3> QED BY <2>5, <2>7, <3>1
  <2>16. ASSUME NEW b \in DOMAIN dents
         PROVE  Len(dents[b].elems) <= Len(dents'[b].elems) /\ (Whole(b) => dents'[b].set /\ ~Filler(t, b)')
    <3>1. Len(dents[b].elems) \in Nat
      BY DentIs DEF InPlace
    <3> QED BY <2>5, <2>7, <3>1 DEF Whole
  <2>17. FillOK(c)'
    BY <2>1 DEF FillOK
  <2>18. ASSUME NEW b \in DOMAIN dents PROVE AsOnDisc(b)' /\ Reached(b)'
    <3>1. AsOnDisc(b) /\ Reached(b)
      BY DEF Single
    <3>2. CASE b # d
      <4>1. Whole(b)' => Whole(b)
        <5>1. Whole(b)' => dents[b].set
          BY <2>5 DEF Whole
        <5> QED BY <2>2, <2>5, <2>6, <2>7, <5>1, WholeWas
      <4>2. DOMAIN dents'[b].elems = DOMAIN dents[b].elems
        <5>1. dents'[b] \in Dentries
          BY <2>5 DEF DentsOK
        <5>2. dents'[b].elems \in Seq(Elements)
          BY <5>1 DEF Dentries
        <5>3. Len(dents'[b].elems) = Len(dents[b].elems)
          BY <2>5, <3>2
        <5> QED BY <5>2, <5>3, DentIs DEF InPlace
      <4>3. dents[b].dir \in Dirs \ {dir}
        BY <2>2, <2>3, <3>2, DentIs DEF InPlace, Single
      <4>4. AsOnDisc(b)'
        BY <2>5, <2>12, <3>1, <3>2, <4>1, <4>2, <4>3, AsOnDiscKept
      <4> QED BY <2>5, <3>1, <4>4, ReachedKept
    <3>3. CASE b = d
      <4>1. dents'[d].elems \in Seq(Elements) /\ Len(dents'[d].elems) = n + 1 /\ DOMAIN dents'[d].elems = 1 .. n + 1
        <5>1. dents'[d] \in Dentries
          BY <2>2, <2>5 DEF DentsOK
        <5>2. dents'[d].elems \in Seq(Elements)
          BY <5>1 DEF Dentries
        <5>3. Len(dents'[d].elems) = n + 1
          BY <2>2, <2>5, <2>8
        <5> QED BY <5>2, <5>3
      <4>2. dents'[d].dir = dir /\ Len(disc'[dir]) = n + 1 /\ dents'[d].set
        BY <2>2, <2>3, <2>4, <2>5, <2>9, <2>10 DEF Whole
      <4>3. ASSUME NEW i \in 1 .. n + 1
            PROVE  /\ dents'[d].elems[i].name = disc'[dir][i].name
                   /\ dents'[d].elems[i].is = disc'[dir][i].is
                   /\ dents'[d].elems[i].is # NoDir /\ dents'[d].elems[i].sub = 0 =>
                        \A a \in DOMAIN dents' : dents'[a].dir # dents'[d].elems[i].is
        <5>1. CASE i \in 1 .. n
          <6>1. PICK x : x = dents[d].elems[i]
            OBVIOUS
          <6>2. dents'[d].elems[i] = x
            BY <2>2, <2>5, <2>8, <5>1, <6>1
          <6>3. /\ x.name = disc[dir][i].name /\ x.is = disc[dir][i].is
                /\ x.is # NoDir /\ x.sub = 0 => \A a \in DOMAIN dents : dents[a].dir # x.is
            BY <2>3, <2>8, <2>10, <5>1, <6>1 DEF AsOnDisc
          <6> QED BY <2>5, <2>11, <5>1, <6>2, <6>3
        <5>2. CASE i = n + 1
          <6>1. dents'[d].elems[i] = y /\ disc'[dir][i] = new
            BY <2>5, <2>8, <2>11, <5>2
          <6> QED BY <2>1, <6>1
        <5> QED BY <5>1, <5>2
      <4>4. AsOnDisc(d)'
        BY <4>1, <4>2, <4>3 DEF AsOnDisc
      <4> QED BY <2>5, <3>1, <3>3, <4>4, ReachedKept
    <3> QED BY <3>2, <3>3
  <2>19. \A b \in DOMAIN dents' : AsOnDisc(b)' /\ Reached(b)'
    BY <2>5, <2>18
  <2> QED BY <2>2, <2>5, <2>6, <2>13, <2>14, <2>15, <2>16, <2>17, <2>19, SingleStep
<1> QED BY <1>2, <1>3, <1>4, CreateIs

LEMMA NextSingle ==
  ASSUME InPlace, Sure, ~crossed => Single, [VfsNext]_vfsVars
  PROVE  (crossed => crossed') /\ (~crossed' => Single')
<1>1. CASE UNCHANGED vfsVars
  <2>1. UNCHANGED <<disc, dents, pc, crossed>>
    BY <1>1 DEF vfsVars
  <2>2. \A d : /\ AsOnDisc(d)' <=> AsOnDisc(d)
              /\ Reached(d)' <=> Reached(d)
    BY <2>1 DEF AsOnDisc, Reached, Whole, Filler, At
  <2>3. \A c : FillOK(c)' <=> FillOK(c)
    BY <2>1 DEF FillOK, Whole, Filler, At
  <2>4. \A u, v : OneFills(u, v)' <=> OneFills(u, v)
    BY <2>1 DEF OneFills, Filler, At
  <2>5. Single => Single'
    BY <2>1, <2>2, <2>3, <2>4 DEF Single
  <2> QED BY <2>1, <2>5
<1>2. ASSUME NEW t \in Threads, NEW f \in Slots, CloseLoad(t, f) \/ \E op \in Ops : Park(t, f, op)
      PROVE  crossed' = crossed /\ (~crossed' => Single')
  <2>1. crossed' = crossed
    BY <1>2 DEF CloseLoad, Park
  <2> QED BY <1>2, <2>1, FilesSingle
<1>3. ASSUME NEW t \in Threads, OpenLoad(t) \/ OpenStore(t) \/ CloseStore(t) \/ Act(t) \/ Unpark(t)
      PROVE  crossed' = crossed /\ (~crossed' => Single')
  <2>1. crossed' = crossed
    BY <1>3 DEF OpenLoad, OpenStore, CloseStore, Act, Unpark
  <2> QED BY <1>3, <2>1, FilesSingle
<1>4. ASSUME NEW t \in Threads,
             Begin(t) \/ WalkEnd(t) \/ WalkDots(t) \/ WalkFile(t) \/ WalkDir(t) \/ Fail(t) \/ Loaded(t) \/ Load(t)
      PROVE  crossed' = crossed /\ (~crossed' => Single')
  <2>1. crossed' = crossed
    BY <1>4 DEF Begin, WalkEnd, WalkDots, WalkFile, WalkDir, Fail, Loaded, Load
  <2> QED BY <1>4, <2>1, WalkSingle, LoadedSingle, LoadSingle DEF Sure
<1>5. ASSUME NEW t \in Threads, WalkMissing(t) \/ Copy(t) \/ Link(t)
      PROVE  (crossed => crossed') /\ (~crossed' => Single')
  <2>1. crossed => crossed'
    BY <1>5 DEF WalkMissing, Copy, Link
  <2> QED BY <1>5, <2>1, WalkMissingSingle, CopySingle, LinkSingle
<1>6. ASSUME NEW t \in Threads, Create(t)
      PROVE  (crossed => crossed') /\ (~crossed' => Single')
  <2>1. crossed => crossed'
    BY <1>6 DEF Create
  <2> QED BY <1>6, <2>1, CreateSingle
<1>7. ASSUME NEW t \in Threads, Ask(t) \/ Fetch(t) \/ Garbled(t)
      PROVE  crossed' = crossed /\ (~crossed' => Single')
  <2>1. crossed' = crossed
    BY <1>7 DEF Ask, Fetch, Garbled
  <2> QED BY <1>7, <2>1, AskSingle, FetchSingle, GarbledSure
<1> QED BY <1>1, <1>2, <1>3, <1>4, <1>5, <1>6, <1>7 DEF VfsNext

(***************************************************************************)
(* A lookup fails only where nothing is.                                   *)
(***************************************************************************)
LEMMA LeadsOne ==
  ASSUME FromDisc(disc), Distinct(disc), NEW o \in Opens, NEW x, x \in Leads(o.path), NEW y, y \in Leads(o.path)
  PROVE  x = y
<1>1. PICK n \in Nat : n = Len(o.path)
  BY PathIs
<1>2. x \in Trail(disc, o.path)[n] /\ y \in Trail(disc, o.path)[n] /\ n \in 0 .. n
  BY <1>1 DEF Leads
<1> QED BY <1>1, <1>2, TrailOne

(* A path that comes to nothing, or to a file before its end, leads nowhere. *)
LEMMA LeadsNowhere ==
  ASSUME NEW o \in Opens, NEW i \in 0 .. Len(o.path), \A x \in Trail(disc, o.path)[i] : x.file # NoDir,
         i = Len(o.path) => Trail(disc, o.path)[i] = {}
  PROVE  Leads(o.path) = {}
<1>1. PICK n \in Nat : n = Len(o.path)
  BY PathIs
<1>2. CASE i = n
  BY <1>1, <1>2 DEF Leads
<1>3. CASE i # n
  <2>1. n \in i + 1 .. Len(o.path)
    BY <1>1, <1>3
  <2>2. Len(o.path) \in Nat
    BY <1>1
  <2> QED BY <1>1, <2>1, <2>2, TrailEnds DEF Leads
<1> QED BY <1>2, <1>3

LEMMA WalkEndFails ==
  ASSUME InPlace, Sure, Single, NEW t \in Threads, WalkEnd(t), ~pc[t].o.list
  PROVE  ~IsFile(pc[t].o.path)
<1>1. pc[t].do = "walk" /\ pc[t] # Idle /\ pc[t].rest = <<>>
  BY DEF WalkEnd, Doing
<1>2. PICK o \in Opens, d \in DOMAIN dents : o = pc[t].o /\ d = pc[t].d /\ OnPath(o, <<>>, d)
  BY <1>1, WalkIs
<1>3. Here(d) \in Leads(o.path)
  <2>1. Done(o, <<>>) = Len(o.path)
    <3>1. Len(<<>>) = 0
      OBVIOUS
    <3> QED BY <3>1, PathIs DEF Done
  <2> QED BY <1>2, <2>1 DEF OnPath, Leads
<1>4. ASSUME NEW x, x \in Leads(o.path) PROVE x.file = NoDir
  BY <1>3, <1>4, LeadsOne, PlaceIs DEF Sure, Single, Here
<1> QED BY <1>2, <1>4 DEF IsFile

LEMMA WalkMissingFails ==
  ASSUME InPlace, Sure, Single, NEW t \in Threads, NEW n \in Names, Reads(t, n), Matches(pc[t].d, n) = {},
         ~Loading(pc[t].d)
  PROVE  ~IsFile(pc[t].o.path) /\ ~IsDir(pc[t].o.path)
<1>1. pc[t].do = "walk" /\ pc[t] # Idle /\ pc[t].rest # <<>> /\ Head(pc[t].rest) = n /\ ~halted
  BY DEF Reads, Doing
<1>2. PICK o \in Opens, d \in DOMAIN dents : o = pc[t].o /\ d = pc[t].d
  BY <1>1, WalkIs
<1>3. PICK rest \in Seq(Parts) : rest = pc[t].rest /\ rest # <<>> /\ Head(rest) = n /\ OnPath(o, rest, d)
  BY <1>1, <1>2, WalkIs
<1>4. Whole(d) /\ AsOnDisc(d) /\ dents[d].dir \in Dirs /\ disc[dents[d].dir] \in Seq(Entries)
  BY <1>1, <1>2, NotLoading, DentIs DEF Single, InPlace, Sure, FromDisc
<1>5. PICK m \in Nat : m = Len(dents[d].elems) /\ DOMAIN dents[d].elems = 1 .. m
  BY DentIs DEF InPlace
<1>6. DOMAIN disc[dents[d].dir] = DOMAIN dents[d].elems
  BY <1>4, <1>5 DEF AsOnDisc
<1>7. \A i \in DOMAIN disc[dents[d].dir] : disc[dents[d].dir][i].name # n
  BY <1>2, <1>4, <1>6 DEF AsOnDisc, Matches
<1>8. \A x : x \notin Under(disc, dents[d].dir, n)
  <2>1. n \notin {Dot, DotDot}
    BY VfsAssumption
  <2> QED BY <1>4, <1>7, <2>1, UnderIs DEF Sure
<1>9. /\ Done(o, Tail(rest)) \in 1 .. Len(o.path) /\ Done(o, rest) \in 0 .. Len(o.path)
      /\ Done(o, Tail(rest)) = Done(o, rest) + 1 /\ o.path[Done(o, Tail(rest))] = n
  BY <1>3, EndsOn DEF OnPath
<1>10. PICK i \in 1 .. Len(o.path) : i = Done(o, Tail(rest)) /\ i - 1 = Done(o, rest) /\ i - 1 \in 0 .. Len(o.path) /\ o.path[i] = n
  BY <1>9
<1>11. \A y \in Trail(disc, o.path)[i - 1] : y = Here(d)
  <2>1. Here(d) \in Trail(disc, o.path)[i - 1]
    BY <1>3, <1>10 DEF OnPath
  <2> QED BY <1>10, <2>1, PathIs, TrailOne DEF Sure, Single
<1>12. \A x : x \notin Trail(disc, o.path)[i]
  <2>1. Trail(disc, o.path)[i] = Turn(disc, Trail(disc, o.path)[i - 1], n)
    BY <1>10, PathIs, TrailIs
  <2>2. Here(d).dir = dents[d].dir
    BY PlaceIs DEF Here
  <2> QED BY <1>8, <1>11, <2>1, <2>2, TurnIs
<1>13. i \in 0 .. Len(o.path)
  OBVIOUS
<1>14. Leads(o.path) = {}
  BY <1>12, <1>13, LeadsNowhere
<1> QED BY <1>2, <1>14 DEF IsFile, IsDir

LEMMA Fewer ==
  ASSUME NEW a \in Nat, NEW b \in Nat, b # 0
  PROVE  a - b # a
OBVIOUS

LEMMA WalkFileFails ==
  ASSUME InPlace, Sure, Single, NEW t \in Threads, NEW n \in Names, Reads(t, n), Matches(pc[t].d, n) # {},
         At(<<pc[t].d, Find(pc[t].d, n)>>).is = NoDir
  PROVE  /\ ~IsLast(t) => ~IsFile(pc[t].o.path) /\ ~IsDir(pc[t].o.path)
         /\ IsLast(t) => ~IsDir(pc[t].o.path)
<1>1. pc[t].do = "walk" /\ pc[t] # Idle /\ pc[t].rest # <<>> /\ Head(pc[t].rest) = n
  BY DEF Reads, Doing
<1>2. PICK o \in Opens, d \in DOMAIN dents : o = pc[t].o /\ d = pc[t].d
  BY <1>1, WalkIs
<1>3. PICK rest \in Seq(Parts) : rest = pc[t].rest /\ rest # <<>> /\ Head(rest) = n /\ OnPath(o, rest, d)
  BY <1>1, <1>2, WalkIs
<1>4. PICK e : e = <<d, Find(d, n)>>
  OBVIOUS
<1>5. There(e) /\ At(e).name = n /\ e[1] = d /\ At(e).is = NoDir
  BY <1>2, <1>4, FirstIs DEF InPlace, There, At
<1>6. PICK x : x = Place(dents[d].dir, n)
  OBVIOUS
<1>7. x \in Under(disc, dents[d].dir, Head(rest)) /\ x.file # NoDir
  <2>1. x.file = n /\ n # NoDir
    BY <1>6, PlaceIs, VfsAssumption
  <2> QED BY <1>3, <1>5, <1>6, <2>1, ElemLeads DEF Sure, InPlace
<1>8. x \in Trail(disc, o.path)[Done(o, Tail(rest))] /\ (Tail(rest) = <<>> => x \in Leads(o.path))
  BY <1>3, <1>7, FurtherOn DEF Sure
<1>9. CASE IsLast(t)
  <2>1. x \in Leads(o.path)
    BY <1>3, <1>8, <1>9 DEF IsLast
  <2>2. ASSUME NEW y, y \in Leads(o.path) PROVE y.file # NoDir
    BY <1>7, <2>1, <2>2, LeadsOne DEF Sure, Single
  <2> QED BY <1>2, <1>9, <2>2 DEF IsDir
<1>10. CASE ~IsLast(t)
  <2>1. PICK i \in 1 .. Len(o.path) : i = Done(o, Tail(rest)) /\ i # Len(o.path)
    <3>1. Done(o, Tail(rest)) \in 1 .. Len(o.path)
      BY <1>3, EndsOn DEF OnPath
    <3>2. Len(Tail(rest)) \in Nat /\ Len(Tail(rest)) # 0
      <4>1. Tail(rest) \in Seq(Parts) /\ Tail(rest) # <<>>
        BY <1>3, <1>10, TailIs DEF IsLast
      <4>2. PICK r \in Seq(Parts) : r = Tail(rest)
        BY <4>1
      <4>3. Len(r) \in Nat \ {0}
        BY <4>1, <4>2, EmptySeq
      <4> QED BY <4>2, <4>3
    <3>3. Done(o, Tail(rest)) # Len(o.path)
      <4>1. PICK a \in Nat : a = Len(o.path)
        BY PathIs
      <4>2. PICK b \in Nat : b = Len(Tail(rest)) /\ b # 0
        BY <3>2
      <4>3. Done(o, Tail(rest)) = a - b
        BY <4>1, <4>2 DEF Done
      <4>4. a - b # a
        BY <4>2, Fewer
      <4> QED BY <4>1, <4>3, <4>4
    <3> QED BY <3>1, <3>3
  <2>2. i \in 0 .. Len(o.path)
    OBVIOUS
  <2>3. \A y \in Trail(disc, o.path)[i] : y.file # NoDir
    BY <1>7, <1>8, <2>1, <2>2, PathIs, TrailOne DEF Sure, Single
  <2>4. Leads(o.path) = {}
    BY <2>1, <2>2, <2>3, LeadsNowhere
  <2> QED BY <1>2, <1>10, <2>4 DEF IsFile, IsDir
<1> QED BY <1>9, <1>10

LEMMA FailsMove ==
  ASSUME InPlace, FailsRight, crossed => crossed', NEW t \in Threads, Others(t),
         pc'[t] # Idle /\ pc'[t].do = "failed" /\ pc'[t].was => crossed' \/ pc'[t].why = "no room"
  PROVE  FailsRight'
<1>1. ASSUME NEW u \in Threads, pc'[u] # Idle, pc'[u].do = "failed", pc'[u].was
      PROVE  crossed' \/ pc'[u].why = "no room"
  BY <1>1 DEF Others, FailsRight
<1> QED BY <1>1 DEF FailsRight

LEMMA FailsOther ==
  ASSUME InPlace, FailsRight, crossed => crossed', NEW t \in Threads, NEW c, Does(t, c),
         c = Idle \/ c.do # "failed"
  PROVE  FailsRight'
<1>1. pc'[t] = c /\ Others(t)
  BY DEF Does, InPlace, PcOK, Others
<1> QED BY <1>1, FailsMove

LEMMA FailsStop ==
  ASSUME InPlace, FailsRight, crossed => crossed', NEW t \in Threads,
         NEW why \in Reasons, Stop(t, why),
         \/ why = "no room" \/ crossed'
         \/ IF pc[t].o.list THEN ~IsDir(pc[t].o.path) ELSE ~IsFile(pc[t].o.path)
  PROVE  FailsRight'
<1>1. PICK c \in Doings :
        /\ Does(t, c) /\ c.do = "failed" /\ c.why = why
        /\ c.was = IF pc[t].o.list THEN IsDir(pc[t].o.path) ELSE IsFile(pc[t].o.path)
  BY StopIs DEF InPlace, PcOK
<1>2. pc'[t] = c /\ Others(t)
  BY <1>1 DEF Does, InPlace, PcOK, Others
<1>3. c.was => crossed' \/ c.why = "no room"
  BY <1>1
<1> QED BY <1>2, <1>3, FailsMove

LEMMA FailsDeeper ==
  ASSUME InPlace, FailsRight, crossed => crossed', NEW t \in Threads, NEW d, Deeper(t, d)
  PROVE  FailsRight'
<1>1. PICK c : c = [do |-> "walk", o |-> pc[t].o, rest |-> Tail(pc[t].rest), d |-> d]
  OBVIOUS
<1>2. Does(t, c) /\ c.do = "walk"
  BY <1>1 DEF Deeper, Does
<1> QED BY <1>2, FailsOther

LEMMA WalkFails ==
  ASSUME InPlace, Sure, FailsRight, ~crossed => Single, NEW t \in Threads,
         Begin(t) \/ WalkEnd(t) \/ WalkDots(t) \/ WalkMissing(t) \/ WalkFile(t) \/ WalkDir(t),
         crossed => crossed'
  PROVE  FailsRight'
<1>1. CASE Begin(t)
  <2>1. PICK o, c : c = [do |-> "walk", o |-> o, rest |-> o.path, d |-> 1] /\ pc' = [pc EXCEPT ![t] = c]
    BY <1>1 DEF Begin
  <2>2. Does(t, c) /\ c.do = "walk"
    BY <2>1 DEF Does
  <2> QED BY <2>2, FailsOther
<1>2. CASE WalkEnd(t)
  <2>1. crossed' = crossed
    BY <1>2 DEF WalkEnd
  <2>2. CASE pc' = [pc EXCEPT ![t] = [do |-> "listed", o |-> @.o, d |-> @.d]]
    <3>1. PICK c : c = [do |-> "listed", o |-> pc[t].o, d |-> pc[t].d]
      OBVIOUS
    <3>2. Does(t, c) /\ c.do = "listed"
      BY <2>2, <3>1 DEF Does
    <3> QED BY <3>2, FailsOther
  <2>3. CASE ~pc[t].o.list /\ Stop(t, "not a file")
    BY <1>2, <2>1, <2>3, WalkEndFails, FailsStop DEF Reasons
  <2> QED BY <1>2, <2>2, <2>3 DEF WalkEnd
<1>3. CASE WalkDots(t)
  BY <1>3, FailsDeeper DEF WalkDots
<1>4. CASE WalkMissing(t)
  <2>1. PICK n \in Names :
        /\ Reads(t, n) /\ Matches(pc[t].d, n) = {} /\ crossed' = (crossed \/ Loading(pc[t].d))
        /\ \/ pc' = [pc EXCEPT ![t] = [do |-> "create", o |-> @.o, d |-> @.d, name |-> n,
                                       seen |-> Len(dents[@.d].elems)]]
           \/ Stop(t, "missing")
    BY <1>4 DEF WalkMissing
  <2>2. CASE pc' = [pc EXCEPT ![t] = [do |-> "create", o |-> @.o, d |-> @.d, name |-> n,
                                      seen |-> Len(dents[@.d].elems)]]
    <3>1. PICK c : c = [do |-> "create", o |-> pc[t].o, d |-> pc[t].d, name |-> n,
                        seen |-> Len(dents[pc[t].d].elems)]
      OBVIOUS
    <3>2. Does(t, c) /\ c.do = "create"
      BY <2>2, <3>1 DEF Does
    <3> QED BY <3>2, FailsOther
  <2>3. CASE Stop(t, "missing")
    <3>1. crossed' \/ (~IsFile(pc[t].o.path) /\ ~IsDir(pc[t].o.path))
      BY <2>1, WalkMissingFails
    <3> QED BY <2>3, <3>1, FailsStop DEF Reasons
  <2> QED BY <2>1, <2>2, <2>3
<1>5. CASE WalkFile(t)
  <2>1. PICK n \in Names :
        /\ Reads(t, n) /\ Matches(pc[t].d, n) # {} /\ At(<<pc[t].d, Find(pc[t].d, n)>>).is = NoDir
        /\ \/ pc' = [pc EXCEPT ![t] = [do |-> "opened", o |-> @.o, e |-> <<pc[t].d, Find(pc[t].d, n)>>]]
           \/ (~IsLast(t) \/ pc[t].o.list) /\ Stop(t, "not a directory")
    BY <1>5 DEF WalkFile
  <2>2. CASE pc' = [pc EXCEPT ![t] = [do |-> "opened", o |-> @.o, e |-> <<pc[t].d, Find(pc[t].d, n)>>]]
    <3>1. PICK c : c = [do |-> "opened", o |-> pc[t].o, e |-> <<pc[t].d, Find(pc[t].d, n)>>]
      OBVIOUS
    <3>2. Does(t, c) /\ c.do = "opened"
      BY <2>2, <3>1 DEF Does
    <3> QED BY <3>2, FailsOther
  <2>3. CASE (~IsLast(t) \/ pc[t].o.list) /\ Stop(t, "not a directory")
    <3>1. crossed \/ IF pc[t].o.list THEN ~IsDir(pc[t].o.path) ELSE ~IsFile(pc[t].o.path)
      BY <2>1, <2>3, WalkFileFails
    <3> QED BY <2>3, <3>1, FailsStop DEF Reasons
  <2> QED BY <2>1, <2>2, <2>3
<1>6. CASE WalkDir(t)
  <2>1. PICK e : \/ Deeper(t, At(e).sub)
                 \/ pc' = [pc EXCEPT ![t] = [do |-> "copy", o |-> @.o, rest |-> @.rest, d |-> @.d,
                                             e |-> e, seen |-> At(e).sub]]
    BY <1>6 DEF WalkDir
  <2>2. CASE pc' = [pc EXCEPT ![t] = [do |-> "copy", o |-> @.o, rest |-> @.rest, d |-> @.d,
                                      e |-> e, seen |-> At(e).sub]]
    <3>1. PICK c : c = [do |-> "copy", o |-> pc[t].o, rest |-> pc[t].rest, d |-> pc[t].d,
                        e |-> e, seen |-> At(e).sub]
      OBVIOUS
    <3>2. Does(t, c) /\ c.do = "copy"
      BY <2>2, <3>1 DEF Does
    <3> QED BY <3>2, FailsOther
  <2> QED BY <2>1, <2>2, FailsDeeper
<1> QED BY <1>1, <1>2, <1>3, <1>4, <1>5, <1>6

LEMMA RestFails ==
  ASSUME InPlace, FailsRight, NEW t \in Threads, crossed => crossed',
         \/ Ask(t) \/ Fetch(t) \/ Copy(t) \/ Link(t) \/ Load(t) \/ Loaded(t) \/ Create(t) \/ Fail(t)
         \/ OpenLoad(t) \/ OpenStore(t) \/ CloseStore(t) \/ Act(t) \/ Unpark(t)
         \/ \E f \in Slots : CloseLoad(t, f) \/ \E op \in Ops : Park(t, f, op)
  PROVE  FailsRight'
<1>1. CASE Copy(t)
  <2>1. PICK d, k, c : Does(t, c) /\ c.do = "link"
    BY <1>1, CopyIs
  <2> QED BY <2>1, FailsOther
<1>2. CASE Link(t)
  <2>1. PICK d, c : Does(t, c) /\ c.do = "load"
    BY <1>2, LinkIs
  <2> QED BY <2>1, FailsOther
<1>3. CASE Load(t)
  <2>1. PICK d, k, c, z : Does(t, c) /\ c.do = "load"
    BY <1>3, LoadIs DEF Reading
  <2> QED BY <2>1, FailsOther
<1>4. CASE Loaded(t)
  <2>1. PICK c : c = [do |-> "walk", o |-> pc[t].o, rest |-> Tail(pc[t].rest), d |-> At(pc[t].e).sub]
    OBVIOUS
  <2>2. Does(t, c) /\ c.do = "walk"
    BY <1>4, <2>1 DEF Loaded, Does
  <2> QED BY <2>2, FailsOther
<1>5. CASE Create(t)
  <2>1. CASE UNCHANGED <<crossed, pc>>
    BY <2>1 DEF FailsRight
  <2>2. CASE Stop(t, "no room")
    BY <2>2, FailsStop DEF Reasons
  <2>3. CASE ~UNCHANGED <<crossed, pc>> /\ ~Stop(t, "no room")
    <3>1. PICK c : Does(t, c) /\ c.do = "opened"
      BY <1>5, <2>3, CreateIs
    <3> QED BY <3>1, FailsOther
  <2> QED BY <2>1, <2>2, <2>3
<1>6. CASE Fail(t) \/ OpenStore(t) \/ CloseStore(t) \/ Unpark(t)
  <2>1. Does(t, Idle)
    BY <1>6 DEF Fail, OpenStore, CloseStore, Unpark, Does
  <2> QED BY <2>1, FailsOther
<1>7. CASE OpenLoad(t)
  <2>1. PICK c : Does(t, c) /\ c.do = "count"
    BY <1>7, OpenLoadIs
  <2> QED BY <2>1, FailsOther
<1>8. CASE Act(t)
  <2>1. CASE UNCHANGED pc
    <3>1. crossed' = crossed
      BY <1>8 DEF Act
    <3> QED BY <2>1, <3>1 DEF FailsRight
  <2>2. CASE ~UNCHANGED pc
    <3>1. PICK y, c, e, x, f : Acts(t, y, c, e, x, f)
      BY <1>8, <2>2, ActIs
    <3>2. Does(t, c) /\ c.do = "unpark"
      BY <3>1 DEF Acts
    <3> QED BY <3>2, FailsOther
  <2> QED BY <2>1, <2>2
<1>9. ASSUME NEW f \in Slots, CloseLoad(t, f) PROVE FailsRight'
  <2>1. PICK c : Does(t, c) /\ c.do = "drop"
    BY <1>9, CloseLoadIs
  <2> QED BY <2>1, FailsOther
<1>10. ASSUME NEW f \in Slots, NEW op \in Ops, Park(t, f, op) PROVE FailsRight'
  <2>1. PICK y, c, e : Parks(t, f, op, y, c, e)
    BY <1>10, ParkIs
  <2>2. Does(t, c) /\ c.do = "act"
    BY <2>1 DEF Parks
  <2> QED BY <2>2, FailsOther
<1>11. CASE Ask(t)
  <2>1. PICK c : Does(t, c) /\ c.do = "load"
    BY <1>11, AskIs DEF Reading
  <2> QED BY <2>1, FailsOther
<1>12. CASE Fetch(t)
  <2>1. PICK d, k, y, c : Does(t, c) /\ c.do = "load"
    BY <1>12, FetchIs DEF Reading
  <2> QED BY <2>1, FailsOther
<1> QED BY <1>1, <1>2, <1>3, <1>4, <1>5, <1>6, <1>7, <1>8, <1>9, <1>10, <1>11, <1>12

----------------------------------------------------------------------------
LEMMA InitLook == VfsInit => InPlace /\ LookInv
BY InitInPlace, InitSure DEF LookInv, Sure

(* No step undoes a reading from past the beginning. *)
LEMMA AstrayStays ==
  ASSUME [VfsNext]_vfsVars, astray
  PROVE  astray'
<1>1. CASE UNCHANGED vfsVars
  BY <1>1 DEF vfsVars
<1>2. ASSUME NEW t \in Threads, NEW f \in Slots, CloseLoad(t, f) \/ \E op \in Ops : Park(t, f, op)
      PROVE  astray'
  BY <1>2 DEF CloseLoad, Park
<1>3. ASSUME NEW t \in Threads, OpenLoad(t) \/ OpenStore(t) \/ CloseStore(t) \/ Act(t) \/ Unpark(t) \/ Fail(t)
      PROVE  astray'
  BY <1>3 DEF OpenLoad, OpenStore, CloseStore, Act, Unpark, Fail
<1>4. ASSUME NEW t \in Threads, Begin(t) \/ WalkEnd(t) \/ WalkDots(t) \/ WalkMissing(t) \/ WalkFile(t) \/ WalkDir(t)
      PROVE  astray'
  BY <1>4 DEF Begin, WalkEnd, WalkDots, WalkMissing, WalkFile, WalkDir
<1>5. ASSUME NEW t \in Threads,
             \/ Copy(t) \/ Link(t) \/ Ask(t) \/ Fetch(t) \/ Load(t) \/ Garbled(t) \/ Loaded(t) \/ Create(t)
      PROVE  astray'
  BY <1>5 DEF Copy, Link, Ask, Fetch, Load, Garbled, Loaded, Create
<1> QED BY <1>1, <1>2, <1>3, <1>4, <1>5 DEF VfsNext

LEMMA NextLook == InPlace /\ LookInv /\ [VfsNext]_vfsVars => LookInv'
<1> SUFFICES ASSUME InPlace, LookInv, [VfsNext]_vfsVars, ~astray' PROVE (Sure /\ (~crossed => Single) /\ FailsRight)'
  BY DEF LookInv, Sure
<1>1. Sure /\ FailsRight /\ (~crossed => Single)
  BY AstrayStays DEF LookInv, Sure
<1>2. Sure'
  BY <1>1, NextSure
<1>3. (crossed => crossed') /\ (~crossed' => Single')
  BY <1>1, NextSingle
<1>4. FailsRight'
  <2>1. CASE UNCHANGED vfsVars
    BY <1>1, <2>1 DEF vfsVars, FailsRight
  <2>2. ASSUME NEW t \in Threads,
               Begin(t) \/ WalkEnd(t) \/ WalkDots(t) \/ WalkMissing(t) \/ WalkFile(t) \/ WalkDir(t)
        PROVE  FailsRight'
    BY <1>1, <1>3, <2>2, WalkFails
  <2>3. ASSUME NEW t \in Threads,
               \/ Ask(t) \/ Fetch(t) \/ Copy(t) \/ Link(t) \/ Load(t) \/ Loaded(t) \/ Create(t) \/ Fail(t)
               \/ OpenLoad(t) \/ OpenStore(t) \/ CloseStore(t) \/ Act(t) \/ Unpark(t)
               \/ \E f \in Slots : CloseLoad(t, f) \/ \E op \in Ops : Park(t, f, op)
        PROVE  FailsRight'
    BY <1>1, <1>3, <2>3, RestFails
  <2>4. ASSUME NEW t \in Threads, Garbled(t) PROVE FALSE
    BY <1>1, <2>4, GarbledSure
  <2> QED BY <2>1, <2>2, <2>3, <2>4 DEF VfsNext
<1> QED BY <1>2, <1>3, <1>4

LEMMA LookInvHolds == VfsSpec => [](InPlace /\ LookInv)
<1>1. InPlace /\ LookInv /\ [VfsNext]_vfsVars => (InPlace /\ LookInv)'
  BY NextInPlace, NextLook
<1> QED BY InitLook, <1>1, PTL DEF VfsSpec

(* Until one lookup reads a directory of the ISO that another has read,    *)
(* and whatever else they race on, a descriptor is of the file its path    *)
(* names, a listing of the directory it names, and, unless a lookup went   *)
(* through a dentry another one was filling, a call that fails missed      *)
(* nothing.                                                                *)
THEOREM LookupsAreRight == VfsSpec => [](~astray => LookupRight)
<1>1. LookInv => (~astray => LookupRight)
  <2> SUFFICES ASSUME LookInv, ~astray PROVE LookupRight
    OBVIOUS
  <2>1. ASSUME NEW f \in Slots, files[f] # Free
        PROVE  Place(dents[files[f].e[1]].dir, At(files[f].e).name) \in Leads(files[f].o.path)
    BY <2>1 DEF LookInv, Track, IsAt
  <2>2. ASSUME NEW t \in Threads, Doing(t, "listed")
        PROVE  Place(dents[pc[t].d].dir, NoDir) \in Leads(pc[t].o.path)
    BY <2>2 DEF LookInv, Track, OnWay, Here, Doing
  <2>3. ASSUME NEW t \in Threads, Doing(t, "failed"), pc[t].was
        PROVE  crossed \/ pc[t].why = "no room"
    BY <2>3 DEF LookInv, FailsRight, Doing
  <2> QED BY <2>1, <2>2, <2>3 DEF LookupRight
<1> QED BY <1>1, LookInvHolds, PTL

(* Until then, and as long as no lookup went through a dentry another one  *)
(* was filling, a directory is read once and has one dentry, and a file    *)
(* has one inode.                                                          *)
THEOREM ThereIsOneOfEach == VfsSpec => [](~astray => OneOfEach)
<1>1. InPlace /\ LookInv => (~astray => OneOfEach)
  <2> SUFFICES ASSUME InPlace, LookInv, ~astray, ~crossed PROVE
        /\ \A d, c \in DOMAIN dents : dents[d].dir = dents[c].dir => d = c
        /\ \A d \in DOMAIN dents : \A i, j \in DOMAIN dents[d].elems :
             dents[d].elems[i].name = dents[d].elems[j].name => i = j
    BY DEF OneOfEach
  <2>1. Single /\ Sure
    BY DEF LookInv, Sure
  <2>2. ASSUME NEW d \in DOMAIN dents, NEW i \in DOMAIN dents[d].elems, NEW j \in DOMAIN dents[d].elems,
               dents[d].elems[i].name = dents[d].elems[j].name
        PROVE  i = j
    <3>1. dents[d].dir \in Dirs /\ i \in DOMAIN disc[dents[d].dir] /\ j \in DOMAIN disc[dents[d].dir]
      BY <2>1, EntryOf
    <3>2. disc[dents[d].dir][i].name = disc[dents[d].dir][j].name
      BY <2>1, <2>2 DEF Single, AsOnDisc
    <3> QED BY <2>1, <3>1, <3>2 DEF Single, Distinct
  <2> QED BY <2>1, <2>2 DEF Single
<1> QED BY <1>1, LookInvHolds, PTL
=============================================================================
