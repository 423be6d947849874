------------------------------- MODULE MCVfs -------------------------------
(* A disc with a directory of one file, a volume with a file and a         *)
(* directory of one file, a device; two threads, two descriptors.          *)
EXTENDS Vfs, TLC

Dir(n, d) == [name |-> n, is |-> d, size |-> 1]
File(n, s) == [name |-> n, is |-> NoDir, size |-> s]

MCDirs == {"root", "dev", "mnt", "boot", "sub"}
MCBooted == <<"root", "dev", "mnt">>
MCKind == [d \in MCDirs |-> CASE d \in {"root", "boot"} -> "iso" [] d = "dev" -> "null"
                              [] d \in {"mnt", "sub"} -> "fat"]
MCDisc == [d \in MCDirs |->
  CASE d = "root" -> <<Dir("boot", "boot"), Dir("dev", "dev"), Dir("mnt", "mnt")>>
    [] d = "dev" -> <<File("kbd", 0)>>
    [] d = "mnt" -> <<Dir("sub", "sub"), File("log", 1)>>
    [] d = "boot" -> <<File("cfg", 1)>>
    [] d = "sub" -> <<File("old", 0)>>]
MCBehind == {<<File("x", 1)>>}
Flags(p, c, w) == [path |-> p, creat |-> c, wr |-> w, list |-> FALSE]
Listing(p) == [path |-> p, creat |-> FALSE, wr |-> FALSE, list |-> TRUE]
MCOpens == {
  Flags(<<"boot", "cfg">>, FALSE, TRUE), Flags(<<"boot", "x">>, FALSE, FALSE),
  Flags(<<".", "dev", "kbd">>, FALSE, TRUE),
  Flags(<<"dev", "new">>, TRUE, FALSE), Flags(<<"mnt">>, TRUE, FALSE),
  Flags(<<"mnt", "sub", "..", "log">>, FALSE, FALSE),
  Flags(<<"mnt", "sub", "new">>, TRUE, TRUE), Flags(<<"mnt", "sub", "old">>, FALSE, FALSE),
  Listing(<<"mnt", "sub">>), Listing(<<"boot", "cfg", "x">>)}

Alike == Permutations(Threads) \cup Permutations(Slots)
=============================================================================
