---------------------------- MODULE MCStructures ----------------------------
(***************************************************************************)
(* The kernel's and the library's data structures.  None of these models   *)
(* looks at another: one of them moves in a behaviour, the others stay as  *)
(* they began.  Eight pages behind the kernel, from an odd page on, with   *)
(* blocks of one, two and four pages; two size classes with two slabs of   *)
(* four units; a hash map of eight slots that may double once and whose    *)
(* keys collide at the end of the table; three TCBs, three pids and arrays *)
(* of two; a heap of twelve units; formats of four characters; a pipe of   *)
(* five bytes with writes of up to three; two lists over three elements; a *)
(* memory of five bytes for the string functions.                          *)
(***************************************************************************)
EXTENDS Buddy, Slab, HashMap, Registry, Heap, Format, Pipe, List, Strings

CONSTANTS k1, k2, k3, k4, t1, t2, t3, ata0, fb, kbd

MCSize == [k \in Orders |-> 2^k]
TwoClasses == 1 .. 2
MCHash(k) == [x \in {k1, k2, k3, k4} |-> IF x \in {k1, k2} THEN 7 ELSE IF x = k3 THEN 8 ELSE 1][k]
MCDevices == <<ata0, fb, kbd>>
MCNumbers == {-128, -127, -1, 0, 10, 127}
MCStrings == {<< >>, <<"t", "u">>}
TwoBytes == {"x", "y"}
MCHead(l) == <<l, "head">>
MCTail(l) == <<l, "tail">>
MCElems == {<<i, "elem">> : i \in 1 .. 3}

VARIABLE moving

StructuresInit ==
  /\ moving \in {"Buddy", "Slab", "HashMap", "Registry", "Heap", "Format", "Pipe", "List", "Strings"}
  /\ BuddyInit /\ SlabInit /\ MapInit /\ RegistryInit /\ HeapInit /\ FormatInit
  /\ Init /\ (moving # "Pipe" => buf[0] = "x")
  /\ ListInit
  /\ StringsInit /\ (moving # "Strings" => store = [x \in Cells |-> 0])

Moves(who, step, others) == moving = who /\ step /\ UNCHANGED <<others, moving>>

StructuresNext ==
  \/ Moves("Buddy", BuddyNext, <<slabVars, mapVars, regVars, heapVars, formatVars, vars, listVars, stringVars>>)
  \/ Moves("Slab", SlabNext, <<buddyVars, mapVars, regVars, heapVars, formatVars, vars, listVars, stringVars>>)
  \/ Moves("HashMap", MapNext, <<buddyVars, slabVars, regVars, heapVars, formatVars, vars, listVars, stringVars>>)
  \/ Moves("Registry", RegistryNext, <<buddyVars, slabVars, mapVars, heapVars, formatVars, vars, listVars, stringVars>>)
  \/ Moves("Heap", HeapNext, <<buddyVars, slabVars, mapVars, regVars, formatVars, vars, listVars, stringVars>>)
  \/ Moves("Format", FormatNext, <<buddyVars, slabVars, mapVars, regVars, heapVars, vars, listVars, stringVars>>)
  \/ Moves("Pipe", Next, <<buddyVars, slabVars, mapVars, regVars, heapVars, formatVars, listVars, stringVars>>)
  \/ Moves("List", ListNext, <<buddyVars, slabVars, mapVars, regVars, heapVars, formatVars, vars, stringVars>>)
  \/ Moves("Strings", StringsNext, <<buddyVars, slabVars, mapVars, regVars, heapVars, formatVars, vars, listVars>>)

StructuresSpec ==
  /\ StructuresInit
  /\ [][StructuresNext]_<<moving, buddyVars, slabVars, mapVars, regVars, heapVars, formatVars, vars, listVars, stringVars>>
=============================================================================
