------------------------------ MODULE HashMap ------------------------------
(***************************************************************************)
(* The open-addressing hash map of utils/hashmap.c against the function    *)
(* from keys to values it stands for.                                      *)
(*                                                                         *)
(* A key is looked for, and put, in ChainLength slots from its home on.    *)
(* The table doubles when it is half full or when a chain is; moving the   *)
(* elements may fill a chain of the new table, which then doubles in the   *)
(* middle of the move.  A call is one action: the map has no lock and one  *)
(* caller at a time.  The string hash (a CRC and two mixes) is a constant. *)
(***************************************************************************)
EXTENDS Integers, FiniteSets

CONSTANTS
  Keys, MapValues,
  HashOf(_),     \* hashmap_hash_int before it is taken modulo the size
  InitialSize,   \* INITIAL_SIZE, 256
  ChainLength,   \* MAX_CHAIN_LENGTH, 8
  MaxTable,      \* the largest table kmalloc_page has pages for, 262144
  Nothing        \* the null pointer

ASSUME HashAssumption ==
  /\ InitialSize \in Nat \ {0, 1} /\ ChainLength \in 1 .. InitialSize
  /\ MaxTable \in Nat
  /\ \A k \in Keys : HashOf(k) \in Nat
ASSUME NothingAssumption == Nothing \notin MapValues

VARIABLES
  map,      \* hashmap_map: its slots and the size field
  content,  \* history: the value last put for a key, Nothing if removed
  behind,   \* history: a key was put in front of an older copy of it
  failed    \* history: a put has returned MAP_OMEM

mapVars == <<map, content, behind, failed>>

Unused == [key |-> Nothing, data |-> Nothing]
NewMap(n) == [slots |-> [i \in 0 .. n - 1 |-> Unused], size |-> 0, ok |-> TRUE]
TableSize(m) == Cardinality(DOMAIN m.slots)

MapInit ==
  /\ map = NewMap(InitialSize)
  /\ content = [k \in Keys |-> Nothing]
  /\ behind = FALSE /\ failed = FALSE

----------------------------------------------------------------------------
(* The i-th slot of the chain of a key *)
Probe(m, k, i) == (HashOf(k) + i) % TableSize(m)

Holds(m, k, i) == m.slots[Probe(m, k, i)].key = k

(* The first place in the chain of k that satisfies P *)
FirstOf(P(_)) == CHOOSE i \in {j \in 0 .. ChainLength - 1 : P(j)} :
                   \A j \in 0 .. i - 1 : ~P(j)

(* hashmap_hash: the first slot that is unused or holds the key *)
Takes(m, k, i) == m.slots[Probe(m, k, i)] = Unused \/ Holds(m, k, i)
MapFull(m, k) ==
  \/ m.size >= TableSize(m) \div 2
  \/ \A i \in 0 .. ChainLength - 1 : ~Takes(m, k, i)
Place(m, k) == FirstOf(LAMBDA i : Takes(m, k, i))

(* The data and key of the slot are overwritten, and size grows even if    *)
(* the key was there.                                                      *)
Stored(m, k, v) ==
  [m EXCEPT !.slots[Probe(m, k, Place(m, k))] = [key |-> k, data |-> v],
            !.size = @ + 1]

RECURSIVE PutIn(_, _, _), Rehashed(_), MovedFrom(_, _, _)

(* hashmap_put, with ok for its return value *)
PutIn(m, k, v) ==
  IF ~MapFull(m, k) THEN Stored(m, k, v)
  ELSE LET r == Rehashed(m) IN IF r.ok THEN PutIn(r, k, v) ELSE r

(* hashmap_rehash.  What it has not moved when a put fails is lost. *)
Rehashed(m) ==
  IF 2 * TableSize(m) > MaxTable THEN [m EXCEPT !.ok = FALSE]
  ELSE MovedFrom(m, NewMap(2 * TableSize(m)), 0)

(* The elements of old from slot i on are put into m. *)
MovedFrom(old, m, i) ==
  IF i = TableSize(old) \/ ~m.ok THEN m
  ELSE MovedFrom(old,
                 IF old.slots[i] = Unused THEN m
                   ELSE PutIn(m, old.slots[i].key, old.slots[i].data),
                 i + 1)

(* Mutant: the search ends at an unused slot. *)
FoundToHole(m, k) ==
  {i \in 0 .. ChainLength - 1 :
     Holds(m, k, i) /\ \A j \in 0 .. i - 1 : m.slots[Probe(m, k, j)] # Unused}

(* hashmap_get: the slots of the chain that hold the key; the first counts *)
FoundAt(m, k) == {i \in 0 .. ChainLength - 1 : Holds(m, k, i)}

Got(m, k) ==
  IF FoundAt(m, k) = {} THEN Nothing
  ELSE m.slots[Probe(m, k, FirstOf(LAMBDA i : i \in FoundAt(m, k)))].data

(* hashmap_iterate: the slots whose data the function is given *)
Iterated(m) == {i \in DOMAIN m.slots : m.slots[i] # Unused}

----------------------------------------------------------------------------
MapPut(k, v) ==
  LET r == PutIn(map, k, v)
  IN  /\ map' = [r EXCEPT !.ok = TRUE]
      /\ content' = IF r.ok THEN [content EXCEPT ![k] = v] ELSE content
      /\ failed' = (failed \/ ~r.ok)
      /\ behind' = \/ behind
                    \/ /\ ~MapFull(map, k)
                       /\ \E i \in FoundAt(map, k) : i > Place(map, k)

(* hashmap_remove; MAP_MISSING if no slot of the chain holds the key *)
MapRemove(k) ==
  /\ map' = IF FoundAt(map, k) = {} THEN map
            ELSE LET i == FirstOf(LAMBDA j : j \in FoundAt(map, k))
                 IN  [map EXCEPT !.slots[Probe(map, k, i)] = Unused,
                                 !.size = @ - 1]
  /\ content' = [content EXCEPT ![k] = Nothing]
  /\ UNCHANGED <<behind, failed>>

(* hashmap_free, and a hashmap_new after it *)
MapRenew ==
  /\ map' = NewMap(InitialSize)
  /\ content' = [k \in Keys |-> Nothing]
  /\ behind' = FALSE /\ failed' = FALSE

MapNext ==
  \/ \E k \in Keys : MapRemove(k) \/ \E v \in MapValues : MapPut(k, v)
  \/ MapRenew

----------------------------------------------------------------------------
(* hashmap.h: a get returns what was put last, whatever was removed from   *)
(* the chain in between and however often the table was doubled, and the   *)
(* iteration meets every key once.  It does so until a put has failed half *)
(* way through a move, or has found a slot that a removal left in front of *)
(* the key's own: the map then holds the key twice, and the older value    *)
(* comes back with the next removal or move.                               *)
MapHoldsLast ==
  ~behind /\ ~failed =>
    /\ \A k \in Keys : Got(map, k) = content[k]
    /\ Cardinality(Iterated(map)) = Cardinality({k \in Keys : content[k] # Nothing})
=============================================================================
