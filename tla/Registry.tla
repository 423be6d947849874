------------------------------ MODULE Registry ------------------------------
(* The kernel's two number tables, both kept in the growing array of         *)
(* kernel/utils/fastmapper.c: the threads by pid (pid_mapper and the bitmap  *)
(* kpid_map, kernel/process/task.c) and the devices by order of arrival      *)
(* (dev_list, kernel/hardware/devices.c).  A fastmapper is a list of arrays  *)
(* of `unit` cells; the first is zeroed, those added later hold whatever was *)
(* in the memory kmalloc gave (Garbage).                                     *)
(*                                                                           *)
(* A thread made by create_kern_thread is entered in the mapper; one made by *)
(* user_fork only takes a pid, and clean_up_dead only gives it back (the     *)
(* call of fastmapper_remove is commented out), so stale cells remain.       *)
(* kpid_map has one bit more than thread_release_pid accepts: the last pid   *)
(* never comes back.  When no bit is free the ASSERT of bitmap_scan spins.   *)
EXTENDS Integers, Sequences, FiniteSets

CONSTANTS Tcbs,        \* the memory a TCB may be in
          MainTcb,     \* main_TCB
          LastPid,     \* MAX_PID: the number of bits is one more
          PidUnit,     \* 20, the cells of an array of pid_mapper
          Devices,     \* the disks ide_initialize may find, then those main adds
          DevMax,      \* KDEV_MAX, the cells of dev_list
          Null, Garbage

ASSUME RegistryAssumption ==
  /\ MainTcb \in Tcbs /\ LastPid \in Nat /\ PidUnit \in Nat \ {0} /\ DevMax \in Nat
  /\ Null \notin Tcbs /\ Garbage \notin Tcbs /\ Null # Garbage /\ Null \notin Nat
  /\ Devices \in Seq({Devices[i] : i \in DOMAIN Devices})
  /\ Null \notin {Devices[i] : i \in DOMAIN Devices}

VARIABLES kpidMap,    \* the pids whose bit is set
          pidMapper,
          tid,        \* of every live thread, by its TCB; Null where there is none
          entered,    \* the live threads create_TCB put in the mapper
          spinning,   \* a call is in the ASSERT's loop
          devList,
          offered,    \* how many of Devices have had their turn
          arrived,    \* the devices device_create made, in order
          devNodes    \* the entries of /dev, in order; Null before device_enum2

regVars == <<kpidMap, pidMapper, tid, entered, spinning, devList, offered, arrived, devNodes>>

(* --------------------------- fastmapper.c ------------------------------- *)

FastmapperInit(unit) ==
  [unit |-> unit, arrays |-> << [start |-> 0, elems |-> [i \in 0 .. unit - 1 |-> Null]] >>]

InArrayToo(map, k, id) ==
  /\ id >= map.arrays[k].start
  /\ id <= map.arrays[k].start + map.unit

InArray(map, k, id) ==
  /\ id >= map.arrays[k].start
  /\ id < map.arrays[k].start + map.unit

Least(S) == CHOOSE k \in S : \A j \in S : k <= j

ArraysOf(map, id) == {k \in DOMAIN map.arrays : InArray(map, k, id)}

FastmapperGet(map, id) ==
  IF ArraysOf(map, id) = {} THEN Null
  ELSE map.arrays[Least(ArraysOf(map, id))].elems[id % map.unit]

\* `granted`: whether the memory for a new array could be had.
FastmapperAdd(map, elem, id, granted) ==
  IF ArraysOf(map, id) # {}
  THEN [map EXCEPT !.arrays[Least(ArraysOf(map, id))].elems[id % map.unit] = elem]
  ELSE IF granted
  THEN [map EXCEPT !.arrays = Append(@,
          [start |-> (id \div map.unit) * map.unit,
           elems |-> [i \in 0 .. map.unit - 1 |-> IF i = id % map.unit THEN elem ELSE Garbage]])]
  ELSE map

\* The places a search meets, as <<array, cell>>, that hold one of `wanted`.
PlacesOf(map, wanted) ==
  {p \in (DOMAIN map.arrays) \X (0 .. map.unit - 1) : map.arrays[p[1]].elems[p[2]] \in wanted}

FirstPlace(S) ==
  CHOOSE p \in S : \A q \in S : p[1] < q[1] \/ (p[1] = q[1] /\ p[2] <= q[2])

AddAutoEvery(map, elem) ==
  [map EXCEPT !.arrays = [k \in DOMAIN @ |-> [@[k] EXCEPT !.elems =
      [i \in DOMAIN @ |-> IF @[i] = Null THEN elem ELSE @[i]]]]]

FastmapperAddAuto(map, elem) ==
  LET free == PlacesOf(map, {Null}) IN
  IF free = {} THEN map
  ELSE [map EXCEPT !.arrays[FirstPlace(free)[1]].elems[FirstPlace(free)[2]] = elem]

FastmapperFind(map, wanted) ==
  IF PlacesOf(map, wanted) = {} THEN Null
  ELSE map.arrays[FirstPlace(PlacesOf(map, wanted))[1]].elems[FirstPlace(PlacesOf(map, wanted))[2]]

(* ----------------------------- the threads ------------------------------ *)

PidBits == 0 .. LastPid

FreeBits == PidBits \ kpidMap

RegistryInit ==
  /\ kpidMap = {0}
  /\ pidMapper = FastmapperAdd(FastmapperInit(PidUnit), MainTcb, 0, TRUE)
  /\ tid = [t \in Tcbs |-> IF t = MainTcb THEN 0 ELSE Null]
  /\ entered = {MainTcb}
  /\ spinning = FALSE
  /\ devList = FastmapperInit(DevMax)
  /\ offered = 0 /\ arrived = << >> /\ devNodes = Null

GetPid(t) ==
  /\ ~spinning /\ FreeBits # {} /\ tid[t] = Null
  /\ kpidMap' = kpidMap \union {Least(FreeBits)}
  /\ tid' = [tid EXCEPT ![t] = Least(FreeBits)]

\* create_kern_thread: create_TCB ignores what fastmapper_add returns.
CreateThread(t, granted) ==
  /\ GetPid(t)
  /\ pidMapper' = FastmapperAdd(pidMapper, t, Least(FreeBits), granted)
  /\ entered' = IF ArraysOf(pidMapper, Least(FreeBits)) # {} \/ granted
                THEN entered \union {t} ELSE entered
  /\ UNCHANGED <<spinning, devList, offered, arrived, devNodes>>

ForkThread(t) ==
  /\ GetPid(t)
  /\ UNCHANGED <<pidMapper, entered, spinning, devList, offered, arrived, devNodes>>

\* The ASSERT of bitmap_scan, whoever asks: the machine goes no further.
NoPidLeft ==
  /\ ~spinning /\ FreeBits = {} /\ \E t \in Tcbs : tid[t] = Null
  /\ spinning' = TRUE
  /\ UNCHANGED <<kpidMap, pidMapper, tid, entered, devList, offered, arrived, devNodes>>

ReleasedEarly(pid) == kpidMap \ {pid, pid + 1}

Released(pid) == IF pid >= LastPid THEN kpidMap ELSE kpidMap \ {pid}

\* clean_up_dead, for any thread but the main one (which never ends).
CleanUpDead(t) ==
  /\ ~spinning /\ tid[t] # Null /\ tid[t] # 0
  /\ kpidMap' = Released(tid[t])
  /\ tid' = [tid EXCEPT ![t] = Null]
  /\ entered' = entered \ {t}
  /\ UNCHANGED <<pidMapper, spinning, devList, offered, arrived, devNodes>>

(* ----------------------------- the devices ------------------------------ *)

\* The next device is there and could be created, or it is passed over: a disk
\* is absent, or device_create had no memory and device_add returns at once.
DeviceAdd(made) ==
  /\ ~spinning /\ offered < Len(Devices)
  /\ offered' = offered + 1
  /\ devList' = IF made THEN FastmapperAddAuto(devList, Devices[offered + 1]) ELSE devList
  /\ arrived' = IF made THEN Append(arrived, Devices[offered + 1]) ELSE arrived
  /\ UNCHANGED <<kpidMap, pidMapper, tid, entered, spinning, devNodes>>

\* device_enum2 walks from cell 0 to the first empty one.
Enumerated ==
  LET End == Least({i \in 0 .. DevMax : FastmapperGet(devList, i) = Null})
  IN [i \in 1 .. End |-> FastmapperGet(devList, i - 1)]

DeviceEnum ==
  /\ ~spinning /\ devNodes = Null /\ offered = Len(Devices)
  /\ devNodes' = Enumerated
  /\ UNCHANGED <<kpidMap, pidMapper, tid, entered, spinning, devList, offered, arrived>>

RegistryNext ==
  \/ \E t \in Tcbs : \/ \E granted \in BOOLEAN : CreateThread(t, granted)
                     \/ ForkThread(t)
                     \/ CleanUpDead(t)
  \/ NoPidLeft
  \/ \E made \in BOOLEAN : DeviceAdd(made)
  \/ DeviceEnum

RegistrySpec == RegistryInit /\ [][RegistryNext]_regVars
-----------------------------------------------------------------------------
(* device_find of a device that was added gives that device, and /dev shows  *)
(* the devices that were added, all of them and in the order they came, as   *)
(* long as there are no more of them than dev_list has cells (a device more  *)
(* is dropped without a word: device_add's -1 is ignored).                   *)
DevicesShown ==
  /\ \A i \in DOMAIN arrived : i <= DevMax => FastmapperFind(devList, {arrived[i]}) = arrived[i]
  /\ devNodes # Null => devNodes = SubSeq(arrived, 1, IF Len(arrived) <= DevMax THEN Len(arrived) ELSE DevMax)

(* Whatever arrays were added and whatever pids were reused since:           *)
(*  - get_tcb(pid) of a thread that create_TCB entered gives that thread as  *)
(*    long as it lives, and no two live threads have the same pid.  A forked *)
(*    thread is not found, and one whose array could not be had is not.      *)
(*  - A bit of kpid_map is set exactly for the pids of the live threads: a   *)
(*    pid is neither lost nor given twice - but for the last one, which      *)
(*    thread_release_pid refuses to take back.                               *)
CreatedFound ==
  /\ \A t \in entered : FastmapperGet(pidMapper, tid[t]) = t
  /\ \A t, u \in Tcbs : t # u /\ tid[t] # Null => tid[t] # tid[u]

PidsReturned ==
  LET held == {tid[t] : t \in {u \in Tcbs : tid[u] # Null}}
  IN held \subseteq kpidMap /\ kpidMap \ held \subseteq {LastPid}

PidMap == CreatedFound /\ PidsReturned
=============================================================================
