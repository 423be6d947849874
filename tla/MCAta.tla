------------------------------- MODULE MCAta -------------------------------
(* A disc and a disk on a channel each, with other answers between; a disk *)
(* without LBA; and no drives, for the lock by itself.  Sector 1 is before *)
(* Far and sector 2 is not; three sectors are none in a byte.              *)
EXTENDS Ata

CONSTANTS t1, t2, t3, none

ThreeThreads == {t1, t2, t3}
No(x) == [is |-> x, lba |-> FALSE]
Disc == [is |-> "atapi", lba |-> TRUE]
Disk(l) == [is |-> "ata", lba |-> l]
Ask(t, op, num) == [by |-> t, op |-> op, lba |-> 1, num |-> num]
MCRequests ==
  {Ask(t1, "read", 2), Ask(t1, "read", 3), Ask(t2, "zero", 1), Ask(t3, "write", 2)}
MCBuses == {<<No("none"), Disc, Disk(TRUE), No("other")>>, <<No("none"), Disk(FALSE)>>, <<>>}
=============================================================================
