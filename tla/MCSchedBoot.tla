---------------------------- MODULE MCSchedBoot ----------------------------
(* The scheduler with the interruptible schedule() of the boot, for TLC. *)
EXTENDS SchedBoot

CONSTANTS main, init, none

BootAndInit == {main, init}
NoKThread == {}
LongNap == {4}
=============================================================================
