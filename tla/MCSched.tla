------------------------------ MODULE MCSched ------------------------------
(***************************************************************************)
(* Instances of the scheduler for TLC: the boot thread, the keyboard       *)
(* thread, and user threads that fork from init.                           *)
(***************************************************************************)
EXTENDS SchedTurns

CONSTANTS main, key, init, sh, none

WithKeyThread == {main, key, init, sh}
KeyOnly == {key}
Nap == {2}
=============================================================================
