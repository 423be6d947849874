---------------------------- MODULE MCSchedLive ----------------------------
(* The scheduler without its history variable, for the liveness runs. *)
EXTENDS Sched

CONSTANTS main, key, init, sh, none

WithKeyThread == {main, key, init, sh}
KeyOnly == {key}
Naps == {2}
=============================================================================
