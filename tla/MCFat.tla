------------------------------- MODULE MCFat -------------------------------
(* Two files on eight clusters of two bytes, in two groups of the table;   *)
(* the directory has one entry a cluster and grows for the second file, a  *)
(* bad cluster lies between the free ones.                                 *)
EXTENDS Fat, TLC

Alike == Permutations(Files)
=============================================================================
