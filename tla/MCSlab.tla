------------------------------- MODULE MCSlab -------------------------------
(* Two size classes with slabs of four units, two slabs to a chain. *)
EXTENDS Slab

TwoClasses == 1 .. 2
=============================================================================
