------------------------- MODULE MCBarrelLifecycle -------------------------
(* A small instance of BarrelLifecycle for TLC. *)
EXTENDS BarrelLifecycle, TLC

Symmetry == Permutations(Proc) \cup Permutations(Orders) \cup Permutations(Disposals)
=============================================================================
