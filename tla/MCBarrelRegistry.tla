-------------------------- MODULE MCBarrelRegistry --------------------------
(* A small instance of BarrelRegistry for TLC. *)
EXTENDS BarrelRegistry, TLC

Symmetry == Permutations(Proc) \cup Permutations(Tenants)

\* What the program's next step and the properties of the run depend on: all but
\* the history variables issued and scanned.
Relevant == <<lastNumber, barrels, cycles, history, req, torn>>
=============================================================================
