---------------------------- MODULE CodeAllocator ----------------------------
(***************************************************************************)
(* What the global sequence of barrel codes promises, with no database,    *)
(* no transactions and no barrels in sight: codes are handed out in        *)
(* blocks, and no code is ever handed out a second time.                   *)
(* BarrelRegistry is shown to implement this specification.                *)
(***************************************************************************)
CONSTANT Codes      \* every code that can be handed out

VARIABLE issued     \* the codes handed out so far

Init == issued = {}

\* A block of codes is handed out: at least one, and none seen before.
Issue(block) ==
  /\ block # {}
  /\ block \cap issued = {}
  /\ issued' = issued \cup block

Next == \E block \in SUBSET Codes : Issue(block)

Spec == Init /\ [][Next]_issued
=============================================================================
