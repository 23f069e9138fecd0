------------------------------ MODULE MCRegistry ------------------------------
(* Two releases with two contents; the lockfile pins the first.                *)
EXTENDS PackRegistry, TLC
CONSTANTS first, second

MCPin == [version |-> 1, sha |-> first]

Symmetry == Permutations(Callers)
=============================================================================
