-------------------------------- MODULE MC_Core --------------------------------
(* Instances of Core for TLC: calls are interchangeable. *)
EXTENDS Core

Symmetry == Permutations(Calls)
===============================================================================
