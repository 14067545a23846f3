------------------------------ MODULE MC_Winapi ------------------------------
(* Instances of WinapiBackend for TLC; addresses are interchangeable.        *)
EXTENDS WinapiBackend

Symmetry == Permutations(Addrs)
===============================================================================
