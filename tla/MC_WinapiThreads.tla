--------------------------- MODULE MC_WinapiThreads ---------------------------
(* Instances of WinapiThreads for TLC.  Threads are interchangeable.         *)
EXTENDS WinapiThreads, TLC

Symmetry == Permutations(Tids)
===============================================================================
