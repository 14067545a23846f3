--------------------------- MODULE MC_WinapiSearch ---------------------------
(* An instance of WinapiSearch for TLC: patterns of up to two bytes.        *)
EXTENDS WinapiSearch

ShortPatterns == SeqOf({0, 1, Wildcard}, 2)
===============================================================================
