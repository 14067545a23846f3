------------------------------- MODULE MC_Titan -------------------------------
(* Instances of TitanBackend for TLC.  None is a model value, which TLC      *)
(* takes to be different from every number.                                  *)
EXTENDS TitanBackend
===============================================================================
