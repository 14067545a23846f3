------------------------------- MODULE MC_QtRpc -------------------------------
(* Instances of QtRpc for TLC.                                               *)
EXTENDS QtRpc
===============================================================================
