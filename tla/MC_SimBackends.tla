---------------------------- MODULE MC_SimBackends ----------------------------
(* An instance of SimBackends for TLC.                                       *)
EXTENDS SimBackends
===============================================================================
