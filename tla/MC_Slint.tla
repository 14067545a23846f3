------------------------------- MODULE MC_Slint -------------------------------
(* Instances of SlintClient for TLC: the threads, sessions and None are      *)
(* model values.                                                             *)
EXTENDS SlintClient
===============================================================================
