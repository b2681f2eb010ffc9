--------------------------- MODULE MCActionQueue ----------------------------
(***************************************************************************)
(* Instance of ActionQueue for TLC: the two producers of the program (the  *)
(* main loop and the down-bound thread), the two action threads main.cpp   *)
(* starts, two commands and the empty action, MaxPush enqueue calls.       *)
(***************************************************************************)
EXTENDS ActionQueue
=============================================================================
