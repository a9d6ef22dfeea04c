--------------------------------- MODULE Focus ---------------------------------
(* Parts of the program that share no state are put side by side in one          *)
(* specification: a behaviour is about one of them, which focus says, chosen at  *)
(* the start, and the variables of the others stay Null.                         *)

CONSTANT Null

VARIABLE focus
================================================================================
