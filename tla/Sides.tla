------------------------------- MODULE Sides -------------------------------
(***************************************************************************)
(* The two robots of a battle, for the modules about the primitives.       *)
(***************************************************************************)
EXTENDS Integers

Side == {0, 1}
Opponent(s) == 1 - s
=============================================================================
