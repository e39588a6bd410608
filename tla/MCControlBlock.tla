--------------------------- MODULE MCControlBlock ---------------------------
(***************************************************************************)
(* Instances of ControlBlock for TLC.                                      *)
(***************************************************************************)
EXTENDS ControlBlock
=============================================================================
