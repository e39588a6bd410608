------------------------------- MODULE MCLevels -------------------------------
(***************************************************************************)
(* Instances of Levels for TLC.                                            *)
(***************************************************************************)
EXTENDS Levels

\* The second pet of side 0 and the first of side 1.
SomeTrained == {<<0, 1>>, <<1, 0>>}
=============================================================================
