----------------------------- MODULE MCAnomalies -----------------------------
(***************************************************************************)
(* Instances of Anomalies for TLC.                                         *)
(***************************************************************************)
EXTENDS Anomalies

\* Fear in the place of the immunity a resistance leaves.
IntoFear == {<<21, 6>>}
=============================================================================
