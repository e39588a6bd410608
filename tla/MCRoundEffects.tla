--------------------------- MODULE MCRoundEffects ---------------------------
(***************************************************************************)
(* Instances of RoundEffects for TLC.                                      *)
(***************************************************************************)
EXTENDS RoundEffects

SomeRounds == {-1, 1, 2}

\* A round effect of a skill's plugin, a permanent one of the team, one of a soul
\* mark that registers at the timing point it runs at.
SomePlugins ==
  {[container |-> "skill", trigger |-> "ACTION", key |-> NoKey, duration_rounds |-> 1,
    scope |-> "ON_STAGE"],
   [container |-> "skill", trigger |-> "ACTION", key |-> 20, duration_rounds |-> -1,
    scope |-> "TEAM"],
   [container |-> "soul", trigger |-> "ACTION", key |-> 20, duration_rounds |-> 1,
    scope |-> "ON_STAGE"]}
=============================================================================
