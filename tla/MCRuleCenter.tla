---------------------------- MODULE MCRuleCenter ----------------------------
(***************************************************************************)
(* Instances of RuleCenter for TLC.                                        *)
(***************************************************************************)
EXTENDS RuleCenter

SomeSlots == {NoSlot, 0}

Always == [at : Timing, status : {0}]

\* One anomaly turned away, and a round's protection against breaks.
SomeImmunities ==
  {[subtype |-> "ANOMALY", covers |-> Always, soul |-> FALSE, scope |-> "ON_STAGE",
    counts |-> 1, rounds |-> 0],
   [subtype |-> "BREAK", covers |-> {[at |-> "FIGHT", status |-> 0]}, soul |-> TRUE,
    scope |-> "TEAM", counts |-> 0, rounds |-> 1]}

\* An armour against one attack that may be pierced, and a seal of two rounds of
\* the team that works by chance.
SomeSeals ==
  {[subtype |-> "SEAL_ATTACK", scope |-> "ON_STAGE", counts |-> 1, rounds |-> 0,
    penetrable |-> TRUE, consumed_when_pierced |-> TRUE, conditional |-> FALSE],
   [subtype |-> "SEAL_ALL", scope |-> "TEAM", counts |-> 0, rounds |-> 2,
    penetrable |-> FALSE, consumed_when_pierced |-> FALSE, conditional |-> TRUE]}

SomeInvalids == {[category |-> "HIT_INVALID_ATTACK", subtype |-> "kFullNull", counts |-> 1]}

SomeReflections == {[scope |-> "ON_STAGE", rounds |-> 1]}
=============================================================================
