---------------------------- MODULE MCBattleFsm ----------------------------
(***************************************************************************)
(* The instances TLC checks.  The round instance has one pet per robot     *)
(* with up to two hp and effects at one timing point of every kind; the    *)
(* switch instance has two pets per robot, each dead or alive.             *)
(***************************************************************************)
EXTENDS BattleFsm

RoundEffects == {"OPERATION_PROTECTION_MECHANISM_1", "BATTLE_FIRST_MOVE_RIGHT",
                 "BATTLE_FIRST_ACTION_START", "BATTLE_FIRST_SKILL_EFFECT",
                 "BATTLE_FIRST_MOVER_DEATH", "BATTLE_SECOND_ON_SKILL_HIT",
                 "BATTLE_AFTER_DEFEATED"}
RoundWatched == {"EVENT_HIT", "EVENT_TAKE_DAMAGE", "EVENT_DEATH"}

SwitchEffects == {"BATTLE_AFTER_DEFEATED"}
SwitchWatched == {"EVENT_ENTER_STAGE", "EVENT_DEATH"}

\* What FsmSwitch tells states apart by.  The last accepted operations, the paid
\* skills and the prompted side are read by no guard and by none of its properties;
\* the first mover and the resolved skills are read by the actions of the movers
\* only, and both are set anew before the next ones.
Acting == FightStates \ (UndecidedStates \cup RoundEndStates \cup {"BATTLE_AFTER_DEFEATED"})

SwitchView ==
  <<currentState, stageVars, roundChoice, chosenBy, operation_collected, inputVars,
    IF currentState \in Acting THEN preemptive_right ELSE NoSide,
    IF currentState \in PayingStates THEN resolution ELSE <<>>,
    noticeVars, events>>

NoStates == {}
NoEvents == {}
NoUnlimited == {}
OneUnlimited == {<<0, 0, 0>>}

=============================================================================
