---------------------------- MODULE BattleRound ----------------------------
(***************************************************************************)
(* What a battle promises its two players about one round, whatever pets,  *)
(* skills and effects are in play:                                         *)
(*   - nobody acts before both sides have answered, and a side that chose  *)
(*     no skill, or sent the empty operation, does not act;                *)
(*   - a side acts at most once per round, and the side that moves first   *)
(*     never acts after the other;                                         *)
(*   - a side is asked for a replacement after the actions and before the  *)
(*     next round, and a new round starts with no operation collected.     *)
(***************************************************************************)
EXTENDS Integers

Side == {0, 1}
Undecided == -1

VARIABLES
  stage,    \* the part of the round the battle is in
  ready,    \* sides whose operation for the round is in
  skilled,  \* sides that fight the round with a skill
  first,    \* the side that moves first, once decided
  acted     \* sides whose skill has been executed

vars == <<stage, ready, skilled, first, acted>>

Init ==
  /\ stage = "opening"
  /\ ready = {} /\ skilled = {} /\ acted = {}
  /\ first = Undecided

Open ==
  /\ stage = "opening" /\ stage' = "choosing"
  /\ UNCHANGED <<ready, skilled, first, acted>>

\* The second operation of the round ends the choosing; until then a side may
\* choose again.
Choose(s) ==
  /\ stage = "choosing"
  /\ ready' = ready \cup {s}
  /\ IF ready' = Side
       THEN stage' = "fighting" /\ skilled' \in SUBSET Side
       ELSE UNCHANGED <<stage, skilled>>
  /\ UNCHANGED <<first, acted>>

DecideFirst ==
  /\ stage = "fighting" /\ first = Undecided /\ acted = {}
  /\ first' \in Side
  /\ UNCHANGED <<stage, ready, skilled, acted>>

Act(s) ==
  /\ stage = "fighting" /\ first \in Side
  /\ s \in skilled \ acted
  /\ s = first => acted = {}
  /\ acted' = acted \cup {s}
  /\ UNCHANGED <<stage, ready, skilled, first>>

\* The fight ends with a replacement to choose or without one.
EndFight ==
  /\ stage = "fighting" /\ first \in Side
  /\ stage' \in {"replacing", "closing"}
  /\ skilled' = {} /\ first' = Undecided /\ acted' = {}
  /\ UNCHANGED ready

Replace ==
  /\ stage = "replacing" /\ stage' = "closing"
  /\ UNCHANGED <<ready, skilled, first, acted>>

Close ==
  /\ stage = "closing" /\ stage' = "choosing"
  /\ ready' = {}
  /\ UNCHANGED <<skilled, first, acted>>

Next ==
  \/ Open \/ DecideFirst \/ EndFight \/ Replace \/ Close
  \/ \E s \in Side : Choose(s) \/ Act(s)

Spec == Init /\ [][Next]_vars

=============================================================================
