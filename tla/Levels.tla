------------------------------- MODULE Levels -------------------------------
(***************************************************************************)
(* The levels of the pets' abilities and what the damage formula reads of  *)
(* the pet on stage: its levels, resistances and elements, as the          *)
(* workspace views them.  A pet keeps its levels when it leaves; the views *)
(* are based on the pet on stage at the start of a round and whenever one  *)
(* comes in, and every primitive that changes a level on stage is to       *)
(* change the view with it.                                                *)
(*                                                                         *)
(* The round is cut at the points that matter here: in CHOOSE the players  *)
(* choose, take medicines and switch, FIGHT begins with the start of the   *)
(* round, in REPLACE the dead are replaced.  Primitives run in all three.  *)
(*                                                                         *)
(* Its specification has a name of its own, because one module has the     *)
(* proofs about Levels and Strikes, the two halves of the primitives.      *)
(***************************************************************************)
EXTENDS Sides

CONSTANTS
  Slot, Lead, \* elfPets of a side and the one it begins with
  Stat,       \* indices of levels
  Defence,    \* of them the two defences, which a critical hit breaks
  MaxLevel,   \* 6 in the code
  MaxStep,    \* bound: levels given or taken at once by a change
  MaxDrop,    \* bound: levels taken at once by a drop
  Trained     \* pets that were trained in resistance: pairs of a side and a slot

Level == -MaxLevel .. MaxLevel
Phase == {"CHOOSE", "FIGHT", "REPLACE"}
Immunity == {"STAT_DROP", "STAT_CLEAR"}
Resistance == {"NONE", "OWN", "FULL"}
NoSlot == -1

ASSUME LevelsAssumption ==
  /\ Slot \subseteq Nat /\ Lead \in Slot /\ Defence \subseteq Stat
  /\ MaxLevel \in Nat \ {0} /\ MaxStep \in Nat /\ MaxDrop \in Nat
  /\ Trained \subseteq Side \X Slot

VARIABLES
  phase, on_stage,
  levels,       \* of every pet
  view_levels,  \* of the pet on stage, in the workspace
  immune,       \* what the rules keep from a side at this point
  resist_view,  \* eff_*_resist_pct of a side
  element_view, \* whose elements elf_element_view holds, and whether changed since
  bound_slot    \* elf_element_view_bound_slot

roundVars == <<phase, on_stage>>
levelVars == <<levels, view_levels>>
baseVars == <<resist_view, element_view, bound_slot>>
levelsState == <<roundVars, levelVars, immune, baseVars>>

Staged(s) == levels[s][on_stage[s]]
Immune(s, threat) == threat \in immune[s]
Capped(n) == IF n > MaxLevel THEN MaxLevel ELSE n
Floored(n) == IF n < -MaxLevel THEN -MaxLevel ELSE n
\* f with new in the place of its values on W.
With(f, W, new) == [x \in Stat |-> IF x \in W THEN new[x] ELSE f[x]]

----------------------------------------------------------------------------
(* The views.                                                              *)

Body(s, slot) == IF <<s, slot>> \in Trained THEN "OWN" ELSE "NONE"

\* sync_workspace_from_on_stage: both sides, with stage as on_stage.
Sync(stage) ==
  /\ view_levels' = [s \in Side |-> levels'[s][stage[s]]]
  /\ resist_view' = [s \in Side |-> Body(s, stage[s])]
  /\ element_view' = [s \in Side |-> IF bound_slot[s] = stage[s] THEN element_view[s]
                                     ELSE [of |-> stage[s], changed |-> FALSE]]
  /\ bound_slot' = [s \in Side |-> stage[s]]

\* resetWorkspace and the sync after it.
RoundStart ==
  /\ phase = "CHOOSE"
  /\ phase' = "FIGHT"
  /\ UNCHANGED <<on_stage, levels, immune>>
  /\ Sync(on_stage)

perform_switch(s, slot) ==
  /\ slot # on_stage[s]
  /\ on_stage' = [on_stage EXCEPT ![s] = slot]
  /\ UNCHANGED <<phase, levels, immune>>
  /\ Sync([on_stage EXCEPT ![s] = slot])

SwitchPet(s, slot) == phase = "CHOOSE" /\ perform_switch(s, slot)
ReplaceDead(s, slot) == phase = "REPLACE" /\ perform_switch(s, slot)

----------------------------------------------------------------------------
(* The primitives.                                                         *)

\* A primitive writes new on the stats W of the pet on stage and into its view.
Write(s, W, new) ==
  /\ levels' = [levels EXCEPT ![s][on_stage[s]] = With(Staged(s), W, new)]
  /\ view_levels' = [view_levels EXCEPT ![s] = With(view_levels[s], W, new)]
  /\ UNCHANGED <<roundVars, immune, baseVars>>

stat_change(s, x, delta) ==
  /\ Staged(s)[x] + delta \in Level
  /\ Write(s, {x}, [y \in {x} |-> Staged(s)[x] + delta])

Boosted(s) == {x \in Stat : Staged(s)[x] > 0}
Dropped(s) == {x \in Stat : Staged(s)[x] < 0}
Zero == [x \in Stat |-> 0]
Opposite(s) == [x \in Stat |-> -Staged(s)[x]]

clear_stat_boosts(s) == ~Immune(s, "STAT_CLEAR") /\ Write(s, Boosted(s), Zero)

\* No immunity keeps drops.
clear_stat_drops(s) == Write(s, Dropped(s), Zero)

\* A critical hit breaks a boosted defence whatever the immunities.
crit_defense_break(s, x) == Staged(s)[x] > 0 /\ Write(s, {x}, Zero)

\* Mutant: the view of the side that loses its boosts is forgotten.
TransferForgetsView(s) ==
  LET o == Opponent(s)
      gains == [x \in Stat |-> Capped(Staged(o)[x] + Staged(s)[x])]
  IN /\ ~Immune(s, "STAT_CLEAR")
     /\ levels' = [levels EXCEPT ![s][on_stage[s]] = With(Staged(s), Boosted(s), Zero),
                                 ![o][on_stage[o]] = With(Staged(o), Boosted(s), gains)]
     /\ view_levels' = [view_levels EXCEPT ![o] = With(view_levels[o], Boosted(s), gains)]
     /\ UNCHANGED <<roundVars, immune, baseVars>>

\* The boosts of s pass to its opponent.
transfer_stat_boosts(s) ==
  LET o == Opponent(s)
      gains == [x \in Stat |-> Capped(Staged(o)[x] + Staged(s)[x])]
  IN /\ ~Immune(s, "STAT_CLEAR")
     /\ levels' = [levels EXCEPT ![s][on_stage[s]] = With(Staged(s), Boosted(s), Zero),
                                 ![o][on_stage[o]] = With(Staged(o), Boosted(s), gains)]
     /\ view_levels' = [view_levels EXCEPT ![s] = With(view_levels[s], Boosted(s), Zero),
                                           ![o] = With(view_levels[o], Boosted(s), gains)]
     /\ UNCHANGED <<roundVars, immune, baseVars>>

stat_drop(s, x, amount) ==
  /\ ~Immune(s, "STAT_DROP") /\ amount > 0 /\ Staged(s)[x] > -MaxLevel
  /\ Write(s, {x}, [y \in {x} |-> Floored(Staged(s)[x] - amount)])

stat_reversal(s) == Write(s, Dropped(s), Opposite(s))

\* Mutant: the immunity asked is the one against clearing.
BoostReversalAsksClear(s) == ~Immune(s, "STAT_CLEAR") /\ Write(s, Boosted(s), Opposite(s))

stat_boost_reversal(s) == ~Immune(s, "STAT_DROP") /\ Write(s, Boosted(s), Opposite(s))

----------------------------------------------------------------------------
(* What else changes levels, views and immunities.                         *)

\* A medicine that clears drops changes the pet and not the view: the round has
\* not begun.
medicine_clears_drops(s) ==
  /\ phase = "CHOOSE"
  /\ levels' = [levels EXCEPT ![s][on_stage[s]] = With(Staged(s), Dropped(s), Zero)]
  /\ UNCHANGED <<roundVars, view_levels, immune, baseVars>>

\* An effect of this round lets the pet on stage resist everything, if it
\* resists anything at all.
BuffResistance(s) ==
  /\ phase # "CHOOSE" /\ resist_view[s] = "OWN"
  /\ resist_view' = [resist_view EXCEPT ![s] = "FULL"]
  /\ UNCHANGED <<roundVars, levelVars, immune, element_view, bound_slot>>

\* An effect changes the elements of the pet on stage.
ChangeElements(s) ==
  /\ phase # "CHOOSE"
  /\ element_view' = [element_view EXCEPT ![s].changed = TRUE]
  /\ UNCHANGED <<roundVars, levelVars, immune, resist_view, bound_slot>>

\* Immunities are granted, spent, and cover some points of the round only.
ChangeImmunity(s) ==
  /\ \E new \in SUBSET Immunity : immune' = [immune EXCEPT ![s] = new]
  /\ UNCHANGED <<roundVars, levelVars, baseVars>>

\* The fight is over: the dead are replaced, then the next round is chosen.
PhaseEnds ==
  /\ \/ phase = "FIGHT" /\ phase' = "REPLACE"
     \/ phase = "REPLACE" /\ phase' = "CHOOSE"
  /\ UNCHANGED <<on_stage, levelVars, immune, baseVars>>

LevelsInit ==
  /\ phase = "CHOOSE"
  /\ on_stage = [s \in Side |-> Lead]
  /\ levels = [s \in Side |-> [p \in Slot |-> [x \in Stat |-> 0]]]
  /\ view_levels = [s \in Side |-> [x \in Stat |-> 0]]
  /\ immune = [s \in Side |-> {}]
  /\ resist_view = [s \in Side |-> "NONE"]
  /\ element_view = [s \in Side |-> [of |-> NoSlot, changed |-> FALSE]]
  /\ bound_slot = [s \in Side |-> NoSlot]

Primitive(s) ==
  \/ \E x \in Stat, delta \in -MaxStep .. MaxStep : stat_change(s, x, delta)
  \/ \E x \in Stat, amount \in 1 .. MaxDrop : stat_drop(s, x, amount)
  \/ \E x \in Defence : crit_defense_break(s, x)
  \/ clear_stat_boosts(s)
  \/ clear_stat_drops(s)
  \/ transfer_stat_boosts(s)
  \/ stat_reversal(s)
  \/ stat_boost_reversal(s)

LevelsNext ==
  \/ RoundStart
  \/ PhaseEnds
  \/ \E s \in Side :
       \/ Primitive(s)
       \/ \E slot \in Slot : SwitchPet(s, slot) \/ ReplaceDead(s, slot)
       \/ medicine_clears_drops(s)
       \/ BuffResistance(s)
       \/ ChangeElements(s)
       \/ ChangeImmunity(s)

LevelsSpec == LevelsInit /\ [][LevelsNext]_levelsState

----------------------------------------------------------------------------
\* The types of the variables; no level leaves -6 .. 6, beyond which the damage
\* formula throws.
LevelsTypeOK ==
  /\ phase \in Phase
  /\ on_stage \in [Side -> Slot]
  /\ levels \in [Side -> [Slot -> [Stat -> Level]]]
  /\ view_levels \in [Side -> [Stat -> Level]]
  /\ immune \in [Side -> SUBSET Immunity]
  /\ resist_view \in [Side -> Resistance]
  /\ element_view \in [Side -> [of : Slot \cup {NoSlot}, changed : BOOLEAN]]
  /\ bound_slot \in [Side -> Slot \cup {NoSlot}]

\* From the start of a round to its end the view is the levels of the pet on
\* stage, whatever primitives, switches and replacements came between.  While the
\* players choose it may lag behind by the drops a medicine has cleared.
ViewFollowsPet ==
  \A s \in Side, x \in Stat :
    \/ view_levels[s][x] = Staged(s)[x]
    \/ phase = "CHOOSE" /\ view_levels[s][x] < 0 /\ Staged(s)[x] >= 0

\* A pet that was never trained resists nothing, and what made its predecessor
\* resist everything is not left to it.
ResistanceIsOwn ==
  \A s \in Side : resist_view[s] # "NONE" => <<s, on_stage[s]>> \in Trained

\* From the first round on elements, changed or not, are those of the pet on
\* stage; a change goes with the pet that leaves.
ElementsAreOwn ==
  \A s \in Side : /\ bound_slot[s] \in {NoSlot, on_stage[s]}
                  /\ element_view[s].of = bound_slot[s]
                  /\ phase # "CHOOSE" => bound_slot[s] = on_stage[s]
                  /\ element_view[s].changed => bound_slot[s] = on_stage[s]

\* All that the formula of damage reads of a side is that of the pet on stage.
ViewsAreOwn == ViewFollowsPet /\ ResistanceIsOwn /\ ElementsAreOwn

\* Pets on the bench keep their levels, and so does the pet that leaves.
BenchKeepsLevels ==
  [][\A s \in Side, p \in Slot :
       p # on_stage[s] \/ on_stage'[s] # on_stage[s] => levels'[s][p] = levels[s][p]]_levelsState

\* A side that is immune to weakening is brought below zero by no opponent: only
\* the raw change of a level may do so.
ImmuneStaysAbove ==
  [][\A s \in Side, x \in Stat : Immune(s, "STAT_DROP") =>
       LET p == on_stage[s] IN
       levels'[s][p][x] < levels[s][p][x] /\ levels'[s][p][x] < 0 =>
         \E delta \in -MaxStep .. MaxStep : stat_change(s, x, delta)]_levelsState

\* No step changes a level behind its pet's back.
LevelsAreGuarded == BenchKeepsLevels /\ ImmuneStaysAbove
=============================================================================
