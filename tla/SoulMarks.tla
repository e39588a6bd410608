----------------------------- MODULE SoulMarks -----------------------------
(***************************************************************************)
(* The soul marks of one side's pets: how SoulMarkManager learns them from *)
(* the plugin libraries, and how the nodes of a mark come into the bucket  *)
(* of soul mark effects and leave it again while pets enter the stage,     *)
(* leave it and die.  The two sides share no state of these.               *)
(*                                                                         *)
(* A mark is a program, a sequence of nodes, or the single effect of the   *)
(* old kind.  All their effects last for ever (duration -1), so what ends  *)
(* one is that it runs once, or that its side's version moves on: a switch *)
(* and a broken round invalidate what is ON_STAGE.  The updaters then      *)
(* register the nodes again at the end of the round.                       *)
(*                                                                         *)
(* A round is cut to the points that matter here: CHOOSE, where pets are   *)
(* switched; START, FIGHT and MINUS, where effects run, rounds are broken  *)
(* and pets die (MINUS also cleans up); DEFEATED, where the dead are       *)
(* replaced; COMPLETION, which ends with the updaters.                     *)
(***************************************************************************)
EXTENDS TimedBucket, Sequences

CONSTANTS
  Slot, Lead,    \* positions in the team, and the one that opens the battle
  Id,            \* soul mark ids
  MarkOf,        \* the mark of the pet in each slot
  Library,       \* plugin libraries: [mark, nodes, hooked], <<>> for no program
  Node,          \* nodes of programs: [trigger, once, early, scope]
  MaxRound, MaxBreaks   \* bounds: rounds, and breaks and switches

Point == {"ENTER", "CHOOSE", "START", "FIGHT", "MINUS", "DEFEATED", "COMPLETION"}
Order == <<"ENTER", "CHOOSE", "START", "FIGHT", "MINUS", "DEFEATED", "COMPLETION">>
Executes == {"START", "FIGHT", "MINUS", "COMPLETION"}   \* points nodes are registered for
Follows(p) == CHOOSE q \in Point : \E i \in 1 .. 6 : p = Order[i] /\ q = Order[i + 1]
SoulScope == {"STAGE", "ROSTER"}

ASSUME TeamAssumption ==
  Slot \subseteq Nat /\ Lead \in Slot /\ MarkOf \in [Slot -> Id] /\ Id \subseteq Nat \ {0}
ASSUME NodeAssumption ==
  Node \subseteq [trigger : Executes, once : BOOLEAN, early : BOOLEAN, scope : SoulScope]
ASSUME LibraryAssumption ==
  Library \subseteq [mark : Id, nodes : Seq(Node), hooked : BOOLEAN]
ASSUME BoundsAssumption == MaxRound \in Nat /\ MaxBreaks \in Nat

VARIABLES
  pending_libs,          \* libraries found and not yet registered
  program_cache,         \* mark -> its nodes, <<>> for a mark of the old kind
  hooks_cache,           \* marks with hooks
  alive, on_stage,       \* slots with hp > 0; the slot on stage
  currentState,          \* LOADING, or a point of the round
  executed,              \* the bucket of this point has been executed
  roundCount, round_effect_valid_id,
  soul_mark_effects,     \* the bucket
  updater_effects,       \* marks with an updater
  signals,               \* marks whose early signals are set
  \* History, read by the properties only:
  entered,               \* marks whose on_enter has run and on_exit has not since
  unmatched,             \* marks whose on_exit has run without on_enter
  broken                 \* the side's round effects were broken in this round

loaderVars == <<pending_libs, program_cache, hooks_cache>>
teamVars == <<alive, on_stage>>
clockVars == <<currentState, executed, roundCount>>
bucketVars == <<soul_mark_effects, updater_effects, round_effect_valid_id>>
hookVars == <<signals, entered, unmatched>>
vars == <<loaderVars, teamVars, clockVars, bucketVars, hookVars, broken>>

SoulEffect ==
  [mark : Id, index : Nat, trigger : Executes, scope : Scope, once : BOOLEAN, valid_id : Nat]

TypeOK ==
  /\ pending_libs \subseteq Library
  /\ program_cache \in [Id -> Seq(Node)]
  /\ hooks_cache \subseteq Id
  /\ alive \subseteq Slot /\ on_stage \in Slot
  /\ currentState \in Point \cup {"LOADING"} /\ executed \in BOOLEAN
  /\ roundCount \in Nat /\ round_effect_valid_id \in Nat
  /\ soul_mark_effects \subseteq SoulEffect
  /\ \A e, f \in soul_mark_effects : e.mark = f.mark /\ e.index = f.index => e = f
  /\ updater_effects \subseteq Id
  /\ signals \subseteq Id /\ entered \subseteq Id /\ unmatched \subseteq Id
  /\ broken \in BOOLEAN

Init ==
  /\ pending_libs = Library
  /\ program_cache = [m \in Id |-> <<>>] /\ hooks_cache = {}
  /\ alive = Slot /\ on_stage = Lead
  /\ currentState = "LOADING" /\ executed = FALSE
  /\ roundCount = 0 /\ round_effect_valid_id = 1
  /\ soul_mark_effects = {} /\ updater_effects = {}
  /\ signals = {} /\ entered = {} /\ unmatched = {}
  /\ broken = FALSE

has_program(m) == program_cache[m] # <<>>
MarkNodes(m) == {program_cache[m][i] : i \in DOMAIN program_cache[m]}
has_roster_nodes(m) == \E n \in MarkNodes(m) : n.scope = "ROSTER"

-----------------------------------------------------------------------------
\* SoulMarkManager: before any battle.

\* One library's registration function; a later library replaces what an earlier
\* one registered for the same mark.  One without nodes registers a program
\* without nodes, or no program at all and, it may be, hooks only.
LoadLibrary ==
  /\ currentState = "LOADING"
  /\ \E l \in pending_libs :
       /\ pending_libs' = pending_libs \ {l}
       /\ \/ program_cache' = [program_cache EXCEPT ![l.mark] = l.nodes]
          \/ l.nodes = <<>> /\ UNCHANGED program_cache
       /\ hooks_cache' = IF l.hooked THEN hooks_cache \cup {l.mark} ELSE hooks_cache
  /\ UNCHANGED <<teamVars, clockVars, bucketVars, hookVars, broken>>

\* The battle begins: its pets' marks take what the caches hold, which nobody
\* registers into any more.
StartBattle ==
  /\ currentState = "LOADING" /\ pending_libs = {}
  /\ currentState' = "ENTER"
  /\ UNCHANGED <<loaderVars, teamVars, executed, roundCount, bucketVars, hookVars, broken>>

-----------------------------------------------------------------------------
\* SoulMark: registration.

\* The continuous effect of a node, under a key of its own.
NodeEffect(m, i, valid_id) ==
  [mark |-> m, index |-> i, trigger |-> program_cache[m][i].trigger,
   scope |-> IF program_cache[m][i].scope = "ROSTER" THEN "TEAM" ELSE "ON_STAGE",
   once |-> program_cache[m][i].once, valid_id |-> valid_id]

\* owner_on_stage: the scopes whose nodes work, while the pet is on stage or not.
Working(owner_on_stage) == IF owner_on_stage THEN SoulScope ELSE {"ROSTER"}

ProgramEffects(m, valid_id, scopes) ==
  {NodeEffect(m, i, valid_id) :
     i \in {j \in DOMAIN program_cache[m] : program_cache[m][j].scope \in scopes}}

\* The single effect, on stage or not.
SingleEffect(m, valid_id) ==
  {[mark |-> m, index |-> 0, trigger |-> "START", scope |-> "ON_STAGE", once |-> FALSE,
    valid_id |-> valid_id]}

NewEffects(m, valid_id, scopes) ==
  IF has_program(m) THEN ProgramEffects(m, valid_id, scopes) ELSE SingleEffect(m, valid_id)

\* register_effect: the effect of the same mark and node gives way.
Replace(bucket, new) ==
  {e \in bucket : \A n \in new : e.mark # n.mark \/ e.index # n.index} \cup new

\* Marks whose early nodes run when their pet is activated.
Signalling(m, scopes) == has_program(m) /\ \E n \in MarkNodes(m) : n.early /\ n.scope \in scopes

\* on_enter is called for programs only; on_exit for every mark with hooks.
Enters(m) == has_program(m) /\ m \in hooks_cache

-----------------------------------------------------------------------------
\* The battle.

\* The pet on stage is activated first, so its mark counts as on stage.
Activated(m) == Working(on_stage \in alive /\ MarkOf[on_stage] = m)

\* handle_OperationEnterExitStage: every mark of a living pet, once.
ActivateAll ==
  /\ currentState = "ENTER" /\ ~executed
  /\ LET marks == {MarkOf[s] : s \in alive} IN
       /\ soul_mark_effects' = Replace(soul_mark_effects,
            UNION {NewEffects(m, round_effect_valid_id, Activated(m)) : m \in marks})
       /\ updater_effects' = updater_effects \cup {m \in marks : has_program(m)}
       /\ signals' = signals \cup {m \in marks : Signalling(m, Activated(m))}
       /\ entered' = entered \cup {m \in marks : Enters(m)}
  /\ executed' = TRUE
  /\ UNCHANGED <<loaderVars, teamVars, currentState, roundCount, round_effect_valid_id,
                 unmatched, broken>>

\* Mutant: the version of the side stays.
SwitchKeepsVersion(t) ==
  LET old == MarkOf[on_stage]
      new == MarkOf[t]
      exits == IF old \in hooks_cache /\ ~has_roster_nodes(old) THEN {old} ELSE {}
  IN /\ t # on_stage
     /\ on_stage' = t
     /\ UNCHANGED round_effect_valid_id
     /\ soul_mark_effects' =
          Replace(soul_mark_effects, NewEffects(new, round_effect_valid_id', SoulScope))
     /\ updater_effects' = updater_effects \cup (IF has_program(new) THEN {new} ELSE {})
     /\ signals' = IF Signalling(new, SoulScope) THEN {new} ELSE {}
     /\ entered' = (entered \ exits) \cup (IF Enters(new) THEN {new} ELSE {})
     /\ unmatched' = unmatched \cup (exits \ entered)

\* Mutant: the pet that comes is registered and not activated.
SwitchRegistersOnly(t) ==
  LET old == MarkOf[on_stage]
      new == MarkOf[t]
      exits == IF old \in hooks_cache /\ ~has_roster_nodes(old) THEN {old} ELSE {}
  IN /\ t # on_stage
     /\ on_stage' = t
     /\ round_effect_valid_id' = round_effect_valid_id + 1
     /\ soul_mark_effects' =
          Replace(soul_mark_effects, NewEffects(new, round_effect_valid_id', SoulScope))
     /\ updater_effects' = updater_effects \cup (IF has_program(new) THEN {new} ELSE {})
     /\ signals' = {}
     /\ entered' = entered \ exits
     /\ unmatched' = unmatched \cup (exits \ entered)

(***************************************************************************)
(* perform_switch: invalidate what is on stage with the signals, let the   *)
(* mark of the pet that goes clear up unless it works from the bench,      *)
(* change the slot, activate the mark of the pet that comes.               *)
(***************************************************************************)
perform_switch(t) ==
  LET old == MarkOf[on_stage]
      new == MarkOf[t]
      exits == IF old \in hooks_cache /\ ~has_roster_nodes(old) THEN {old} ELSE {}
  IN /\ t # on_stage
     /\ on_stage' = t
     /\ round_effect_valid_id' = round_effect_valid_id + 1
     /\ soul_mark_effects' =
          Replace(soul_mark_effects, NewEffects(new, round_effect_valid_id', SoulScope))
     /\ updater_effects' = updater_effects \cup (IF has_program(new) THEN {new} ELSE {})
     /\ signals' = IF Signalling(new, SoulScope) THEN {new} ELSE {}
     /\ entered' = (entered \ exits) \cup (IF Enters(new) THEN {new} ELSE {})
     /\ unmatched' = unmatched \cup (exits \ entered)

\* A switch that was chosen, as often as the client sends one, to a living pet.
SwitchPet(t) ==
  /\ currentState = "CHOOSE" /\ t \in alive
  /\ round_effect_valid_id <= MaxBreaks
  /\ perform_switch(t)
  /\ UNCHANGED <<loaderVars, alive, clockVars, broken>>

\* The replacement of a dead pet: whatever slot the message names, once a round.
ReplaceDead(t) ==
  /\ currentState = "DEFEATED" /\ ~executed
  /\ round_effect_valid_id <= MaxBreaks
  /\ perform_switch(t)
  /\ executed' = TRUE
  /\ UNCHANGED <<loaderVars, alive, currentState, roundCount, broken>>

Live == {e \in soul_mark_effects : ~is_epoch_invalidated(e, round_effect_valid_id)}

\* execute_registered_actions: what is live runs; a once effect that ran is erased.
\* The handler of the reduction then cleans up what is invalidated.
Execute ==
  /\ currentState \in Executes /\ ~executed
  /\ executed' = TRUE
  /\ soul_mark_effects' =
       (IF currentState = "MINUS" THEN Live ELSE soul_mark_effects)
         \ {e \in Live : e.trigger = currentState /\ e.once}
  /\ UNCHANGED <<loaderVars, teamVars, currentState, roundCount, round_effect_valid_id,
                 updater_effects, hookVars, broken>>

\* Anything that happens in a round may cost a pet its last hp, on stage or not.
Die(s) ==
  /\ currentState \in Executes
  /\ alive' = alive \ {s}
  /\ UNCHANGED <<loaderVars, on_stage, clockVars, bucketVars, hookVars, broken>>

\* invalidate_all_round_effects, of a break that succeeds: an effect of a timing
\* point or a watcher of the events of a switch calls it.
Break ==
  /\ currentState # "LOADING"
  /\ round_effect_valid_id <= MaxBreaks
  /\ round_effect_valid_id' = round_effect_valid_id + 1
  /\ broken' = TRUE
  /\ UNCHANGED <<loaderVars, teamVars, clockVars, soul_mark_effects, updater_effects,
                 hookVars>>

\* The next point.
Advance ==
  /\ currentState \in Point \ {"COMPLETION"}
  /\ currentState \in Executes \cup {"ENTER"} => executed
  /\ currentState' = Follows(currentState)
  /\ executed' = FALSE
  /\ UNCHANGED <<loaderVars, teamVars, roundCount, bucketVars, hookVars, broken>>

\* find_pet_with_soulmark: the first living pet with the mark.
find_pet_with_soulmark(m, s) ==
  /\ s \in alive /\ MarkOf[s] = m
  /\ \A u \in alive : MarkOf[u] = m => s <= u

\* Mutant: the updater registers what is on stage only.
RefreshStage(m) ==
  UNION {{e \in NewEffects(m, round_effect_valid_id, Working(s = on_stage)) : s = on_stage} :
           s \in {u \in Slot : find_pet_with_soulmark(m, u)}}

\* soulmark_updater_refresh: what the updater of a mark registers, nothing if its
\* pet is dead.
Refresh(m) ==
  UNION {NewEffects(m, round_effect_valid_id, Working(s = on_stage)) :
           s \in {u \in Slot : find_pet_with_soulmark(m, u)}}

\* The end of handle_BattleRoundCompletion.
CompleteRound ==
  /\ currentState = "COMPLETION" /\ executed
  /\ roundCount < MaxRound
  /\ roundCount' = roundCount + 1
  /\ soul_mark_effects' =
       Replace(soul_mark_effects, UNION {Refresh(m) : m \in updater_effects})
  /\ broken' = FALSE
  /\ currentState' = "CHOOSE" /\ executed' = FALSE
  /\ UNCHANGED <<loaderVars, teamVars, updater_effects, round_effect_valid_id, hookVars>>

Next ==
  \/ LoadLibrary \/ StartBattle \/ ActivateAll
  \/ \E s \in Slot : SwitchPet(s) \/ ReplaceDead(s) \/ Die(s)
  \/ Execute \/ Break \/ Advance \/ CompleteRound

Spec == Init /\ [][Next]_vars

-----------------------------------------------------------------------------
\* What the marks owe their pets.

\* The pet a mark of the team counts for: the rules of the arena forbid two pets
\* with the same mark, the code does not.
IsHost(s) == \A u \in alive : MarkOf[u] = MarkOf[s] => s <= u

\* Of the effects that end with a stay on stage, only those of the pet on stage
\* are live, however switches, breaks and updaters follow each other.
\* (invalidate_on_stage_effects before on_stage changes, registration after it.)
OnlyTheStagedActs ==
  \A e \in Live : e.scope = "ON_STAGE" /\ has_program(e.mark) => e.mark = MarkOf[on_stage]

\* The signals of a mark that works on stage are those of the pet on stage.
\* (invalidate_on_stage_effects resets them; activate_soul_mark sets them again.)
SignalsAreStaged ==
  \A m \in signals : has_roster_nodes(m) \/ m = MarkOf[on_stage]

\* The bench is silent: neither effects nor signals of the stage are another's.
BenchIsSilent == OnlyTheStagedActs /\ SignalsAreStaged

\* When the players choose, every node a living pet's mark owes it is live again,
\* though nodes have run once and rounds were broken before this one began.
\* (handle_BattleRoundCompletion: the updaters run before the selection.)
ReadyAtChoice ==
  currentState = "CHOOSE" /\ ~broken =>
    \A s \in alive : IsHost(s) =>
      \A i \in DOMAIN program_cache[MarkOf[s]] :
        (program_cache[MarkOf[s]][i].scope = "ROSTER" \/ s = on_stage) =>
          \E e \in Live : e.mark = MarkOf[s] /\ e.index = i

\* A mark with a program is told to leave only after it was told to enter.  A
\* mark of the old kind with hooks is the exception: activate_soul_mark never
\* calls its on_enter, which plugin_interface.h:55 promises at every entry, and
\* deactivate_soul_mark calls its on_exit.
\* (activate_soul_mark at the start and in perform_switch, deactivate_soul_mark.)
ExitsFollowEnters == \A m \in unmatched : ~has_program(m)
=============================================================================
