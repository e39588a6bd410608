-------------------------- MODULE SoulMarks_proofs --------------------------
(***************************************************************************)
(* Which soul marks act, for any team, any libraries and any programs.     *)
(***************************************************************************)
EXTENDS SoulMarks, TLAPS

USE TeamAssumption, NodeAssumption, LibraryAssumption, BoundsAssumption

\* The types without the uniqueness of keys.
Typed ==
  /\ pending_libs \subseteq Library
  /\ program_cache \in [Id -> Seq(Node)]
  /\ hooks_cache \subseteq Id
  /\ alive \subseteq Slot /\ on_stage \in Slot
  /\ currentState \in Point \cup {"LOADING"} /\ executed \in BOOLEAN
  /\ roundCount \in Nat /\ round_effect_valid_id \in Nat
  /\ soul_mark_effects \subseteq SoulEffect
  /\ updater_effects \subseteq Id
  /\ signals \subseteq Id /\ entered \subseteq Id /\ unmatched \subseteq Id
  /\ broken \in BOOLEAN

\* An effect has one place in the bucket.
OnePlace ==
  \A e, f \in soul_mark_effects : e.mark = f.mark /\ e.index = f.index => e = f

\* Nothing carries a version that is yet to come, and what a program has in the
\* bucket are effects of its nodes.
Stamped ==
  /\ \A e \in soul_mark_effects :
       /\ e.valid_id <= round_effect_valid_id
       /\ has_program(e.mark) => e = NodeEffect(e.mark, e.index, e.valid_id)
       /\ has_program(e.mark) => e.index \in DOMAIN program_cache[e.mark]
       /\ ~has_program(e.mark) => e.scope = "ON_STAGE"
  /\ currentState = "LOADING" => soul_mark_effects = {} /\ signals = {}

SoulInv == Typed /\ OnePlace /\ Stamped /\ OnlyTheStagedActs /\ SignalsAreStaged

-----------------------------------------------------------------------------
\* A node's effect is one of the bucket's kind.
LEMMA NodeEffectType ==
  ASSUME program_cache \in [Id -> Seq(Node)], NEW m \in Id, NEW v \in Nat,
         NEW i \in DOMAIN program_cache[m]
  PROVE  NodeEffect(m, i, v) \in SoulEffect
  <1>1. program_cache[m] \in Seq(Node)
    OBVIOUS
  <1>2. i \in 1 .. Len(program_cache[m]) /\ i \in Nat
    BY <1>1
  <1>3. program_cache[m][i] \in Node
    BY <1>1, <1>2
  <1>4. program_cache[m][i].trigger \in Executes /\ program_cache[m][i].once \in BOOLEAN
    BY <1>3
  <1> QED
    BY <1>2, <1>4 DEF NodeEffect, SoulEffect, Scope

\* What a registration adds: effects of the mark with the version of the side.
LEMMA NewEffectFacts ==
  ASSUME NEW m, NEW v, NEW b, NEW e \in NewEffects(m, v, b)
  PROVE  /\ e.mark = m
         /\ e.valid_id = v
         /\ has_program(m) => e.index \in DOMAIN program_cache[m]
         /\ has_program(m) => e = NodeEffect(m, e.index, v)
         /\ (has_program(m) /\ e.scope = "ON_STAGE") => b # {"ROSTER"}
         /\ ~has_program(m) => e.scope = "ON_STAGE"
  <1>1. CASE has_program(m)
    <2> DEFINE J == {i \in DOMAIN program_cache[m] : program_cache[m][i].scope \in b}
    <2>1. NewEffects(m, v, b) = {NodeEffect(m, i, v) : i \in J}
      BY <1>1 DEF NewEffects, ProgramEffects
    <2>2. PICK i \in J : e = NodeEffect(m, i, v)
      BY <2>1
    <2>3. i \in DOMAIN program_cache[m] /\ program_cache[m][i].scope \in b
      BY <2>2
    <2>4. e.mark = m /\ e.valid_id = v /\ e.index = i
      BY <2>2 DEF NodeEffect
    <2>5. e.scope = "ON_STAGE" => b # {"ROSTER"}
      BY <2>2, <2>3 DEF NodeEffect
    <2> QED
      BY <1>1, <2>2, <2>3, <2>4, <2>5
  <1>2. CASE ~has_program(m)
    BY <1>2 DEF NewEffects, SingleEffect
  <1> QED
    BY <1>1, <1>2

\* It is of the bucket's kind.
LEMMA NewEffectType ==
  ASSUME program_cache \in [Id -> Seq(Node)], NEW m \in Id, NEW v \in Nat, NEW b,
         NEW e \in NewEffects(m, v, b)
  PROVE  e \in SoulEffect
  <1>1. CASE has_program(m)
    <2>1. e = NodeEffect(m, e.index, v) /\ e.index \in DOMAIN program_cache[m]
      BY <1>1, NewEffectFacts
    <2> QED
      BY <2>1, NodeEffectType
  <1>2. CASE ~has_program(m)
    <2> DEFINE r == [mark |-> m, index |-> 0, trigger |-> "START", scope |-> "ON_STAGE",
                     once |-> FALSE, valid_id |-> v]
    <2>1. e = r
      BY <1>2 DEF NewEffects, SingleEffect
    <2>2. r \in SoulEffect
      BY DEF SoulEffect, Executes, Scope
    <2> HIDE DEF r
    <2> QED
      BY <2>1, <2>2
  <1> QED
    BY <1>1, <1>2

\* One registration has one effect in each place.
LEMMA NewEffectPlaces ==
  ASSUME NEW m, NEW v, NEW b,
         NEW e \in NewEffects(m, v, b), NEW f \in NewEffects(m, v, b), e.index = f.index
  PROVE  e = f
  <1>1. CASE has_program(m)
    <2>1. e = NodeEffect(m, e.index, v)
      BY <1>1, NewEffectFacts
    <2>2. f = NodeEffect(m, f.index, v)
      BY <1>1, NewEffectFacts
    <2> QED
      BY <2>1, <2>2
  <1>2. CASE ~has_program(m)
    BY <1>2 DEF NewEffects, SingleEffect
  <1> QED
    BY <1>1, <1>2

\* A registration leaves one effect in each place.
LEMMA ReplaceKeepsPlaces ==
  ASSUME NEW old, NEW new,
         \A e, f \in old : e.mark = f.mark /\ e.index = f.index => e = f,
         \A e, f \in new : e.mark = f.mark /\ e.index = f.index => e = f
  PROVE  \A e, f \in Replace(old, new) : e.mark = f.mark /\ e.index = f.index => e = f
  BY DEF Replace

\* Effects that may be registered under the version v of the side.
Registers(new, v) ==
  /\ new \subseteq SoulEffect
  /\ \A e \in new :
       /\ e.valid_id = v
       /\ has_program(e.mark) => e = NodeEffect(e.mark, e.index, v)
       /\ has_program(e.mark) => e.index \in DOMAIN program_cache[e.mark]
       /\ ~has_program(e.mark) => e.scope = "ON_STAGE"
  /\ \A e, f \in new : e.mark = f.mark /\ e.index = f.index => e = f

\* Once the battle runs no mark gets another program.
LEMMA ProgramsStay ==
  ASSUME program_cache' = program_cache
  PROVE  /\ \A m : has_program(m)' <=> has_program(m)
         /\ \A m, i, v : NodeEffect(m, i, v)' = NodeEffect(m, i, v)
         /\ \A m : has_roster_nodes(m)' <=> has_roster_nodes(m)
  BY DEF has_program, NodeEffect, has_roster_nodes, MarkNodes

\* A registration keeps what is said of the bucket.
LEMMA RegistrationKeeps ==
  ASSUME Typed, OnePlace, Stamped, NEW new, NEW v \in Nat, v >= round_effect_valid_id,
         Registers(new, v),
         soul_mark_effects' = Replace(soul_mark_effects, new),
         round_effect_valid_id' = v, program_cache' = program_cache,
         currentState' # "LOADING"
  PROVE  soul_mark_effects' \subseteq SoulEffect /\ OnePlace' /\ Stamped'
  <1>1. \A e \in soul_mark_effects' : e \in soul_mark_effects \/ e \in new
    BY DEF Replace
  <1>2. soul_mark_effects' \subseteq SoulEffect
    BY <1>1 DEF Typed, Registers
  <1>3. OnePlace'
    <2>1. \A e, f \in new : e.mark = f.mark /\ e.index = f.index => e = f
      BY DEF Registers
    <2>2. \A e, f \in soul_mark_effects : e.mark = f.mark /\ e.index = f.index => e = f
      BY DEF OnePlace
    <2>3. \A e, f \in Replace(soul_mark_effects, new) :
            e.mark = f.mark /\ e.index = f.index => e = f
      BY <2>1, <2>2, ReplaceKeepsPlaces
    <2> QED
      BY <2>3 DEF OnePlace
  <1>4. ASSUME NEW e \in soul_mark_effects'
        PROVE  /\ e.valid_id <= v
               /\ has_program(e.mark) => e = NodeEffect(e.mark, e.index, e.valid_id)
               /\ has_program(e.mark) => e.index \in DOMAIN program_cache[e.mark]
               /\ ~has_program(e.mark) => e.scope = "ON_STAGE"
    <2>1. CASE e \in soul_mark_effects
      <3>1. e.valid_id \in Nat /\ round_effect_valid_id \in Nat
        BY <2>1 DEF Typed, SoulEffect
      <3>2. e.valid_id <= v
        BY <3>1, <2>1 DEF Stamped
      <3> QED
        BY <2>1, <3>2 DEF Stamped
    <2>2. CASE e \in new
      BY <2>2 DEF Registers
    <2> QED
      BY <1>1, <2>1, <2>2
  <1>5. Stamped'
    BY <1>4, ProgramsStay DEF Stamped
  <1> QED
    BY <1>2, <1>3, <1>5

\* The registration of one mark.
LEMMA OneMarkRegisters ==
  ASSUME program_cache \in [Id -> Seq(Node)], NEW m \in Id, NEW v \in Nat, NEW b
  PROVE  Registers(NewEffects(m, v, b), v)
  <1>1. ASSUME NEW e \in NewEffects(m, v, b)
        PROVE  /\ e \in SoulEffect /\ e.valid_id = v
               /\ has_program(e.mark) => e.index \in DOMAIN program_cache[e.mark]
               /\ has_program(e.mark) => e = NodeEffect(e.mark, e.index, v)
               /\ ~has_program(e.mark) => e.scope = "ON_STAGE"
    <2>1. e \in SoulEffect
      BY NewEffectType
    <2>2. e.mark = m
      BY NewEffectFacts
    <2>3. e.valid_id = v
      BY NewEffectFacts
    <2>4. has_program(m) => e.index \in DOMAIN program_cache[m]
      BY NewEffectFacts
    <2>5. has_program(m) => e = NodeEffect(m, e.index, v)
      BY NewEffectFacts
    <2>6. ~has_program(m) => e.scope = "ON_STAGE"
      BY NewEffectFacts
    <2> QED
      BY <2>1, <2>2, <2>3, <2>4, <2>5, <2>6
  <1>2. ASSUME NEW e \in NewEffects(m, v, b), NEW f \in NewEffects(m, v, b), e.index = f.index
        PROVE  e = f
    BY <1>2, NewEffectPlaces
  <1> QED
    BY <1>1, <1>2 DEF Registers

-----------------------------------------------------------------------------
\* The actions.

\* What the bucket holds of a stage is live only under the version it was given.
LEMMA OldStageIsSilent ==
  ASSUME Typed, Stamped, NEW v \in Nat, v > round_effect_valid_id,
         NEW e \in soul_mark_effects, e.scope = "ON_STAGE"
  PROVE  is_epoch_invalidated(e, v)
  <1>1. e.valid_id \in Nat /\ round_effect_valid_id \in Nat
    BY DEF Typed, SoulEffect
  <1>2. e.valid_id <= round_effect_valid_id
    BY DEF Stamped
  <1>3. e.valid_id # v
    BY <1>1, <1>2
  <1> QED
    BY <1>3 DEF is_epoch_invalidated

\* A switch hands the stage over: what was live there is not, and what is
\* registered is of the pet that comes.
LEMMA SwitchKeepsInv ==
  ASSUME SoulInv, NEW t \in Slot, perform_switch(t), currentState # "LOADING",
         UNCHANGED <<loaderVars, alive, currentState, roundCount, broken>>,
         executed' \in BOOLEAN
  PROVE  SoulInv'
  <1> DEFINE v == round_effect_valid_id + 1
             m == MarkOf[t]
             new == NewEffects(m, v, SoulScope)
  <1> USE DEF SoulInv, loaderVars
  <1>1. m \in Id /\ MarkOf[on_stage] \in Id /\ v \in Nat /\ round_effect_valid_id \in Nat
    BY DEF Typed
  <1>2. v > round_effect_valid_id
    BY <1>1
  <1>3. /\ on_stage' = t /\ round_effect_valid_id' = v
        /\ soul_mark_effects' = Replace(soul_mark_effects, new)
        /\ updater_effects' = updater_effects \cup (IF has_program(m) THEN {m} ELSE {})
        /\ signals' = IF Signalling(m, SoulScope) THEN {m} ELSE {}
        /\ program_cache' = program_cache
    BY DEF perform_switch
  <1>4. program_cache \in [Id -> Seq(Node)]
    BY DEF Typed
  <1>5. Registers(new, v)
    BY <1>1, <1>4, OneMarkRegisters
  <1>7. ASSUME NEW e \in new PROVE e.mark = m
    <2>1. e \in NewEffects(m, v, SoulScope)
      OBVIOUS
    <2> HIDE DEF m, v, new
    <2> QED
      BY <1>1, <1>4, <2>1, NewEffectFacts
  <1> HIDE DEF v, new
  <1>6. soul_mark_effects' \subseteq SoulEffect /\ OnePlace' /\ Stamped'
    <2>1. v >= round_effect_valid_id /\ currentState' # "LOADING"
      BY <1>1, <1>2
    <2> QED
      BY <1>1, <1>3, <1>5, <2>1, RegistrationKeeps
  <1>8. Typed'
    <2>1. entered' \subseteq Id /\ unmatched' \subseteq Id
      BY <1>1 DEF Typed, perform_switch
    <2>2. updater_effects' \subseteq Id /\ signals' \subseteq Id
      BY <1>1, <1>3 DEF Typed
    <2>3. on_stage' \in Slot /\ round_effect_valid_id' \in Nat
      BY <1>1, <1>3
    <2> QED
      BY <1>6, <2>1, <2>2, <2>3 DEF Typed
  <1>9. OnlyTheStagedActs'
    <2>1. SUFFICES ASSUME NEW e \in soul_mark_effects', e.scope = "ON_STAGE",
                          ~is_epoch_invalidated(e, v)
                   PROVE  e.mark = m
      BY <1>3 DEF OnlyTheStagedActs, Live
    <2>2. e \in soul_mark_effects \/ e \in new
      BY <1>3 DEF Replace
    <2>3. e \notin soul_mark_effects
      BY <1>1, <1>2, <2>1, OldStageIsSilent
    <2> QED
      BY <1>7, <2>2, <2>3
  <1>10. SignalsAreStaged'
    BY <1>3 DEF SignalsAreStaged
  <1> QED
    BY <1>6, <1>8, <1>9, <1>10

\* The entry of all pets: what is registered for the stage belongs to the pet on
\* it, which is activated first.
LEMMA EntryKeepsInv ==
  ASSUME SoulInv, ActivateAll
  PROVE  SoulInv'
  <1> DEFINE v == round_effect_valid_id
             marks == {MarkOf[s] : s \in alive}
             new == UNION {NewEffects(m, v, Activated(m)) : m \in marks}
  <1> USE DEF SoulInv
  <1>1. marks \subseteq Id /\ v \in Nat /\ program_cache \in [Id -> Seq(Node)]
    BY DEF Typed
  <1>2. /\ soul_mark_effects' = Replace(soul_mark_effects, new)
        /\ updater_effects' = updater_effects \cup {m \in marks : has_program(m)}
        /\ signals' = signals \cup {m \in marks : Signalling(m, Activated(m))}
        /\ entered' = entered \cup {m \in marks : Enters(m)}
        /\ executed' = TRUE
        /\ UNCHANGED <<pending_libs, program_cache, hooks_cache, alive, on_stage,
                       currentState, roundCount, round_effect_valid_id, unmatched, broken>>
        /\ currentState = "ENTER"
    BY DEF ActivateAll, loaderVars, teamVars
  <1>4. ASSUME NEW e \in new
        PROVE  /\ e \in NewEffects(e.mark, v, Activated(e.mark)) /\ e.mark \in Id
               /\ e \in SoulEffect /\ e.valid_id = v
               /\ has_program(e.mark) => e.index \in DOMAIN program_cache[e.mark]
               /\ has_program(e.mark) => e = NodeEffect(e.mark, e.index, v)
               /\ (has_program(e.mark) /\ e.scope = "ON_STAGE") => Activated(e.mark) # {"ROSTER"}
               /\ ~has_program(e.mark) => e.scope = "ON_STAGE"
    <2>1. PICK m \in marks : e \in NewEffects(m, v, Activated(m))
      OBVIOUS
    <2>2. m \in Id
      BY <1>1
    <2> QED
      <3> DEFINE b == Activated(m)
      <3>1. e \in NewEffects(m, v, b)
        BY <2>1, <2>2
      <3> HIDE DEF new, marks, v, b
      <3>2. e \in SoulEffect
        BY <1>1, <2>2, <3>1, NewEffectType
      <3>3. /\ e.mark = m /\ e.valid_id = v
            /\ has_program(m) => e.index \in DOMAIN program_cache[m]
            /\ has_program(m) => e = NodeEffect(m, e.index, v)
            /\ (has_program(m) /\ e.scope = "ON_STAGE") => b # {"ROSTER"}
            /\ ~has_program(m) => e.scope = "ON_STAGE"
        BY <3>1, NewEffectFacts
      <3> QED
        BY <2>1, <2>2, <3>2, <3>3 DEF b
  <1>5. Registers(new, v)
    <2>1. ASSUME NEW e \in new, NEW f \in new, e.mark = f.mark, e.index = f.index
          PROVE  e = f
      <3>1. e \in NewEffects(e.mark, v, Activated(e.mark)) /\ e.mark \in Id
        BY <1>4
      <3>2. f \in NewEffects(e.mark, v, Activated(e.mark))
        BY <1>4, <2>1
      <3> HIDE DEF new, marks, v
      <3> QED
        BY <2>1, <3>1, <3>2, NewEffectPlaces
    <2>2. \A e \in new : e \in SoulEffect /\ e.valid_id = v
      BY <1>4
    <2>3. \A e \in new : has_program(e.mark) => e = NodeEffect(e.mark, e.index, v)
      BY <1>4
    <2>4. \A e \in new : has_program(e.mark) => e.index \in DOMAIN program_cache[e.mark]
      BY <1>4
    <2>5. \A e \in new : ~has_program(e.mark) => e.scope = "ON_STAGE"
      BY <1>4
    <2> HIDE DEF new, v, marks
    <2> QED
      BY <2>1, <2>2, <2>3, <2>4, <2>5 DEF Registers
  <1> HIDE DEF new
  <1>6. soul_mark_effects' \subseteq SoulEffect /\ OnePlace' /\ Stamped'
    BY <1>1, <1>2, <1>5, RegistrationKeeps
  <1>7. Typed'
    <2>1. updater_effects' \subseteq Id /\ signals' \subseteq Id /\ entered' \subseteq Id
      BY <1>1, <1>2 DEF Typed
    <2>2. executed' \in BOOLEAN
      BY <1>2
    <2> QED
      BY <1>2, <1>6, <2>1, <2>2 DEF Typed
  <1>8. OnlyTheStagedActs'
    <2>1. SUFFICES ASSUME NEW e \in soul_mark_effects', e.scope = "ON_STAGE",
                          ~is_epoch_invalidated(e, v), has_program(e.mark)
                   PROVE  e.mark = MarkOf[on_stage]
      BY <1>2, ProgramsStay DEF OnlyTheStagedActs, Live
    <2>2. CASE e \in soul_mark_effects
      BY <2>1, <2>2 DEF OnlyTheStagedActs, Live
    <2>3. CASE e \in new
      <3>1. Activated(e.mark) # {"ROSTER"}
        BY <1>4, <2>1, <2>3
      <3> QED
        BY <3>1 DEF Activated, Working
    <2> QED
      BY <1>2, <2>1, <2>2, <2>3 DEF Replace
  <1>9. SignalsAreStaged'
    <2>1. SUFFICES ASSUME NEW m \in signals' PROVE has_roster_nodes(m) \/ m = MarkOf[on_stage]
      BY <1>2, ProgramsStay DEF SignalsAreStaged
    <2>2. CASE m \in signals
      BY <2>2 DEF SignalsAreStaged
    <2>3. CASE m \in marks /\ Signalling(m, Activated(m))
      BY <2>3 DEF Signalling, has_roster_nodes, Activated, Working
    <2> QED
      BY <1>2, <2>1, <2>2, <2>3
  <1> QED
    BY <1>6, <1>7, <1>8, <1>9

\* The end of the round: a mark is registered for its first living pet, for the
\* stage only if that pet is on it.
LEMMA RoundEndKeepsInv ==
  ASSUME SoulInv, CompleteRound
  PROVE  SoulInv'
  <1> DEFINE v == round_effect_valid_id
             new == UNION {Refresh(m) : m \in updater_effects}
  <1> USE DEF SoulInv
  <1>1. v \in Nat /\ program_cache \in [Id -> Seq(Node)] /\ updater_effects \subseteq Id
    BY DEF Typed
  <1>2. /\ soul_mark_effects' = Replace(soul_mark_effects, new)
        /\ roundCount' = roundCount + 1 /\ broken' = FALSE
        /\ currentState' = "CHOOSE" /\ executed' = FALSE
        /\ UNCHANGED <<pending_libs, program_cache, hooks_cache, alive, on_stage,
                       round_effect_valid_id, updater_effects, signals, entered, unmatched>>
    BY DEF CompleteRound, loaderVars, teamVars, hookVars
  <1>3. ASSUME NEW e \in new
        PROVE  \E s \in Slot : /\ find_pet_with_soulmark(e.mark, s)
                               /\ e \in NewEffects(e.mark, v, Working(s = on_stage))
                               /\ e.mark \in Id
    <2>1. PICK m \in updater_effects : e \in Refresh(m)
      OBVIOUS
    <2>2. PICK s \in Slot : /\ find_pet_with_soulmark(m, s)
                            /\ e \in NewEffects(m, v, Working(s = on_stage))
      BY <2>1 DEF Refresh
    <2>3. e.mark = m
      BY <2>2, NewEffectFacts
    <2> QED
      BY <1>1, <2>2, <2>3
  <1> HIDE DEF new
  <1>4. ASSUME NEW e \in new
        PROVE  /\ e \in SoulEffect /\ e.valid_id = v
               /\ has_program(e.mark) => e.index \in DOMAIN program_cache[e.mark]
               /\ has_program(e.mark) => e = NodeEffect(e.mark, e.index, v)
               /\ ~has_program(e.mark) => e.scope = "ON_STAGE"
    <2>1. PICK s \in Slot : /\ e \in NewEffects(e.mark, v, Working(s = on_stage))
                            /\ e.mark \in Id
      BY <1>3
    <2> DEFINE b == Working(s = on_stage)
               m == e.mark
    <2>2. e \in NewEffects(m, v, b) /\ m \in Id
      BY <2>1
    <2> HIDE DEF b, m, v
    <2>3. e \in SoulEffect
      BY <1>1, <2>2, NewEffectType
    <2>4. /\ e.mark = m /\ e.valid_id = v
          /\ has_program(m) => e.index \in DOMAIN program_cache[m]
          /\ has_program(m) => e = NodeEffect(m, e.index, v)
          /\ (has_program(m) /\ e.scope = "ON_STAGE") => b # {"ROSTER"}
          /\ ~has_program(m) => e.scope = "ON_STAGE"
      BY <2>2, NewEffectFacts
    <2> QED
      BY <2>3, <2>4
  <1>5. ASSUME NEW e \in new, NEW f \in new, e.mark = f.mark, e.index = f.index
        PROVE  e = f
    <2>1. PICK s \in Slot : /\ find_pet_with_soulmark(e.mark, s)
                            /\ e \in NewEffects(e.mark, v, Working(s = on_stage))
      BY <1>3
    <2>2. PICK t \in Slot : /\ find_pet_with_soulmark(f.mark, t)
                            /\ f \in NewEffects(f.mark, v, Working(t = on_stage))
      BY <1>3
    <2>3. s <= t /\ t <= s
      BY <1>5, <2>1, <2>2 DEF find_pet_with_soulmark
    <2>4. s = t
      BY <2>3
    <2> DEFINE b == Working(s = on_stage)
               m == e.mark
    <2>5. e \in NewEffects(m, v, b) /\ f \in NewEffects(m, v, b)
      BY <1>5, <2>1, <2>2, <2>4
    <2> HIDE DEF b, m, v
    <2> QED
      BY <1>5, <2>5, NewEffectPlaces
  <1>6. Registers(new, v)
    <2>1. \A e \in new : e \in SoulEffect /\ e.valid_id = v
      BY <1>4
    <2>2. \A e \in new : has_program(e.mark) => e = NodeEffect(e.mark, e.index, v)
      BY <1>4
    <2>3. \A e \in new : has_program(e.mark) => e.index \in DOMAIN program_cache[e.mark]
      BY <1>4
    <2>4. \A e \in new : ~has_program(e.mark) => e.scope = "ON_STAGE"
      BY <1>4
    <2> HIDE DEF v
    <2> QED
      BY <1>5, <2>1, <2>2, <2>3, <2>4 DEF Registers
  <1>7. soul_mark_effects' \subseteq SoulEffect /\ OnePlace' /\ Stamped'
    BY <1>1, <1>2, <1>6, RegistrationKeeps
  <1>8. Typed'
    <2>1. executed' \in BOOLEAN /\ broken' \in BOOLEAN
      BY <1>2
    <2>2. currentState' \in Point \cup {"LOADING"}
      BY <1>2 DEF Point
    <2>3. roundCount' \in Nat
      BY <1>2 DEF Typed
    <2> QED
      BY <1>2, <1>7, <2>1, <2>2, <2>3 DEF Typed
  <1>9. OnlyTheStagedActs'
    <2>1. SUFFICES ASSUME NEW e \in soul_mark_effects', e.scope = "ON_STAGE",
                          ~is_epoch_invalidated(e, v), has_program(e.mark)
                   PROVE  e.mark = MarkOf[on_stage]
      BY <1>2, ProgramsStay DEF OnlyTheStagedActs, Live
    <2>2. CASE e \in soul_mark_effects
      BY <2>1, <2>2 DEF OnlyTheStagedActs, Live
    <2>3. CASE e \in new
      <3>1. PICK s \in Slot : /\ find_pet_with_soulmark(e.mark, s)
                              /\ e \in NewEffects(e.mark, v, Working(s = on_stage))
        BY <1>3, <2>3
      <3> DEFINE b == Working(s = on_stage)
                 m == e.mark
      <3>2. e \in NewEffects(m, v, b)
        BY <3>1
      <3> HIDE DEF b, v
      <3>3. (has_program(m) /\ e.scope = "ON_STAGE") => b # {"ROSTER"}
        BY <3>2, NewEffectFacts
      <3>4. s = on_stage
        BY <2>1, <3>3 DEF b, Working
      <3> QED
        BY <3>1, <3>4 DEF find_pet_with_soulmark
    <2> QED
      BY <1>2, <2>1, <2>2, <2>3 DEF Replace
  <1>10. SignalsAreStaged'
    BY <1>2, ProgramsStay DEF SignalsAreStaged
  <1> QED
    BY <1>7, <1>8, <1>9, <1>10

\* Actions that leave of the bucket what it was or less.
LEMMA ShrinkingKeepsInv ==
  ASSUME SoulInv, soul_mark_effects' \subseteq soul_mark_effects,
         Typed',
         UNCHANGED <<program_cache, on_stage, signals>>,
         currentState # "LOADING", currentState' # "LOADING",
         round_effect_valid_id' \in {round_effect_valid_id, round_effect_valid_id + 1}
  PROVE  SoulInv'
  <1> USE DEF SoulInv
  <1>1. /\ program_cache' = program_cache /\ on_stage' = on_stage /\ signals' = signals
        /\ round_effect_valid_id \in Nat
    BY DEF Typed
  <1>2. OnePlace'
    BY DEF OnePlace
  <1>3. ASSUME NEW e \in soul_mark_effects'
        PROVE  /\ e.valid_id <= round_effect_valid_id'
               /\ has_program(e.mark) => e = NodeEffect(e.mark, e.index, e.valid_id)
               /\ has_program(e.mark) => e.index \in DOMAIN program_cache[e.mark]
               /\ ~has_program(e.mark) => e.scope = "ON_STAGE"
    <2>1. e \in soul_mark_effects /\ e.valid_id \in Nat
      BY DEF Typed, SoulEffect
    <2>2. e.valid_id <= round_effect_valid_id
      BY <2>1 DEF Stamped
    <2>3. e.valid_id <= round_effect_valid_id'
      BY <1>1, <2>1, <2>2
    <2> QED
      BY <2>1, <2>3 DEF Stamped
  <1>4. Stamped'
    BY <1>1, <1>3, ProgramsStay DEF Stamped
  <1>5. OnlyTheStagedActs'
    <2>1. SUFFICES ASSUME NEW e \in soul_mark_effects', e.scope = "ON_STAGE",
                          ~is_epoch_invalidated(e, round_effect_valid_id'), has_program(e.mark)
                   PROVE  e.mark = MarkOf[on_stage]
      BY <1>1, ProgramsStay DEF OnlyTheStagedActs, Live
    <2>2. CASE round_effect_valid_id' = round_effect_valid_id
      BY <2>1, <2>2 DEF OnlyTheStagedActs, Live
    <2>3. CASE round_effect_valid_id' = round_effect_valid_id + 1
      <3>1. round_effect_valid_id' \in Nat /\ round_effect_valid_id' > round_effect_valid_id
        BY <1>1, <2>3
      <3> QED
        BY <2>1, <3>1, OldStageIsSilent
    <2> QED
      BY <2>2, <2>3
  <1>6. SignalsAreStaged'
    BY <1>1, ProgramsStay DEF SignalsAreStaged
  <1> QED
    BY <1>2, <1>4, <1>5, <1>6

\* Before the battle there is nothing a program could change.
LEMMA LoadingKeepsInv ==
  ASSUME SoulInv, LoadLibrary
  PROVE  SoulInv'
  <1> USE DEF SoulInv
  <1>1. PICK l \in pending_libs :
          /\ pending_libs' = pending_libs \ {l}
          /\ \/ program_cache' = [program_cache EXCEPT ![l.mark] = l.nodes]
             \/ UNCHANGED program_cache
          /\ hooks_cache' = IF l.hooked THEN hooks_cache \cup {l.mark} ELSE hooks_cache
    BY DEF LoadLibrary
  <1>2. currentState = "LOADING" /\ soul_mark_effects = {} /\ signals = {}
    BY DEF LoadLibrary, Stamped
  <1>3. UNCHANGED <<alive, on_stage, currentState, executed, roundCount, soul_mark_effects,
                    updater_effects, round_effect_valid_id, signals, entered, unmatched, broken>>
    BY DEF LoadLibrary, teamVars, clockVars, bucketVars, hookVars
  <1>4. l \in Library /\ l.mark \in Id /\ l.nodes \in Seq(Node)
    BY DEF Typed
  <1>5. program_cache' \in [Id -> Seq(Node)]
    BY <1>1, <1>4 DEF Typed
  <1>6. hooks_cache' \subseteq Id /\ pending_libs' \subseteq Library
    BY <1>1, <1>4 DEF Typed
  <1>7. Typed'
    BY <1>3, <1>5, <1>6 DEF Typed
  <1>8. OnePlace' /\ Stamped'
    BY <1>2, <1>3 DEF OnePlace, Stamped
  <1>9. OnlyTheStagedActs' /\ SignalsAreStaged'
    BY <1>2, <1>3 DEF OnlyTheStagedActs, SignalsAreStaged, Live
  <1> QED
    BY <1>7, <1>8, <1>9

\* The points of the round follow one another.
LEMMA FollowsPoint ==
  ASSUME NEW p \in Point \ {"COMPLETION"}
  PROVE  Follows(p) \in Point
  <1>1. \A i \in 1 .. 7 : Order[i] \in Point
    BY DEF Order, Point
  <1>2. \E i \in 1 .. 6 : p = Order[i]
    BY DEF Order, Point
  <1>3. \E q \in Point : \E i \in 1 .. 6 : p = Order[i] /\ q = Order[i + 1]
    BY <1>1, <1>2
  <1> QED
    BY <1>3 DEF Follows

\* Every step of the marks keeps the invariant.
LEMMA SoulStep ==
  ASSUME SoulInv, [Next]_vars
  PROVE  SoulInv'
  <1>1. CASE LoadLibrary
    BY <1>1, LoadingKeepsInv
  <1>2. CASE StartBattle
    <2>1. UNCHANGED <<pending_libs, program_cache, hooks_cache, alive, on_stage, executed,
                      roundCount, soul_mark_effects, updater_effects, round_effect_valid_id,
                      signals, entered, unmatched, broken>>
      BY <1>2 DEF StartBattle, loaderVars, teamVars, bucketVars, hookVars
    <2>2. currentState = "LOADING" /\ currentState' = "ENTER"
      BY <1>2 DEF StartBattle
    <2>3. soul_mark_effects = {} /\ signals = {}
      BY <2>2 DEF SoulInv, Stamped
    <2>4. Typed'
      BY <2>1, <2>2 DEF SoulInv, Typed, Point
    <2> QED
      BY <2>1, <2>3, <2>4
      DEF SoulInv, OnePlace, Stamped, OnlyTheStagedActs, SignalsAreStaged, Live
  <1>3. CASE ActivateAll
    BY <1>3, EntryKeepsInv
  <1>4. ASSUME NEW t \in Slot, SwitchPet(t)
        PROVE  SoulInv'
    <2>1. /\ perform_switch(t) /\ currentState # "LOADING"
          /\ UNCHANGED <<loaderVars, alive, currentState, roundCount, broken>>
          /\ executed' = executed
      BY <1>4 DEF SwitchPet, clockVars
    <2>2. executed' \in BOOLEAN
      BY <2>1 DEF SoulInv, Typed
    <2> QED
      BY <2>1, <2>2, SwitchKeepsInv
  <1>5. ASSUME NEW t \in Slot, ReplaceDead(t)
        PROVE  SoulInv'
    <2>1. /\ perform_switch(t) /\ currentState # "LOADING"
          /\ UNCHANGED <<loaderVars, alive, currentState, roundCount, broken>>
          /\ executed' = TRUE
      BY <1>5 DEF ReplaceDead
    <2>2. executed' \in BOOLEAN
      BY <2>1
    <2> QED
      BY <2>1, <2>2, SwitchKeepsInv
  <1>6. ASSUME NEW s \in Slot, Die(s)
        PROVE  SoulInv'
    <2>1. /\ alive' = alive \ {s}
          /\ currentState \in Executes
          /\ UNCHANGED <<pending_libs, program_cache, hooks_cache, on_stage, currentState,
                         executed, roundCount, soul_mark_effects, updater_effects,
                         round_effect_valid_id, signals, entered, unmatched, broken>>
      BY <1>6 DEF Die, loaderVars, clockVars, bucketVars, hookVars
    <2>2. Typed'
      BY <2>1 DEF SoulInv, Typed
    <2> QED
      BY <2>1, <2>2, ShrinkingKeepsInv DEF Executes
  <1>7. CASE Execute
    <2>1. /\ executed' = TRUE
          /\ currentState \in Executes
          /\ UNCHANGED <<pending_libs, program_cache, hooks_cache, alive, on_stage, currentState,
                         roundCount, updater_effects, round_effect_valid_id, signals, entered,
                         unmatched, broken>>
      BY <1>7 DEF Execute, loaderVars, teamVars, hookVars
    <2>2. soul_mark_effects' \subseteq soul_mark_effects
      BY <1>7 DEF Execute, Live
    <2>3. executed' \in BOOLEAN
      BY <2>1
    <2>4. Typed'
      BY <2>1, <2>2, <2>3 DEF SoulInv, Typed
    <2> QED
      BY <2>1, <2>2, <2>4, ShrinkingKeepsInv DEF Executes
  <1>8. CASE Break
    <2>1. /\ round_effect_valid_id' = round_effect_valid_id + 1
          /\ broken' = TRUE /\ currentState # "LOADING"
          /\ UNCHANGED <<pending_libs, program_cache, hooks_cache, alive, on_stage, currentState,
                         executed, roundCount, soul_mark_effects, updater_effects, signals,
                         entered, unmatched>>
      BY <1>8 DEF Break, loaderVars, teamVars, clockVars, hookVars
    <2>2. broken' \in BOOLEAN /\ round_effect_valid_id' \in Nat
      BY <2>1 DEF SoulInv, Typed
    <2>3. Typed'
      BY <2>1, <2>2 DEF SoulInv, Typed
    <2> QED
      BY <2>1, <2>3, ShrinkingKeepsInv
  <1>9. CASE Advance
    <2>1. /\ executed' = FALSE
          /\ currentState \in Point \ {"COMPLETION"} /\ currentState' = Follows(currentState)
          /\ UNCHANGED <<pending_libs, program_cache, hooks_cache, alive, on_stage,
                         roundCount, soul_mark_effects, updater_effects, round_effect_valid_id,
                         signals, entered, unmatched, broken>>
      BY <1>9 DEF Advance, loaderVars, teamVars, bucketVars, hookVars
    <2>2. currentState' \in Point /\ executed' \in BOOLEAN
      BY <2>1, FollowsPoint
    <2>3. Typed'
      BY <2>1, <2>2 DEF SoulInv, Typed
    <2>4. currentState # "LOADING" /\ currentState' # "LOADING"
      BY <2>1, <2>2 DEF Point
    <2> QED
      BY <2>1, <2>3, <2>4, ShrinkingKeepsInv
  <1>10. CASE CompleteRound
    BY <1>10, RoundEndKeepsInv
  <1>11. CASE UNCHANGED vars
    BY <1>11 DEF vars, loaderVars, teamVars, clockVars, bucketVars, hookVars, SoulInv, Typed,
                 OnePlace, Stamped, OnlyTheStagedActs, SignalsAreStaged, Live, has_program,
                 NodeEffect, has_roster_nodes, MarkNodes
  <1> QED
    BY <1>1, <1>2, <1>3, <1>4, <1>5, <1>6, <1>7, <1>8, <1>9, <1>10, <1>11 DEF Next

\* It holds before the libraries are loaded.
LEMMA SoulInit ==
  ASSUME Init
  PROVE  SoulInv
  <1>1. program_cache \in [Id -> Seq(Node)]
    <2>1. <<>> \in Seq(Node)
      OBVIOUS
    <2> QED
      BY <2>1 DEF Init
  <1>2. executed \in BOOLEAN /\ broken \in BOOLEAN
    BY DEF Init
  <1>3. Typed
    BY <1>1, <1>2 DEF Init, Typed
  <1>4. OnePlace /\ Stamped
    BY DEF Init, OnePlace, Stamped
  <1>5. OnlyTheStagedActs /\ SignalsAreStaged
    BY DEF Init, OnlyTheStagedActs, SignalsAreStaged, Live
  <1> QED
    BY <1>3, <1>4, <1>5 DEF SoulInv

\* The inductive invariant of the soul marks.
THEOREM Invariance == Spec => []SoulInv
  <1>1. Init => SoulInv
    BY SoulInit
  <1>2. SoulInv /\ [Next]_vars => SoulInv'
    BY SoulStep
  <1> QED
    BY <1>1, <1>2, PTL DEF Spec

\* Types are kept, and a mark has one effect in the bucket for each of its nodes.
THEOREM TypeCorrect == Spec => []TypeOK
  <1>1. SoulInv => TypeOK
    BY DEF SoulInv, Typed, OnePlace, TypeOK
  <1> QED
    BY <1>1, Invariance, PTL

\* Of the effects of a stay only those of the pet on stage act, for any team and
\* any programs.
THEOREM OnlyTheStaged == Spec => []OnlyTheStagedActs
  <1>1. SoulInv => OnlyTheStagedActs
    BY DEF SoulInv
  <1> QED
    BY <1>1, Invariance, PTL

\* The signals of the stage are those of the pet on stage.
THEOREM SignalsStaged == Spec => []SignalsAreStaged
  <1>1. SoulInv => SignalsAreStaged
    BY DEF SoulInv
  <1> QED
    BY <1>1, Invariance, PTL

\* The bench is silent: neither effects nor signals of the stage are another's.
THEOREM SilentBench == Spec => []BenchIsSilent
  <1> QED
    BY OnlyTheStaged, SignalsStaged, PTL DEF BenchIsSilent

-----------------------------------------------------------------------------
\* What is owed when the players choose.

\* After the pets have entered, the marks of the living have their updaters.
Updated ==
  /\ currentState = "LOADING" => ~executed
  /\ currentState \notin {"LOADING", "ENTER"} \/ (currentState = "ENTER" /\ executed) =>
       \A s \in alive : has_program(MarkOf[s]) => MarkOf[s] \in updater_effects

\* The effect of a node of a mark is live in the bucket.
Served(m, i) == \E e \in Live : e.mark = m /\ e.index = i

\* Every living pet that counts for its mark has what the mark owes it.
Owed ==
  \A s \in alive : IsHost(s) =>
    \A i \in DOMAIN program_cache[MarkOf[s]] :
      (program_cache[MarkOf[s]][i].scope = "ROSTER" \/ s = on_stage) => Served(MarkOf[s], i)

\* From the entry of the pets, and from the end of a round, to the choice.
Choosing == currentState = "CHOOSE" \/ (currentState = "ENTER" /\ executed)

ReadyInv == SoulInv /\ Updated /\ (Choosing /\ ~broken => Owed)

\* What has just been registered with the version of its side is live.
LEMMA NewIsLive ==
  ASSUME NEW new, NEW m, NEW i, NEW scopes, NEW v, round_effect_valid_id' = v,
         soul_mark_effects' = Replace(soul_mark_effects, new),
         NewEffects(m, v, scopes) \subseteq new,
         i \in DOMAIN program_cache[m],
         program_cache[m][i].scope \in scopes
  PROVE  Served(m, i)'
  <1> DEFINE e == NodeEffect(m, i, v)
             J == {j \in DOMAIN program_cache[m] : program_cache[m][j].scope \in scopes}
  <1>1. has_program(m)
    BY DEF has_program
  <1>2. NewEffects(m, v, scopes) =
          {NodeEffect(m, j, v) : j \in J}
    BY <1>1 DEF NewEffects, ProgramEffects
  <1>3. i \in J
    OBVIOUS
  <1>4. e \in new
    BY <1>2, <1>3
  <1>5. e.mark = m /\ e.index = i /\ e.valid_id = v
    BY DEF NodeEffect
  <1> HIDE DEF e
  <1>6. e \in soul_mark_effects'
    BY <1>4 DEF Replace
  <1>7. e \in Live'
    BY <1>5, <1>6 DEF Live, is_epoch_invalidated
  <1> QED
    BY <1>5, <1>7 DEF Served

\* The end of a round pays what is owed.
LEMMA RoundEndPays ==
  ASSUME SoulInv, Updated, CompleteRound
  PROVE  Owed'
  <1> DEFINE new == UNION {Refresh(m) : m \in updater_effects}
             v == round_effect_valid_id
  <1>1. /\ soul_mark_effects' = Replace(soul_mark_effects, new)
        /\ UNCHANGED <<program_cache, alive, on_stage, round_effect_valid_id, updater_effects>>
        /\ currentState = "COMPLETION"
    BY DEF CompleteRound, loaderVars, teamVars
  <1>2. SUFFICES ASSUME NEW s \in alive, IsHost(s), NEW i \in DOMAIN program_cache[MarkOf[s]],
                        program_cache[MarkOf[s]][i].scope = "ROSTER" \/ s = on_stage
                 PROVE  Served(MarkOf[s], i)'
    BY <1>1 DEF Owed, IsHost
  <1> DEFINE m == MarkOf[s]
             scopes == Working(s = on_stage)
  <1>3. has_program(m)
    BY DEF has_program
  <1>4. s \in Slot /\ m \in Id /\ program_cache[m] \in Seq(Node)
    BY DEF SoulInv, Typed
  <1>5. program_cache[m][i].scope \in SoulScope
    <2>1. program_cache[m][i] \in Node
      BY <1>4
    <2> QED
      BY <2>1
  <1>6. program_cache[m][i].scope \in scopes
    BY <1>2, <1>5 DEF Working
  <1>7. m \in updater_effects
    BY <1>1, <1>3 DEF Updated
  <1>8. find_pet_with_soulmark(m, s)
    BY <1>2 DEF find_pet_with_soulmark, IsHost
  <1>9. NewEffects(m, v, scopes) \subseteq Refresh(m)
    BY <1>1, <1>4, <1>8 DEF Refresh
  <1>10. NewEffects(m, v, scopes) \subseteq new
    BY <1>7, <1>9
  <1>12. i \in DOMAIN program_cache[m]
    OBVIOUS
  <1>13. round_effect_valid_id' = v
    BY <1>1
  <1> HIDE DEF new, scopes, m, v
  <1>11. Served(m, i)'
    BY <1>1, <1>6, <1>10, <1>12, <1>13, NewIsLive
  <1> QED
    BY <1>11 DEF m

\* So does the entry of the pets.
LEMMA EntryPays ==
  ASSUME SoulInv, ActivateAll
  PROVE  Owed' /\ \A s \in alive' : has_program(MarkOf[s])' => MarkOf[s] \in updater_effects'
  <1> DEFINE marks == {MarkOf[s] : s \in alive}
             v == round_effect_valid_id
             new == UNION {NewEffects(m, v, Activated(m)) : m \in marks}
  <1>1. /\ soul_mark_effects' = Replace(soul_mark_effects, new)
        /\ updater_effects' = updater_effects \cup {m \in marks : has_program(m)}
        /\ UNCHANGED <<program_cache, alive, on_stage, round_effect_valid_id>>
    BY DEF ActivateAll, loaderVars, teamVars
  <1>2. \A s \in alive' : has_program(MarkOf[s])' => MarkOf[s] \in updater_effects'
    BY <1>1, ProgramsStay
  <1>3. SUFFICES ASSUME NEW s \in alive, IsHost(s), NEW i \in DOMAIN program_cache[MarkOf[s]],
                        program_cache[MarkOf[s]][i].scope = "ROSTER" \/ s = on_stage
                 PROVE  Served(MarkOf[s], i)'
    BY <1>1, <1>2 DEF Owed, IsHost
  <1> DEFINE m == MarkOf[s]
             scopes == Activated(m)
  <1>4. s \in Slot /\ m \in Id /\ program_cache[m] \in Seq(Node)
    BY DEF SoulInv, Typed
  <1>5. program_cache[m][i].scope \in SoulScope
    <2>1. program_cache[m][i] \in Node
      BY <1>4
    <2> QED
      BY <2>1
  <1>6. program_cache[m][i].scope \in scopes
    BY <1>3, <1>5 DEF Activated, Working
  <1>7. NewEffects(m, v, scopes) \subseteq new
    BY <1>1
  <1>9. i \in DOMAIN program_cache[m]
    OBVIOUS
  <1>10. round_effect_valid_id' = v
    BY <1>1
  <1> HIDE DEF new, scopes, m, marks, v
  <1>8. Served(m, i)'
    BY <1>1, <1>6, <1>7, <1>9, <1>10, NewIsLive
  <1> QED
    BY <1>8 DEF m

\* A switch to a living pet pays what its mark owes it, and takes nothing that
\* works from the bench.
LEMMA SwitchPays ==
  ASSUME SoulInv, Owed, NEW t \in Slot, perform_switch(t),
         program_cache' = program_cache, alive' = alive
  PROVE  Owed'
  <1> DEFINE n == MarkOf[t]
             v == round_effect_valid_id + 1
             new == NewEffects(n, v, SoulScope)
  <1>1. /\ soul_mark_effects' = Replace(soul_mark_effects, new)
        /\ on_stage' = t /\ round_effect_valid_id' = v
    BY DEF perform_switch
  <1>2. SUFFICES ASSUME NEW s \in alive, IsHost(s), NEW i \in DOMAIN program_cache[MarkOf[s]],
                        program_cache[MarkOf[s]][i].scope = "ROSTER" \/ s = t
                 PROVE  Served(MarkOf[s], i)'
    BY <1>1 DEF Owed, IsHost
  <1> DEFINE m == MarkOf[s]
  <1>3. s \in Slot /\ m \in Id /\ program_cache[m] \in Seq(Node) /\ n \in Id
    BY DEF SoulInv, Typed
  <1>4. program_cache[m][i].scope \in SoulScope
    <2>1. program_cache[m][i] \in Node
      BY <1>3
    <2> QED
      BY <2>1
  <1>5. CASE m = n
    <2>1. NewEffects(m, v, SoulScope) \subseteq new
      BY <1>5
    <2>3. i \in DOMAIN program_cache[m]
      OBVIOUS
    <2> HIDE DEF new, m, v
    <2>2. Served(m, i)'
      BY <1>1, <1>4, <2>1, <2>3, NewIsLive
    <2> QED
      BY <2>2 DEF m
  <1>6. CASE m # n
    <2>1. program_cache[m][i].scope = "ROSTER"
      BY <1>2, <1>6
    <2>2. PICK e \in Live : e.mark = m /\ e.index = i
      BY <1>2, <2>1 DEF Owed, Served
    <2>3. e \in soul_mark_effects /\ has_program(m)
      BY <2>2 DEF Live, has_program
    <2>4. e = NodeEffect(m, i, e.valid_id)
      BY <2>2, <2>3 DEF SoulInv, Stamped
    <2>5. e.scope = "TEAM"
      BY <2>1, <2>4 DEF NodeEffect
    <2>6. \A f \in new : f.mark = n
      BY NewEffectFacts
    <2> HIDE DEF new, m, n
    <2>7. e \in soul_mark_effects'
      BY <1>1, <1>6, <2>2, <2>3, <2>6 DEF Replace
    <2>8. e \in Live'
      BY <2>5, <2>7 DEF Live, is_epoch_invalidated
    <2> QED
      BY <2>2, <2>8 DEF m, Served
  <1> QED
    BY <1>5, <1>6

\* Every step keeps it.
LEMMA ReadyStep ==
  ASSUME ReadyInv, [Next]_vars
  PROVE  ReadyInv'
  <1> USE DEF ReadyInv
  <1>1. SoulInv'
    BY SoulStep
  <1>2. CASE LoadLibrary
    BY <1>1, <1>2 DEF LoadLibrary, clockVars, Updated, Choosing
  <1>3. CASE StartBattle
    <2>1. currentState' = "ENTER" /\ executed' = executed
      BY <1>3 DEF StartBattle
    <2>2. currentState = "LOADING"
      BY <1>3 DEF StartBattle
    <2> QED
      BY <1>1, <2>1, <2>2 DEF Updated, Choosing
  <1>4. CASE ActivateAll
    <2>1. Updated'
      <3>1. \A s \in alive' : has_program(MarkOf[s])' => MarkOf[s] \in updater_effects'
        BY <1>4, EntryPays
      <3>2. currentState' = "ENTER"
        BY <1>4 DEF ActivateAll
      <3> QED
        BY <3>1, <3>2 DEF Updated
    <2> QED
      BY <1>1, <1>4, <2>1, EntryPays
  <1>5. ASSUME NEW t \in Slot, SwitchPet(t)
        PROVE  ReadyInv'
    <2>1. /\ perform_switch(t) /\ currentState = "CHOOSE"
          /\ UNCHANGED <<program_cache, alive, currentState, executed, broken>>
      BY <1>5 DEF SwitchPet, loaderVars, clockVars
    <2>2. updater_effects \subseteq updater_effects'
      BY <2>1 DEF perform_switch
    <2>3. Updated'
      BY <2>1, <2>2, ProgramsStay DEF Updated
    <2>4. ~broken => Owed'
      BY <2>1, SwitchPays DEF Choosing
    <2> QED
      BY <1>1, <2>1, <2>3, <2>4
  <1>6. ASSUME NEW t \in Slot, ReplaceDead(t)
        PROVE  ReadyInv'
    <2>1. /\ perform_switch(t) /\ currentState = "DEFEATED"
          /\ UNCHANGED <<program_cache, alive, currentState>>
      BY <1>6 DEF ReplaceDead, loaderVars
    <2>2. updater_effects \subseteq updater_effects'
      BY <2>1 DEF perform_switch
    <2>3. Updated'
      BY <2>1, <2>2, ProgramsStay DEF Updated
    <2> QED
      BY <1>1, <2>1, <2>3 DEF Choosing
  <1>7. ASSUME NEW s \in Slot, Die(s)
        PROVE  ReadyInv'
    <2>1. /\ alive' = alive \ {s}
          /\ currentState \in Executes /\ currentState' = currentState
          /\ UNCHANGED <<program_cache, updater_effects>>
      BY <1>7 DEF Die, loaderVars, clockVars, bucketVars
    <2>2. Updated'
      BY <2>1, ProgramsStay DEF Updated, Executes
    <2> QED
      BY <1>1, <2>1, <2>2 DEF Choosing, Executes
  <1>8. CASE Execute
    <2>1. /\ currentState \in Executes /\ currentState' = currentState
          /\ UNCHANGED <<program_cache, alive, updater_effects>>
      BY <1>8 DEF Execute, loaderVars, teamVars
    <2>2. Updated'
      BY <2>1, ProgramsStay DEF Updated, Executes
    <2> QED
      BY <1>1, <2>1, <2>2 DEF Choosing, Executes
  <1>9. CASE Break
    <2>1. /\ broken' = TRUE
          /\ UNCHANGED <<program_cache, alive, updater_effects, currentState, executed>>
      BY <1>9 DEF Break, loaderVars, teamVars, clockVars
    <2>2. Updated'
      BY <2>1, ProgramsStay DEF Updated
    <2> QED
      BY <1>1, <2>1, <2>2
  <1>10. CASE Advance
    <2>1. /\ currentState \in Point \ {"COMPLETION"} /\ currentState' = Follows(currentState)
          /\ currentState \in Executes \cup {"ENTER"} => executed
          /\ executed' = FALSE
          /\ UNCHANGED <<program_cache, alive, on_stage, soul_mark_effects, updater_effects,
                         round_effect_valid_id, broken>>
      BY <1>10 DEF Advance, loaderVars, teamVars, bucketVars
    <2>2. Updated'
      <3>1. \A s \in alive : has_program(MarkOf[s]) => MarkOf[s] \in updater_effects
        BY <2>1 DEF Updated, Point
      <3> QED
        BY <2>1, <3>1, ProgramsStay DEF Updated
    <2>3. currentState' = "CHOOSE" => currentState = "ENTER"
      <3>1. \E i \in 1 .. 6 : currentState = Order[i] /\ currentState' = Order[i + 1]
        <4>1. \E i \in 1 .. 6 : currentState = Order[i]
          BY <2>1 DEF Order, Point
        <4>2. \A i \in 1 .. 6 : Order[i + 1] \in Point
          BY DEF Order, Point
        <4>3. \E q \in Point : \E i \in 1 .. 6 : currentState = Order[i] /\ q = Order[i + 1]
          BY <4>1, <4>2
        <4> QED
          BY <2>1, <4>3 DEF Follows
      <3> QED
        BY <3>1 DEF Order
    <2>4. Choosing' /\ ~broken' => Choosing /\ ~broken
      BY <2>1, <2>3 DEF Choosing
    <2>5. Owed => Owed'
      BY <2>1 DEF Owed, Served, IsHost, Live
    <2> QED
      BY <1>1, <2>2, <2>4, <2>5
  <1>11. CASE CompleteRound
    <2>1. /\ currentState = "COMPLETION" /\ currentState' = "CHOOSE"
          /\ UNCHANGED <<program_cache, alive, updater_effects>>
      BY <1>11 DEF CompleteRound, loaderVars, teamVars
    <2>2. Updated'
      BY <2>1, ProgramsStay DEF Updated
    <2> QED
      BY <1>1, <1>11, <2>2, RoundEndPays
  <1>12. CASE UNCHANGED vars
    <2>1. UNCHANGED <<program_cache, alive, on_stage, currentState, executed, soul_mark_effects,
                      updater_effects, round_effect_valid_id, broken>>
      BY <1>12 DEF vars, loaderVars, teamVars, clockVars, bucketVars
    <2>2. Updated'
      BY <2>1, ProgramsStay DEF Updated
    <2>3. Owed => Owed'
      BY <2>1 DEF Owed, Served, IsHost, Live
    <2> QED
      BY <1>1, <2>1, <2>2, <2>3 DEF Choosing
  <1> QED
    BY <1>2, <1>3, <1>4, <1>5, <1>6, <1>7, <1>8, <1>9, <1>10, <1>11, <1>12 DEF Next

\* When the players choose, every node that a living pet's mark owes it is live,
\* for any team and any programs.
THEOREM ReadyToChoose == Spec => []ReadyAtChoice
  <1>1. Init => ReadyInv
    <2>1. SUFFICES ASSUME Init PROVE ReadyInv
      OBVIOUS
    <2>2. currentState = "LOADING" /\ ~executed
      BY <2>1 DEF Init
    <2> QED
      BY <2>1, <2>2, SoulInit DEF ReadyInv, Updated, Choosing
  <1>2. ReadyInv /\ [Next]_vars => ReadyInv'
    BY ReadyStep
  <1>3. ReadyInv => ReadyAtChoice
    BY DEF ReadyInv, Choosing, Owed, Served, ReadyAtChoice
  <1> QED
    BY <1>1, <1>2, <1>3, PTL DEF Spec

-----------------------------------------------------------------------------
\* Exits after entries.

\* Until the marks are activated nobody has died or left.
Unopened == currentState = "LOADING" \/ (currentState = "ENTER" /\ ~executed)

\* Once the marks are activated, the pet on stage has been told to enter if its
\* mark has a program and hooks.
EntersInv ==
  /\ Typed
  /\ currentState = "LOADING" => ~executed /\ unmatched = {}
  /\ Unopened => alive = Slot
  /\ ~Unopened /\ Enters(MarkOf[on_stage]) => MarkOf[on_stage] \in entered
  /\ \A m \in unmatched : ~has_program(m)

\* Programs and hooks that stay the same are entered as before.
LEMMA EntersStays ==
  ASSUME program_cache' = program_cache, hooks_cache' = hooks_cache
  PROVE  \A m : (has_program(m)' <=> has_program(m)) /\ (Enters(m)' <=> Enters(m))
  BY DEF has_program, Enters

\* A switch tells the pet that comes to enter; of those it tells to leave, one
\* that had not entered has no program.
LEMMA SwitchTells ==
  ASSUME EntersInv, ~Unopened, Typed', NEW t \in Slot, perform_switch(t),
         UNCHANGED <<program_cache, hooks_cache, currentState>>,
         currentState \notin {"LOADING", "ENTER"}
  PROVE  EntersInv'
  <1> DEFINE old == MarkOf[on_stage]
             new == MarkOf[t]
             exits == IF old \in hooks_cache /\ ~has_roster_nodes(old) THEN {old} ELSE {}
  <1>1. /\ on_stage' = t
        /\ entered' = (entered \ exits) \cup (IF Enters(new) THEN {new} ELSE {})
        /\ unmatched' = unmatched \cup (exits \ entered)
    BY DEF perform_switch
  <1>2. \A m \in exits \ entered : ~has_program(m)
    BY DEF EntersInv, Enters
  <1>3. \A m : (has_program(m)' <=> has_program(m)) /\ (Enters(m)' <=> Enters(m))
    BY EntersStays
  <1> HIDE DEF exits
  <1>4. \A m \in unmatched' : ~has_program(m)'
    BY <1>1, <1>2, <1>3 DEF EntersInv
  <1>5. Enters(MarkOf[on_stage])' => MarkOf[on_stage'] \in entered'
    BY <1>1, <1>3 DEF Enters, has_program
  <1> QED
    BY <1>4, <1>5 DEF EntersInv, Unopened

\* Every step keeps it.
LEMMA EntersStep ==
  ASSUME SoulInv, EntersInv, [Next]_vars
  PROVE  EntersInv'
  <1>1. Typed'
    BY SoulStep DEF SoulInv
  <1>2. CASE LoadLibrary
    <2>1. /\ currentState = "LOADING"
          /\ UNCHANGED <<alive, on_stage, currentState, executed, entered, unmatched>>
      BY <1>2 DEF LoadLibrary, teamVars, clockVars, hookVars
    <2> QED
      BY <1>1, <2>1 DEF EntersInv, Unopened
  <1>3. CASE StartBattle
    <2>1. /\ currentState = "LOADING" /\ currentState' = "ENTER"
          /\ UNCHANGED <<program_cache, hooks_cache, alive, executed, unmatched>>
      BY <1>3 DEF StartBattle, loaderVars, teamVars, hookVars
    <2> QED
      BY <1>1, <2>1, EntersStays DEF EntersInv, Unopened
  <1>4. CASE ActivateAll
    <2>1. /\ currentState = "ENTER" /\ ~executed /\ currentState' = "ENTER" /\ executed' = TRUE
          /\ entered' = entered \cup {m \in {MarkOf[s] : s \in alive} : Enters(m)}
          /\ UNCHANGED <<program_cache, hooks_cache, alive, on_stage, unmatched>>
      BY <1>4 DEF ActivateAll, loaderVars, teamVars
    <2>2. on_stage \in alive
      BY <2>1 DEF EntersInv, Typed, Unopened
    <2>3. Enters(MarkOf[on_stage]) => MarkOf[on_stage] \in entered'
      BY <2>1, <2>2
    <2> QED
      BY <1>1, <2>1, <2>3, EntersStays DEF EntersInv, Unopened
  <1>5. ASSUME NEW t \in Slot, SwitchPet(t)
        PROVE  EntersInv'
    <2>1. /\ perform_switch(t) /\ currentState = "CHOOSE"
          /\ UNCHANGED <<program_cache, hooks_cache, currentState>>
      BY <1>5 DEF SwitchPet, loaderVars, clockVars
    <2> QED
      BY <1>1, <2>1, SwitchTells DEF Unopened
  <1>6. ASSUME NEW t \in Slot, ReplaceDead(t)
        PROVE  EntersInv'
    <2>1. /\ perform_switch(t) /\ currentState = "DEFEATED"
          /\ UNCHANGED <<program_cache, hooks_cache, currentState>>
      BY <1>6 DEF ReplaceDead, loaderVars
    <2> QED
      BY <1>1, <2>1, SwitchTells DEF Unopened
  <1>7. ASSUME NEW s \in Slot, Die(s)
        PROVE  EntersInv'
    <2>1. /\ currentState \in Executes
          /\ UNCHANGED <<program_cache, hooks_cache, on_stage, currentState, executed, entered,
                         unmatched>>
      BY <1>7 DEF Die, loaderVars, clockVars, hookVars
    <2> QED
      BY <1>1, <2>1, EntersStays DEF EntersInv, Unopened, Executes
  <1>8. CASE Execute
    <2>1. /\ currentState \in Executes
          /\ UNCHANGED <<program_cache, hooks_cache, on_stage, currentState, entered, unmatched>>
      BY <1>8 DEF Execute, loaderVars, teamVars, hookVars
    <2> QED
      BY <1>1, <2>1, EntersStays DEF EntersInv, Unopened, Executes
  <1>9. CASE Break
    <2>1. UNCHANGED <<program_cache, hooks_cache, alive, on_stage, currentState, executed,
                      entered, unmatched>>
      BY <1>9 DEF Break, loaderVars, teamVars, clockVars, hookVars
    <2> QED
      BY <1>1, <2>1, EntersStays DEF EntersInv, Unopened
  <1>10. CASE Advance
    <2>1. /\ currentState \in Point \ {"COMPLETION"} /\ currentState' = Follows(currentState)
          /\ currentState \in Executes \cup {"ENTER"} => executed
          /\ UNCHANGED <<program_cache, hooks_cache, alive, on_stage, entered, unmatched>>
      BY <1>10 DEF Advance, loaderVars, teamVars, hookVars
    <2>2. currentState' \notin {"LOADING", "ENTER"}
      <3>1. \A i \in 1 .. 6 : Order[i + 1] \in Point \ {"ENTER"}
        BY DEF Order, Point
      <3>2. \E i \in 1 .. 6 : currentState = Order[i]
        BY <2>1 DEF Order, Point
      <3>3. \E q \in Point : \E i \in 1 .. 6 : currentState = Order[i] /\ q = Order[i + 1]
        BY <3>1, <3>2
      <3>4. \E i \in 1 .. 6 : currentState' = Order[i + 1]
        BY <2>1, <3>3 DEF Follows
      <3> QED
        BY <3>1, <3>4 DEF Point
    <2>3. ~Unopened
      BY <2>1 DEF Unopened, Point
    <2> QED
      BY <1>1, <2>1, <2>2, <2>3, EntersStays DEF EntersInv, Unopened
  <1>11. CASE CompleteRound
    <2>1. /\ currentState = "COMPLETION" /\ currentState' = "CHOOSE"
          /\ UNCHANGED <<program_cache, hooks_cache, on_stage, entered, unmatched>>
      BY <1>11 DEF CompleteRound, loaderVars, teamVars, hookVars
    <2> QED
      BY <1>1, <2>1, EntersStays DEF EntersInv, Unopened
  <1>12. CASE UNCHANGED vars
    <2>1. UNCHANGED <<program_cache, hooks_cache, alive, on_stage, currentState, executed,
                      entered, unmatched>>
      BY <1>12 DEF vars, loaderVars, teamVars, clockVars, hookVars
    <2> QED
      BY <1>1, <2>1, EntersStays DEF EntersInv, Unopened
  <1> QED
    BY <1>2, <1>3, <1>4, <1>5, <1>6, <1>7, <1>8, <1>9, <1>10, <1>11, <1>12 DEF Next

\* A mark with a program is told to leave only after it was told to enter, for any
\* team and any libraries, those that register hooks without a program included.
THEOREM ExitsMatched == Spec => []ExitsFollowEnters
  <1>1. Init => EntersInv
    <2>1. SUFFICES ASSUME Init PROVE EntersInv
      OBVIOUS
    <2>2. Typed
      BY <2>1, SoulInit DEF SoulInv
    <2> QED
      BY <2>1, <2>2 DEF Init, EntersInv, Unopened
  <1>2. SoulInv /\ EntersInv /\ [Next]_vars => EntersInv'
    BY EntersStep
  <1>3. EntersInv => ExitsFollowEnters
    BY DEF EntersInv, ExitsFollowEnters
  <1> QED
    BY <1>1, <1>2, <1>3, Invariance, PTL DEF Spec
=============================================================================
