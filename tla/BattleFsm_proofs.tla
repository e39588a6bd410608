-------------------------- MODULE BattleFsm_proofs --------------------------
(***************************************************************************)
(* Types and safety invariants of the battle state machine, for any team,  *)
(* any number of skills and any hp.  Most steps leave the operations of    *)
(* the round alone (Quiet); each invariant then concerns the few that do   *)
(* not.  The end says why the machine comes back to the players: what is   *)
(* left of a turn goes down and never gets stuck.                          *)
(***************************************************************************)
EXTENDS BattleFsm, WellFoundedInduction, TLAPS

EventRecord == [type : EventType, actor : Side, state : State]

LEMMA SuccessorType == \A q \in DOMAIN Successor : Successor[q] \in State
BY DEF Successor, State

LEMMA WoundsType ==
  ASSUME NEW f, currentState \in State
  PROVE  Wounds(f) \in Seq(EventRecord)
<1>1. \A s \in Side : Event("EVENT_TAKE_DAMAGE", s) \in EventRecord
  BY DEF Event, EventRecord, EventType
<1>2. \A b, s : s \in Side => When(b, Event("EVENT_TAKE_DAMAGE", s)) \in Seq(EventRecord)
  BY <1>1 DEF When
<1>. QED  BY <1>2 DEF Wounds, Side

LEMMA SettleType ==
  ASSUME TypeOK, NEW f \in [Side -> 0 .. MaxHp], Settle(f)
  PROVE  hp' \in [Side -> [Slot -> 0 .. MaxHp]]
BY DEF TypeOK, Settle

LEMMA FieldType == TypeOK => FieldHp \in [Side -> 0 .. MaxHp]
BY DEF TypeOK, FieldHp

LEMMA ReactionsType ==
  ASSUME TypeOK, NEW b, NEW f \in Reactions(b)
  PROVE  f \in [Side -> 0 .. MaxHp]
BY FieldType DEF Reactions

LEMMA TwoEvents == ASSUME NEW S, NEW a \in S, NEW b \in S PROVE <<a, b>> \in Seq(S)
OBVIOUS

LEMMA EmptyEvents == \A S : <<>> \in Seq(S)
OBVIOUS

LEMMA InitType == Init => TypeOK
<1>. SUFFICES ASSUME Init PROVE TypeOK
  OBVIOUS
<1>1. currentState \in State /\ current_player_id \in Side
  BY DEF Init, State, Successor, Side
<1>2. hp \in [Side -> [Slot -> 0 .. MaxHp]]
  BY HpAssumption DEF Init
<1>3. m_buffer \in Message
  BY TeamAssumption DEF Init, Message, ActionType, Side
<1>4. NoChoice \in Choice
  BY DEF Choice
<1>5. events \in Seq(EventRecord)
  BY EmptyEvents DEF Init
<1>. QED
  BY <1>1, <1>2, <1>3, <1>4, <1>5, TeamAssumption DEF Init, TypeOK, EventRecord

LEMMA BucketOnlyType ==
  ASSUME TypeOK, NEW q \in DOMAIN Successor, BucketOnly(q)
  PROVE  TypeOK'
<1>1. PICK f \in [Side -> 0 .. MaxHp] : Settle(f) /\ events' = Wounds(f)
  BY DEF BucketOnly, Bucket
<1>2. hp' \in [Side -> [Slot -> 0 .. MaxHp]]
  BY <1>1, SettleType
<1>3. events' \in Seq(EventRecord)
  BY <1>1, WoundsType DEF TypeOK
<1>4. currentState' \in State
  BY SuccessorType DEF BucketOnly
<1>. QED
  BY <1>2, <1>3, <1>4
     DEF TypeOK, BucketOnly, EventRecord, choiceVars, collectVars, inputVars,
         skillVars, noticeVars

LEMMA SubmitType ==
  ASSUME TypeOK, NEW m \in Message, Submit(m)
  PROVE  TypeOK'
BY DEF TypeOK, Submit, stageVars, choiceVars, collectVars, skillVars, noticeVars

LEMMA DrainType ==
  ASSUME TypeOK, Drain
  PROVE  TypeOK'
<1>1. PICK f \in Reactions(\E i \in 1 .. Len(events) : events[i].type \in WatchedEvents) :
        Settle(f)
  BY DEF Drain
<1>2. hp' \in [Side -> [Slot -> 0 .. MaxHp]]
  BY <1>1, ReactionsType, SettleType
<1>3. events' \in Seq(EventRecord)
  BY EmptyEvents DEF Drain
<1>. QED
  BY <1>2, <1>3 DEF TypeOK, Drain, EventRecord, choiceVars, collectVars, inputVars,
                    skillVars, noticeVars

\* What a step of the choosing states does to the choices and the input.
LEMMA OperationType ==
  ASSUME TypeOK, NEW s \in Side, NEW usable \in BOOLEAN, Operation(s, usable)
  PROVE  /\ roundChoice' \in [Side -> Choice]
         /\ chosenBy' \in [Side -> Slot]
<1>1. CASE Stores(s, usable)
  <2>1. m_buffer.idx \in Index /\ m_buffer.kind \in {"CHOOSE_PET", "SELECT_SKILL", "USE_MEDICINE"}
    BY <1>1, TeamAssumption DEF Stores, TypeOK, Message, Short
  <2>2. Wanted \in Choice
    BY <2>1 DEF Wanted, Choice
  <2>3. chosenBy' = [chosenBy EXCEPT ![s] = onStage[s]] /\ onStage[s] \in Slot
    BY <1>1 DEF Operation, TypeOK
  <2>4. roundChoice' = [roundChoice EXCEPT ![s] = Wanted]
    BY <1>1 DEF Operation
  <2>. QED  BY <2>2, <2>3, <2>4 DEF TypeOK
<1>2. CASE ~Stores(s, usable)
  BY <1>2 DEF Operation, TypeOK
<1>. QED  BY <1>1, <1>2

LEMMA ConsumeType == ConsumeInput => m_buffer' \in Message /\ is_empty' \in BOOLEAN
BY DEF ConsumeInput, Message

LEMMA SwitchType ==
  ASSUME TypeOK, NEW s \in Side, NEW k, Switch(s, k)
  PROVE  /\ onStage' \in [Side -> Slot]
         /\ death_notified' \in [Side -> BOOLEAN]
         /\ notices' \in [Side -> Nat]
<1>1. CASE Switches(s, k)
  <2>1. /\ onStage' = [onStage EXCEPT ![s] = k]
        /\ death_notified' = [death_notified EXCEPT ![s] = FALSE]
        /\ notices' = [notices EXCEPT ![s] = 0]
        /\ k \in Slot
    BY <1>1 DEF Switch, Switches
  <2>2. onStage' \in [Side -> Slot] /\ notices' \in [Side -> Nat]
    BY <2>1 DEF TypeOK
  <2>3. death_notified' \in [Side -> BOOLEAN]
    BY <2>1 DEF TypeOK
  <2>. QED  BY <2>2, <2>3
<1>2. CASE ~Switches(s, k)
  BY <1>2 DEF TypeOK, Switch, noticeVars
<1>. QED  BY <1>1, <1>2

LEMMA ChooseAcceptedType ==
  ASSUME TypeOK, NEW s \in Side, ChooseAccepted(s)
  PROVE  TypeOK'
<1>1. /\ roundChoice' \in [Side -> Choice]
      /\ chosenBy' \in [Side -> Slot]
      /\ roundChoice'[s] = Wanted
  BY OperationType DEF ChooseAccepted, Accepted
<1>2. Wanted \in Choice
  BY <1>1
<1>3. hp' \in [Side -> [Slot -> 0 .. MaxHp]]
  <2>1. CASE m_buffer.kind = "USE_MEDICINE" /\ FieldHp[s] > 0
    <3>1. PICK h \in FieldHp[s] .. MaxHp : Settle([FieldHp EXCEPT ![s] = h])
      BY <2>1 DEF ChooseAccepted, Medicate
    <3>2. h \in 0 .. MaxHp
      BY <3>1, FieldType, HpAssumption
    <3>3. [FieldHp EXCEPT ![s] = h] \in [Side -> 0 .. MaxHp]
      BY <3>2, FieldType
    <3>. QED  BY <3>1, <3>3, SettleType
  <2>2. CASE ~(m_buffer.kind = "USE_MEDICINE" /\ FieldHp[s] > 0)
    BY <2>2 DEF ChooseAccepted, Medicate, TypeOK
  <2>. QED  BY <2>1, <2>2
<1>4. /\ operation_collected' \in [Side -> BOOLEAN]
      /\ agreed' \in [Side -> Choice]
      /\ currentState' \in State
      /\ current_player_id' \in Side
  <2>1. Successor[currentState] \in State
    BY SuccessorType DEF ChooseAccepted, Decoding, Running, Successor
  <2>. QED
    BY <1>2, <2>1 DEF ChooseAccepted, Collect, PromptOther, TypeOK, Side
<1>5. /\ onStage' \in [Side -> Slot]
      /\ death_notified' \in [Side -> BOOLEAN]
      /\ notices' \in [Side -> Nat]
  BY SwitchType DEF ChooseAccepted, TypeOK, noticeVars
<1>6. events' \in Seq(EventRecord)
  <2>1. Event("EVENT_ENTER_STAGE", s) \in EventRecord /\ Event("EVENT_SWAP", s) \in EventRecord
    BY DEF Event, EventRecord, EventType, TypeOK
  <2>2. \/ events' = <<Event("EVENT_ENTER_STAGE", s), Event("EVENT_SWAP", s)>>
        \/ events' = events
    BY DEF ChooseAccepted
  <2>3. <<Event("EVENT_ENTER_STAGE", s), Event("EVENT_SWAP", s)>> \in Seq(EventRecord)
    BY <2>1, TwoEvents
  <2>. QED  BY <2>2, <2>3 DEF TypeOK, EventRecord
<1>. QED
  BY <1>1, <1>3, <1>4, <1>5, <1>6, ConsumeType
     DEF TypeOK, ChooseAccepted, EventRecord, skillVars

LEMMA ChooseRefusedType ==
  ASSUME TypeOK, NEW s \in Side, ChooseRefused(s)
  PROVE  TypeOK'
<1>1. /\ roundChoice' \in [Side -> Choice]
      /\ chosenBy' \in [Side -> Slot]
  BY OperationType DEF ChooseRefused
<1>. QED
  BY <1>1, ConsumeType
     DEF TypeOK, ChooseRefused, stageVars, collectVars, skillVars, noticeVars

LEMMA ChooseUnknownPlayerType ==
  ASSUME TypeOK, ChooseUnknownPlayer
  PROVE  TypeOK'
BY ConsumeType
   DEF TypeOK, ChooseUnknownPlayer, stageVars, choiceVars, collectVars, skillVars,
       noticeVars

LEMMA WhenType ==
  ASSUME TypeOK, NEW b, NEW type \in EventType, NEW s \in Side
  PROVE  When(b, Event(type, s)) \in Seq(EventRecord)
<1>1. Event(type, s) \in EventRecord
  BY DEF Event, EventRecord, TypeOK
<1>2. <<Event(type, s)>> \in Seq(EventRecord)
  BY <1>1
<1>. QED  BY <1>2, EmptyEvents DEF When

LEMMA ConcatType ==
  ASSUME NEW S, NEW a \in Seq(S), NEW b \in Seq(S)
  PROVE  a \o b \in Seq(S)
OBVIOUS

LEMMA ProtectionMechanism1Type ==
  ASSUME TypeOK, ProtectionMechanism1
  PROVE  TypeOK'
<1>1. PICK f \in [Side -> 0 .. MaxHp] :
        /\ Settle([s \in Side |-> IF f[s] = 0 THEN 1 ELSE f[s]])
        /\ events' = Wounds(f)
  BY ReactionsType DEF ProtectionMechanism1
<1>2. [s \in Side |-> IF f[s] = 0 THEN 1 ELSE f[s]] \in [Side -> 0 .. MaxHp]
  BY HpAssumption
<1>3. hp' \in [Side -> [Slot -> 0 .. MaxHp]]
  BY <1>1, <1>2, SettleType
<1>4. events' \in Seq(EventRecord)
  BY <1>1, WoundsType DEF TypeOK
<1>5. currentState' \in State
  BY SuccessorType DEF ProtectionMechanism1, Running, Successor
<1>. QED
  BY <1>3, <1>4, <1>5
     DEF TypeOK, ProtectionMechanism1, EventRecord, choiceVars, collectVars,
         inputVars, skillVars, noticeVars

LEMMA BucketType ==
  ASSUME TypeOK, NEW q, NEW f, Bucket(q, f)
  PROVE  /\ hp' \in [Side -> [Slot -> 0 .. MaxHp]]
         /\ events' \in Seq(EventRecord)
<1>1. f \in [Side -> 0 .. MaxHp]
  BY ReactionsType DEF Bucket
<1>. QED  BY <1>1, SettleType, WoundsType DEF Bucket, TypeOK

LEMMA RoundStartType ==
  ASSUME TypeOK, RoundStart
  PROVE  TypeOK'
<1>1. /\ hp' \in [Side -> [Slot -> 0 .. MaxHp]]
      /\ events' \in Seq(EventRecord)
  BY BucketType DEF RoundStart
<1>2. currentState' \in State
  BY SuccessorType DEF RoundStart, Running, Successor
<1>3. roundChoice' \in [Side -> Choice]
  BY DEF RoundStart, TypeOK, Choice
<1>4. /\ preemptive_right' \in Side \cup {NoSide}
      /\ resolution' \in [Side -> {"NOT_READY", "HIT", "SKILL_INVALID"}]
      /\ pp_consumed' \in [Side -> BOOLEAN]
  BY DEF RoundStart
<1>. QED
  BY <1>1, <1>2, <1>3, <1>4
     DEF TypeOK, RoundStart, EventRecord, collectVars, inputVars, noticeVars

LEMMA FirstMoveRightType ==
  ASSUME TypeOK, FirstMoveRight
  PROVE  TypeOK'
<1>1. /\ hp' \in [Side -> [Slot -> 0 .. MaxHp]]
      /\ events' \in Seq(EventRecord)
  BY BucketType DEF FirstMoveRight
<1>2. currentState' \in State
  BY SuccessorType DEF FirstMoveRight, Running, Successor
<1>3. preemptive_right' \in Side
  BY DEF FirstMoveRight
<1>. QED
  BY <1>1, <1>2, <1>3
     DEF TypeOK, FirstMoveRight, EventRecord, choiceVars, collectVars, inputVars,
         noticeVars

LEMMA MinusType == \A h, d \in 0 .. MaxHp : Minus(h, d) \in 0 .. MaxHp
BY HpAssumption DEF Minus

LEMMA ActionStartType ==
  ASSUME TypeOK, NEW q \in DOMAIN Successor, NEW i \in Side, NEW extra \in State,
         ActionStart(q, i, extra)
  PROVE  TypeOK'
<1>1. PICK f \in [Side -> 0 .. MaxHp], dot \in 0 .. MaxHp, controlled \in BOOLEAN :
        LET left == IF FieldHp[i] > 0 THEN Minus(f[i], dot) ELSE f[i]
        IN /\ f \in Reactions(q \in EffectStates)
           /\ Settle([f EXCEPT ![i] = left])
           /\ events' = Wounds(f)
           /\ currentState' = IF Acts(i, left, controlled) THEN Successor[q] ELSE extra
  BY DEF ActionStart
<1>. DEFINE left == IF FieldHp[i] > 0 THEN Minus(f[i], dot) ELSE f[i]
<1>2. left \in 0 .. MaxHp
  BY MinusType
<1>3. [f EXCEPT ![i] = left] \in [Side -> 0 .. MaxHp]
  BY <1>2
<1>4. hp' \in [Side -> [Slot -> 0 .. MaxHp]]
  BY <1>1, <1>3, SettleType
<1>5. events' \in Seq(EventRecord)
  BY <1>1, WoundsType DEF TypeOK
<1>6. currentState' \in State
  BY <1>1, SuccessorType
<1>. QED
  BY <1>4, <1>5, <1>6
     DEF TypeOK, ActionStart, EventRecord, choiceVars, collectVars, inputVars,
         skillVars, noticeVars

LEMMA OnSkillHitType ==
  ASSUME TypeOK, NEW q \in DOMAIN Successor, NEW i \in Side, OnSkillHit(q, i)
  PROVE  TypeOK'
<1>1. PICK r \in {"HIT", "SKILL_INVALID"} :
        /\ resolution' = [resolution EXCEPT ![i] = r]
        /\ \E f \in Reactions(r = "HIT" /\ q \in EffectStates) :
             /\ Settle(f)
             /\ events' = <<Event(IF r = "HIT" THEN "EVENT_HIT"
                                  ELSE "EVENT_SKILL_INVALID", i)>> \o Wounds(f)
  BY DEF OnSkillHit
<1>2. PICK f \in [Side -> 0 .. MaxHp] :
        /\ Settle(f)
        /\ events' = <<Event(IF r = "HIT" THEN "EVENT_HIT"
                             ELSE "EVENT_SKILL_INVALID", i)>> \o Wounds(f)
  BY <1>1, ReactionsType
<1>3. hp' \in [Side -> [Slot -> 0 .. MaxHp]]
  BY <1>2, SettleType
<1>4. events' \in Seq(EventRecord)
  <2>1. Event(IF r = "HIT" THEN "EVENT_HIT" ELSE "EVENT_SKILL_INVALID", i) \in EventRecord
    BY DEF Event, EventRecord, EventType, TypeOK
  <2>2. <<Event(IF r = "HIT" THEN "EVENT_HIT" ELSE "EVENT_SKILL_INVALID", i)>>
          \in Seq(EventRecord)
    BY <2>1
  <2>3. Wounds(f) \in Seq(EventRecord)
    BY WoundsType DEF TypeOK
  <2>. QED  BY <1>2, <2>2, <2>3, ConcatType
<1>5. currentState' \in State /\ resolution' \in [Side -> {"NOT_READY", "HIT", "SKILL_INVALID"}]
  BY <1>1, SuccessorType DEF OnSkillHit, TypeOK
<1>. QED
  BY <1>3, <1>4, <1>5
     DEF TypeOK, OnSkillHit, EventRecord, choiceVars, collectVars, inputVars, noticeVars

LEMMA SkillEffectType ==
  ASSUME TypeOK, NEW q \in DOMAIN Successor, NEW i \in Side, SkillEffect(q, i)
  PROVE  TypeOK'
<1>1. PICK f \in [Side -> 0 .. MaxHp] : Settle(f) /\ events' = Wounds(f)
  BY ReactionsType DEF SkillEffect
<1>2. hp' \in [Side -> [Slot -> 0 .. MaxHp]]
  BY <1>1, SettleType
<1>3. events' \in Seq(EventRecord)
  BY <1>1, WoundsType DEF TypeOK
<1>4. currentState' \in State
  BY SuccessorType DEF SkillEffect
<1>. QED
  BY <1>2, <1>3, <1>4
     DEF TypeOK, SkillEffect, EventRecord, choiceVars, collectVars, inputVars,
         skillVars, noticeVars

LEMMA AttackDamageType ==
  ASSUME TypeOK, NEW q \in DOMAIN Successor, NEW i \in Side, AttackDamage(q, i)
  PROVE  TypeOK'
<1>1. /\ hp' \in [Side -> [Slot -> 0 .. MaxHp]]
      /\ events' \in Seq(EventRecord)
  <2>1. CASE resolution[i] # "HIT"
    BY <2>1 DEF AttackDamage, TypeOK, EventRecord
  <2>2. CASE resolution[i] = "HIT"
    <3>. DEFINE d == Other(i)
    <3>1. PICK f \in Reactions(q \in EffectStates), final \in 0 .. MaxHp :
            /\ Settle([f EXCEPT ![d] = Minus(f[d], final)])
            /\ events' = Wounds(f)
                 \o When(final = 0, Event("EVENT_ATTACK_BLOCKED", i))
                 \o When(final > 0 /\ f[d] > 0, Event("EVENT_TAKE_DAMAGE", d))
      BY <2>2 DEF AttackDamage
    <3>2. f \in [Side -> 0 .. MaxHp] /\ d \in Side
      BY ReactionsType DEF Other, Side
    <3>3. [f EXCEPT ![d] = Minus(f[d], final)] \in [Side -> 0 .. MaxHp]
      BY <3>2, MinusType
    <3>4. hp' \in [Side -> [Slot -> 0 .. MaxHp]]
      BY <3>1, <3>3, SettleType
    <3>5. Wounds(f) \in Seq(EventRecord)
      BY <3>2, WoundsType DEF TypeOK
    <3>6. /\ When(final = 0, Event("EVENT_ATTACK_BLOCKED", i)) \in Seq(EventRecord)
          /\ When(final > 0 /\ f[d] > 0, Event("EVENT_TAKE_DAMAGE", d)) \in Seq(EventRecord)
      BY <3>2, WhenType DEF EventType
    <3>7. Wounds(f) \o When(final = 0, Event("EVENT_ATTACK_BLOCKED", i)) \in Seq(EventRecord)
      BY <3>5, <3>6, ConcatType
    <3>8. events' \in Seq(EventRecord)
      BY <3>1, <3>6, <3>7, ConcatType
    <3>. QED  BY <3>4, <3>8
  <2>. QED  BY <2>1, <2>2
<1>2. currentState' \in State
  BY SuccessorType DEF AttackDamage
<1>. QED
  BY <1>1, <1>2
     DEF TypeOK, AttackDamage, EventRecord, choiceVars, collectVars, inputVars,
         skillVars, noticeVars

LEMMA AfterActionType ==
  ASSUME TypeOK, NEW q \in DOMAIN Successor, NEW i \in Side, AfterAction(q, i)
  PROVE  TypeOK'
<1>1. /\ hp' \in [Side -> [Slot -> 0 .. MaxHp]]
      /\ events' \in Seq(EventRecord)
  BY BucketType DEF AfterAction
<1>2. currentState' \in State
  BY SuccessorType DEF AfterAction
<1>3. pp_consumed' \in [Side -> BOOLEAN]
  <2>1. (pp_consumed[i] \/ Pays(i)) \in BOOLEAN
    OBVIOUS
  <2>2. pp_consumed' = [pp_consumed EXCEPT ![i] = pp_consumed[i] \/ Pays(i)]
    BY DEF AfterAction
  <2>. HIDE DEF Pays
  <2>3. pp_consumed \in [Side -> BOOLEAN]
    BY DEF TypeOK
  <2>. QED  BY <2>1, <2>2, <2>3
<1>. QED
  BY <1>1, <1>2, <1>3
     DEF TypeOK, AfterAction, EventRecord, choiceVars, collectVars, inputVars, noticeVars

LEMMA FirstMoverDeathType ==
  ASSUME TypeOK, FirstMoverDeath
  PROVE  TypeOK'
<1>1. /\ hp' \in [Side -> [Slot -> 0 .. MaxHp]]
      /\ events' \in Seq(EventRecord)
  BY BucketType DEF FirstMoverDeath
<1>2. currentState' \in State
  BY DEF FirstMoverDeath, State, Successor
<1>. QED
  BY <1>1, <1>2
     DEF TypeOK, FirstMoverDeath, EventRecord, choiceVars, collectVars, inputVars,
         skillVars, noticeVars

LEMMA AfterDefeatedType ==
  ASSUME TypeOK, AfterDefeated
  PROVE  TypeOK'
<1>1. PICK f \in Reactions(currentState \in EffectStates) :
        LET dead == {s \in Side : f[s] = 0}
            fresh == Announces(dead)
        IN /\ Settle(f)
           /\ death_notified' = [s \in Side |-> death_notified[s] \/ s \in dead]
           /\ notices' = [s \in Side |-> IF s \in fresh THEN notices[s] + 1
                                         ELSE notices[s]]
           /\ events' = Wounds(f) \o When(0 \in fresh, Event("EVENT_DEATH", 0))
                                  \o When(1 \in fresh, Event("EVENT_DEATH", 1))
           /\ currentState' = AfterDeaths(dead)
           /\ current_player_id' = IF dead = {} THEN current_player_id
                                   ELSE IF 0 \in dead THEN 0 ELSE 1
  BY DEF AfterDefeated
<1>. DEFINE dead == {s \in Side : f[s] = 0}
            fresh == Announces(dead)
<1>2. f \in [Side -> 0 .. MaxHp]
  BY ReactionsType
<1>3. hp' \in [Side -> [Slot -> 0 .. MaxHp]]
  BY <1>1, <1>2, SettleType
<1>4. /\ death_notified' \in [Side -> BOOLEAN]
      /\ notices' \in [Side -> Nat]
  <2>1. death_notified' = [s \in Side |-> death_notified[s] \/ s \in dead]
    BY <1>1
  <2>2. death_notified' \in [Side -> BOOLEAN]
    BY <2>1
  <2>3. notices' = [s \in Side |-> IF s \in fresh THEN notices[s] + 1 ELSE notices[s]]
    BY <1>1
  <2>4. notices \in [Side -> Nat]
    BY DEF TypeOK
  <2>. HIDE DEF fresh
  <2>5. notices' \in [Side -> Nat]
    BY <2>3, <2>4
  <2>. QED  BY <2>2, <2>5
<1>5. events' \in Seq(EventRecord)
  <2>1. Wounds(f) \in Seq(EventRecord)
    BY <1>2, WoundsType DEF TypeOK
  <2>2. When(0 \in fresh, Event("EVENT_DEATH", 0)) \in Seq(EventRecord)
    BY WhenType DEF EventType, Side
  <2>3. When(1 \in fresh, Event("EVENT_DEATH", 1)) \in Seq(EventRecord)
    BY WhenType DEF EventType, Side
  <2>4. Wounds(f) \o When(0 \in fresh, Event("EVENT_DEATH", 0)) \in Seq(EventRecord)
    BY <2>1, <2>2, ConcatType
  <2>5. events' = (Wounds(f) \o When(0 \in fresh, Event("EVENT_DEATH", 0)))
                    \o When(1 \in fresh, Event("EVENT_DEATH", 1))
    BY <1>1
  <2>. HIDE DEF fresh
  <2>. QED  BY <2>3, <2>4, <2>5, ConcatType
<1>6. currentState' \in State
  BY <1>1 DEF AfterDeaths, State, Successor
<1>7. current_player_id' \in Side
  BY <1>1 DEF TypeOK, Side
<1>. QED
  BY <1>3, <1>4, <1>5, <1>6, <1>7
     DEF TypeOK, AfterDefeated, EventRecord, choiceVars, inputVars, skillVars

LEMMA ReplaceDefeatedType ==
  ASSUME TypeOK, NEW s \in Side, ReplaceDefeated(s)
  PROVE  TypeOK'
<1>1. /\ roundChoice' \in [Side -> Choice]
      /\ chosenBy' \in [Side -> Slot]
  BY OperationType DEF ReplaceDefeated
<1>2. /\ onStage' \in [Side -> Slot]
      /\ death_notified' \in [Side -> BOOLEAN]
      /\ notices' \in [Side -> Nat]
  BY SwitchType DEF ReplaceDefeated
<1>3. events' \in Seq(EventRecord)
  <2>1. events' = When(Switches(s, m_buffer.idx), Event("EVENT_ENTER_STAGE", s))
    BY DEF ReplaceDefeated
  <2>. QED  BY <2>1, WhenType DEF EventType
<1>4. currentState' \in State
  BY SuccessorType DEF ReplaceDefeated, Decoding, Running, Successor
<1>. QED
  BY <1>1, <1>2, <1>3, <1>4, ConsumeType
     DEF TypeOK, ReplaceDefeated, EventRecord, collectVars, skillVars

LEMMA ReplaceRefusedType ==
  ASSUME TypeOK, NEW s \in Side, ReplaceRefused(s)
  PROVE  TypeOK'
BY ConsumeType
   DEF TypeOK, ReplaceRefused, stageVars, choiceVars, collectVars, skillVars,
       noticeVars

LEMMA RoundCompletionType ==
  ASSUME TypeOK, RoundCompletion
  PROVE  TypeOK'
<1>1. /\ hp' \in [Side -> [Slot -> 0 .. MaxHp]]
      /\ events' \in Seq(EventRecord)
  BY BucketType DEF RoundCompletion
<1>2. currentState' \in State /\ current_player_id' \in Side
  BY DEF RoundCompletion, NextRound, State, Successor, Side
<1>3. NoChoice \in Choice
  BY DEF Choice
<1>4. /\ operation_collected' \in [Side -> BOOLEAN]
      /\ roundChoice' \in [Side -> Choice]
      /\ agreed' \in [Side -> Choice]
  BY <1>3 DEF RoundCompletion, ResetCollection
<1>. QED
  BY <1>1, <1>2, <1>4
     DEF TypeOK, RoundCompletion, EventRecord, inputVars, skillVars, noticeVars

LEMMA MoverType == FirstMover \in Side /\ SecondMover \in Side
BY DEF FirstMover, SecondMover, Other, Side

LEMMA BucketStateType ==
  /\ OpeningStates \cup FirstTail \cup SecondTail \cup RoundEndStates \subseteq DOMAIN Successor
  /\ {"OPERATION_ENTER_STAGE", "BATTLE_AFTER_DEFEATING_OPPONENT",
      "BATTLE_FIRST_ACTION_START", "BATTLE_FIRST_BEFORE_SKILL_HIT",
      "BATTLE_FIRST_ON_SKILL_HIT", "BATTLE_FIRST_SKILL_EFFECT",
      "BATTLE_FIRST_ATTACK_DAMAGE", "BATTLE_FIRST_AFTER_ACTION",
      "BATTLE_SECOND_ACTION_START", "BATTLE_SECOND_BEFORE_SKILL_HIT",
      "BATTLE_SECOND_ON_SKILL_HIT", "BATTLE_SECOND_SKILL_EFFECT",
      "BATTLE_SECOND_ATTACK_DAMAGE", "BATTLE_SECOND_AFTER_ACTION"} \subseteq DOMAIN Successor
  /\ {"BATTLE_FIRST_EXTRA_ACTION", "BATTLE_SECOND_EXTRA_ACTION"} \subseteq State
BY DEF OpeningStates, FirstTail, SecondTail, RoundEndStates, Successor, State

\* The steps of one mover's action.
LEMMA FirstActionType ==
  ASSUME TypeOK,
         \/ FirstActionStart \/ FirstBeforeSkillHit \/ FirstOnSkillHit
         \/ FirstSkillEffect \/ FirstAttackDamage \/ FirstAfterAction \/ FirstEnd
  PROVE  TypeOK'
<1>1. CASE FirstActionStart
  BY <1>1, ActionStartType, MoverType, BucketStateType DEF FirstActionStart
<1>2. CASE FirstBeforeSkillHit
  BY <1>2, BucketOnlyType, BucketStateType DEF FirstBeforeSkillHit
<1>3. CASE FirstOnSkillHit
  BY <1>3, OnSkillHitType, MoverType, BucketStateType DEF FirstOnSkillHit
<1>4. CASE FirstSkillEffect
  BY <1>4, SkillEffectType, MoverType, BucketStateType DEF FirstSkillEffect
<1>5. CASE FirstAttackDamage
  BY <1>5, AttackDamageType, MoverType, BucketStateType DEF FirstAttackDamage
<1>6. CASE FirstAfterAction
  BY <1>6, AfterActionType, MoverType, BucketStateType DEF FirstAfterAction
<1>7. CASE FirstEnd
  BY <1>7, BucketOnlyType, BucketStateType DEF FirstEnd
<1>. QED  BY <1>1, <1>2, <1>3, <1>4, <1>5, <1>6, <1>7

LEMMA SecondActionType ==
  ASSUME TypeOK,
         \/ SecondActionStart \/ SecondBeforeSkillHit \/ SecondOnSkillHit
         \/ SecondSkillEffect \/ SecondAttackDamage \/ SecondAfterAction \/ SecondEnd
  PROVE  TypeOK'
<1>1. CASE SecondActionStart
  BY <1>1, ActionStartType, MoverType, BucketStateType DEF SecondActionStart
<1>2. CASE SecondBeforeSkillHit
  BY <1>2, BucketOnlyType, BucketStateType DEF SecondBeforeSkillHit
<1>3. CASE SecondOnSkillHit
  BY <1>3, OnSkillHitType, MoverType, BucketStateType DEF SecondOnSkillHit
<1>4. CASE SecondSkillEffect
  BY <1>4, SkillEffectType, MoverType, BucketStateType DEF SecondSkillEffect
<1>5. CASE SecondAttackDamage
  BY <1>5, AttackDamageType, MoverType, BucketStateType DEF SecondAttackDamage
<1>6. CASE SecondAfterAction
  BY <1>6, AfterActionType, MoverType, BucketStateType DEF SecondAfterAction
<1>7. CASE SecondEnd
  BY <1>7, BucketOnlyType, BucketStateType DEF SecondEnd
<1>. QED  BY <1>1, <1>2, <1>3, <1>4, <1>5, <1>6, <1>7

\* Every step of the machine and every input preserves the types.
LEMMA NextType ==
  ASSUME TypeOK, [Next]_vars
  PROVE  TypeOK'
<1>1. CASE Drain
  BY <1>1, DrainType
<1>2. CASE Spin \/ UNCHANGED vars
  BY <1>2
     DEF TypeOK, Spin, vars, stageVars, choiceVars, collectVars, inputVars,
         skillVars, noticeVars
<1>3. CASE Opening \/ EnterStage \/ RoundEnd \/ AfterDefeatingOpponent
  BY <1>3, BucketOnlyType, BucketStateType
     DEF Opening, EnterStage, RoundEnd, AfterDefeatingOpponent
<1>4. CASE \E s \in Side : ChooseAccepted(s) \/ ChooseRefused(s)
  BY <1>4, ChooseAcceptedType, ChooseRefusedType
<1>5. CASE ChooseUnknownPlayer
  BY <1>5, ChooseUnknownPlayerType
<1>6. CASE ProtectionMechanism1
  BY <1>6, ProtectionMechanism1Type
<1>7. CASE RoundStart
  BY <1>7, RoundStartType
<1>8. CASE FirstMoveRight
  BY <1>8, FirstMoveRightType
<1>9. CASE \/ FirstActionStart \/ FirstBeforeSkillHit \/ FirstOnSkillHit
           \/ FirstSkillEffect \/ FirstAttackDamage \/ FirstAfterAction \/ FirstEnd
  BY <1>9, FirstActionType
<1>10. CASE FirstMoverDeath
  BY <1>10, FirstMoverDeathType
<1>11. CASE \/ SecondActionStart \/ SecondBeforeSkillHit \/ SecondOnSkillHit
            \/ SecondSkillEffect \/ SecondAttackDamage \/ SecondAfterAction \/ SecondEnd
  BY <1>11, SecondActionType
<1>12. CASE AfterDefeated
  BY <1>12, AfterDefeatedType
<1>13. CASE \E s \in Side : ReplaceDefeated(s) \/ ReplaceRefused(s)
  BY <1>13, ReplaceDefeatedType, ReplaceRefusedType
<1>14. CASE RoundCompletion
  BY <1>14, RoundCompletionType
<1>15. CASE \E m \in Message : Submit(m)
  BY <1>15, SubmitType
<1>. QED
  BY <1>1, <1>2, <1>3, <1>4, <1>5, <1>6, <1>7, <1>8, <1>9, <1>10, <1>11, <1>12,
     <1>13, <1>14, <1>15
     DEF Next, FsmStep

\* Every state of the machine is well formed: hp stays between zero and its
\* maximum under damage, healing and effects, each state leads to a state,
\* and every stored operation is one the fight can read.
THEOREM TypeCorrect == Spec => []TypeOK
<1>1. Init => TypeOK
  BY InitType
<1>2. TypeOK /\ [Next]_vars => TypeOK'
  BY NextType
<1>. QED  BY <1>1, <1>2, PTL DEF Spec

-----------------------------------------------------------------------------
RoundStates == SelectionStates \cup FightStates

\* No state outside the selection leads into it except the completion of a
\* round, and only the selection leads into the fight.
LEMMA SuccessorFlow ==
  \A q \in DOMAIN Successor \ {"OPERATION_CHOOSE_SKILL_MEDICAMENT"} :
    /\ Successor[q] \in FightStates => q \in FightStates
    /\ Successor[q] \in SelectionStates => q \in SelectionStates
BY DEF Successor, FightStates, SelectionStates, ClosingStates, State

\* A step that touches no operation and no pet's place, enters neither the
\* selection nor the fight, and prompts no one during the selection.
Quiet ==
  /\ UNCHANGED <<choiceVars, operation_collected, onStage>>
  /\ currentState' \in FightStates => currentState \in FightStates
  /\ currentState' \in SelectionStates =>
       currentState \in SelectionStates /\ UNCHANGED current_player_id

LEMMA BucketOnlyQuiet ==
  ASSUME NEW q \in DOMAIN Successor \ {"OPERATION_CHOOSE_SKILL_MEDICAMENT"},
         BucketOnly(q)
  PROVE  Quiet
BY SuccessorFlow DEF BucketOnly, Running, Quiet, collectVars

LEMMA BucketStates ==
  /\ OpeningStates \cup FirstTail \cup SecondTail \cup RoundEndStates
       \subseteq DOMAIN Successor \ {"OPERATION_CHOOSE_SKILL_MEDICAMENT"}
  /\ {"OPERATION_ENTER_STAGE", "BATTLE_AFTER_DEFEATING_OPPONENT",
      "BATTLE_FIRST_BEFORE_SKILL_HIT", "BATTLE_SECOND_BEFORE_SKILL_HIT"}
       \subseteq DOMAIN Successor \ {"OPERATION_CHOOSE_SKILL_MEDICAMENT"}
BY DEF OpeningStates, FirstTail, SecondTail, RoundEndStates, Successor

ActionStates ==
  {"BATTLE_FIRST_ACTION_START", "BATTLE_FIRST_BEFORE_SKILL_HIT",
   "BATTLE_FIRST_ON_SKILL_HIT", "BATTLE_FIRST_SKILL_EFFECT",
   "BATTLE_FIRST_ATTACK_DAMAGE", "BATTLE_FIRST_AFTER_ACTION",
   "BATTLE_SECOND_ACTION_START", "BATTLE_SECOND_BEFORE_SKILL_HIT",
   "BATTLE_SECOND_ON_SKILL_HIT", "BATTLE_SECOND_SKILL_EFFECT",
   "BATTLE_SECOND_ATTACK_DAMAGE", "BATTLE_SECOND_AFTER_ACTION"}
ExtraStates == {"BATTLE_FIRST_EXTRA_ACTION", "BATTLE_SECOND_EXTRA_ACTION"}

LEMMA ActionFlow ==
  /\ ActionStates \subseteq FightStates
  /\ ExtraStates \subseteq FightStates
  /\ \A q \in ActionStates : Successor[q] \in FightStates
  /\ FightStates \cap SelectionStates = {}
BY DEF ActionStates, ExtraStates, Successor, FightStates, SelectionStates,
       ClosingStates, State

LEMMA ActionQuiet ==
  ASSUME NEW q \in ActionStates, NEW i, NEW extra \in ExtraStates,
         \/ ActionStart(q, i, extra) \/ OnSkillHit(q, i) \/ SkillEffect(q, i)
         \/ AttackDamage(q, i) \/ AfterAction(q, i)
  PROVE  Quiet
<1>1. currentState = q /\ (currentState' = Successor[q] \/ currentState' = extra)
  BY DEF ActionStart, OnSkillHit, SkillEffect, AttackDamage, AfterAction, Running
<1>2. UNCHANGED <<choiceVars, operation_collected, onStage>>
  BY DEF ActionStart, OnSkillHit, SkillEffect, AttackDamage, AfterAction, collectVars
<1>. QED  BY <1>1, <1>2, ActionFlow DEF Quiet

LEMMA FirstActionQuiet ==
  ASSUME \/ FirstActionStart \/ FirstBeforeSkillHit \/ FirstOnSkillHit
         \/ FirstSkillEffect \/ FirstAttackDamage \/ FirstAfterAction \/ FirstEnd
  PROVE  Quiet
<1>1. CASE FirstBeforeSkillHit \/ FirstEnd
  BY <1>1, BucketOnlyQuiet, BucketStates DEF FirstBeforeSkillHit, FirstEnd
<1>2. CASE \/ FirstActionStart \/ FirstOnSkillHit \/ FirstSkillEffect
           \/ FirstAttackDamage \/ FirstAfterAction
  BY <1>2, ActionQuiet
     DEF ActionStates, ExtraStates, FirstActionStart, FirstOnSkillHit,
         FirstSkillEffect, FirstAttackDamage, FirstAfterAction
<1>. QED  BY <1>1, <1>2

LEMMA SecondActionQuiet ==
  ASSUME \/ SecondActionStart \/ SecondBeforeSkillHit \/ SecondOnSkillHit
         \/ SecondSkillEffect \/ SecondAttackDamage \/ SecondAfterAction \/ SecondEnd
  PROVE  Quiet
<1>1. CASE SecondBeforeSkillHit \/ SecondEnd
  BY <1>1, BucketOnlyQuiet, BucketStates DEF SecondBeforeSkillHit, SecondEnd
<1>2. CASE \/ SecondActionStart \/ SecondOnSkillHit \/ SecondSkillEffect
           \/ SecondAttackDamage \/ SecondAfterAction
  BY <1>2, ActionQuiet
     DEF ActionStates, ExtraStates, SecondActionStart, SecondOnSkillHit,
         SecondSkillEffect, SecondAttackDamage, SecondAfterAction
<1>. QED  BY <1>1, <1>2

\* Every step is quiet but those of the selection, the start and the
\* completion of a round, and a replacement.
LEMMA QuietSteps ==
  ASSUME [Next]_vars
  PROVE  \/ Quiet
         \/ \E s \in Side : ChooseAccepted(s) \/ ChooseRefused(s)
         \/ RoundStart
         \/ \E s \in Side : ReplaceDefeated(s)
         \/ RoundCompletion
<1>1. CASE Drain \/ Spin \/ UNCHANGED vars \/ \E m \in Message : Submit(m)
  BY <1>1 DEF Drain, Spin, Submit, Quiet, vars, stageVars, choiceVars, collectVars
<1>2. CASE Opening \/ EnterStage \/ RoundEnd \/ AfterDefeatingOpponent
  BY <1>2, BucketOnlyQuiet, BucketStates
     DEF Opening, EnterStage, RoundEnd, AfterDefeatingOpponent
<1>3. CASE ChooseUnknownPlayer \/ \E s \in Side : ReplaceRefused(s)
  BY <1>3 DEF ChooseUnknownPlayer, ReplaceRefused, Quiet, stageVars, choiceVars, collectVars
<1>4. CASE ProtectionMechanism1
  BY <1>4, SuccessorFlow
     DEF ProtectionMechanism1, Running, Quiet, choiceVars, collectVars, Successor
<1>5. CASE FirstMoveRight
  BY <1>5, SuccessorFlow
     DEF FirstMoveRight, Running, Quiet, choiceVars, collectVars, Successor
<1>6. CASE \/ FirstActionStart \/ FirstBeforeSkillHit \/ FirstOnSkillHit
           \/ FirstSkillEffect \/ FirstAttackDamage \/ FirstAfterAction \/ FirstEnd
  BY <1>6, FirstActionQuiet
<1>7. CASE FirstMoverDeath
  BY <1>7 DEF FirstMoverDeath, Running, Quiet, choiceVars, collectVars,
              FightStates, SelectionStates, ClosingStates, State, Successor
<1>8. CASE \/ SecondActionStart \/ SecondBeforeSkillHit \/ SecondOnSkillHit
           \/ SecondSkillEffect \/ SecondAttackDamage \/ SecondAfterAction \/ SecondEnd
  BY <1>8, SecondActionQuiet
<1>9. CASE AfterDefeated
  <2>1. currentState' \in {"BATTLE_AFTER_DEFEATING_OPPONENT", "CHOOSE_AFTER_DEATH"}
    BY <1>9 DEF AfterDefeated, AfterDeaths, Successor
  <2>2. currentState' \notin FightStates \cup SelectionStates
    BY <2>1 DEF FightStates, SelectionStates, ClosingStates
  <2>. QED  BY <1>9, <2>2 DEF AfterDefeated, Quiet
<1>. QED
  BY <1>1, <1>2, <1>3, <1>4, <1>5, <1>6, <1>7, <1>8, <1>9 DEF Next, FsmStep

-----------------------------------------------------------------------------
(***************************************************************************)
(* The inductive invariant of the selection: a side without a choice had   *)
(* none accepted, a fight has two collected operations, the prompted side  *)
(* of a selection has none, and from the selection to the end of the fight *)
(* a choice belongs to the pet on stage.                                   *)
(***************************************************************************)
Matches(s) ==
  /\ roundChoice[s].kind = "SELECT_SKILL" => chosenBy[s] = onStage[s]
  /\ roundChoice[s].kind = "CHOOSE_PET" => roundChoice[s].idx = onStage[s]

SelectionInv ==
  /\ \A s \in Side : roundChoice[s] = NoChoice => agreed[s] = NoChoice
  /\ currentState \in FightStates => \A s \in Side : operation_collected[s]
  /\ currentState \in SelectionStates => ~operation_collected[current_player_id]
  /\ currentState \in RoundStates => \A s \in Side : Matches(s)

LEMMA SelectionInvInit == Init => SelectionInv
BY DEF Init, SelectionInv, Matches, NoChoice, FightStates, SelectionStates, Side

LEMMA SelectionInvQuiet ==
  ASSUME SelectionInv, Quiet
  PROVE  SelectionInv'
BY DEF SelectionInv, Matches, Quiet, choiceVars, RoundStates

\* What operation() leaves in roundChoice: the request, of a kind a round
\* can be fought with, or the choice there was.
LEMMA OperationStores ==
  ASSUME TypeOK, NEW s \in Side, NEW usable \in BOOLEAN, Operation(s, usable)
  PROVE  /\ \A p \in Side \ {s} : /\ roundChoice'[p] = roundChoice[p]
                                  /\ chosenBy'[p] = chosenBy[p]
         /\ \/ /\ Stores(s, usable)
               /\ roundChoice'[s] = Wanted
               /\ chosenBy'[s] = onStage[s]
            \/ ~Stores(s, usable) /\ UNCHANGED <<roundChoice, chosenBy>>
BY DEF Operation, TypeOK

LEMMA WantedKind == Wanted.kind = m_buffer.kind /\ Wanted.idx = m_buffer.idx
BY DEF Wanted

\* What operation() stores is a choice.
LEMMA StoredIsChoice ==
  ASSUME NEW s \in Side, NEW usable \in BOOLEAN, Stores(s, usable)
  PROVE  Wanted # NoChoice
BY DEF Stores, Wanted, NoChoice

LEMMA SelectionInvAccepted ==
  ASSUME TypeOK, SelectionInv, NEW s \in Side, ChooseAccepted(s)
  PROVE  SelectionInv'
<1>1. PICK usable \in BOOLEAN : Operation(s, usable)
  BY DEF ChooseAccepted
<1>2. currentState = "OPERATION_CHOOSE_SKILL_MEDICAMENT" /\ currentState \in SelectionStates
  BY DEF ChooseAccepted, Decoding, Running, SelectionStates
<1>3. roundChoice'[s] = Wanted
  BY DEF ChooseAccepted, Accepted
<1>4. \A p \in Side \ {s} : /\ roundChoice'[p] = roundChoice[p]
                            /\ chosenBy'[p] = chosenBy[p]
  BY <1>1, OperationStores
<1>5. operation_collected' = [operation_collected EXCEPT ![s] = TRUE]
  BY DEF ChooseAccepted, Collect
<1>6. operation_collected \in [Side -> BOOLEAN]
  BY DEF TypeOK
<1>7. \A p \in Side : roundChoice'[p] = NoChoice => agreed'[p] = NoChoice
  <2>1. agreed' = [agreed EXCEPT ![s] = Wanted] /\ agreed \in [Side -> Choice]
    BY DEF ChooseAccepted, Collect, TypeOK
  <2>2. agreed'[s] = Wanted /\ \A p \in Side \ {s} : agreed'[p] = agreed[p]
    BY <2>1
  <2>. QED  BY <1>3, <1>4, <2>2 DEF SelectionInv
<1>8. /\ currentState' \in FightStates => \A p \in Side : operation_collected'[p]
      /\ currentState' \in SelectionStates => ~operation_collected'[current_player_id']
  <2>1. CASE \A p \in Side : operation_collected'[p]
    <3>1. currentState' = "OPERATION_PROTECTION_MECHANISM_1"
      BY <1>2, <2>1 DEF ChooseAccepted, Collect, Successor
    <3>. QED  BY <2>1, <3>1 DEF SelectionStates
  <2>2. CASE ~\A p \in Side : operation_collected'[p]
    <3>1. PromptOther /\ currentState' = currentState
      BY <2>2 DEF ChooseAccepted, Collect
    <3>2. operation_collected' \in [Side -> BOOLEAN] /\ operation_collected'[s]
      BY <1>5, <1>6
    <3>3. ~operation_collected'[current_player_id']
      BY <2>2, <3>1, <3>2 DEF PromptOther, Side
    <3>. QED  BY <1>2, <3>1, <3>3 DEF FightStates
  <2>. QED  BY <2>1, <2>2
<1>9. \A p \in Side : Matches(p)'
  <2>1. \A p \in Side : Matches(p)
    BY <1>2 DEF SelectionInv, RoundStates
  <2>2. CASE m_buffer.kind = "CHOOSE_PET" /\ Switches(s, m_buffer.idx)
    <3>1. onStage' = [onStage EXCEPT ![s] = m_buffer.idx]
      BY <2>2 DEF ChooseAccepted, Switch
    <3>2. onStage'[s] = m_buffer.idx /\ \A p \in Side \ {s} : onStage'[p] = onStage[p]
      BY <3>1 DEF TypeOK
    <3>. QED  BY <1>3, <1>4, <2>1, <2>2, <3>2, WantedKind DEF Matches
  <2>3. CASE ~(m_buffer.kind = "CHOOSE_PET" /\ Switches(s, m_buffer.idx))
    <3>1. onStage' = onStage
      BY <2>3 DEF ChooseAccepted
    <3>2. CASE Stores(s, usable)
      <4>1. chosenBy'[s] = onStage[s]
        BY <1>1, <3>2, OperationStores
      <4>2. m_buffer.kind = "CHOOSE_PET" => m_buffer.idx = onStage[s]
        BY <2>3, <3>2 DEF Stores, Switches
      <4>. QED  BY <1>3, <1>4, <2>1, <3>1, <4>1, <4>2, WantedKind DEF Matches
    <3>3. CASE ~Stores(s, usable)
      BY <1>1, <2>1, <3>1, <3>3, OperationStores DEF Matches
    <3>. QED  BY <3>2, <3>3
  <2>. QED  BY <2>2, <2>3
<1>. QED  BY <1>7, <1>8, <1>9 DEF SelectionInv

LEMMA SelectionInvRefused ==
  ASSUME TypeOK, SelectionInv, NEW s \in Side, ChooseRefused(s)
  PROVE  SelectionInv'
<1>1. PICK usable \in BOOLEAN :
        /\ Operation(s, usable)
        /\ ~Accepted(s) \/ m_buffer.kind = "SELECT_SKILL"
  BY DEF ChooseRefused
<1>2. /\ currentState' = currentState
      /\ currentState = "OPERATION_CHOOSE_SKILL_MEDICAMENT"
      /\ UNCHANGED <<onStage, operation_collected, current_player_id>>
  BY DEF ChooseRefused, Decoding, Running, stageVars, collectVars
<1>3. CASE UNCHANGED <<roundChoice, chosenBy>>
  BY <1>2, <1>3 DEF SelectionInv, Matches, ChooseRefused
<1>4. CASE Stores(s, usable) /\ roundChoice'[s] = Wanted /\ chosenBy'[s] = onStage[s]
  <2>1. \A p \in Side \ {s} : /\ roundChoice'[p] = roundChoice[p]
                              /\ chosenBy'[p] = chosenBy[p]
    BY <1>1, OperationStores
  <2>2. roundChoice'[s].kind = "SELECT_SKILL"
    BY <1>1, <1>4, WantedKind DEF Accepted
  <2>3. \A p \in Side : Matches(p)
    BY <1>2 DEF SelectionInv, RoundStates, SelectionStates
  <2>4. \A p \in Side : Matches(p)'
    BY <1>2, <1>4, <2>1, <2>2, <2>3 DEF Matches
  <2>5. agreed' = agreed /\ roundChoice'[s] # NoChoice
    BY <1>4, StoredIsChoice DEF ChooseRefused
  <2>. QED  BY <1>2, <2>1, <2>4, <2>5 DEF SelectionInv, RoundStates
<1>. QED  BY <1>1, <1>3, <1>4, OperationStores

LEMMA SelectionInvRoundStart ==
  ASSUME TypeOK, SelectionInv, RoundStart
  PROVE  SelectionInv'
<1>1. currentState = "BATTLE_ROUND_START" /\ currentState' = "BATTLE_FIRST_MOVE_RIGHT"
  BY DEF RoundStart, Running, Successor
<1>2. currentState \in FightStates /\ currentState' \notin SelectionStates
  BY <1>1 DEF FightStates, SelectionStates, ClosingStates, State, Successor
<1>3. roundChoice' = roundChoice
  BY <1>2 DEF RoundStart, SelectionInv, TypeOK
<1>. QED
  BY <1>2, <1>3 DEF SelectionInv, Matches, RoundStart, RoundStates, collectVars

LEMMA SelectionInvReplace ==
  ASSUME TypeOK, SelectionInv, NEW s \in Side, ReplaceDefeated(s)
  PROVE  SelectionInv'
<1>1. currentState' = "BATTLE_AFTER_DEFEATING_OPPONENT"
  BY DEF ReplaceDefeated, Decoding, Running, Successor
<1>2. currentState' \notin RoundStates
  BY <1>1 DEF RoundStates, FightStates, SelectionStates, ClosingStates
<1>3. Operation(s, FALSE) /\ UNCHANGED collectVars
  BY DEF ReplaceDefeated
<1>4. \A p \in Side : roundChoice'[p] = NoChoice => agreed'[p] = NoChoice
  BY <1>3, OperationStores, StoredIsChoice DEF SelectionInv, ReplaceDefeated
<1>. QED  BY <1>2, <1>4 DEF SelectionInv, RoundStates

LEMMA SelectionInvCompletion ==
  ASSUME TypeOK, SelectionInv, RoundCompletion
  PROVE  SelectionInv'
<1>1. /\ currentState' \notin FightStates
      /\ \A s \in Side : /\ ~operation_collected'[s] /\ roundChoice'[s] = NoChoice
                         /\ agreed'[s] = NoChoice
      /\ current_player_id' \in Side
  BY DEF RoundCompletion, NextRound, FightStates, SelectionStates, ResetCollection, Side
<1>. QED  BY <1>1 DEF SelectionInv, Matches, NoChoice

LEMMA SelectionInvNext ==
  ASSUME TypeOK, SelectionInv, [Next]_vars
  PROVE  SelectionInv'
BY QuietSteps, SelectionInvQuiet, SelectionInvAccepted, SelectionInvRefused,
   SelectionInvRoundStart, SelectionInvReplace, SelectionInvCompletion

\* A round is fought with one collected operation of each side, whatever
\* was resubmitted, refused or left over from a replacement before, and only
\* a side that sent the empty operation fights without a choice.
THEOREM BothSidesAnsweredCorrect == Spec => []BothSidesAnswered
<1>1. Init => SelectionInv
  BY SelectionInvInit
<1>2. TypeOK /\ SelectionInv /\ [Next]_vars => SelectionInv'
  BY SelectionInvNext
<1>3. SelectionInv => BothSidesAnswered
  BY DEF SelectionInv, BothSidesAnswered
<1>. QED  BY <1>1, <1>2, <1>3, TypeCorrect, PTL DEF Spec

\* No pet ever fights with a skill chosen for another pet, and a side that
\* chose a pet fights with that pet.
THEOREM ChoiceMatchesStageCorrect == Spec => []ChoiceMatchesStage
<1>1. Init => SelectionInv
  BY SelectionInvInit
<1>2. TypeOK /\ SelectionInv /\ [Next]_vars => SelectionInv'
  BY SelectionInvNext
<1>3. SelectionInv => ChoiceMatchesStage
  BY DEF SelectionInv, ChoiceMatchesStage, Matches, RoundStates, SelectionStates
<1>. QED  BY <1>1, <1>2, <1>3, TypeCorrect, PTL DEF Spec

\* The battle never waits for a side that has already chosen.
THEOREM PromptsAPendingSideCorrect == Spec => []PromptsAPendingSide
<1>1. Init => SelectionInv
  BY SelectionInvInit
<1>2. TypeOK /\ SelectionInv /\ [Next]_vars => SelectionInv'
  BY SelectionInvNext
<1>3. SelectionInv => PromptsAPendingSide
  BY DEF SelectionInv, PromptsAPendingSide, SelectionStates
<1>. QED  BY <1>1, <1>2, <1>3, TypeCorrect, PTL DEF Spec

-----------------------------------------------------------------------------
(***************************************************************************)
(* Without skills of unlimited power points query_selectable agrees with   *)
(* skill_usable, and what the battle refuses it has not stored.            *)
(***************************************************************************)
AgreedInv == currentState \in RoundStates => roundChoice = agreed

LEMMA AgreedInvRefused ==
  ASSUME UnlimitedPP = {}, TypeOK, AgreedInv, NEW s \in Side, ChooseRefused(s)
  PROVE  AgreedInv'
<1>1. PICK usable \in BOOLEAN :
        /\ Operation(s, usable)
        /\ \/ ~Accepted(s)
           \/ m_buffer.kind = "SELECT_SKILL" /\ FALSE \in Selectable(s, usable)
  BY Zenon DEF ChooseRefused
<1>2. ~Stores(s, usable)
  <2>1. CASE ~Accepted(s)
    BY <1>1, <2>1, OperationStores DEF Accepted
  <2>2. CASE m_buffer.kind = "SELECT_SKILL" /\ FALSE \in Selectable(s, usable)
    <3>1. usable = FALSE
      BY <2>2 DEF Selectable
    <3>. QED  BY <2>2, <3>1 DEF Stores
  <2>. QED  BY <1>1, <2>1, <2>2
<1>3. roundChoice' = roundChoice
  BY <1>1, <1>2 DEF Operation
<1>. QED  BY <1>3 DEF AgreedInv, ChooseRefused

LEMMA AgreedInvAccepted ==
  ASSUME TypeOK, AgreedInv, NEW s \in Side, ChooseAccepted(s)
  PROVE  AgreedInv'
<1>1. PICK usable \in BOOLEAN : Operation(s, usable)
  BY DEF ChooseAccepted
<1>2. roundChoice = agreed
  BY DEF AgreedInv, ChooseAccepted, Decoding, Running, RoundStates, SelectionStates
<1>3. roundChoice'[s] = Wanted /\ agreed' = [agreed EXCEPT ![s] = Wanted]
  BY DEF ChooseAccepted, Accepted, Collect
<1>4. roundChoice' \in [Side -> Choice] /\ roundChoice \in [Side -> Choice]
  BY <1>1, OperationType DEF TypeOK
<1>5. roundChoice' = [roundChoice EXCEPT ![s] = Wanted]
  <2>1. \A p \in Side \ {s} : roundChoice'[p] = roundChoice[p]
    BY <1>1, OperationStores
  <2>. QED  BY <1>3, <1>4, <2>1
<1>6. roundChoice' = agreed'
  BY <1>2, <1>3, <1>5
<1>. QED  BY <1>6 DEF AgreedInv

LEMMA AgreedInvNext ==
  ASSUME UnlimitedPP = {}, TypeOK, SelectionInv, AgreedInv, [Next]_vars
  PROVE  AgreedInv'
<1>1. CASE Quiet
  BY <1>1 DEF AgreedInv, Quiet, RoundStates, choiceVars
<1>2. CASE \E s \in Side : ChooseAccepted(s) \/ ChooseRefused(s)
  BY <1>2, AgreedInvAccepted, AgreedInvRefused
<1>3. CASE RoundStart
  <2>1. currentState \in FightStates
    BY <1>3 DEF RoundStart, Running, FightStates, SelectionStates, ClosingStates,
                State, Successor
  <2>2. roundChoice' = roundChoice /\ agreed' = agreed
    BY <1>3, <2>1 DEF RoundStart, SelectionInv, TypeOK
  <2>. QED  BY <2>1, <2>2 DEF AgreedInv, RoundStates
<1>4. CASE \E s \in Side : ReplaceDefeated(s)
  <2>1. currentState' = "BATTLE_AFTER_DEFEATING_OPPONENT"
    BY <1>4 DEF ReplaceDefeated, Decoding, Running, Successor
  <2>. QED
    BY <2>1 DEF AgreedInv, RoundStates, FightStates, SelectionStates, ClosingStates
<1>5. CASE RoundCompletion
  BY <1>5 DEF RoundCompletion, AgreedInv
<1>. QED  BY <1>1, <1>2, <1>3, <1>4, <1>5, QuietSteps

\* As long as no skill has unlimited power points, the battle fights with
\* the operations it accepted.
THEOREM FightsAsAgreedCorrect ==
  ASSUME UnlimitedPP = {}
  PROVE  Spec => []FightsAsAgreed
<1>1. Init => SelectionInv /\ AgreedInv
  BY SelectionInvInit DEF Init, AgreedInv
<1>2. TypeOK /\ SelectionInv /\ AgreedInv /\ [Next]_vars => SelectionInv' /\ AgreedInv'
  BY SelectionInvNext, AgreedInvNext
<1>3. AgreedInv => FightsAsAgreed
  BY DEF AgreedInv, FightsAsAgreed, RoundStates
<1>. QED  BY <1>1, <1>2, <1>3, TypeCorrect, PTL DEF Spec

-----------------------------------------------------------------------------
(***************************************************************************)
(* A pet on stage has been announced dead exactly if it carries the mark.  *)
(***************************************************************************)
NoticeInv == \A s \in Side : notices[s] = IF death_notified[s] THEN 1 ELSE 0

LEMMA NoticeInvSwitch ==
  ASSUME TypeOK, NoticeInv, NEW s \in Side, NEW k, Switch(s, k)
  PROVE  NoticeInv'
<1>1. CASE Switches(s, k)
  <2>1. /\ death_notified' = [death_notified EXCEPT ![s] = FALSE]
        /\ notices' = [notices EXCEPT ![s] = 0]
    BY <1>1 DEF Switch
  <2>2. /\ death_notified'[s] = FALSE /\ notices'[s] = 0
        /\ \A p \in Side \ {s} : /\ death_notified'[p] = death_notified[p]
                                 /\ notices'[p] = notices[p]
    BY <2>1 DEF TypeOK
  <2>. QED  BY <2>2 DEF NoticeInv
<1>2. CASE ~Switches(s, k)
  BY <1>2 DEF Switch, NoticeInv, noticeVars
<1>. QED  BY <1>1, <1>2

LEMMA NoticeInvDefeated ==
  ASSUME TypeOK, NoticeInv, AfterDefeated
  PROVE  NoticeInv'
<1>1. PICK f \in Reactions(currentState \in EffectStates) :
        LET dead == {s \in Side : f[s] = 0}
            fresh == Announces(dead)
        IN /\ death_notified' = [s \in Side |-> death_notified[s] \/ s \in dead]
           /\ notices' = [s \in Side |-> IF s \in fresh THEN notices[s] + 1
                                         ELSE notices[s]]
  BY DEF AfterDefeated
<1>2. ASSUME NEW s \in Side
      PROVE  notices'[s] = IF death_notified'[s] THEN 1 ELSE 0
  <2>1. death_notified'[s] = (death_notified[s] \/ f[s] = 0)
    <3>. DEFINE dead == {t \in Side : f[t] = 0}
    <3>1. death_notified' = [t \in Side |-> death_notified[t] \/ t \in dead]
      BY <1>1
    <3>2. death_notified'[s] = (death_notified[s] \/ s \in dead)
      BY <3>1, Zenon
    <3>3. s \in dead <=> f[s] = 0
      OBVIOUS
    <3>. QED  BY <3>2, <3>3, Zenon
  <2>2. notices'[s] = IF f[s] = 0 /\ ~death_notified[s] THEN notices[s] + 1 ELSE notices[s]
    BY <1>1 DEF Announces
  <2>3. notices[s] = IF death_notified[s] THEN 1 ELSE 0
    BY DEF NoticeInv
  <2>4. CASE f[s] = 0 /\ ~death_notified[s]
    <3>1. death_notified'[s]
      BY <2>1, <2>4, Zenon
    <3>2. notices'[s] = 1
      BY <2>2, <2>3, <2>4
    <3>. QED  BY <3>1, <3>2, Zenon
  <2>5. CASE death_notified[s]
    <3>1. death_notified'[s]
      BY <2>1, <2>5, Zenon
    <3>. QED  BY <2>2, <2>3, <2>5, <3>1
  <2>6. CASE f[s] # 0 /\ ~death_notified[s]
    <3>1. ~death_notified'[s]
      BY <2>1, <2>6, Zenon
    <3>. QED  BY <2>2, <2>3, <2>6, <3>1
  <2>. QED  BY <2>4, <2>5, <2>6
<1>. QED  BY <1>2 DEF NoticeInv

\* The steps that touch no mark.
Unmarked == UNCHANGED noticeVars

LEMMA ActionUnmarked ==
  ASSUME NEW q, NEW i, NEW extra,
         \/ BucketOnly(q) \/ ActionStart(q, i, extra) \/ OnSkillHit(q, i)
         \/ SkillEffect(q, i) \/ AttackDamage(q, i) \/ AfterAction(q, i)
  PROVE  Unmarked
BY DEF Unmarked, BucketOnly, ActionStart, OnSkillHit, SkillEffect, AttackDamage,
       AfterAction

LEMMA UnmarkedSteps ==
  ASSUME [Next]_vars
  PROVE  \/ Unmarked
         \/ \E s \in Side : ChooseAccepted(s) \/ ReplaceDefeated(s)
         \/ AfterDefeated
<1>1. CASE \/ Drain \/ Spin \/ UNCHANGED vars \/ ChooseUnknownPlayer
           \/ \E m \in Message : Submit(m)
           \/ \E s \in Side : ChooseRefused(s) \/ ReplaceRefused(s)
  BY <1>1 DEF Drain, Spin, Submit, ChooseUnknownPlayer, ChooseRefused,
              ReplaceRefused, vars, Unmarked
<1>2. CASE Opening \/ EnterStage \/ RoundEnd \/ AfterDefeatingOpponent
  BY <1>2, ActionUnmarked DEF Opening, EnterStage, RoundEnd, AfterDefeatingOpponent
<1>3. CASE ProtectionMechanism1 \/ RoundStart \/ FirstMoveRight \/ FirstMoverDeath
           \/ RoundCompletion
  BY <1>3 DEF ProtectionMechanism1, RoundStart, FirstMoveRight, FirstMoverDeath,
              RoundCompletion, Unmarked
<1>4. CASE \/ FirstActionStart \/ FirstBeforeSkillHit \/ FirstOnSkillHit
           \/ FirstSkillEffect \/ FirstAttackDamage \/ FirstAfterAction \/ FirstEnd
  BY <1>4, ActionUnmarked
     DEF FirstActionStart, FirstBeforeSkillHit, FirstOnSkillHit, FirstSkillEffect,
         FirstAttackDamage, FirstAfterAction, FirstEnd
<1>5. CASE \/ SecondActionStart \/ SecondBeforeSkillHit \/ SecondOnSkillHit
           \/ SecondSkillEffect \/ SecondAttackDamage \/ SecondAfterAction \/ SecondEnd
  BY <1>5, ActionUnmarked
     DEF SecondActionStart, SecondBeforeSkillHit, SecondOnSkillHit, SecondSkillEffect,
         SecondAttackDamage, SecondAfterAction, SecondEnd
<1>. QED  BY <1>1, <1>2, <1>3, <1>4, <1>5 DEF Next, FsmStep

LEMMA NoticeInvNext ==
  ASSUME TypeOK, NoticeInv, [Next]_vars
  PROVE  NoticeInv'
<1>1. CASE Unmarked
  BY <1>1 DEF Unmarked, NoticeInv, noticeVars
<1>2. ASSUME NEW s \in Side, ChooseAccepted(s)
      PROVE  NoticeInv'
  <2>1. CASE m_buffer.kind = "CHOOSE_PET" /\ Switches(s, m_buffer.idx)
    BY <1>2, <2>1, NoticeInvSwitch DEF ChooseAccepted
  <2>2. CASE ~(m_buffer.kind = "CHOOSE_PET" /\ Switches(s, m_buffer.idx))
    BY <1>2, <2>2 DEF ChooseAccepted, NoticeInv, noticeVars
  <2>. QED  BY <2>1, <2>2
<1>3. ASSUME NEW s \in Side, ReplaceDefeated(s)
      PROVE  NoticeInv'
  BY <1>3, NoticeInvSwitch DEF ReplaceDefeated
<1>4. CASE AfterDefeated
  BY <1>4, NoticeInvDefeated
<1>. QED  BY <1>1, <1>2, <1>3, <1>4, UnmarkedSteps

\* However often a battle passes BATTLE_AFTER_DEFEATED with the same dead
\* pet on stage, its death is announced once.
THEOREM DeathNoticeOnceCorrect == Spec => []DeathNoticeOnce
<1>1. Init => NoticeInv
  BY DEF Init, NoticeInv
<1>2. TypeOK /\ NoticeInv /\ [Next]_vars => NoticeInv'
  BY NoticeInvNext
<1>3. NoticeInv => DeathNoticeOnce
  BY DEF NoticeInv, DeathNoticeOnce
<1>. QED  BY <1>1, <1>2, <1>3, TypeCorrect, PTL DEF Spec

-----------------------------------------------------------------------------
(***************************************************************************)
(* A mover is paying from the resolution of its skill to the end of its    *)
(* action, and it got there with a skill.  Nobody else owes anything.      *)
(***************************************************************************)
FirstPaying == {"BATTLE_FIRST_SKILL_EFFECT", "BATTLE_FIRST_ATTACK_DAMAGE",
                "BATTLE_FIRST_AFTER_ACTION"}
SecondPaying == {"BATTLE_SECOND_SKILL_EFFECT", "BATTLE_SECOND_ATTACK_DAMAGE",
                 "BATTLE_SECOND_AFTER_ACTION"}
FirstActing == {"BATTLE_FIRST_BEFORE_SKILL_HIT", "BATTLE_FIRST_ON_SKILL_HIT"}
               \cup FirstPaying
SecondActing == {"BATTLE_SECOND_BEFORE_SKILL_HIT", "BATTLE_SECOND_ON_SKILL_HIT"}
                \cup SecondPaying
Acting == FirstActing \cup SecondActing

Paying(s) == \/ currentState \in FirstPaying /\ s = FirstMover
             \/ currentState \in SecondPaying /\ s = SecondMover

Settled(s) == pp_consumed[s] = (resolution[s] # "NOT_READY")

PayInv ==
  /\ currentState \in FirstActing => roundChoice[FirstMover].kind = "SELECT_SKILL"
  /\ currentState \in SecondActing => roundChoice[SecondMover].kind = "SELECT_SKILL"
  /\ \A s \in Side : IF Paying(s) THEN resolution[s] # "NOT_READY" ELSE Settled(s)

LEMMA PayInvInit == Init => PayInv
<1>. SUFFICES ASSUME Init PROVE PayInv
  OBVIOUS
<1>1. currentState \notin Acting /\ \A s \in Side : ~Paying(s)
  BY DEF Init, Acting, FirstActing, SecondActing, FirstPaying, SecondPaying, Paying
<1>2. \A s \in Side : pp_consumed[s] = FALSE /\ resolution[s] = "NOT_READY"
  BY DEF Init
<1>3. \A s \in Side : Settled(s)
  BY <1>2, Zenon DEF Settled
<1>. QED  BY <1>1, <1>3 DEF PayInv, Acting

\* A step away from the actions that neither resolves nor pays.
Aside ==
  /\ currentState \notin Acting /\ currentState' \notin Acting
  /\ UNCHANGED <<resolution, pp_consumed>>

\* A step within an action, or outside of all, that changes nothing of it.
Calm ==
  /\ UNCHANGED <<roundChoice, skillVars>>
  /\ currentState' \in FirstActing => currentState \in FirstActing
  /\ currentState' \in SecondActing => currentState \in SecondActing
  /\ currentState' \in FirstPaying <=> currentState \in FirstPaying
  /\ currentState' \in SecondPaying <=> currentState \in SecondPaying

LEMMA MoversKept ==
  ASSUME UNCHANGED preemptive_right
  PROVE  FirstMover' = FirstMover /\ SecondMover' = SecondMover
BY DEF FirstMover, SecondMover, Other

LEMMA PayInvAside ==
  ASSUME PayInv, Aside
  PROVE  PayInv'
<1>1. \A s \in Side : ~Paying(s) /\ ~Paying(s)'
  BY DEF Aside, Acting, FirstActing, SecondActing, Paying
<1>2. \A s \in Side : Settled(s)'
  BY <1>1, Zenon DEF PayInv, Aside, Settled
<1>. QED  BY <1>1, <1>2 DEF PayInv, Aside, Acting

LEMMA PayInvCalm ==
  ASSUME PayInv, Calm
  PROVE  PayInv'
<1>1. FirstMover' = FirstMover /\ SecondMover' = SecondMover
  BY MoversKept DEF Calm, skillVars
<1>2. \A s \in Side : Paying(s)' <=> Paying(s)
  BY <1>1 DEF Calm, Paying
<1>3. \A s \in Side : Settled(s)' <=> Settled(s)
  BY Zenon DEF Calm, skillVars, Settled
<1>4. resolution' = resolution /\ roundChoice' = roundChoice
  BY DEF Calm, skillVars
<1>. QED  BY <1>1, <1>2, <1>3, <1>4 DEF PayInv, Calm

LEMMA BucketOnlyCalm ==
  ASSUME NEW q \in DOMAIN Successor \ {"BATTLE_FIRST_ACTION_START",
           "BATTLE_SECOND_ACTION_START", "BATTLE_FIRST_ON_SKILL_HIT",
           "BATTLE_SECOND_ON_SKILL_HIT", "BATTLE_FIRST_AFTER_ACTION",
           "BATTLE_SECOND_AFTER_ACTION"},
         BucketOnly(q) \/ (\E i : SkillEffect(q, i) \/ AttackDamage(q, i))
  PROVE  Calm
<1>1. currentState = q /\ currentState' = Successor[q] /\ UNCHANGED <<roundChoice, skillVars>>
  BY DEF BucketOnly, SkillEffect, AttackDamage, Running, choiceVars
<1>2. /\ Successor[q] \in FirstActing => q \in FirstActing
      /\ Successor[q] \in SecondActing => q \in SecondActing
      /\ Successor[q] \in FirstPaying <=> q \in FirstPaying
      /\ Successor[q] \in SecondPaying <=> q \in SecondPaying
  BY DEF Successor, FirstActing, SecondActing, FirstPaying, SecondPaying
<1>. QED  BY <1>1, <1>2 DEF Calm

\* Only a side whose choice is a skill enters the action.
LEMMA PayInvActionStart ==
  ASSUME TypeOK, PayInv, FirstActionStart \/ SecondActionStart
  PROVE  PayInv'
<1>1. UNCHANGED <<roundChoice, skillVars>>
  BY DEF FirstActionStart, SecondActionStart, ActionStart, choiceVars
<1>2. FirstMover' = FirstMover /\ SecondMover' = SecondMover
  BY <1>1, MoversKept DEF skillVars
<1>3. \/ /\ currentState' = "BATTLE_FIRST_BEFORE_SKILL_HIT"
         /\ roundChoice[FirstMover].kind = "SELECT_SKILL"
      \/ /\ currentState' = "BATTLE_SECOND_BEFORE_SKILL_HIT"
         /\ roundChoice[SecondMover].kind = "SELECT_SKILL"
      \/ currentState' \in ExtraStates
  BY DEF FirstActionStart, SecondActionStart, ActionStart, Acts, ExtraStates, Successor
<1>4. currentState \in {"BATTLE_FIRST_ACTION_START", "BATTLE_SECOND_ACTION_START"}
  BY DEF FirstActionStart, SecondActionStart, ActionStart, Running
<1>5. \A s \in Side : ~Paying(s) /\ ~Paying(s)'
  BY <1>3, <1>4 DEF Paying, FirstPaying, SecondPaying, ExtraStates
<1>6. \A s \in Side : Settled(s)' <=> Settled(s)
  BY <1>1, Zenon DEF skillVars, Settled
<1>7. /\ currentState' \in FirstActing => roundChoice'[FirstMover'].kind = "SELECT_SKILL"
      /\ currentState' \in SecondActing => roundChoice'[SecondMover'].kind = "SELECT_SKILL"
  BY <1>1, <1>2, <1>3 DEF FirstActing, SecondActing, FirstPaying, SecondPaying, ExtraStates
<1>. QED  BY <1>5, <1>6, <1>7 DEF PayInv

LEMMA MoversApart == FirstMover # SecondMover
BY DEF FirstMover, SecondMover, Other

LEMMA PayInvOnSkillHit ==
  ASSUME TypeOK, PayInv, FirstOnSkillHit \/ SecondOnSkillHit
  PROVE  PayInv'
<1>1. PICK i \in Side, r \in {"HIT", "SKILL_INVALID"} :
        /\ resolution' = [resolution EXCEPT ![i] = r]
        /\ UNCHANGED <<roundChoice, preemptive_right, pp_consumed>>
        /\ \/ /\ i = FirstMover
              /\ currentState = "BATTLE_FIRST_ON_SKILL_HIT"
              /\ currentState' = "BATTLE_FIRST_SKILL_EFFECT"
           \/ /\ i = SecondMover
              /\ currentState = "BATTLE_SECOND_ON_SKILL_HIT"
              /\ currentState' = "BATTLE_SECOND_SKILL_EFFECT"
  BY MoverType
     DEF FirstOnSkillHit, SecondOnSkillHit, OnSkillHit, Running, Successor, choiceVars
<1>2. FirstMover' = FirstMover /\ SecondMover' = SecondMover
  BY <1>1, MoversKept
<1>3. \A s \in Side : ~Paying(s) /\ (Paying(s)' <=> s = i)
  BY <1>1, <1>2 DEF Paying, FirstPaying, SecondPaying
<1>4. resolution'[i] # "NOT_READY" /\ \A s \in Side \ {i} : resolution'[s] = resolution[s]
  BY <1>1 DEF TypeOK
<1>5. \A s \in Side \ {i} : Settled(s)'
  <2>1. \A s \in Side : Settled(s)
    BY <1>3 DEF PayInv
  <2>. QED  BY <1>1, <1>4, <2>1, Zenon DEF Settled
<1>6. /\ currentState' \in FirstActing => roundChoice'[FirstMover'].kind = "SELECT_SKILL"
      /\ currentState' \in SecondActing => roundChoice'[SecondMover'].kind = "SELECT_SKILL"
  BY <1>1, <1>2 DEF PayInv, FirstActing, SecondActing, FirstPaying, SecondPaying
<1>. QED  BY <1>3, <1>4, <1>5, <1>6 DEF PayInv

LEMMA PayInvAfterAction ==
  ASSUME TypeOK, PayInv, FirstAfterAction \/ SecondAfterAction
  PROVE  PayInv'
<1>1. PICK i \in Side :
        /\ pp_consumed' = [pp_consumed EXCEPT ![i] = @ \/ Pays(i)]
        /\ UNCHANGED <<roundChoice, preemptive_right, resolution>>
        /\ \/ /\ i = FirstMover
              /\ currentState = "BATTLE_FIRST_AFTER_ACTION"
              /\ currentState' = "BATTLE_FIRST_ACTION_END"
           \/ /\ i = SecondMover
              /\ currentState = "BATTLE_SECOND_AFTER_ACTION"
              /\ currentState' = "BATTLE_SECOND_ACTION_END"
  BY MoverType
     DEF FirstAfterAction, SecondAfterAction, AfterAction, Running, Successor, choiceVars
<1>2. currentState' \notin Acting /\ \A s \in Side : ~Paying(s)'
  BY <1>1 DEF Acting, FirstActing, SecondActing, Paying, FirstPaying, SecondPaying
<1>3. \A s \in Side : Paying(s) <=> s = i
  BY <1>1 DEF Paying, FirstPaying, SecondPaying
<1>4. Pays(i)
  BY <1>1, <1>3 DEF PayInv, Pays, FirstActing, SecondActing, FirstPaying, SecondPaying
<1>5. pp_consumed'[i] = TRUE /\ \A s \in Side \ {i} : pp_consumed'[s] = pp_consumed[s]
  <2>1. pp_consumed \in [Side -> BOOLEAN]
    BY DEF TypeOK
  <2>. QED  BY <1>1, <1>4, <2>1, Zenon
<1>6. resolution'[i] # "NOT_READY" /\ \A s \in Side \ {i} : Settled(s)
  BY <1>1, <1>3 DEF PayInv
<1>7. \A s \in Side : Settled(s)'
  BY <1>1, <1>5, <1>6, Zenon DEF Settled
<1>. QED  BY <1>2, <1>7 DEF PayInv, Acting

LEMMA PayInvRoundStart ==
  ASSUME RoundStart
  PROVE  PayInv'
<1>1. currentState' = "BATTLE_FIRST_MOVE_RIGHT"
  BY DEF RoundStart, Running, Successor
<1>2. currentState' \notin Acting /\ \A s \in Side : ~Paying(s)'
  BY <1>1 DEF Acting, FirstActing, SecondActing, Paying, FirstPaying, SecondPaying
<1>3. \A s \in Side : pp_consumed'[s] = FALSE /\ resolution'[s] = "NOT_READY"
  BY DEF RoundStart
<1>4. \A s \in Side : Settled(s)'
  BY <1>3, Zenon DEF Settled
<1>. QED  BY <1>2, <1>4 DEF PayInv, Acting

\* The steps that store, collect or clear a choice are outside the actions.
LEMMA AsideSteps ==
  ASSUME \/ \E s \in Side : ChooseAccepted(s) \/ ChooseRefused(s) \/ ReplaceDefeated(s)
         \/ FirstMoveRight \/ RoundCompletion
  PROVE  Aside
<1>1. UNCHANGED <<resolution, pp_consumed>>
  BY DEF ChooseAccepted, ChooseRefused, ReplaceDefeated, FirstMoveRight,
         RoundCompletion, skillVars
<1>2. /\ currentState \notin Acting
      /\ currentState' \in {currentState, Successor[currentState], NextRound}
  BY DEF ChooseAccepted, Collect, ChooseRefused, ReplaceDefeated, FirstMoveRight,
         RoundCompletion, Decoding, Running, Acting, FirstActing, SecondActing,
         FirstPaying, SecondPaying
<1>3. currentState \in {"OPERATION_CHOOSE_SKILL_MEDICAMENT", "CHOOSE_AFTER_DEATH",
                        "BATTLE_FIRST_MOVE_RIGHT", "BATTLE_ROUND_COMPLETION"}
  BY DEF ChooseAccepted, ChooseRefused, ReplaceDefeated, FirstMoveRight,
         RoundCompletion, Decoding, Running
<1>4. currentState # "BATTLE_ROUND_COMPLETION" => Successor[currentState] \notin Acting
  BY <1>3 DEF Successor, Acting, FirstActing, SecondActing, FirstPaying, SecondPaying
<1>5. RoundCompletion <=> currentState = "BATTLE_ROUND_COMPLETION"
  BY DEF ChooseAccepted, ChooseRefused, ReplaceDefeated, FirstMoveRight,
         RoundCompletion, Decoding, Running
<1>6. NextRound \notin Acting
  BY DEF NextRound, Acting, FirstActing, SecondActing, FirstPaying, SecondPaying
<1>7. CASE RoundCompletion
  BY <1>1, <1>2, <1>6, <1>7 DEF RoundCompletion, Aside
<1>8. CASE ~RoundCompletion
  BY <1>1, <1>2, <1>4, <1>5, <1>6, <1>8 DEF Aside
<1>. QED  BY <1>7, <1>8

LEMMA CalmSteps ==
  ASSUME [Next]_vars
  PROVE  \/ Calm
         \/ \E s \in Side : ChooseAccepted(s) \/ ChooseRefused(s) \/ ReplaceDefeated(s)
         \/ FirstMoveRight \/ RoundCompletion \/ RoundStart
         \/ FirstActionStart \/ SecondActionStart
         \/ FirstOnSkillHit \/ SecondOnSkillHit
         \/ FirstAfterAction \/ SecondAfterAction
<1>1. CASE \/ Drain \/ Spin \/ UNCHANGED vars \/ ChooseUnknownPlayer
           \/ \E m \in Message : Submit(m)
           \/ \E s \in Side : ReplaceRefused(s)
  BY <1>1 DEF Drain, Spin, Submit, ChooseUnknownPlayer, ReplaceRefused, Calm, vars,
              choiceVars
<1>2. CASE \/ Opening \/ EnterStage \/ RoundEnd \/ AfterDefeatingOpponent
           \/ FirstBeforeSkillHit \/ FirstEnd \/ SecondBeforeSkillHit \/ SecondEnd
  BY <1>2, BucketOnlyCalm, BucketStates
     DEF Opening, EnterStage, RoundEnd, AfterDefeatingOpponent, FirstBeforeSkillHit,
         FirstEnd, SecondBeforeSkillHit, SecondEnd, OpeningStates, FirstTail,
         SecondTail, RoundEndStates
<1>3. CASE FirstSkillEffect \/ FirstAttackDamage \/ SecondSkillEffect \/ SecondAttackDamage
  <2>1. {"BATTLE_FIRST_SKILL_EFFECT", "BATTLE_FIRST_ATTACK_DAMAGE",
         "BATTLE_SECOND_SKILL_EFFECT", "BATTLE_SECOND_ATTACK_DAMAGE"} \subseteq DOMAIN Successor
    BY BucketStateType
  <2>. QED
    BY <1>3, <2>1, BucketOnlyCalm
       DEF FirstSkillEffect, FirstAttackDamage, SecondSkillEffect, SecondAttackDamage
<1>4. CASE ProtectionMechanism1 \/ FirstMoverDeath \/ AfterDefeated
  <2>1. UNCHANGED <<roundChoice, skillVars>>
    BY <1>4 DEF ProtectionMechanism1, FirstMoverDeath, AfterDefeated, choiceVars
  <2>2. currentState \notin Acting
    BY <1>4 DEF ProtectionMechanism1, FirstMoverDeath, AfterDefeated, Running, Acting,
                FirstActing, SecondActing, FirstPaying, SecondPaying
  <2>3. currentState' \notin Acting
    <3>1. currentState' \in {"OPERATION_ENTER_STAGE", "BATTLE_OLD_ROUND_END_1",
                            "BATTLE_SECOND_ACTION_START", "CHOOSE_AFTER_DEATH",
                            "BATTLE_AFTER_DEFEATING_OPPONENT"}
      <4>1. CASE ProtectionMechanism1
        BY <4>1 DEF ProtectionMechanism1, Running, Successor
      <4>2. CASE FirstMoverDeath
        BY <4>2 DEF FirstMoverDeath
      <4>3. CASE AfterDefeated
        BY <4>3 DEF AfterDefeated, AfterDeaths, Successor
      <4>. QED  BY <1>4, <4>1, <4>2, <4>3
    <3>. QED
      BY <3>1 DEF Acting, FirstActing, SecondActing, FirstPaying, SecondPaying
  <2>. QED  BY <2>1, <2>2, <2>3 DEF Calm, Acting, FirstActing, SecondActing
<1>. QED  BY <1>1, <1>2, <1>3, <1>4 DEF Next, FsmStep

LEMMA PayInvNext ==
  ASSUME TypeOK, PayInv, [Next]_vars
  PROVE  PayInv'
BY CalmSteps, AsideSteps, PayInvCalm, PayInvAside, PayInvActionStart,
   PayInvOnSkillHit, PayInvAfterAction, PayInvRoundStart

\* Whoever moves first and whatever states a death, a control or a missing
\* skill skips: outside an action, the sides that have paid the cost of their
\* skill in this round are the sides whose skill was resolved.
THEOREM ResolvedSkillsArePaidCorrect == Spec => []ResolvedSkillsArePaid
<1>1. Init => PayInv
  BY PayInvInit
<1>2. TypeOK /\ PayInv /\ [Next]_vars => PayInv'
  BY PayInvNext
<1>3. PayInv => ResolvedSkillsArePaid
  <2>. SUFFICES ASSUME PayInv, currentState \notin PayingStates, NEW s \in Side
                PROVE  Settled(s)
    BY Zenon DEF ResolvedSkillsArePaid, Settled
  <2>1. ~Paying(s)
    BY DEF Paying, FirstPaying, SecondPaying, PayingStates
  <2>. QED  BY <2>1 DEF PayInv
<1>. QED  BY <1>1, <1>2, <1>3, TypeCorrect, PTL DEF Spec

-----------------------------------------------------------------------------
(***************************************************************************)
(* A choice of a pet that was stored names the pet on stage, so a request  *)
(* that passes for it moves nobody.                                        *)
(***************************************************************************)
LEMMA SwitchesToTheLiving ==
  ASSUME TypeOK, SelectionInv, NEW s \in Side, ChooseAccepted(s)
  PROVE  \A p \in Side : onStage'[p] # onStage[p] => hp[p][onStage'[p]] > 0
<1>1. PICK usable \in BOOLEAN : Operation(s, usable)
  BY DEF ChooseAccepted
<1>2. Matches(s)
  BY DEF SelectionInv, RoundStates, SelectionStates, ChooseAccepted, Decoding, Running
<1>3. CASE m_buffer.kind = "CHOOSE_PET" /\ Switches(s, m_buffer.idx)
  <2>1. onStage' = [onStage EXCEPT ![s] = m_buffer.idx]
    BY <1>3 DEF ChooseAccepted, Switch
  <2>2. onStage'[s] = m_buffer.idx /\ \A p \in Side \ {s} : onStage'[p] = onStage[p]
    BY <2>1 DEF TypeOK
  <2>3. CASE Stores(s, usable)
    <3>1. hp[s][m_buffer.idx] > 0
      BY <1>3, <2>3 DEF Stores
    <3>. QED  BY <2>2, <3>1
  <2>4. CASE ~Stores(s, usable)
    <3>1. roundChoice[s] = Wanted
      BY <1>1, <2>4, OperationStores DEF ChooseAccepted, Accepted
    <3>2. m_buffer.idx = onStage[s]
      BY <1>2, <1>3, <3>1, WantedKind DEF Matches
    <3>. QED  BY <1>3, <3>2 DEF Switches
  <2>. QED  BY <2>3, <2>4
<1>4. CASE ~(m_buffer.kind = "CHOOSE_PET" /\ Switches(s, m_buffer.idx))
  BY <1>4 DEF ChooseAccepted
<1>. QED  BY <1>3, <1>4

\* A request equal to an old choice passes for accepted without a look at the
\* pet, and yet no selection sends a dead pet on stage.
THEOREM SelectionSwitchesToTheLivingCorrect == Spec => SelectionSwitchesToTheLiving
<1>1. Init => SelectionInv
  BY SelectionInvInit
<1>2. TypeOK /\ SelectionInv /\ [Next]_vars => SelectionInv'
  BY SelectionInvNext
<1>3. TypeOK /\ SelectionInv /\ [Next]_vars =>
        [currentState = "OPERATION_CHOOSE_SKILL_MEDICAMENT" =>
           \A s \in Side :
             onStage'[s] # onStage[s] => hp[s][onStage'[s]] > 0]_vars
  <2>. SUFFICES ASSUME TypeOK, SelectionInv, [Next]_vars,
                       currentState = "OPERATION_CHOOSE_SKILL_MEDICAMENT"
                PROVE  \A s \in Side :
                         onStage'[s] # onStage[s] => hp[s][onStage'[s]] > 0
    OBVIOUS
  <2>1. CASE Quiet \/ \E s \in Side : ChooseRefused(s)
    BY <2>1 DEF Quiet, ChooseRefused, stageVars
  <2>2. CASE \E s \in Side : ChooseAccepted(s)
    BY <2>2, SwitchesToTheLiving
  <2>3. ~RoundStart /\ ~RoundCompletion /\ \A s \in Side : ~ReplaceDefeated(s)
    BY DEF RoundStart, RoundCompletion, ReplaceDefeated, Decoding, Running
  <2>. QED  BY <2>1, <2>2, <2>3, QuietSteps
<1>. QED
  BY <1>1, <1>2, <1>3, TypeCorrect, PTL DEF Spec, SelectionSwitchesToTheLiving

-----------------------------------------------------------------------------
(***************************************************************************)
(* No skill has been resolved before the first mover's, and the second     *)
(* mover's has not until its own turn.                                     *)
(***************************************************************************)
BeforeFirst == {"BATTLE_FIRST_MOVE_RIGHT", "BATTLE_FIRST_ACTION_START",
                "BATTLE_FIRST_BEFORE_SKILL_HIT", "BATTLE_FIRST_ON_SKILL_HIT"}
BeforeSecond == BeforeFirst \cup FirstPaying \cup FirstTail
                \cup {"BATTLE_FIRST_MOVER_DEATH", "BATTLE_SECOND_ACTION_START",
                      "BATTLE_SECOND_BEFORE_SKILL_HIT", "BATTLE_SECOND_ON_SKILL_HIT"}

ActedInv ==
  /\ currentState \in BeforeFirst => \A s \in Side : resolution[s] = "NOT_READY"
  /\ currentState \in BeforeSecond => resolution[SecondMover] = "NOT_READY"

\* A step that resolves nothing and does not go back before an action.
Still ==
  /\ UNCHANGED <<resolution, preemptive_right>>
  /\ currentState' \in BeforeFirst => currentState \in BeforeFirst
  /\ currentState' \in BeforeSecond => currentState \in BeforeSecond

LEMMA BeforeFlow ==
  \A q \in DOMAIN Successor \ {"BATTLE_ROUND_START"} :
    /\ Successor[q] \in BeforeFirst => q \in BeforeFirst
    /\ Successor[q] \in BeforeSecond => q \in BeforeSecond
BY DEF Successor, BeforeFirst, BeforeSecond, FirstPaying, FirstTail

LEMMA BucketOnlyStill ==
  ASSUME NEW q \in DOMAIN Successor \ {"BATTLE_ROUND_START"},
         BucketOnly(q) \/ (\E i : SkillEffect(q, i) \/ AttackDamage(q, i) \/ AfterAction(q, i))
  PROVE  Still
<1>1. /\ currentState = q /\ currentState' = Successor[q]
      /\ UNCHANGED <<resolution, preemptive_right>>
  BY DEF BucketOnly, SkillEffect, AttackDamage, AfterAction, Running, skillVars
<1>. QED  BY <1>1, BeforeFlow DEF Still

LEMMA StillSteps ==
  ASSUME [Next]_vars
  PROVE  \/ Still
         \/ RoundStart \/ FirstMoveRight \/ FirstOnSkillHit \/ SecondOnSkillHit
<1>1. CASE \/ Drain \/ Spin \/ UNCHANGED vars \/ ChooseUnknownPlayer
           \/ \E m \in Message : Submit(m)
           \/ \E s \in Side : ReplaceRefused(s)
  BY <1>1 DEF Drain, Spin, Submit, ChooseUnknownPlayer, ReplaceRefused, Still, vars,
              skillVars
<1>2. CASE \/ Opening \/ EnterStage \/ RoundEnd \/ AfterDefeatingOpponent
           \/ FirstBeforeSkillHit \/ FirstEnd \/ SecondBeforeSkillHit \/ SecondEnd
  BY <1>2, BucketOnlyStill, BucketStates
     DEF Opening, EnterStage, RoundEnd, AfterDefeatingOpponent, FirstBeforeSkillHit,
         FirstEnd, SecondBeforeSkillHit, SecondEnd, OpeningStates, FirstTail,
         SecondTail, RoundEndStates
<1>3. CASE \/ FirstSkillEffect \/ FirstAttackDamage \/ FirstAfterAction
           \/ SecondSkillEffect \/ SecondAttackDamage \/ SecondAfterAction
  BY <1>3, BucketOnlyStill, BucketStateType
     DEF FirstSkillEffect, FirstAttackDamage, FirstAfterAction, SecondSkillEffect,
         SecondAttackDamage, SecondAfterAction
<1>4. CASE FirstActionStart
  <2>1. /\ currentState = "BATTLE_FIRST_ACTION_START"
        /\ UNCHANGED <<resolution, preemptive_right>>
        /\ currentState' \in {"BATTLE_FIRST_BEFORE_SKILL_HIT", "BATTLE_FIRST_EXTRA_ACTION"}
    BY <1>4 DEF FirstActionStart, ActionStart, Running, Successor, skillVars
  <2>. QED  BY <2>1 DEF Still, BeforeFirst, BeforeSecond
<1>5. CASE SecondActionStart
  <2>1. /\ currentState = "BATTLE_SECOND_ACTION_START"
        /\ UNCHANGED <<resolution, preemptive_right>>
        /\ currentState' \in {"BATTLE_SECOND_BEFORE_SKILL_HIT", "BATTLE_SECOND_EXTRA_ACTION"}
    BY <1>5 DEF SecondActionStart, ActionStart, Running, Successor, skillVars
  <2>. QED  BY <2>1 DEF Still, BeforeFirst, BeforeSecond
<1>6. CASE \/ ProtectionMechanism1 \/ AfterDefeated \/ RoundCompletion
           \/ \E s \in Side : ChooseAccepted(s) \/ ChooseRefused(s) \/ ReplaceDefeated(s)
  <2>1. UNCHANGED <<resolution, preemptive_right>>
    BY <1>6 DEF ProtectionMechanism1, AfterDefeated, RoundCompletion, ChooseAccepted,
                ChooseRefused, ReplaceDefeated, skillVars
  <2>2. currentState' \in {"OPERATION_CHOOSE_SKILL_MEDICAMENT",
                           "OPERATION_PROTECTION_MECHANISM_1", "OPERATION_ENTER_STAGE",
                           "CHOOSE_AFTER_DEATH", "BATTLE_AFTER_DEFEATING_OPPONENT"}
    <3>1. CASE ProtectionMechanism1
      BY <3>1 DEF ProtectionMechanism1, Running, Successor
    <3>2. CASE AfterDefeated
      BY <3>2 DEF AfterDefeated, AfterDeaths, Successor
    <3>3. CASE RoundCompletion
      BY <3>3 DEF RoundCompletion, NextRound
    <3>4. CASE \E s \in Side : ChooseAccepted(s) \/ ChooseRefused(s)
      <4>1. /\ currentState = "OPERATION_CHOOSE_SKILL_MEDICAMENT"
            /\ currentState' = currentState \/ currentState' = Successor[currentState]
        BY <3>4 DEF ChooseAccepted, ChooseRefused, Collect, Decoding, Running
      <4>. QED  BY <4>1 DEF Successor
    <3>5. CASE \E s \in Side : ReplaceDefeated(s)
      BY <3>5 DEF ReplaceDefeated, Decoding, Running, Successor
    <3>. QED  BY <1>6, <3>1, <3>2, <3>3, <3>4, <3>5
  <2>. QED  BY <2>1, <2>2 DEF Still, BeforeFirst, BeforeSecond, FirstPaying, FirstTail
<1>7. CASE FirstMoverDeath
  <2>1. /\ currentState = "BATTLE_FIRST_MOVER_DEATH"
        /\ UNCHANGED <<resolution, preemptive_right>>
        /\ currentState' \in {"BATTLE_OLD_ROUND_END_1", "BATTLE_SECOND_ACTION_START"}
    BY <1>7 DEF FirstMoverDeath, Running, skillVars
  <2>. QED  BY <2>1 DEF Still, BeforeFirst, BeforeSecond
<1>. QED
  BY <1>1, <1>2, <1>3, <1>4, <1>5, <1>6, <1>7 DEF Next, FsmStep

LEMMA ActedInvNext ==
  ASSUME TypeOK, ActedInv, [Next]_vars
  PROVE  ActedInv'
<1>1. CASE Still
  <2>1. SecondMover' = SecondMover
    BY <1>1, MoversKept DEF Still
  <2>. QED  BY <1>1, <2>1 DEF Still, ActedInv
<1>2. CASE RoundStart
  <2>1. \A s \in Side : resolution'[s] = "NOT_READY"
    BY <1>2 DEF RoundStart
  <2>2. SecondMover' \in Side
    BY DEF SecondMover, FirstMover, Other, Side
  <2>. QED  BY <2>1, <2>2 DEF ActedInv
<1>3. CASE FirstMoveRight
  <2>1. \A s \in Side : resolution'[s] = "NOT_READY"
    BY <1>3 DEF FirstMoveRight, Running, ActedInv, BeforeFirst
  <2>2. SecondMover' \in Side
    BY DEF SecondMover, FirstMover, Other, Side
  <2>. QED  BY <2>1, <2>2 DEF ActedInv
<1>4. CASE FirstOnSkillHit
  <2>1. /\ currentState = "BATTLE_FIRST_ON_SKILL_HIT"
        /\ currentState' = "BATTLE_FIRST_SKILL_EFFECT"
        /\ UNCHANGED preemptive_right
    BY <1>4 DEF FirstOnSkillHit, OnSkillHit, Running, Successor
  <2>2. resolution'[SecondMover] = resolution[SecondMover]
    BY <1>4, MoversApart DEF FirstOnSkillHit, OnSkillHit, TypeOK
  <2>3. SecondMover' = SecondMover
    BY <2>1, MoversKept
  <2>. QED
    BY <2>1, <2>2, <2>3 DEF ActedInv, BeforeFirst, BeforeSecond, FirstPaying
<1>5. CASE SecondOnSkillHit
  <2>1. currentState' = "BATTLE_SECOND_SKILL_EFFECT"
    BY <1>5 DEF SecondOnSkillHit, OnSkillHit, Running, Successor
  <2>. QED  BY <2>1 DEF ActedInv, BeforeFirst, BeforeSecond, FirstPaying, FirstTail
<1>. QED  BY <1>1, <1>2, <1>3, <1>4, <1>5, StillSteps

-----------------------------------------------------------------------------
(***************************************************************************)
(* The machine implements BattleRound.  The mapping of the instance, name  *)
(* by name, and the abstract steps in terms of it.                         *)
(***************************************************************************)
Ready == {s \in Side : operation_collected[s]}
Skilled == IF currentState \in FightStates
             THEN {s \in Side : roundChoice[s].kind = "SELECT_SKILL"} ELSE {}
Leader == IF Decided THEN FirstMover ELSE NoSide
Acted == IF Decided THEN {s \in Side : resolution[s] # "NOT_READY"} ELSE {}

LEMMA RoundStutter ==
  ASSUME UNCHANGED <<stageOfRound, Ready, Skilled, Leader, Acted>>
  PROVE  UNCHANGED Round!vars
BY DEF Round!vars, Ready, Skilled, Leader, Acted

LEMMA RoundOpen ==
  ASSUME stageOfRound = "opening", stageOfRound' = "choosing",
         UNCHANGED <<Ready, Skilled, Leader, Acted>>
  PROVE  Round!Next
BY DEF Round!Next, Round!Open, Ready, Skilled, Leader, Acted

LEMMA RoundChoose ==
  ASSUME NEW s \in Side, stageOfRound = "choosing", Ready' = Ready \cup {s},
         IF Ready' = Side THEN stageOfRound' = "fighting" /\ Skilled' \in SUBSET Side
                          ELSE UNCHANGED <<stageOfRound, Skilled>>,
         UNCHANGED <<Leader, Acted>>
  PROVE  Round!Next
BY DEF Round!Next, Round!Choose, Round!Side, Side, Ready, Skilled, Leader, Acted

LEMMA RoundDecideFirst ==
  ASSUME stageOfRound = "fighting", Leader = NoSide, Acted = {}, Leader' \in Side,
         UNCHANGED <<stageOfRound, Ready, Skilled, Acted>>
  PROVE  Round!Next
BY DEF Round!Next, Round!DecideFirst, Round!Undecided, Round!Side, NoSide, Side,
       Ready, Skilled, Leader, Acted

LEMMA RoundAct ==
  ASSUME NEW s \in Side, stageOfRound = "fighting", Leader \in Side,
         s \in Skilled \ Acted, s = Leader => Acted = {}, Acted' = Acted \cup {s},
         UNCHANGED <<stageOfRound, Ready, Skilled, Leader>>
  PROVE  Round!Next
BY DEF Round!Next, Round!Act, Round!Side, Side, Ready, Skilled, Leader, Acted

LEMMA RoundEndFight ==
  ASSUME stageOfRound = "fighting", Leader \in Side,
         stageOfRound' \in {"replacing", "closing"},
         Skilled' = {}, Leader' = NoSide, Acted' = {}, UNCHANGED Ready
  PROVE  Round!Next
BY DEF Round!Next, Round!EndFight, Round!Undecided, Round!Side, NoSide, Side,
       Ready, Skilled, Leader, Acted

LEMMA RoundReplace ==
  ASSUME stageOfRound = "replacing", stageOfRound' = "closing",
         UNCHANGED <<Ready, Skilled, Leader, Acted>>
  PROVE  Round!Next
BY DEF Round!Next, Round!Replace, Ready, Skilled, Leader, Acted

LEMMA RoundClose ==
  ASSUME stageOfRound = "closing", stageOfRound' = "choosing", Ready' = {},
         UNCHANGED <<Skilled, Leader, Acted>>
  PROVE  Round!Next
BY DEF Round!Next, Round!Close, Ready, Skilled, Leader, Acted

-----------------------------------------------------------------------------
\* Steps that the players see nothing of: outside the fight, before the first
\* mover is decided, and after.
LEMMA OutsideStutter ==
  ASSUME currentState \notin FightStates, currentState' \notin FightStates,
         UNCHANGED <<stageOfRound, operation_collected>>
  PROVE  UNCHANGED Round!vars
<1>1. UNCHANGED <<Ready, Skilled, Leader, Acted>>
  BY DEF Ready, Skilled, Leader, Acted, Decided
<1>. QED  BY <1>1, RoundStutter

LEMMA UndecidedStutter ==
  ASSUME currentState \in UndecidedStates, currentState' \in UndecidedStates,
         UNCHANGED <<roundChoice, operation_collected>>
  PROVE  UNCHANGED Round!vars
<1>1. /\ currentState \in FightStates /\ ~Decided
      /\ currentState' \in FightStates /\ ~Decided'
  BY DEF Decided, UndecidedStates, FightStates, SelectionStates, ClosingStates, State, Successor
<1>2. UNCHANGED stageOfRound
  BY <1>1 DEF stageOfRound, FightStates, SelectionStates, ClosingStates
<1>3. UNCHANGED <<Ready, Skilled, Leader, Acted>>
  BY <1>1 DEF Ready, Skilled, Leader, Acted
<1>. QED  BY <1>2, <1>3, RoundStutter

LEMMA DecidedStutter ==
  ASSUME Decided, Decided',
         UNCHANGED <<roundChoice, operation_collected, resolution, preemptive_right>>
  PROVE  UNCHANGED Round!vars
<1>1. currentState \in FightStates /\ currentState' \in FightStates
  BY DEF Decided
<1>2. UNCHANGED stageOfRound
  BY <1>1 DEF stageOfRound, FightStates, SelectionStates, ClosingStates
<1>3. FirstMover' = FirstMover
  BY MoversKept
<1>4. UNCHANGED <<Ready, Skilled, Leader, Acted>>
  BY <1>1, <1>3 DEF Ready, Skilled, Leader, Acted
<1>. QED  BY <1>2, <1>4, RoundStutter

DecidedStates == FightStates \ UndecidedStates

LEMMA DecidedFlow ==
  /\ ActionStates \cup ExtraStates \cup FirstTail \cup SecondTail \cup RoundEndStates
       \cup {"BATTLE_FIRST_MOVER_DEATH", "BATTLE_AFTER_DEFEATED"} \subseteq DecidedStates
  /\ \A q \in ActionStates \cup FirstTail \cup SecondTail \cup RoundEndStates :
       Successor[q] \in DecidedStates
BY DEF DecidedStates, ActionStates, ExtraStates, FirstTail, SecondTail, RoundEndStates,
       UndecidedStates, FightStates, SelectionStates, ClosingStates, State, Successor

LEMMA InActionStutter ==
  ASSUME NEW q \in ActionStates \cup FirstTail \cup SecondTail \cup RoundEndStates,
         NEW i, NEW extra \in ExtraStates,
         \/ BucketOnly(q) \/ ActionStart(q, i, extra) \/ SkillEffect(q, i)
         \/ AttackDamage(q, i) \/ AfterAction(q, i)
  PROVE  UNCHANGED Round!vars
<1>1. /\ currentState = q /\ (currentState' = Successor[q] \/ currentState' = extra)
      /\ UNCHANGED <<roundChoice, operation_collected, resolution, preemptive_right>>
  BY DEF BucketOnly, ActionStart, SkillEffect, AttackDamage, AfterAction, Running,
         choiceVars, collectVars, skillVars
<1>2. Decided /\ Decided'
  <2>1. q \in DecidedStates /\ Successor[q] \in DecidedStates /\ extra \in DecidedStates
    BY DecidedFlow
  <2>2. currentState \in DecidedStates /\ currentState' \in DecidedStates
    BY <1>1, <2>1
  <2>. QED  BY <2>2 DEF Decided, DecidedStates
<1>. QED  BY <1>1, <1>2, DecidedStutter

\* Each action of a mover but the resolution of its skill is invisible.
LEMMA ActionSteps ==
  ASSUME \/ FirstActionStart \/ FirstBeforeSkillHit \/ FirstSkillEffect
         \/ FirstAttackDamage \/ FirstAfterAction \/ FirstEnd
         \/ SecondActionStart \/ SecondBeforeSkillHit \/ SecondSkillEffect
         \/ SecondAttackDamage \/ SecondAfterAction \/ SecondEnd
         \/ RoundEnd \/ FirstMoverDeath
  PROVE  UNCHANGED Round!vars
<1>1. CASE \/ FirstBeforeSkillHit \/ FirstEnd \/ SecondBeforeSkillHit \/ SecondEnd
           \/ RoundEnd
  BY <1>1, InActionStutter
     DEF FirstBeforeSkillHit, FirstEnd, SecondBeforeSkillHit, SecondEnd, RoundEnd,
         ActionStates, ExtraStates
<1>2. CASE \/ FirstActionStart \/ FirstSkillEffect \/ FirstAttackDamage \/ FirstAfterAction
  BY <1>2, InActionStutter
     DEF FirstActionStart, FirstSkillEffect, FirstAttackDamage, FirstAfterAction,
         ActionStates, ExtraStates
<1>3. CASE \/ SecondActionStart \/ SecondSkillEffect \/ SecondAttackDamage
           \/ SecondAfterAction
  BY <1>3, InActionStutter
     DEF SecondActionStart, SecondSkillEffect, SecondAttackDamage, SecondAfterAction,
         ActionStates, ExtraStates
<1>4. CASE FirstMoverDeath
  <2>1. /\ currentState = "BATTLE_FIRST_MOVER_DEATH"
        /\ currentState' \in {"BATTLE_OLD_ROUND_END_1", "BATTLE_SECOND_ACTION_START"}
        /\ UNCHANGED <<roundChoice, operation_collected, resolution, preemptive_right>>
    BY <1>4 DEF FirstMoverDeath, Running, choiceVars, collectVars, skillVars
  <2>2. Decided /\ Decided'
    BY <2>1, DecidedFlow DEF Decided, DecidedStates, RoundEndStates, ActionStates
  <2>. QED  BY <2>1, <2>2, DecidedStutter
<1>. QED  BY <1>1, <1>2, <1>3, <1>4

\* The resolution of a skill is the act of its side.
LEMMA ActSteps ==
  ASSUME TypeOK, PayInv, ActedInv, FirstOnSkillHit \/ SecondOnSkillHit
  PROVE  Round!Next
<1>1. PICK i \in Side, r \in {"HIT", "SKILL_INVALID"} :
        /\ resolution' = [resolution EXCEPT ![i] = r]
        /\ UNCHANGED <<roundChoice, operation_collected, preemptive_right>>
        /\ \/ /\ i = FirstMover
              /\ currentState = "BATTLE_FIRST_ON_SKILL_HIT"
              /\ currentState' = "BATTLE_FIRST_SKILL_EFFECT"
           \/ /\ i = SecondMover
              /\ currentState = "BATTLE_SECOND_ON_SKILL_HIT"
              /\ currentState' = "BATTLE_SECOND_SKILL_EFFECT"
  BY MoverType
     DEF FirstOnSkillHit, SecondOnSkillHit, OnSkillHit, Running, Successor, choiceVars,
         collectVars
<1>2. Decided /\ Decided'
  BY <1>1, DecidedFlow DEF Decided, DecidedStates, ActionStates
<1>3. /\ currentState \in FightStates /\ currentState' \in FightStates
      /\ stageOfRound = "fighting" /\ UNCHANGED stageOfRound
  BY <1>1, <1>2 DEF Decided, stageOfRound, ClosingStates
<1>4. FirstMover' = FirstMover
  BY <1>1, MoversKept
<1>5. Leader = FirstMover /\ UNCHANGED <<Ready, Skilled, Leader>>
  BY <1>1, <1>2, <1>3, <1>4 DEF Leader, Ready, Skilled
<1>6. i \in Skilled
  BY <1>1, <1>3 DEF PayInv, Skilled, FirstActing, SecondActing
<1>7. resolution[i] = "NOT_READY" /\ (i = FirstMover => \A s \in Side : resolution[s] = "NOT_READY")
  BY <1>1, MoversApart DEF ActedInv, BeforeFirst, BeforeSecond
<1>8. i \notin Acted /\ (i = Leader => Acted = {})
  BY <1>2, <1>5, <1>7 DEF Acted
<1>9. Acted' = Acted \cup {i}
  <2>1. /\ resolution'[i] # "NOT_READY"
        /\ \A s \in Side \ {i} : resolution'[s] = resolution[s]
    BY <1>1 DEF TypeOK
  <2>. QED  BY <1>2, <2>1 DEF Acted
<1>. QED  BY <1>3, <1>5, <1>6, <1>8, <1>9, MoverType, RoundAct

LEMMA FirstMoveRightStep ==
  ASSUME ActedInv, FirstMoveRight
  PROVE  Round!Next
<1>1. /\ currentState = "BATTLE_FIRST_MOVE_RIGHT"
      /\ currentState' = "BATTLE_FIRST_ACTION_START"
      /\ UNCHANGED <<roundChoice, operation_collected, resolution>>
  BY DEF FirstMoveRight, Running, Successor, choiceVars, collectVars
<1>2. ~Decided /\ Decided'
  BY <1>1, DecidedFlow DEF Decided, DecidedStates, UndecidedStates, ActionStates
<1>3. currentState \in FightStates /\ currentState' \in FightStates
  BY <1>1 DEF FightStates, SelectionStates, ClosingStates, State, Successor
<1>4. stageOfRound = "fighting" /\ UNCHANGED stageOfRound
  BY <1>1 DEF stageOfRound, ClosingStates
<1>5. UNCHANGED <<Ready, Skilled>>
  BY <1>1, <1>3 DEF Ready, Skilled
<1>6. Leader = NoSide /\ Acted = {} /\ Leader' \in Side
  BY <1>2 DEF Leader, Acted, FirstMover, Side
<1>7. Acted' = {}
  BY <1>1 DEF ActedInv, BeforeFirst, Acted
<1>. QED  BY <1>4, <1>5, <1>6, <1>7, RoundDecideFirst

\* An accepted operation is the choice of its side, and the second one ends
\* the choosing.
LEMMA ChooseAcceptedStep ==
  ASSUME TypeOK, NEW s \in Side, ChooseAccepted(s)
  PROVE  Round!Next
<1>1. /\ currentState = "OPERATION_CHOOSE_SKILL_MEDICAMENT"
      /\ operation_collected' = [operation_collected EXCEPT ![s] = TRUE]
  BY DEF ChooseAccepted, Collect, Decoding, Running
<1>2. Ready' = Ready \cup {s}
  <2>1. operation_collected \in [Side -> BOOLEAN]
    BY DEF TypeOK
  <2>. QED  BY <1>1, <2>1 DEF Ready
<1>3. stageOfRound = "choosing" /\ ~Decided /\ Skilled = {}
  BY <1>1 DEF stageOfRound, Decided, Skilled, FightStates, SelectionStates
<1>4. CASE \A p \in Side : operation_collected'[p]
  <2>1. currentState' = "OPERATION_PROTECTION_MECHANISM_1"
    BY <1>1, <1>4 DEF ChooseAccepted, Collect, Successor
  <2>2. stageOfRound' = "fighting" /\ ~Decided' /\ Ready' = Side
    BY <1>4, <2>1 DEF stageOfRound, ClosingStates, Decided, UndecidedStates, Ready
  <2>3. Skilled' \in SUBSET Side
    BY DEF Skilled
  <2>. QED  BY <1>2, <1>3, <2>2, <2>3, RoundChoose DEF Leader, Acted
<1>5. CASE ~\A p \in Side : operation_collected'[p]
  <2>1. currentState' = currentState
    BY <1>5 DEF ChooseAccepted, Collect
  <2>2. Ready' # Side
    BY <1>5 DEF Ready
  <2>3. stageOfRound' = stageOfRound /\ ~Decided' /\ Skilled' = {}
    BY <1>1, <2>1 DEF stageOfRound, Decided, Skilled, FightStates, SelectionStates
  <2>. QED  BY <1>2, <1>3, <2>2, <2>3, RoundChoose DEF Leader, Acted
<1>. QED  BY <1>4, <1>5

LEMMA AfterDefeatedStep ==
  ASSUME AfterDefeated
  PROVE  Round!Next
<1>1. /\ currentState = "BATTLE_AFTER_DEFEATED"
      /\ currentState' \in {"BATTLE_AFTER_DEFEATING_OPPONENT", "CHOOSE_AFTER_DEATH"}
      /\ UNCHANGED operation_collected
  BY DEF AfterDefeated, AfterDeaths, Running, Successor
<1>2. Decided /\ ~Decided' /\ currentState' \notin FightStates
  BY <1>1, DecidedFlow
     DEF Decided, DecidedStates, FightStates, SelectionStates, ClosingStates
<1>3. stageOfRound = "fighting" /\ stageOfRound' \in {"replacing", "closing"}
  BY <1>1 DEF stageOfRound, ClosingStates
<1>4. Leader \in Side /\ Skilled' = {} /\ Leader' = NoSide /\ Acted' = {} /\ UNCHANGED Ready
  BY <1>1, <1>2, MoverType DEF Leader, Skilled, Acted, Ready
<1>. QED  BY <1>3, <1>4, RoundEndFight

LEMMA ReplaceDefeatedStep ==
  ASSUME NEW s \in Side, ReplaceDefeated(s)
  PROVE  Round!Next
<1>1. /\ currentState = "CHOOSE_AFTER_DEATH"
      /\ currentState' = "BATTLE_AFTER_DEFEATING_OPPONENT"
      /\ UNCHANGED operation_collected
  BY DEF ReplaceDefeated, Decoding, Running, Successor, collectVars
<1>2. currentState \notin FightStates /\ currentState' \notin FightStates
  BY <1>1 DEF FightStates, ClosingStates
<1>3. stageOfRound = "replacing" /\ stageOfRound' = "closing"
  BY <1>1 DEF stageOfRound, ClosingStates
<1>. QED
  BY <1>1, <1>2, <1>3, RoundReplace DEF Ready, Skilled, Leader, Acted, Decided

LEMMA RoundCompletionStep ==
  ASSUME RoundCompletion
  PROVE  Round!Next
<1>1. /\ currentState = "BATTLE_ROUND_COMPLETION"
      /\ currentState' = "OPERATION_CHOOSE_SKILL_MEDICAMENT"
      /\ operation_collected' = [s \in Side |-> FALSE]
  BY DEF RoundCompletion, NextRound, ResetCollection, Running
<1>2. currentState \notin FightStates /\ currentState' \notin FightStates
  BY <1>1 DEF FightStates, ClosingStates, SelectionStates
<1>3. stageOfRound = "closing" /\ stageOfRound' = "choosing" /\ Ready' = {}
  BY <1>1 DEF stageOfRound, ClosingStates, Ready
<1>. QED
  BY <1>1, <1>2, <1>3, RoundClose DEF Ready, Skilled, Leader, Acted, Decided

\* The states before the fight and after it.
LEMMA OutsideSteps ==
  ASSUME Opening \/ AfterDefeatingOpponent
  PROVE  [Round!Next]_(Round!vars)
<1>1. CASE BucketOnly("OPERATION_ENTER_EXIT_STAGE")
  <2>1. /\ currentState = "OPERATION_ENTER_EXIT_STAGE"
        /\ currentState' = "OPERATION_CHOOSE_SKILL_MEDICAMENT"
        /\ UNCHANGED operation_collected
    BY <1>1 DEF BucketOnly, Running, Successor, collectVars
  <2>2. currentState \notin FightStates /\ currentState' \notin FightStates
    BY <2>1 DEF FightStates, SelectionStates
  <2>3. stageOfRound = "opening" /\ stageOfRound' = "choosing"
    BY <2>1 DEF stageOfRound
  <2>. QED
    BY <2>1, <2>2, <2>3, RoundOpen DEF Ready, Skilled, Leader, Acted, Decided
<1>2. CASE BucketOnly("GAME_START") \/ AfterDefeatingOpponent
  <2>1. /\ \/ /\ currentState = "GAME_START"
              /\ currentState' = "OPERATION_ENTER_EXIT_STAGE"
           \/ /\ currentState = "BATTLE_AFTER_DEFEATING_OPPONENT"
              /\ currentState' = "BATTLE_ROUND_COMPLETION"
        /\ UNCHANGED operation_collected
    BY <1>2 DEF AfterDefeatingOpponent, BucketOnly, Running, Successor, collectVars
  <2>2. currentState \notin FightStates /\ currentState' \notin FightStates
    BY <2>1 DEF FightStates, SelectionStates, ClosingStates
  <2>3. UNCHANGED stageOfRound
    BY <2>1 DEF stageOfRound, ClosingStates
  <2>. QED  BY <2>1, <2>2, <2>3, OutsideStutter
<1>. QED  BY <1>1, <1>2 DEF Opening, OpeningStates

\* The steps between the choosing and the decision of the first mover.
LEMMA UndecidedSteps ==
  ASSUME TypeOK, SelectionInv, ProtectionMechanism1 \/ EnterStage \/ RoundStart
  PROVE  UNCHANGED Round!vars
<1>1. currentState \in UndecidedStates /\ currentState' \in UndecidedStates
  BY DEF ProtectionMechanism1, EnterStage, RoundStart, BucketOnly, Running, Successor,
         UndecidedStates
<1>2. UNCHANGED operation_collected
  BY DEF ProtectionMechanism1, EnterStage, RoundStart, BucketOnly, collectVars
<1>3. roundChoice' = roundChoice
  <2>1. CASE ProtectionMechanism1 \/ EnterStage
    BY <2>1 DEF ProtectionMechanism1, EnterStage, BucketOnly, choiceVars
  <2>2. CASE RoundStart
    <3>1. currentState \in FightStates
      BY <1>1 DEF UndecidedStates, FightStates, SelectionStates, ClosingStates, State,
                  Successor
    <3>. QED  BY <2>2, <3>1 DEF RoundStart, SelectionInv, TypeOK
  <2>. QED  BY <2>1, <2>2
<1>. QED  BY <1>1, <1>2, <1>3, UndecidedStutter

LEMMA UnchangedSteps ==
  ASSUME \/ Drain \/ Spin \/ UNCHANGED vars \/ ChooseUnknownPlayer
         \/ \E m \in Message : Submit(m)
         \/ \E s \in Side : ChooseRefused(s) \/ ReplaceRefused(s)
  PROVE  UNCHANGED Round!vars
<1>1. UNCHANGED <<currentState, operation_collected, resolution, preemptive_right>>
  BY DEF Drain, Spin, vars, ChooseUnknownPlayer, Submit, ChooseRefused, ReplaceRefused,
         collectVars, skillVars
<1>2. CASE currentState \in FightStates
  <2>1. UNCHANGED roundChoice
    BY <1>2 DEF Drain, Spin, vars, ChooseUnknownPlayer, Submit, ChooseRefused,
                ReplaceRefused, choiceVars, Decoding, Running, FightStates,
                SelectionStates
  <2>2. UNCHANGED <<stageOfRound, Ready, Skilled, Leader, Acted>>
    BY <1>1, <2>1, MoversKept DEF stageOfRound, Ready, Skilled, Leader, Acted, Decided
  <2>. QED  BY <2>2, RoundStutter
<1>3. CASE currentState \notin FightStates
  BY <1>1, <1>3, OutsideStutter DEF stageOfRound
<1>. QED  BY <1>2, <1>3

LEMMA RoundInit == Init => Round!Init
<1>. SUFFICES ASSUME Init PROVE Round!Init
  OBVIOUS
<1>1. stageOfRound = "opening" /\ Ready = {} /\ Skilled = {} /\ Leader = NoSide /\ Acted = {}
  BY DEF Init, stageOfRound, Ready, Skilled, Leader, Acted, Decided, FightStates,
         SelectionStates
<1>. QED
  BY <1>1 DEF Round!Init, Round!Undecided, NoSide, Ready, Skilled, Leader, Acted

LEMMA RoundNext ==
  ASSUME TypeOK, SelectionInv, PayInv, ActedInv, [Next]_vars
  PROVE  [Round!Next]_(Round!vars)
<1>1. CASE \/ Drain \/ Spin \/ UNCHANGED vars \/ ChooseUnknownPlayer
           \/ \E m \in Message : Submit(m)
           \/ \E s \in Side : ChooseRefused(s) \/ ReplaceRefused(s)
  BY <1>1, UnchangedSteps
<1>2. CASE Opening \/ AfterDefeatingOpponent
  BY <1>2, OutsideSteps
<1>3. CASE \E s \in Side : ChooseAccepted(s) \/ ReplaceDefeated(s)
  BY <1>3, ChooseAcceptedStep, ReplaceDefeatedStep
<1>4. CASE ProtectionMechanism1 \/ EnterStage \/ RoundStart
  BY <1>4, UndecidedSteps
<1>5. CASE FirstMoveRight \/ FirstOnSkillHit \/ SecondOnSkillHit
  BY <1>5, FirstMoveRightStep, ActSteps
<1>6. CASE \/ FirstActionStart \/ FirstBeforeSkillHit \/ FirstSkillEffect
           \/ FirstAttackDamage \/ FirstAfterAction \/ FirstEnd
           \/ SecondActionStart \/ SecondBeforeSkillHit \/ SecondSkillEffect
           \/ SecondAttackDamage \/ SecondAfterAction \/ SecondEnd
           \/ RoundEnd \/ FirstMoverDeath
  BY <1>6, ActionSteps
<1>7. CASE AfterDefeated \/ RoundCompletion
  BY <1>7, AfterDefeatedStep, RoundCompletionStep
<1>. QED
  BY <1>1, <1>2, <1>3, <1>4, <1>5, <1>6, <1>7 DEF Next, FsmStep

\* The machine keeps the promise of BattleRound to the players, in every round
\* of any battle: both sides choose before anyone acts, each acts at most once
\* and in the order decided, only with a skill it chose, and a replacement
\* comes between the actions and the next choice.
THEOREM ImplementsRoundCorrect == Spec => ImplementsRound
<1>1. Init => Round!Init /\ SelectionInv /\ PayInv /\ ActedInv
  <2>1. Init => ActedInv
    BY DEF Init, ActedInv, BeforeFirst, BeforeSecond, FirstPaying, FirstTail
  <2>. QED  BY <2>1, RoundInit, SelectionInvInit, PayInvInit
<1>2. TypeOK /\ SelectionInv /\ PayInv /\ ActedInv /\ [Next]_vars =>
        SelectionInv' /\ PayInv' /\ ActedInv' /\ [Round!Next]_(Round!vars)
  BY SelectionInvNext, PayInvNext, ActedInvNext, RoundNext
<1>. QED  BY <1>1, <1>2, TypeCorrect, PTL DEF Spec, ImplementsRound, Round!Spec

-----------------------------------------------------------------------------
(***************************************************************************)
(* Why the machine comes back to the players.  That it does is a liveness  *)
(* property, for the runs; what it rests on is safety: a step of the       *)
(* machine that does not spin uses up its input or brings it nearer to the *)
(* next selection, there is always a step to take unless it waits, and it  *)
(* spins for one of two reasons.                                           *)
(***************************************************************************)
InputStates == {"OPERATION_CHOOSE_SKILL_MEDICAMENT", "CHOOSE_AFTER_DEATH"}

\* How many states at most are ahead of the next selection.
Ahead == [
  GAME_START |-> 2, OPERATION_ENTER_EXIT_STAGE |-> 1, OPERATION_CHOOSE_SKILL_MEDICAMENT |-> 0,
  OPERATION_PROTECTION_MECHANISM_1 |-> 38, OPERATION_ENTER_STAGE |-> 37,
  BATTLE_ROUND_START |-> 36, BATTLE_FIRST_MOVE_RIGHT |-> 35, BATTLE_FIRST_ACTION_START |-> 34,
  BATTLE_FIRST_BEFORE_SKILL_HIT |-> 33, BATTLE_FIRST_ON_SKILL_HIT |-> 32,
  BATTLE_FIRST_SKILL_EFFECT |-> 31, BATTLE_FIRST_ATTACK_DAMAGE |-> 30,
  BATTLE_FIRST_AFTER_ACTION |-> 29, BATTLE_FIRST_ACTION_END |-> 28,
  BATTLE_FIRST_AFTER_ACTION_END |-> 27, BATTLE_FIRST_EXTRA_ACTION |-> 26,
  BATTLE_FIRST_MOVER_DEATH |-> 25, BATTLE_SECOND_ACTION_START |-> 24,
  BATTLE_SECOND_BEFORE_SKILL_HIT |-> 23, BATTLE_SECOND_ON_SKILL_HIT |-> 22,
  BATTLE_SECOND_SKILL_EFFECT |-> 21, BATTLE_SECOND_ATTACK_DAMAGE |-> 20,
  BATTLE_SECOND_AFTER_ACTION |-> 19, BATTLE_SECOND_ACTION_END |-> 18,
  BATTLE_SECOND_AFTER_ACTION_END |-> 17, BATTLE_SECOND_EXTRA_ACTION |-> 16,
  BATTLE_ROUND_END |-> 15, BATTLE_SECOND_MOVER_DEATH |-> 14, BATTLE_OLD_ROUND_END_1 |-> 13,
  BATTLE_ROUND_REDUCTION_ALL_ROUND_MINUS |-> 12, BATTLE_ROUND_REDUCTION_NEW_ROUND_END |-> 11,
  BATTLE_OLD_ROUND_END_2 |-> 10, BATTLE_DEATH_TIMING |-> 9, BATTLE_DEFEAT_STATUS |-> 8,
  BATTLE_OPPONENT_DEFEAT_STATUS |-> 7, BATTLE_NEW_DEFEAT_MECHANISM |-> 6,
  OPERATION_PROTECTION_MECHANISM_2 |-> 5, BATTLE_AFTER_DEFEATED |-> 4,
  CHOOSE_AFTER_DEATH |-> 3, BATTLE_AFTER_DEFEATING_OPPONENT |-> 2,
  BATTLE_ROUND_COMPLETION |-> 1, FINISHED |-> 0]

\* What the machine has left before it needs a player again: an input to read,
\* states to pass, events to deliver.
TurnLeft == <<IF is_empty THEN 0 ELSE 1, Ahead[currentState], IF events = <<>> THEN 0 ELSE 1>>

\* Three numbers, the earlier of more weight.
Three == [1 .. 3 -> Nat]
Fewer == LexProductOrdering(OpToRel(<, Nat), Nat, 3)

\* A step of the machine that does not spin leaves it less to do.  (run, and the
\* returns of the handlers.)
TurnShrinks == [][FsmStep => Spin \/ <<TurnLeft', TurnLeft>> \in Fewer]_vars

\* Unless it waits for a player the machine has a step to take: it delivers events,
\* runs the handler of a state that has one, or decodes an input.
TurnMayStep ==
  \/ NeedInput
  \/ events # <<>>
  \/ Running(currentState) /\ currentState \in State \ (InputStates \cup {"FINISHED"})
  \/ Spinning
  \/ \E s \in Side \cup {NoSide} : Decoding("OPERATION_CHOOSE_SKILL_MEDICAMENT", s)
  \/ \E s \in Side : Decoding("CHOOSE_AFTER_DEATH", s)

\* It spins only over an input too short to read, or because a pet whose death was
\* announced stands again.  (handle_ChooseAfterDeath, need_input.)
SpinsForAReason ==
  Spinning /\ is_empty => \E s \in Side : death_notified[s] /\ FieldHp[s] > 0

\* An input is where it is read, one that was read is gone, a replacement is asked
\* for after an announced death, and no battle is finished.
InputInv ==
  /\ currentState # "FINISHED"
  /\ ~is_empty => currentState \in InputStates
  /\ is_empty /\ currentState \notin SelectionStates => m_buffer = Short
  /\ currentState = "CHOOSE_AFTER_DEATH" =>
       /\ m_buffer = Short \/ m_buffer.who \in Side
       /\ \E s \in Side : death_notified[s]

\* A step from one handler to another that is nearer to the next selection.
Onward ==
  /\ UNCHANGED <<inputVars, noticeVars>>
  /\ currentState \notin InputStates
  /\ currentState' \in State \ {"CHOOSE_AFTER_DEATH", "FINISHED"}
  /\ currentState \in SelectionStates => currentState' \in SelectionStates
  /\ Ahead[currentState'] < Ahead[currentState]

\* The states that neither ask nor decide whether to ask.
Passing == DOMAIN Successor \ (InputStates \cup {"BATTLE_AFTER_DEFEATED"})

LEMMA AheadType == \A q \in State : Ahead[q] \in Nat
BY DEF Ahead, State, Successor

LEMMA AheadFlow ==
  \A q \in Passing :
    /\ Successor[q] \in State \ {"CHOOSE_AFTER_DEATH", "FINISHED"}
    /\ q \in SelectionStates => Successor[q] \in SelectionStates
    /\ Ahead[Successor[q]] < Ahead[q]
BY DEF Passing, InputStates, Successor, State, SelectionStates, Ahead

LEMMA PassingStates ==
  /\ OpeningStates \cup FirstTail \cup SecondTail \cup RoundEndStates \cup ActionStates
       \subseteq Passing
  /\ {"OPERATION_ENTER_STAGE", "BATTLE_AFTER_DEFEATING_OPPONENT",
      "OPERATION_PROTECTION_MECHANISM_1", "BATTLE_ROUND_START", "BATTLE_FIRST_MOVE_RIGHT"}
       \subseteq Passing
BY DEF OpeningStates, FirstTail, SecondTail, RoundEndStates, ActionStates, Passing,
       InputStates, Successor

LEMMA BucketOnlyOnward ==
  ASSUME NEW q \in Passing, BucketOnly(q) PROVE Onward
<1>1. q \notin InputStates
  BY DEF Passing
<1>. QED  BY <1>1, AheadFlow DEF BucketOnly, Running, Onward, collectVars

LEMMA ActionOnward ==
  ASSUME NEW q \in ActionStates, NEW i, NEW extra \in ExtraStates,
         Ahead[extra] < Ahead[q],
         \/ ActionStart(q, i, extra) \/ OnSkillHit(q, i) \/ SkillEffect(q, i)
         \/ AttackDamage(q, i) \/ AfterAction(q, i)
  PROVE  Onward
<1>1. currentState = q /\ (currentState' = Successor[q] \/ currentState' = extra)
  BY DEF ActionStart, OnSkillHit, SkillEffect, AttackDamage, AfterAction, Running
<1>2. UNCHANGED <<inputVars, noticeVars>>
  BY DEF ActionStart, OnSkillHit, SkillEffect, AttackDamage, AfterAction
<1>3. q \in Passing /\ q \notin InputStates /\ q \notin SelectionStates
  BY PassingStates, ActionFlow DEF Passing
<1>4. extra \in State \ {"CHOOSE_AFTER_DEATH", "FINISHED"}
  BY DEF ExtraStates, State, Successor
<1>. QED  BY <1>1, <1>2, <1>3, <1>4, AheadFlow DEF Onward

\* Every step of the machine that leaves its input alone and asks for none.
LEMMA OnwardSteps ==
  ASSUME FsmStep
  PROVE  \/ Drain \/ Spin \/ ChooseUnknownPlayer \/ AfterDefeated
         \/ \E s \in Side : \/ ChooseAccepted(s) \/ ChooseRefused(s)
                            \/ ReplaceDefeated(s) \/ ReplaceRefused(s)
         \/ Onward
<1>1. CASE Opening \/ EnterStage \/ RoundEnd \/ AfterDefeatingOpponent
  BY <1>1, BucketOnlyOnward, PassingStates
     DEF Opening, EnterStage, RoundEnd, AfterDefeatingOpponent
<1>2. CASE ProtectionMechanism1 \/ RoundStart \/ FirstMoveRight
  <2>1. /\ currentState \in Passing /\ currentState' = Successor[currentState]
        /\ UNCHANGED <<inputVars, noticeVars>>
    BY <1>2, PassingStates
       DEF ProtectionMechanism1, RoundStart, FirstMoveRight, Running
  <2>. QED  BY <2>1, AheadFlow DEF Onward, Passing
<1>3. CASE \/ FirstActionStart \/ FirstBeforeSkillHit \/ FirstOnSkillHit
           \/ FirstSkillEffect \/ FirstAttackDamage \/ FirstAfterAction \/ FirstEnd
  <2>1. CASE FirstBeforeSkillHit \/ FirstEnd
    BY <2>1, BucketOnlyOnward, PassingStates DEF FirstBeforeSkillHit, FirstEnd, ActionStates
  <2>2. CASE \/ FirstActionStart \/ FirstOnSkillHit \/ FirstSkillEffect
             \/ FirstAttackDamage \/ FirstAfterAction
    <3> DEFINE E == "BATTLE_FIRST_EXTRA_ACTION"
    <3>1. /\ E \in ExtraStates
          /\ \A q \in {"BATTLE_FIRST_ACTION_START", "BATTLE_FIRST_ON_SKILL_HIT",
                       "BATTLE_FIRST_SKILL_EFFECT", "BATTLE_FIRST_ATTACK_DAMAGE",
                       "BATTLE_FIRST_AFTER_ACTION"} :
               q \in ActionStates /\ Ahead[E] < Ahead[q]
      BY DEF ActionStates, ExtraStates, Ahead
    <3>. QED
      BY <2>2, <3>1, ActionOnward
         DEF FirstActionStart, FirstOnSkillHit, FirstSkillEffect, FirstAttackDamage,
             FirstAfterAction
  <2>. QED  BY <1>3, <2>1, <2>2
<1>4. CASE \/ SecondActionStart \/ SecondBeforeSkillHit \/ SecondOnSkillHit
           \/ SecondSkillEffect \/ SecondAttackDamage \/ SecondAfterAction \/ SecondEnd
  <2>1. CASE SecondBeforeSkillHit \/ SecondEnd
    BY <2>1, BucketOnlyOnward, PassingStates DEF SecondBeforeSkillHit, SecondEnd, ActionStates
  <2>2. CASE \/ SecondActionStart \/ SecondOnSkillHit \/ SecondSkillEffect
             \/ SecondAttackDamage \/ SecondAfterAction
    <3> DEFINE E == "BATTLE_SECOND_EXTRA_ACTION"
    <3>1. /\ E \in ExtraStates
          /\ \A q \in {"BATTLE_SECOND_ACTION_START", "BATTLE_SECOND_ON_SKILL_HIT",
                       "BATTLE_SECOND_SKILL_EFFECT", "BATTLE_SECOND_ATTACK_DAMAGE",
                       "BATTLE_SECOND_AFTER_ACTION"} :
               q \in ActionStates /\ Ahead[E] < Ahead[q]
      BY DEF ActionStates, ExtraStates, Ahead
    <3>. QED
      BY <2>2, <3>1, ActionOnward
         DEF SecondActionStart, SecondOnSkillHit, SecondSkillEffect, SecondAttackDamage,
             SecondAfterAction
  <2>. QED  BY <1>4, <2>1, <2>2
<1>5. CASE FirstMoverDeath
  <2>1. /\ currentState = "BATTLE_FIRST_MOVER_DEATH"
        /\ currentState' \in {"BATTLE_OLD_ROUND_END_1", "BATTLE_SECOND_ACTION_START"}
        /\ UNCHANGED <<inputVars, noticeVars>>
    BY <1>5 DEF FirstMoverDeath, Running
  <2>. QED  BY <2>1 DEF Onward, InputStates, SelectionStates, State, Successor, Ahead
<1>6. CASE RoundCompletion
  <2>1. /\ currentState = "BATTLE_ROUND_COMPLETION"
        /\ currentState' = "OPERATION_CHOOSE_SKILL_MEDICAMENT"
        /\ UNCHANGED <<inputVars, noticeVars>>
    BY <1>6 DEF RoundCompletion, NextRound, Running
  <2>. QED  BY <2>1 DEF Onward, InputStates, SelectionStates, State, Successor, Ahead
<1>. QED  BY <1>1, <1>2, <1>3, <1>4, <1>5, <1>6 DEF FsmStep

LEMMA InputInvInit == Init => InputInv
BY DEF Init, InputInv, SelectionStates

LEMMA InputInvNext ==
  ASSUME TypeOK, InputInv, [Next]_vars
  PROVE  InputInv'
<1>1. CASE Onward
  BY <1>1 DEF Onward, InputInv, inputVars, noticeVars
<1>2. CASE Drain \/ Spin \/ UNCHANGED vars
  <2>1. UNCHANGED <<currentState, m_buffer, is_empty, death_notified>>
    BY <1>2 DEF Drain, Spin, vars, inputVars, noticeVars
  <2>. QED  BY <2>1 DEF InputInv
<1>3. ASSUME NEW m \in Message, Submit(m) PROVE InputInv'
  BY <1>3 DEF Submit, NeedInput, InputInv, InputStates, noticeVars
<1>4. CASE ChooseUnknownPlayer
  BY <1>4 DEF ChooseUnknownPlayer, Decoding, Running, ConsumeInput, InputInv
<1>5. ASSUME NEW s \in Side, ChooseRefused(s) PROVE InputInv'
  BY <1>5 DEF ChooseRefused, Decoding, Running, ConsumeInput, InputInv
<1>6. ASSUME NEW s \in Side, ChooseAccepted(s) PROVE InputInv'
  <2>1. currentState' \in {"OPERATION_CHOOSE_SKILL_MEDICAMENT", "OPERATION_PROTECTION_MECHANISM_1"}
    BY <1>6 DEF ChooseAccepted, Decoding, Running, Collect, Successor
  <2>. QED  BY <1>6, <2>1 DEF ChooseAccepted, ConsumeInput, InputInv
<1>7. ASSUME NEW s \in Side, ReplaceRefused(s) PROVE InputInv'
  BY <1>7 DEF ReplaceRefused, Decoding, Running, ConsumeInput, InputInv, noticeVars
<1>8. ASSUME NEW s \in Side, ReplaceDefeated(s) PROVE InputInv'
  <2>1. currentState' = "BATTLE_AFTER_DEFEATING_OPPONENT"
    BY <1>8 DEF ReplaceDefeated, Decoding, Running, Successor
  <2>. QED  BY <1>8, <2>1 DEF ReplaceDefeated, ConsumeInput, InputInv
<1>9. CASE AfterDefeated
  <2>1. PICK f \in Reactions(currentState \in EffectStates) :
          LET dead == {s \in Side : f[s] = 0}
          IN /\ death_notified' = [s \in Side |-> death_notified[s] \/ s \in dead]
             /\ currentState' = AfterDeaths(dead)
    BY <1>9 DEF AfterDefeated
  <2> DEFINE dead == {s \in Side : f[s] = 0}
  <2>2. currentState = "BATTLE_AFTER_DEFEATED" /\ UNCHANGED inputVars
    BY <1>9 DEF AfterDefeated, Running
  <2>3. is_empty /\ m_buffer = Short
    BY <2>2 DEF InputInv, InputStates, SelectionStates
  <2>4. CASE dead = {}
    BY <2>1, <2>2, <2>3, <2>4 DEF AfterDeaths, InputInv, inputVars
  <2>5. CASE dead # {}
    <3>1. currentState' = "CHOOSE_AFTER_DEATH"
      BY <2>1, <2>5 DEF AfterDeaths, Successor
    <3>2. PICK s \in Side : s \in dead
      BY <2>5
    <3>3. death_notified'[s]
      BY <2>1, <3>2, Zenon
    <3>. QED  BY <2>2, <2>3, <3>1, <3>3 DEF InputInv, InputStates, inputVars
  <2>. QED  BY <2>4, <2>5
<1>. QED
  BY <1>1, <1>2, <1>3, <1>4, <1>5, <1>6, <1>7, <1>8, <1>9, OnwardSteps DEF Next

THEOREM InputInvariance == Spec => [](TypeOK /\ InputInv)
BY InputInvInit, InputInvNext, TypeCorrect, PTL DEF Spec

\* Three numbers cannot go down in this order for ever.
THEOREM FewerEnds == IsWellFoundedOn(Fewer, Three)
<1>1. IsWellFoundedOn(OpToRel(<, Nat), Nat)
  BY NatLessThanWellFounded
<1> DEFINE R == OpToRel(<, Nat)
<1>2. IsWellFoundedOn(R, Nat)
  BY <1>1
<1> HIDE DEF R
<1>3. IsWellFoundedOn(LexProductOrdering(R, Nat, 3), [1 .. 3 -> Nat])
  BY <1>2, WFLexProductOrdering
<1>. QED  BY <1>3 DEF R, Fewer, Three

\* Fewer of one number, and as much of those of more weight, is less.
LEMMA FewerOfOne ==
  ASSUME NEW x \in Three, NEW y \in Three, NEW j \in 1 .. 3,
         \A i \in 1 .. j - 1 : x[i] = y[i], x[j] < y[j]
  PROVE  <<x, y>> \in Fewer
<1>1. x[j] \in Nat /\ y[j] \in Nat
  BY DEF Three
<1>2. <<x[j], y[j]>> \in OpToRel(<, Nat)
  BY <1>1 DEF OpToRel
<1>. QED  BY <1>2 DEF Fewer, Three, LexProductOrdering

\* The three, each by itself.
TurnLeftIs ==
  /\ TurnLeft \in Three
  /\ TurnLeft[1] = IF is_empty THEN 0 ELSE 1
  /\ TurnLeft[2] = Ahead[currentState]
  /\ TurnLeft[3] = IF events = <<>> THEN 0 ELSE 1

LEMMA TurnLeftType == TypeOK => TurnLeftIs
<1>1. TypeOK => Ahead[currentState] \in Nat
  BY AheadType DEF TypeOK
<1>. QED  BY <1>1 DEF TurnLeft, TurnLeftIs, Three

\* One input read is less to do, whatever follows; so is a state passed with the
\* same input, and an event delivered in the same state.
LEMMA TurnGoesDown ==
  ASSUME TypeOK, TypeOK', InputInv, FsmStep, ~Spin
  PROVE  <<TurnLeft', TurnLeft>> \in Fewer
<1>1. TurnLeftIs /\ TurnLeftIs'
  BY TurnLeftType, PTL
<1>2. ASSUME ~is_empty, is_empty' PROVE <<TurnLeft', TurnLeft>> \in Fewer
  <2>1. TurnLeft'[1] < TurnLeft[1]
    BY <1>1, <1>2 DEF TurnLeftIs
  <2>. QED  BY <1>1, <2>1, FewerOfOne DEF TurnLeftIs
<1>3. ASSUME is_empty' = is_empty, Ahead[currentState'] < Ahead[currentState]
      PROVE  <<TurnLeft', TurnLeft>> \in Fewer
  <2>1. TurnLeft'[1] = TurnLeft[1] /\ TurnLeft'[2] < TurnLeft[2]
    BY <1>1, <1>3 DEF TurnLeftIs
  <2>. QED  BY <1>1, <2>1, FewerOfOne, \A i \in 1 .. 1 : i = 1 DEF TurnLeftIs
<1>4. CASE Drain
  <2>1. is_empty' = is_empty /\ currentState' = currentState /\ events # <<>> /\ events' = <<>>
    BY <1>4 DEF Drain, inputVars
  <2>2. /\ TurnLeft'[1] = TurnLeft[1] /\ TurnLeft'[2] = TurnLeft[2]
        /\ TurnLeft'[3] < TurnLeft[3]
    BY <1>1, <2>1 DEF TurnLeftIs
  <2>. QED  BY <1>1, <2>2, FewerOfOne, \A i \in 1 .. 2 : i = 1 \/ i = 2 DEF TurnLeftIs
<1>5. CASE Onward
  BY <1>3, <1>5 DEF Onward, inputVars
<1>6. CASE ChooseUnknownPlayer
  BY <1>2, <1>6 DEF ChooseUnknownPlayer, Decoding, Running, NeedInput, ConsumeInput
<1>7. ASSUME NEW s \in Side, ChooseAccepted(s) \/ ChooseRefused(s)
      PROVE  <<TurnLeft', TurnLeft>> \in Fewer
  BY <1>2, <1>7 DEF ChooseAccepted, ChooseRefused, Decoding, Running, NeedInput, ConsumeInput
<1>8. ASSUME NEW s \in Side, ReplaceDefeated(s) \/ ReplaceRefused(s)
      PROVE  <<TurnLeft', TurnLeft>> \in Fewer
  <2>1. currentState = "CHOOSE_AFTER_DEATH" /\ m_buffer # Short /\ is_empty'
    BY <1>8 DEF ReplaceDefeated, ReplaceRefused, Decoding, Running, ConsumeInput
  <2>2. ~is_empty
    BY <2>1 DEF InputInv, SelectionStates
  <2>. QED  BY <1>2, <2>1, <2>2
<1>9. CASE AfterDefeated
  <2>1. /\ currentState = "BATTLE_AFTER_DEFEATED"
        /\ currentState' \in {"BATTLE_AFTER_DEFEATING_OPPONENT", "CHOOSE_AFTER_DEATH"}
        /\ is_empty' = is_empty
    BY <1>9 DEF AfterDefeated, Running, AfterDeaths, Successor, inputVars
  <2>. QED  BY <1>3, <2>1 DEF Ahead
<1>. QED  BY <1>4, <1>5, <1>6, <1>7, <1>8, <1>9, OnwardSteps

\* A turn of the machine, from an input to the next question, goes down with every
\* step of the machine that does not spin (run and its handlers).
THEOREM TurnShrinksCorrect == Spec => TurnShrinks
<1>1. TypeOK /\ TypeOK' /\ InputInv /\ [Next]_vars =>
        (FsmStep => Spin \/ <<TurnLeft', TurnLeft>> \in Fewer)
  BY TurnGoesDown
<1>. QED  BY <1>1, InputInvariance, PTL DEF Spec, TurnShrinks

\* The machine waits for a player or has a step to take (runInternal).
THEOREM TurnMayStepCorrect == Spec => []TurnMayStep
<1>1. TypeOK /\ InputInv => TurnMayStep
  <2> SUFFICES ASSUME TypeOK, InputInv, ~NeedInput, events = <<>> PROVE TurnMayStep
    BY DEF TurnMayStep
  <2>1. Running(currentState) /\ currentState \in State \ {"FINISHED"}
    BY DEF Running, TypeOK, InputInv
  <2>2. CASE currentState \notin InputStates
    BY <2>1, <2>2 DEF TurnMayStep
  <2>3. CASE currentState \in InputStates /\ m_buffer = Short
    BY <2>1, <2>3 DEF TurnMayStep, Spinning, InputStates
  <2>4. CASE currentState = "OPERATION_CHOOSE_SKILL_MEDICAMENT" /\ m_buffer # Short
    <3>1. m_buffer.who \in Side \cup {NoSide}
      BY <2>4 DEF TypeOK, Message
    <3>. QED  BY <2>1, <2>4, <3>1 DEF TurnMayStep, Decoding
  <2>5. CASE currentState = "CHOOSE_AFTER_DEATH" /\ m_buffer # Short
    BY <2>1, <2>5 DEF TurnMayStep, Decoding, InputInv
  <2>. QED  BY <2>2, <2>3, <2>4, <2>5 DEF InputStates
<1>. QED  BY <1>1, InputInvariance, PTL

\* With an empty buffer the machine spins only because a pet whose death was
\* announced stands again (need_input against handle_ChooseAfterDeath).
THEOREM SpinsForAReasonCorrect == Spec => []SpinsForAReason
<1>1. TypeOK /\ InputInv => SpinsForAReason
  <2> SUFFICES ASSUME TypeOK, InputInv, Spinning, is_empty
               PROVE  \E s \in Side : death_notified[s] /\ FieldHp[s] > 0
    BY DEF SpinsForAReason
  <2>1. ~NeedInput
    BY DEF Spinning, Running
  <2>2. currentState = "CHOOSE_AFTER_DEATH"
    BY <2>1 DEF Spinning, NeedInput
  <2>3. \A s \in Side : FieldHp[s] # 0
    BY <2>1, <2>2 DEF NeedInput
  <2>4. PICK s \in Side : death_notified[s]
    BY <2>2 DEF InputInv
  <2>5. FieldHp[s] \in 0 .. MaxHp
    BY FieldType
  <2>. QED  BY <2>3, <2>4, <2>5, HpAssumption
<1>. QED  BY <1>1, InputInvariance, PTL

\* A battle that spins never does anything else again: nobody can answer it.
\* (run returns for need_input alone.)
SpinsForEver == [][~Spinning]_vars

\* No step but the spin is left to a machine that spins (run and its handlers).
THEOREM SpinsForEverCorrect == Spec => SpinsForEver
<1>1. ASSUME Spinning, Next PROVE UNCHANGED vars
  <2>1. /\ currentState \in InputStates /\ events = <<>> /\ ~NeedInput /\ m_buffer = Short
    BY <1>1 DEF Spinning, Running, InputStates
  <2>2. ~Onward /\ ~Drain /\ ~ChooseUnknownPlayer /\ ~AfterDefeated
    BY <2>1 DEF Onward, Drain, ChooseUnknownPlayer, Decoding, AfterDefeated, Running, InputStates
  <2>3. ASSUME NEW s \in Side
        PROVE  ~(ChooseAccepted(s) \/ ChooseRefused(s) \/ ReplaceDefeated(s) \/ ReplaceRefused(s))
    BY <2>1 DEF ChooseAccepted, ChooseRefused, ReplaceDefeated, ReplaceRefused, Decoding
  <2>4. ~ \E m \in Message : Submit(m)
    BY <2>1 DEF Submit
  <2>5. FsmStep
    BY <1>1, <2>4 DEF Next
  <2>6. Spin
    BY <2>2, <2>3, <2>5, OnwardSteps
  <2>. QED  BY <2>6 DEF Spin
<1>2. [Next]_vars => [~Spinning]_vars
  BY <1>1
<1>. QED  BY <1>2, PTL DEF Spec, SpinsForEver

=============================================================================
