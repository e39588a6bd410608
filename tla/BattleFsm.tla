----------------------------- MODULE BattleFsm -----------------------------
(***************************************************************************)
(* The battle state machine: BattleFsm::run over one BattleContext.        *)
(*                                                                         *)
(* A battle is driven by one thread at a time (run_mutex).  Each step      *)
(* below is one iteration of runInternal: the handler of currentState, all *)
(* the state it changes and the transition it takes, followed by Drain     *)
(* when the handler left events behind.  Nothing can come between the two: *)
(* every handler and Submit wait for an empty event queue.                 *)
(*                                                                         *)
(* Battle data is abstracted to what control depends on.  A pet is its     *)
(* remaining hp; what the effects of a timing point or of an event watcher *)
(* do to the two pets on stage is any new hp for them; how much damage an  *)
(* attack does, whether a pet is controlled or poisoned and whether a      *)
(* skill has power points left are choices of the step that reads them.    *)
(***************************************************************************)
EXTENDS Integers, Sequences

CONSTANTS
  Slot,          \* positions in a robot's team (6 in the code)
  FirstSlot,     \* the position that opens the battle (0 in the code)
  SkillSlot,     \* positions in a pet's skill list (5 in the code)
  Index,         \* the integers a request may carry as its argument
  MaxHp,         \* hp of a healthy pet
  UnlimitedPP,   \* <<side, slot, skill>> of the skills whose pp is -1
  EffectStates,  \* timing points at which some effect is registered
  WatchedEvents  \* event types some watcher reacts to

ASSUME TeamAssumption == FirstSlot \in Slot /\ Slot \subseteq Index
ASSUME SkillAssumption == SkillSlot \subseteq Index
ASSUME HpAssumption == MaxHp \in Nat \ {0}

Side == {0, 1}
NoSide == -1
Other(s) == 1 - s

(***************************************************************************)
(* kLinearStateOrder, as the successor of every state in it.  The last one *)
(* leads to BATTLE_ROUND_COMPLETION (generateState), which is not in the   *)
(* list and chooses its own successor, as FINISHED does.                   *)
(***************************************************************************)
Successor == [
  GAME_START |-> "OPERATION_ENTER_EXIT_STAGE",
  OPERATION_ENTER_EXIT_STAGE |-> "OPERATION_CHOOSE_SKILL_MEDICAMENT",
  OPERATION_CHOOSE_SKILL_MEDICAMENT |-> "OPERATION_PROTECTION_MECHANISM_1",
  OPERATION_PROTECTION_MECHANISM_1 |-> "OPERATION_ENTER_STAGE",
  OPERATION_ENTER_STAGE |-> "BATTLE_ROUND_START",
  BATTLE_ROUND_START |-> "BATTLE_FIRST_MOVE_RIGHT",
  BATTLE_FIRST_MOVE_RIGHT |-> "BATTLE_FIRST_ACTION_START",
  BATTLE_FIRST_ACTION_START |-> "BATTLE_FIRST_BEFORE_SKILL_HIT",
  BATTLE_FIRST_BEFORE_SKILL_HIT |-> "BATTLE_FIRST_ON_SKILL_HIT",
  BATTLE_FIRST_ON_SKILL_HIT |-> "BATTLE_FIRST_SKILL_EFFECT",
  BATTLE_FIRST_SKILL_EFFECT |-> "BATTLE_FIRST_ATTACK_DAMAGE",
  BATTLE_FIRST_ATTACK_DAMAGE |-> "BATTLE_FIRST_AFTER_ACTION",
  BATTLE_FIRST_AFTER_ACTION |-> "BATTLE_FIRST_ACTION_END",
  BATTLE_FIRST_ACTION_END |-> "BATTLE_FIRST_AFTER_ACTION_END",
  BATTLE_FIRST_AFTER_ACTION_END |-> "BATTLE_FIRST_EXTRA_ACTION",
  BATTLE_FIRST_EXTRA_ACTION |-> "BATTLE_FIRST_MOVER_DEATH",
  BATTLE_FIRST_MOVER_DEATH |-> "BATTLE_SECOND_ACTION_START",
  BATTLE_SECOND_ACTION_START |-> "BATTLE_SECOND_BEFORE_SKILL_HIT",
  BATTLE_SECOND_BEFORE_SKILL_HIT |-> "BATTLE_SECOND_ON_SKILL_HIT",
  BATTLE_SECOND_ON_SKILL_HIT |-> "BATTLE_SECOND_SKILL_EFFECT",
  BATTLE_SECOND_SKILL_EFFECT |-> "BATTLE_SECOND_ATTACK_DAMAGE",
  BATTLE_SECOND_ATTACK_DAMAGE |-> "BATTLE_SECOND_AFTER_ACTION",
  BATTLE_SECOND_AFTER_ACTION |-> "BATTLE_SECOND_ACTION_END",
  BATTLE_SECOND_ACTION_END |-> "BATTLE_SECOND_AFTER_ACTION_END",
  BATTLE_SECOND_AFTER_ACTION_END |-> "BATTLE_SECOND_EXTRA_ACTION",
  BATTLE_SECOND_EXTRA_ACTION |-> "BATTLE_ROUND_END",
  BATTLE_ROUND_END |-> "BATTLE_SECOND_MOVER_DEATH",
  BATTLE_SECOND_MOVER_DEATH |-> "BATTLE_OLD_ROUND_END_1",
  BATTLE_OLD_ROUND_END_1 |-> "BATTLE_ROUND_REDUCTION_ALL_ROUND_MINUS",
  BATTLE_ROUND_REDUCTION_ALL_ROUND_MINUS |-> "BATTLE_ROUND_REDUCTION_NEW_ROUND_END",
  BATTLE_ROUND_REDUCTION_NEW_ROUND_END |-> "BATTLE_OLD_ROUND_END_2",
  BATTLE_OLD_ROUND_END_2 |-> "BATTLE_DEATH_TIMING",
  BATTLE_DEATH_TIMING |-> "BATTLE_DEFEAT_STATUS",
  BATTLE_DEFEAT_STATUS |-> "BATTLE_OPPONENT_DEFEAT_STATUS",
  BATTLE_OPPONENT_DEFEAT_STATUS |-> "BATTLE_NEW_DEFEAT_MECHANISM",
  BATTLE_NEW_DEFEAT_MECHANISM |-> "OPERATION_PROTECTION_MECHANISM_2",
  OPERATION_PROTECTION_MECHANISM_2 |-> "BATTLE_AFTER_DEFEATED",
  BATTLE_AFTER_DEFEATED |-> "CHOOSE_AFTER_DEATH",
  CHOOSE_AFTER_DEATH |-> "BATTLE_AFTER_DEFEATING_OPPONENT",
  BATTLE_AFTER_DEFEATING_OPPONENT |-> "BATTLE_ROUND_COMPLETION"]

State == DOMAIN Successor \cup {"BATTLE_ROUND_COMPLETION", "FINISHED"}

\* Runs of states whose handler does nothing but execute its bucket.
OpeningStates == {"GAME_START", "OPERATION_ENTER_EXIT_STAGE"}
FirstTail == {"BATTLE_FIRST_ACTION_END", "BATTLE_FIRST_AFTER_ACTION_END",
              "BATTLE_FIRST_EXTRA_ACTION"}
SecondTail == {"BATTLE_SECOND_ACTION_END", "BATTLE_SECOND_AFTER_ACTION_END",
               "BATTLE_SECOND_EXTRA_ACTION"}
RoundEndStates ==
  {"BATTLE_ROUND_END", "BATTLE_SECOND_MOVER_DEATH", "BATTLE_OLD_ROUND_END_1",
   "BATTLE_ROUND_REDUCTION_ALL_ROUND_MINUS",
   "BATTLE_ROUND_REDUCTION_NEW_ROUND_END", "BATTLE_OLD_ROUND_END_2",
   "BATTLE_DEATH_TIMING", "BATTLE_DEFEAT_STATUS",
   "BATTLE_OPPONENT_DEFEAT_STATUS", "BATTLE_NEW_DEFEAT_MECHANISM",
   "OPERATION_PROTECTION_MECHANISM_2"}

\* ActionType, and roundChoice = (-1, -1), no choice, as a choice of its own.
ActionType == {"CHOOSE_PET", "SELECT_SKILL", "USE_MEDICINE", "NONE", "SEND_EMOJI"}
NoChoice == [kind |-> "NO_CHOICE", idx |-> FirstSlot]
Choice == [kind : {"CHOOSE_PET", "SELECT_SKILL", "USE_MEDICINE"}, idx : Index]
          \cup {NoChoice}

\* A message as the handlers decode it from m_buffer.  The kind and the
\* argument are integers of the client: NO_CHOICE is (-1, -1), and UNKNOWN any
\* other kind that is no ActionType.  Short stands for a buffer of at most
\* twelve bytes, the cleared buffer included.
Short == [who |-> NoSide, kind |-> "SHORT", idx |-> FirstSlot, cancel |-> FALSE]
Message == [who : Side \cup {NoSide}, kind : ActionType \cup {"NO_CHOICE", "UNKNOWN"},
            idx : Index, cancel : BOOLEAN] \cup {Short}

EventType == {"EVENT_HIT", "EVENT_SKILL_INVALID", "EVENT_TAKE_DAMAGE",
              "EVENT_ATTACK_BLOCKED", "EVENT_DEATH", "EVENT_ENTER_STAGE",
              "EVENT_SWAP"}

VARIABLES
  currentState,
  onStage,              \* side -> slot of its pet on stage
  hp,                   \* side -> slot -> remaining hp
  roundChoice,          \* side -> Choice
  operation_collected,  \* side -> has its operation been collected
  current_player_id,    \* the side the battle prompts
  m_buffer, is_empty,   \* the input buffer and its flag
  preemptive_right,     \* the side that moves first, NoSide for NONE
  resolution,           \* side -> outcome of its skill in this round
  pp_consumed,          \* side -> skill_pp_cost_consumed
  death_notified,       \* side -> EVENT_DEATH sent for its pet on stage
  events,               \* pending_ of the event center
  \* History, read by the properties only:
  agreed,               \* side -> the last operation the battle accepted
  chosenBy,             \* side -> slot on stage when roundChoice was stored
  notices               \* side -> EVENT_DEATHs since its pet came on stage

stageVars == <<onStage, hp>>
choiceVars == <<roundChoice, agreed, chosenBy>>
collectVars == <<operation_collected, current_player_id>>
inputVars == <<m_buffer, is_empty>>
skillVars == <<preemptive_right, resolution, pp_consumed>>
noticeVars == <<death_notified, notices>>
vars == <<currentState, stageVars, choiceVars, collectVars, inputVars,
          skillVars, noticeVars, events>>

TypeOK ==
  /\ currentState \in State
  /\ onStage \in [Side -> Slot]
  /\ hp \in [Side -> [Slot -> 0 .. MaxHp]]
  /\ roundChoice \in [Side -> Choice]
  /\ operation_collected \in [Side -> BOOLEAN]
  /\ current_player_id \in Side
  /\ m_buffer \in Message
  /\ is_empty \in BOOLEAN
  /\ preemptive_right \in Side \cup {NoSide}
  /\ resolution \in [Side -> {"NOT_READY", "HIT", "SKILL_INVALID"}]
  /\ pp_consumed \in [Side -> BOOLEAN]
  /\ death_notified \in [Side -> BOOLEAN]
  /\ events \in Seq([type : EventType, actor : Side, state : State])
  /\ agreed \in [Side -> Choice]
  /\ chosenBy \in [Side -> Slot]
  /\ notices \in [Side -> Nat]

-----------------------------------------------------------------------------
\* Waiting for the players.

FieldHp == [s \in Side |-> hp[s][onStage[s]]]

NeedInput ==
  /\ is_empty
  /\ \/ currentState = "OPERATION_CHOOSE_SKILL_MEDICAMENT"
     \/ /\ currentState = "CHOOSE_AFTER_DEATH"
        /\ \E s \in Side : FieldHp[s] = 0

\* runInternal reaches the handler of q.
Running(q) == currentState = q /\ events = <<>> /\ ~NeedInput

\* A handler that finds a buffer too short to decode returns without
\* clearing it and without leaving the state, so run() calls it again.
Spinning ==
  /\ currentState \in {"OPERATION_CHOOSE_SKILL_MEDICAMENT", "CHOOSE_AFTER_DEATH"}
  /\ Running(currentState)
  /\ m_buffer = Short

\* The control block fills the buffer of a battle that waits.  Of messages
\* that differ in integers their handler does not look at, one is enough:
\* the fourth integer matters to CHOOSE_AFTER_DEATH alone, a player outside
\* the battle to the refusal alone, and the argument only to a pet and a skill:
\* every medicine is stored and does the same here, NO_CHOICE is (-1, -1), and
\* the other kinds are refused.
\* CHOOSE_AFTER_DEATH does not check the player; the clients send 0 or 1.
Submit(m) ==
  /\ NeedInput /\ events = <<>>
  /\ IF currentState = "CHOOSE_AFTER_DEATH"
       THEN m = Short \/ m.who \in Side
       ELSE ~m.cancel /\ (m.who = NoSide => m.kind \in {"NONE", "SHORT"})
  /\ m.kind \notin {"CHOOSE_PET", "SELECT_SKILL"} => m.idx = FirstSlot
  /\ m_buffer' = m
  /\ is_empty' = FALSE
  /\ UNCHANGED <<currentState, stageVars, choiceVars, collectVars, skillVars,
                 noticeVars, events>>

ConsumeInput == m_buffer' = Short /\ is_empty' = TRUE

-----------------------------------------------------------------------------
\* Events, and what effects and watchers do to the pets on stage.

Event(type, s) == [type |-> type, actor |-> s, state |-> currentState]

When(b, e) == IF b THEN <<e>> ELSE <<>>

Minus(h, d) == IF h > d THEN h - d ELSE 0

Settle(f) == hp' = [s \in Side |-> [hp[s] EXCEPT ![onStage[s]] = f[s]]]

Reactions(active) == IF active THEN [Side -> 0 .. MaxHp] ELSE {FieldHp}

\* deal_damage emits EVENT_TAKE_DAMAGE for a living target.
Wounds(f) == When(f[0] < FieldHp[0], Event("EVENT_TAKE_DAMAGE", 0))
             \o When(f[1] < FieldHp[1], Event("EVENT_TAKE_DAMAGE", 1))

\* execute_registered_actions(-1, q) followed by nothing else.
Bucket(q, f) ==
  /\ f \in Reactions(q \in EffectStates)
  /\ Settle(f)
  /\ events' = Wounds(f)

Drain ==
  /\ events # <<>>
  /\ events' = <<>>
  /\ \E f \in Reactions(\E i \in 1 .. Len(events) : events[i].type \in WatchedEvents) :
       Settle(f)
  /\ UNCHANGED <<currentState, onStage, choiceVars, collectVars, inputVars,
                 skillVars, noticeVars>>

\* A handler that executes its bucket and calls generateState.
BucketOnly(q) ==
  /\ Running(q)
  /\ \E f \in [Side -> 0 .. MaxHp] : Bucket(q, f)
  /\ currentState' = Successor[q]
  /\ UNCHANGED <<onStage, choiceVars, collectVars, inputVars, skillVars,
                 noticeVars>>

\* perform_switch: a no-op for the pet on stage and for no slot of the team.
Switches(s, k) == k \in Slot /\ k # onStage[s]

Switch(s, k) ==
  IF Switches(s, k)
    THEN /\ onStage' = [onStage EXCEPT ![s] = k]
         /\ death_notified' = [death_notified EXCEPT ![s] = FALSE]
         /\ notices' = [notices EXCEPT ![s] = 0]
    ELSE UNCHANGED <<onStage, noticeVars>>

-----------------------------------------------------------------------------
\* OPERATION_CHOOSE_SKILL_MEDICAMENT: one decoded request per step.

Wanted == [kind |-> m_buffer.kind, idx |-> m_buffer.idx]

Decoding(q, s) == Running(q) /\ m_buffer # Short /\ m_buffer.who = s

\* Mutant: operation() does not look at the hp of the pet.
StoresAnyPet(s, usable) ==
  \/ m_buffer.kind = "SELECT_SKILL" /\ m_buffer.idx \in SkillSlot /\ usable
  \/ m_buffer.kind = "USE_MEDICINE"
  \/ m_buffer.kind = "CHOOSE_PET" /\ m_buffer.idx \in Slot

\* operation(): the requests it writes to roundChoice.
Stores(s, usable) ==
  \/ m_buffer.kind = "SELECT_SKILL" /\ m_buffer.idx \in SkillSlot /\ usable
  \/ m_buffer.kind = "USE_MEDICINE"
  \/ m_buffer.kind = "CHOOSE_PET" /\ m_buffer.idx \in Slot /\ hp[s][m_buffer.idx] > 0

Operation(s, usable) ==
  IF Stores(s, usable)
    THEN /\ roundChoice' = [roundChoice EXCEPT ![s] = Wanted]
         /\ chosenBy' = [chosenBy EXCEPT ![s] = onStage[s]]
    ELSE UNCHANGED <<roundChoice, chosenBy>>

\* use_medicine heals a living pet, before operation() stores the choice.
Medicate(s) ==
  IF m_buffer.kind = "USE_MEDICINE" /\ FieldHp[s] > 0
    THEN \E h \in FieldHp[s] .. MaxHp : Settle([FieldHp EXCEPT ![s] = h])
    ELSE hp' = hp

\* Mutant: query_selectable decides on its own.
SelectableOnItsOwn(s, usable) == BOOLEAN

\* query_selectable agrees with skill_usable except on a pp of -1, which it
\* calls locked.
Selectable(s, usable) ==
  IF usable /\ <<s, onStage[s], m_buffer.idx>> \in UnlimitedPP
    THEN BOOLEAN ELSE {usable}

\* Mutant: the argument of the request is not compared.
AcceptedByKind(s) == roundChoice'[s].kind = m_buffer.kind

\* "accepted" compares the stored choice with the request: with nothing stored
\* yet a request (-1, -1) passes, and is collected.
Accepted(s) == roundChoice'[s] = Wanted

\* Mutant: the side that has just chosen is prompted again.
PromptSame == current_player_id' = IF operation_collected'[0] THEN 0 ELSE 1
PromptOther == current_player_id' = IF operation_collected'[0] THEN 1 ELSE 0

Collect(s) ==
  /\ operation_collected' = [operation_collected EXCEPT ![s] = TRUE]
  /\ agreed' = [agreed EXCEPT ![s] = Wanted]
  /\ IF \A p \in Side : operation_collected'[p]
       THEN /\ currentState' = Successor[currentState]
            /\ UNCHANGED current_player_id
       ELSE PromptOther /\ UNCHANGED currentState

ChooseAccepted(s) ==
  /\ Decoding("OPERATION_CHOOSE_SKILL_MEDICAMENT", s)
  /\ ConsumeInput
  /\ \E usable \in BOOLEAN :
       /\ Operation(s, usable)
       /\ m_buffer.kind = "SELECT_SKILL" => TRUE \in Selectable(s, usable)
  /\ Accepted(s)
  /\ Medicate(s)
  /\ Collect(s)
  /\ IF m_buffer.kind = "CHOOSE_PET" /\ Switches(s, m_buffer.idx)
       THEN /\ Switch(s, m_buffer.idx)
            /\ events' = <<Event("EVENT_ENTER_STAGE", s), Event("EVENT_SWAP", s)>>
       ELSE UNCHANGED <<onStage, noticeVars, events>>
  /\ UNCHANGED skillVars

ChooseRefused(s) ==
  /\ Decoding("OPERATION_CHOOSE_SKILL_MEDICAMENT", s)
  /\ ConsumeInput
  /\ \E usable \in BOOLEAN :
       /\ Operation(s, usable)
       /\ \/ ~Accepted(s)
          \/ m_buffer.kind = "SELECT_SKILL" /\ FALSE \in Selectable(s, usable)
  /\ UNCHANGED <<currentState, stageVars, agreed, collectVars, skillVars,
                 noticeVars, events>>

ChooseUnknownPlayer ==
  /\ Decoding("OPERATION_CHOOSE_SKILL_MEDICAMENT", NoSide)
  /\ ConsumeInput
  /\ UNCHANGED <<currentState, stageVars, choiceVars, collectVars, skillVars,
                 noticeVars, events>>

\* Both input states return early on a short buffer, leaving it in place.
Spin == Spinning /\ UNCHANGED vars

-----------------------------------------------------------------------------
\* From the choices to the first action.

Opening == \E q \in OpeningStates : BucketOnly(q)

\* A dead pet on stage comes back with one hp.
ProtectionMechanism1 ==
  /\ Running("OPERATION_PROTECTION_MECHANISM_1")
  /\ \E f \in Reactions("OPERATION_PROTECTION_MECHANISM_1" \in EffectStates) :
       /\ Settle([s \in Side |-> IF f[s] = 0 THEN 1 ELSE f[s]])
       /\ events' = Wounds(f)
  /\ currentState' = Successor[currentState]
  /\ UNCHANGED <<onStage, choiceVars, collectVars, inputVars, skillVars,
                 noticeVars>>

EnterStage == BucketOnly("OPERATION_ENTER_STAGE")

\* resetWorkspace clears everything of the last round but the choices.
RoundStart ==
  /\ Running("BATTLE_ROUND_START")
  /\ \E f \in [Side -> 0 .. MaxHp] : Bucket(currentState, f)
  /\ preemptive_right' = NoSide
  /\ resolution' = [s \in Side |-> "NOT_READY"]
  /\ pp_consumed' = [s \in Side |-> FALSE]
  /\ roundChoice' = [s \in Side |-> IF operation_collected[s]
                                      THEN roundChoice[s] ELSE NoChoice]
  /\ currentState' = Successor[currentState]
  /\ UNCHANGED <<onStage, agreed, chosenBy, collectVars, inputVars, noticeVars>>

\* An effect may take the right to move first; otherwise medicine gives it
\* away, and between two skills levels, speed and rand() decide.
FirstMoveRight ==
  /\ Running("BATTLE_FIRST_MOVE_RIGHT")
  /\ \E f \in [Side -> 0 .. MaxHp] : Bucket(currentState, f)
  /\ LET medicated == {s \in Side : roundChoice[s].kind = "USE_MEDICINE"}
     IN preemptive_right' \in
          IF currentState \in EffectStates \/ medicated \in {{}, Side}
            THEN Side ELSE Side \ medicated
  /\ currentState' = Successor[currentState]
  /\ UNCHANGED <<onStage, choiceVars, collectVars, inputVars, resolution,
                 pp_consumed, noticeVars>>

-----------------------------------------------------------------------------
\* The action of one side.  The first and the second mover run the same
\* handlers in states of their own.

FirstMover == IF preemptive_right = 1 THEN 1 ELSE 0
SecondMover == Other(FirstMover)

\* Mutant: the kind of the choice is not looked at.
ActsUnchosen(i, left, controlled) == left > 0 /\ ~controlled
\* should_skip_action_flow: medicine and switching were applied when chosen.
Acts(i, left, controlled) ==
  roundChoice[i].kind = "SELECT_SKILL" /\ left > 0 /\ ~controlled

\* Damage over time is staged before the bucket, for a pet then alive, and
\* taken after it without an event.  A side that chose no skill, whose pet
\* is dead or controlled, goes to its extra action.
ActionStart(q, i, extra) ==
  /\ Running(q)
  /\ \E f \in [Side -> 0 .. MaxHp], dot \in 0 .. MaxHp, controlled \in BOOLEAN :
       LET left == IF FieldHp[i] > 0 THEN Minus(f[i], dot) ELSE f[i]
       IN /\ f \in Reactions(q \in EffectStates)
          /\ Settle([f EXCEPT ![i] = left])
          /\ events' = Wounds(f)
          /\ currentState' = IF Acts(i, left, controlled) THEN Successor[q] ELSE extra
  /\ UNCHANGED <<onStage, choiceVars, collectVars, inputVars, skillVars,
                 noticeVars>>

\* Skills::execute resolves to HIT or SKILL_INVALID and emits either event;
\* a skill that is invalid does not run the bucket of this state.
OnSkillHit(q, i) ==
  /\ Running(q)
  /\ \E r \in {"HIT", "SKILL_INVALID"} :
       /\ resolution' = [resolution EXCEPT ![i] = r]
       /\ \E f \in Reactions(r = "HIT" /\ q \in EffectStates) :
            /\ Settle(f)
            /\ events' = <<Event(IF r = "HIT" THEN "EVENT_HIT"
                                 ELSE "EVENT_SKILL_INVALID", i)>> \o Wounds(f)
  /\ currentState' = Successor[q]
  /\ UNCHANGED <<onStage, choiceVars, collectVars, inputVars,
                 preemptive_right, pp_consumed, noticeVars>>

\* registerSkillEffects holds for both outcomes of a resolved skill.
SkillEffect(q, i) ==
  /\ Running(q)
  /\ \E f \in Reactions(resolution[i] # "NOT_READY" /\ q \in EffectStates) :
       Settle(f) /\ events' = Wounds(f)
  /\ currentState' = Successor[q]
  /\ UNCHANGED <<onStage, choiceVars, collectVars, inputVars, skillVars,
                 noticeVars>>

\* Only a skill that hit runs the damage pipeline: its bucket, then either
\* a blocked attack or the damage of what the pipeline left of it.
AttackDamage(q, i) ==
  /\ Running(q)
  /\ IF resolution[i] # "HIT"
       THEN UNCHANGED <<hp, events>>
       ELSE \E f \in Reactions(q \in EffectStates), final \in 0 .. MaxHp :
              LET d == Other(i)
              IN /\ Settle([f EXCEPT ![d] = Minus(f[d], final)])
                 /\ events' = Wounds(f)
                      \o When(final = 0, Event("EVENT_ATTACK_BLOCKED", i))
                      \o When(final > 0 /\ f[d] > 0, Event("EVENT_TAKE_DAMAGE", d))
  /\ currentState' = Successor[q]
  /\ UNCHANGED <<onStage, choiceVars, collectVars, inputVars, skillVars,
                 noticeVars>>

\* Mutant: an invalid skill costs nothing.
PaysOnHit(i) == resolution[i] = "HIT" /\ roundChoice[i].kind = "SELECT_SKILL"
\* should_consume_skill_pp, once the cost of the round is not paid yet.
Pays(i) == resolution[i] # "NOT_READY" /\ roundChoice[i].kind = "SELECT_SKILL"

AfterAction(q, i) ==
  /\ Running(q)
  /\ \E f \in [Side -> 0 .. MaxHp] : Bucket(q, f)
  /\ pp_consumed' = [pp_consumed EXCEPT ![i] = @ \/ Pays(i)]
  /\ currentState' = Successor[q]
  /\ UNCHANGED <<onStage, choiceVars, collectVars, inputVars,
                 preemptive_right, resolution, noticeVars>>

FirstActionStart ==
  ActionStart("BATTLE_FIRST_ACTION_START", FirstMover, "BATTLE_FIRST_EXTRA_ACTION")
FirstBeforeSkillHit == BucketOnly("BATTLE_FIRST_BEFORE_SKILL_HIT")
FirstOnSkillHit == OnSkillHit("BATTLE_FIRST_ON_SKILL_HIT", FirstMover)
FirstSkillEffect == SkillEffect("BATTLE_FIRST_SKILL_EFFECT", FirstMover)
FirstAttackDamage == AttackDamage("BATTLE_FIRST_ATTACK_DAMAGE", FirstMover)
FirstAfterAction == AfterAction("BATTLE_FIRST_AFTER_ACTION", FirstMover)
FirstEnd == \E q \in FirstTail : BucketOnly(q)

\* A death on stage skips the second mover and the round end.
FirstMoverDeath ==
  /\ Running("BATTLE_FIRST_MOVER_DEATH")
  /\ \E f \in [Side -> 0 .. MaxHp] :
       /\ Bucket(currentState, f)
       /\ currentState' = IF \E s \in Side : f[s] = 0
                            THEN "BATTLE_OLD_ROUND_END_1"
                            ELSE "BATTLE_SECOND_ACTION_START"
  /\ UNCHANGED <<onStage, choiceVars, collectVars, inputVars, skillVars,
                 noticeVars>>

SecondActionStart ==
  ActionStart("BATTLE_SECOND_ACTION_START", SecondMover, "BATTLE_SECOND_EXTRA_ACTION")
SecondBeforeSkillHit == BucketOnly("BATTLE_SECOND_BEFORE_SKILL_HIT")
SecondOnSkillHit == OnSkillHit("BATTLE_SECOND_ON_SKILL_HIT", SecondMover)
SecondSkillEffect == SkillEffect("BATTLE_SECOND_SKILL_EFFECT", SecondMover)
SecondAttackDamage == AttackDamage("BATTLE_SECOND_ATTACK_DAMAGE", SecondMover)
SecondAfterAction == AfterAction("BATTLE_SECOND_AFTER_ACTION", SecondMover)
SecondEnd == \E q \in SecondTail : BucketOnly(q)

-----------------------------------------------------------------------------
\* The end of the round.

RoundEnd == \E q \in RoundEndStates : BucketOnly(q)

\* Mutant: the mark of an announced death is not looked at.
AnnouncesAgain(dead) == dead
Announces(dead) == {s \in dead : ~death_notified[s]}

AfterDeaths(dead) ==
  IF dead = {} THEN "BATTLE_AFTER_DEFEATING_OPPONENT"
               ELSE Successor["BATTLE_AFTER_DEFEATED"]

\* Deaths on stage are announced here, once per pet, and a replacement is
\* asked for when there is one.
AfterDefeated ==
  /\ Running("BATTLE_AFTER_DEFEATED")
  /\ \E f \in Reactions(currentState \in EffectStates) :
       LET dead == {s \in Side : f[s] = 0}
           fresh == Announces(dead)
       IN /\ Settle(f)
          /\ death_notified' = [s \in Side |-> death_notified[s] \/ s \in dead]
          /\ notices' = [s \in Side |-> IF s \in fresh THEN notices[s] + 1
                                        ELSE notices[s]]
          /\ events' = Wounds(f) \o When(0 \in fresh, Event("EVENT_DEATH", 0))
                                 \o When(1 \in fresh, Event("EVENT_DEATH", 1))
          /\ currentState' = AfterDeaths(dead)
          /\ current_player_id' = IF dead = {} THEN current_player_id
                                  ELSE IF 0 \in dead THEN 0 ELSE 1
  /\ UNCHANGED <<onStage, choiceVars, operation_collected, inputVars, skillVars>>

\* The replacement: operation() may refuse the pet, perform_switch does not
\* ask it.
ReplaceDefeated(s) ==
  /\ Decoding("CHOOSE_AFTER_DEATH", s)
  /\ m_buffer.kind = "CHOOSE_PET" /\ ~m_buffer.cancel
  /\ ConsumeInput
  /\ Operation(s, FALSE)
  /\ Switch(s, m_buffer.idx)
  /\ events' = When(Switches(s, m_buffer.idx), Event("EVENT_ENTER_STAGE", s))
  /\ currentState' = Successor[currentState]
  /\ UNCHANGED <<hp, agreed, collectVars, skillVars>>

ReplaceRefused(s) ==
  /\ Decoding("CHOOSE_AFTER_DEATH", s)
  /\ m_buffer.kind # "CHOOSE_PET" \/ m_buffer.cancel
  /\ ConsumeInput
  /\ UNCHANGED <<currentState, stageVars, choiceVars, collectVars, skillVars,
                 noticeVars, events>>

AfterDefeatingOpponent == BucketOnly("BATTLE_AFTER_DEFEATING_OPPONENT")

\* Mutant: the next round goes straight into its fight.
NextRoundFights == "BATTLE_ROUND_START"
NextRound == "OPERATION_CHOOSE_SKILL_MEDICAMENT"

ResetCollection == operation_collected' = [s \in Side |-> FALSE]

RoundCompletion ==
  /\ Running("BATTLE_ROUND_COMPLETION")
  /\ \E f \in [Side -> 0 .. MaxHp] : Bucket(currentState, f)
  /\ ResetCollection
  /\ roundChoice' = [s \in Side |-> NoChoice]
  /\ agreed' = [s \in Side |-> NoChoice]
  /\ current_player_id' = 0
  /\ currentState' = NextRound
  /\ UNCHANGED <<onStage, chosenBy, inputVars, skillVars, noticeVars>>

-----------------------------------------------------------------------------
\* A battle starts with its first pet alive; a slot at zero hp is empty.
\* m_buffer is 1024 zero bytes, which decode as a CHOOSE_PET of side 0.
Init ==
  /\ currentState = "GAME_START"
  /\ onStage = [s \in Side |-> FirstSlot]
  /\ hp \in [Side -> [Slot -> {0, MaxHp}]]
  /\ \A s \in Side : hp[s][FirstSlot] = MaxHp
  /\ roundChoice = [s \in Side |-> NoChoice]
  /\ agreed = [s \in Side |-> NoChoice]
  /\ chosenBy = [s \in Side |-> FirstSlot]
  /\ operation_collected = [s \in Side |-> FALSE]
  /\ current_player_id = 0
  /\ m_buffer = [who |-> 0, kind |-> "CHOOSE_PET", idx |-> FirstSlot, cancel |-> FALSE]
  /\ is_empty = TRUE
  /\ preemptive_right = NoSide
  /\ resolution = [s \in Side |-> "NOT_READY"]
  /\ pp_consumed = [s \in Side |-> FALSE]
  /\ death_notified = [s \in Side |-> FALSE]
  /\ notices = [s \in Side |-> 0]
  /\ events = <<>>

FsmStep ==
  \/ Drain \/ Spin
  \/ Opening
  \/ \E s \in Side : ChooseAccepted(s) \/ ChooseRefused(s)
  \/ ChooseUnknownPlayer
  \/ ProtectionMechanism1 \/ EnterStage \/ RoundStart \/ FirstMoveRight
  \/ FirstActionStart \/ FirstBeforeSkillHit \/ FirstOnSkillHit
  \/ FirstSkillEffect \/ FirstAttackDamage \/ FirstAfterAction \/ FirstEnd
  \/ FirstMoverDeath
  \/ SecondActionStart \/ SecondBeforeSkillHit \/ SecondOnSkillHit
  \/ SecondSkillEffect \/ SecondAttackDamage \/ SecondAfterAction \/ SecondEnd
  \/ RoundEnd \/ AfterDefeated
  \/ \E s \in Side : ReplaceDefeated(s) \/ ReplaceRefused(s)
  \/ AfterDefeatingOpponent \/ RoundCompletion

Next == FsmStep \/ \E m \in Message : Submit(m)

Spec == Init /\ [][Next]_vars

\* run() loops until it has to wait, so the machine keeps stepping; the
\* players owe the battle nothing.
FairSpec == Spec /\ WF_vars(FsmStep)

-----------------------------------------------------------------------------
\* Parts of the round the properties speak of.

SelectionStates == {"GAME_START", "OPERATION_ENTER_EXIT_STAGE",
                    "OPERATION_CHOOSE_SKILL_MEDICAMENT"}
ClosingStates == {"BATTLE_AFTER_DEFEATING_OPPONENT", "BATTLE_ROUND_COMPLETION"}
FightStates == State \ (SelectionStates \cup ClosingStates
                          \cup {"CHOOSE_AFTER_DEATH", "FINISHED"})
\* Before the round has a first mover, and while a mover's skill has been
\* resolved and not paid for yet.
UndecidedStates == {"OPERATION_PROTECTION_MECHANISM_1", "OPERATION_ENTER_STAGE",
                    "BATTLE_ROUND_START", "BATTLE_FIRST_MOVE_RIGHT"}
PayingStates == {"BATTLE_FIRST_SKILL_EFFECT", "BATTLE_FIRST_ATTACK_DAMAGE",
                 "BATTLE_FIRST_AFTER_ACTION", "BATTLE_SECOND_SKILL_EFFECT",
                 "BATTLE_SECOND_ATTACK_DAMAGE", "BATTLE_SECOND_AFTER_ACTION"}

(***************************************************************************)
(* Safety                                                                  *)
(***************************************************************************)

\* A round is fought with one collected operation of each side: no path
\* from a past round, a resubmission or a refusal leads into the fight with
\* an operation missing or left over.  A side fights without a choice only
\* if its accepted operation was the empty request (-1, -1); a choice it had
\* made is never lost.  (battleFsm.cpp:784, :913-915, :944.)
BothSidesAnswered ==
  currentState \in FightStates =>
    \A s \in Side :
      /\ operation_collected[s]
      /\ roundChoice[s] = NoChoice => agreed[s] = NoChoice

\* The skill a pet will execute was checked for that pet, and a side that
\* chose a pet fights with it: switching and resubmitting in one selection
\* never leaves the skill of one pet to another.
ChoiceMatchesStage ==
  currentState \in FightStates \cup {"OPERATION_CHOOSE_SKILL_MEDICAMENT"} =>
    \A s \in Side :
      /\ roundChoice[s].kind = "SELECT_SKILL" => chosenBy[s] = onStage[s]
      /\ roundChoice[s].kind = "CHOOSE_PET" => roundChoice[s].idx = onStage[s]

\* The battle fights with the operations it accepted; what it asked a
\* player to resubmit leaves no trace.
FightsAsAgreed ==
  currentState \in FightStates => \A s \in Side : roundChoice[s] = agreed[s]

\* While the operations are collected the battle prompts a side it still
\* waits for.
PromptsAPendingSide ==
  NeedInput /\ currentState = "OPERATION_CHOOSE_SKILL_MEDICAMENT" =>
    ~operation_collected[current_player_id]

\* A pet's death is announced at most once while it is on stage, though the
\* battle passes BATTLE_AFTER_DEFEATED with the same dead pet again.
DeathNoticeOnce == \A s \in Side : notices[s] <= 1

\* A skill resolved in a round is paid for once its action is over, and
\* none is paid for that was not resolved, whichever states were skipped.
ResolvedSkillsArePaid ==
  currentState \notin PayingStates =>
    \A s \in Side : pp_consumed[s] = (resolution[s] # "NOT_READY")

(***************************************************************************)
(* What a step may never do                                                *)
(***************************************************************************)

\* Choosing an operation never sends a dead pet on stage, though a request
\* equal to an old choice passes for accepted without being checked.
SelectionSwitchesToTheLiving ==
  [][currentState = "OPERATION_CHOOSE_SKILL_MEDICAMENT" =>
       \A s \in Side :
         onStage'[s] # onStage[s] => hp[s][onStage'[s]] > 0]_vars

(***************************************************************************)
(* Liveness                                                                *)
(***************************************************************************)

\* The machine always comes back to the players, unless it spins: over an input
\* too short to read or, with its buffer empty, because a pet whose death was
\* announced stands again.  (run, runInternal and the returns of the handlers.)
ComesBackToThePlayers ==
  []<>(NeedInput \/ (Spinning /\ (is_empty =>
          \E s \in Side : death_notified[s] /\ FieldHp[s] > 0)))

(***************************************************************************)
(* The round the players see, in BattleRound.                              *)
(***************************************************************************)
stageOfRound ==
  IF currentState \in {"GAME_START", "OPERATION_ENTER_EXIT_STAGE"} THEN "opening"
  ELSE IF currentState = "OPERATION_CHOOSE_SKILL_MEDICAMENT" THEN "choosing"
  ELSE IF currentState = "CHOOSE_AFTER_DEATH" THEN "replacing"
  ELSE IF currentState \in ClosingStates THEN "closing"
  ELSE "fighting"

Decided == currentState \in FightStates \ UndecidedStates

Round == INSTANCE BattleRound WITH
  stage <- stageOfRound,
  ready <- {s \in Side : operation_collected[s]},
  skilled <- IF currentState \in FightStates
               THEN {s \in Side : roundChoice[s].kind = "SELECT_SKILL"} ELSE {},
  first <- IF Decided THEN FirstMover ELSE NoSide,
  acted <- IF Decided THEN {s \in Side : resolution[s] # "NOT_READY"} ELSE {}

\* Each round of the machine is a round as BattleRound promises it.
ImplementsRound == Round!Spec
=============================================================================
