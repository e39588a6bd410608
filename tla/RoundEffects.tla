---------------------------- MODULE RoundEffects ----------------------------
(***************************************************************************)
(* The continuous effects of one side through the rounds of a battle: how  *)
(* skills and plugins register them, how the handlers of the timing points *)
(* execute them, and what ends them: their rounds, a switch of pets, or    *)
(* break_round_effects.  The two sides share no state of these, so one is  *)
(* modelled; what the other does to it is Break.                           *)
(*                                                                         *)
(* A round is cut to five timing points.  CHOOSE stands for the selection  *)
(* (pets are switched, skills register their selection effects), ACTION    *)
(* for the timing points of the two moves, COMPLETION for all those after  *)
(* the reduction of rounds, replacement of the dead included.  A handler   *)
(* first walks the effects of its timing point (stages pending, soul and   *)
(* skill), one effect per step, because the function of an effect may      *)
(* register and break effects itself.                                      *)
(***************************************************************************)
EXTENDS TimedBucket

CONSTANTS
  Sources,      \* keys of effects with a source: skills and soul marks
  Rounds,       \* duration_rounds the effects of skills may have
  States,       \* timing points the nodes of skills register effects for
  Ttls,         \* ttl_rounds of pending triggers; none are registered if empty
  Plugins,      \* effects plugins register: [container, trigger, key, duration_rounds, scope]
  Grants,       \* TRUE if grant_guaranteed_first is called
  Races,        \* TRUE if battles run on other threads of the process
  RuleTypes,    \* whether the rule center holds round rules when a break comes
  MaxRound, MaxBreaks, MaxEffects

ASSUME RoundsAssumption == Rounds \subseteq (Nat \ {0}) \cup {-1}

\* Each trigger that is kept registers one more effect in every round.
MaxSerial == MaxEffects * (MaxRound + 2) + 1

ASSUME SourcesAssumption == Sources \subseteq {k \in Nat : k > MaxSerial}
ASSUME BoundsAssumption == MaxRound \in Nat /\ MaxBreaks \in Nat /\ MaxEffects \in Nat

Timing == {"CHOOSE", "MOVE_RIGHT", "ACTION", "ALL_ROUND_MINUS", "COMPLETION"}
Order == <<"CHOOSE", "MOVE_RIGHT", "ACTION", "ALL_ROUND_MINUS", "COMPLETION">>
Follows(t) == CHOOSE u \in Timing : \E i \in 1 .. 4 : t = Order[i] /\ u = Order[i + 1]
Container == {"soul", "skill"}
NoKey == 0      \* plugins: an effect without a source

ASSUME PluginsAssumption ==
  Plugins \subseteq [container : Container, trigger : Timing, key : {NoKey} \cup Sources,
                     duration_rounds : Int, scope : Scope]
ASSUME TtlsAssumption == Ttls \subseteq Int
ASSUME StatesAssumption == States \subseteq Timing \ {"CHOOSE"}
ASSUME FlagsAssumption == Grants \in BOOLEAN /\ Races \in BOOLEAN /\ RuleTypes \subseteq BOOLEAN

VARIABLES
  buckets,          \* soul_mark_effects and skills_effects
  pending_effects,  \* the FutureTriggers that have not been consumed
  round_effect_valid_id,
  roundCount,
  currentState,     \* a timing point, or FINISHED
  second,           \* is_second_mover, settled at MOVE_RIGHT
  stage,            \* how far the handler is
  cursor,           \* the last key (or pending trigger) the walk has visited
  once_keys,        \* once effects this walk has called
  running,          \* uid of the effect whose function is running, or 0
  counter,          \* the static counter of timed_effect_key, one for all battles
  serial,           \* history: numbers the registrations
  doomed,           \* history: registrations that a break or a switch invalidated
  ranNow,           \* history: registrations that have run in this round
  spent,            \* history: once registrations that have run
  began             \* history: serial when this walk began

walk == <<stage, cursor, once_keys, running, began>>
numbers == <<counter, serial>>
history == <<doomed, ranNow, spent>>
vars == <<buckets, pending_effects, round_effect_valid_id, roundCount, currentState,
          second, walk, numbers, history>>

Pending ==
  [observe : Timing, trigger : Timing, ttl_rounds : Int, registered_round : Int,
   consume : BOOLEAN, duration_rounds : Rounds, start_round : Int, uid : Nat]

TypeOK ==
  /\ buckets \in [Container -> Bucket(Timing)]
  /\ pending_effects \subseteq Pending
  /\ round_effect_valid_id \in Nat \ {0}
  /\ roundCount \in Nat
  /\ currentState \in Timing \cup {"FINISHED"}
  /\ second \in BOOLEAN
  /\ stage \in {"before", "pending", "soul", "skill", "after"}
  /\ cursor \in Nat
  /\ once_keys \subseteq Nat
  /\ running \in Nat
  /\ counter \in Nat \ {0} /\ serial \in Nat \ {0}
  /\ doomed \subseteq Nat /\ ranNow \subseteq Nat /\ spent \subseteq Nat
  /\ began \in Nat

Init ==
  /\ buckets = [c \in Container |-> EmptyBucket]
  /\ pending_effects = {}
  /\ round_effect_valid_id = 1
  /\ roundCount = 0
  /\ currentState = "CHOOSE"
  /\ second = FALSE
  /\ stage = "after"
  /\ cursor = 0 /\ once_keys = {} /\ running = 0 /\ began = 1
  /\ counter = 1 /\ serial = 1
  /\ doomed = {} /\ ranNow = {} /\ spent = {}

(***************************************************************************)
(* Registration.                                                           *)
(***************************************************************************)

Outside == stage \in {"before", "after"}   \* a handler's own code, or the other side's

Active ==
  /\ currentState # "FINISHED"
  /\ Outside \/ running # 0

\* An effect that replaces the one whose function is running would free it.
Replaceable(c, t, k) == ~(running # 0 /\ stage = c /\ currentState = t /\ cursor = k)

NewEffect(t, k, duration, start, scope, once) ==
  [trigger |-> t, key |-> k, duration_rounds |-> duration, registered_round |-> start,
   valid_id |-> 0, scope |-> scope, once |-> once, uid |-> serial]

\* The counter after the key of an effect was taken: one without a source takes one.
timed_effect_key(e) == IF e.key \in Sources THEN counter ELSE counter + 1

Register(c, e) ==
  /\ Replaceable(c, e.trigger, e.key)
  /\ buckets' = [buckets EXCEPT ![c] = register_effect(@, e, round_effect_valid_id)]
  /\ counter' = timed_effect_key(e)
  /\ serial' = serial + 1

RegisterOnly(c, e) ==
  /\ serial <= MaxEffects
  /\ Register(c, e)
  /\ UNCHANGED <<pending_effects, round_effect_valid_id, roundCount, currentState,
                 second, walk, history>>

\* Skills::on_selected: the selection effects of a skill a side has chosen.
on_selected ==
  /\ currentState = "CHOOSE"
  /\ \E k \in Sources, n \in Rounds :
       RegisterOnly("skill", NewEffect("MOVE_RIGHT", k, n, roundCount, "ON_STAGE", FALSE))

\* Skills::register_branch, for a node without a pending trigger.
register_branch ==
  /\ currentState = "ACTION" /\ Outside
  /\ \E t \in States, n \in Rounds :
       RegisterOnly("skill", NewEffect(t, counter, n, roundCount, "ON_STAGE", FALSE))

\* "In N rounds": one that moves second starts in the next round.
round_effect_start_round(n) ==
  IF n >= 2 /\ second THEN roundCount + 1 ELSE roundCount

\* Skills::register_branch, for a node with a pending trigger.
registerPendingEffect ==
  /\ currentState = "ACTION" /\ Outside
  /\ serial <= MaxEffects
  /\ \E o \in States, t \in States, n \in Rounds, ttl \in Ttls,
        c \in BOOLEAN :
       pending_effects' = pending_effects \cup
         {[observe |-> o, trigger |-> t, ttl_rounds |-> ttl, registered_round |-> roundCount,
           consume |-> c, duration_rounds |-> n, start_round |-> round_effect_start_round(n),
           uid |-> serial]}
  /\ serial' = serial + 1
  /\ UNCHANGED <<buckets, round_effect_valid_id, roundCount, currentState, second, walk, counter,
                 history>>

grant_guaranteed_first ==
  /\ Active /\ Grants
  /\ RegisterOnly("skill", NewEffect("MOVE_RIGHT", counter, 2, roundCount, "ON_STAGE", TRUE))

\* register_skill_effect and register_soulmark_effect, called by a plugin.  What
\* lasts "the next N rounds" starts in the next one, whoever moves first.
PluginRegister ==
  /\ Active
  /\ \E p \in Plugins, start \in {roundCount, roundCount + 1} :
       RegisterOnly(p.container,
         NewEffect(p.trigger, IF p.key = NoKey THEN counter ELSE p.key, p.duration_rounds,
                   start, p.scope, FALSE))

\* The counter is incremented without a lock: a battle on another thread writes
\* back the successor of a value it has read before.
Race ==
  /\ Races
  /\ \E n \in 1 .. counter - 1 : counter' = n + 1
  /\ UNCHANGED <<buckets, pending_effects, round_effect_valid_id, roundCount, currentState,
                 second, walk, serial, history>>

(***************************************************************************)
(* Invalidation.                                                           *)
(***************************************************************************)

Registered == UNION {buckets[c].effects : c \in Container}

Invalidate ==
  /\ round_effect_valid_id <= MaxBreaks
  /\ round_effect_valid_id' = round_effect_valid_id + 1
  /\ buckets' = [c \in Container |-> reset_round_count(buckets[c])]
  /\ doomed' = doomed \cup {e.uid : e \in {o \in Registered : o.scope = "ON_STAGE"}}
  /\ UNCHANGED <<pending_effects, roundCount, currentState, second, walk, numbers, ranNow, spent>>

has_round_effects == \E c \in Container : buckets[c].active_round_count > 0

\* break_round_effects when it succeeds; otherwise it changes nothing here.
break_round_effects(rules) ==
  /\ Active
  /\ has_round_effects \/ rules
  /\ Invalidate

\* perform_switch, at the selection or replacing a dead pet.
invalidate_on_stage_effects ==
  /\ \/ currentState = "CHOOSE"
     \/ currentState = "COMPLETION" /\ stage = "before"
  /\ Invalidate

(***************************************************************************)
(* Execution.                                                              *)
(***************************************************************************)

\* execute_registered_actions begins with the pending triggers.
Execute ==
  /\ currentState # "FINISHED" /\ stage = "before"
  /\ stage' = "pending"
  /\ cursor' = 0 /\ began' = serial
  /\ UNCHANGED <<buckets, pending_effects, round_effect_valid_id, roundCount, currentState,
                 second, once_keys, running, numbers, history>>

DueTriggers == {p \in pending_effects : p.observe = currentState /\ p.uid > cursor}

TtlOver(p) == p.ttl_rounds >= 0 /\ roundCount - p.registered_round >= p.ttl_rounds

\* One turn of the loop of execute_pending_bucket_actions.
VisitTrigger ==
  /\ stage = "pending"
  /\ \E p \in DueTriggers :
       /\ \A q \in DueTriggers : p.uid <= q.uid
       /\ cursor' = p.uid
       /\ pending_effects' =
            IF TtlOver(p) \/ p.consume THEN pending_effects \ {p} ELSE pending_effects
       /\ IF TtlOver(p)
          THEN UNCHANGED <<buckets, numbers>>
          ELSE Register("skill", NewEffect(p.trigger, counter, p.duration_rounds,
                                           p.start_round, "ON_STAGE", FALSE))
  /\ UNCHANGED <<round_effect_valid_id, roundCount, currentState, second, stage, once_keys,
                 running, began, history>>

EndTriggers ==
  /\ stage = "pending" /\ DueTriggers = {}
  /\ stage' = "soul"
  /\ cursor' = 0 /\ once_keys' = {}
  /\ UNCHANGED <<buckets, pending_effects, round_effect_valid_id, roundCount, currentState,
                 second, running, began, numbers, history>>

\* The effect the loop of execute_at comes to.
Reaches(c, e) ==
  LET keys == KeysAfter(buckets[c], currentState, cursor) IN
  /\ e.trigger = currentState /\ e.key \in keys
  /\ \A k \in keys : e.key <= k

\* Mutant: only expiry is looked at.
VisitInvalidated(c) ==
  /\ stage = c
  /\ \E e \in buckets[c].effects :
       /\ Reaches(c, e)
       /\ cursor' = e.key
       /\ running' = IF isExpired(e, roundCount) THEN 0 ELSE e.uid
  /\ UNCHANGED <<buckets, pending_effects, round_effect_valid_id, roundCount, currentState,
                 second, stage, once_keys, began, numbers, history>>

\* One turn of the loop of TimedBucket::execute_at.
Visit(c) ==
  /\ stage = c
  /\ \E e \in buckets[c].effects :
       /\ Reaches(c, e)
       /\ cursor' = e.key
       /\ IF Runs(e, roundCount, round_effect_valid_id)
          THEN /\ running' = e.uid
               /\ once_keys' = IF e.once THEN once_keys \cup {e.key} ELSE once_keys
               /\ ranNow' = ranNow \cup {e.uid}
               /\ spent' = IF e.once THEN spent \cup {e.uid} ELSE spent
          ELSE running' = 0 /\ UNCHANGED <<once_keys, ranNow, spent>>
  /\ UNCHANGED <<buckets, pending_effects, round_effect_valid_id, roundCount, currentState,
                 second, stage, began, numbers, doomed>>

\* The end of execute_at, and the container that comes next.
EndWalk(c) ==
  /\ stage = c /\ KeysAfter(buckets[c], currentState, cursor) = {}
  /\ buckets' = [buckets EXCEPT ![c] = erase(@, currentState, once_keys)]
  /\ stage' = IF c = "soul" THEN "skill" ELSE "after"
  /\ cursor' = 0 /\ once_keys' = {} /\ running' = 0
  /\ UNCHANGED <<pending_effects, round_effect_valid_id, roundCount, currentState, second,
                 began, numbers, history>>

(***************************************************************************)
(* The handlers' ends.                                                     *)
(***************************************************************************)

cleanup_expired_effects ==
  buckets' = [c \in Container |-> cleanup(buckets[c], roundCount, round_effect_valid_id)]

\* The next timing point of the round.  The handler of the reduction cleans up.
Advance ==
  /\ stage = "after" /\ currentState \in {"CHOOSE", "MOVE_RIGHT", "ACTION", "ALL_ROUND_MINUS"}
  /\ currentState' = Follows(currentState)
  /\ stage' = "before"
  /\ IF currentState = "ALL_ROUND_MINUS" THEN cleanup_expired_effects ELSE UNCHANGED buckets
  /\ IF currentState = "MOVE_RIGHT" THEN second' \in BOOLEAN ELSE UNCHANGED second
  /\ UNCHANGED <<pending_effects, round_effect_valid_id, roundCount, cursor, once_keys, running,
                 began, numbers, history>>

\* advanceRound; no effects are executed at the selection.
advanceRound ==
  /\ stage = "after" /\ currentState = "COMPLETION"
  /\ roundCount < MaxRound
  /\ roundCount' = roundCount + 1
  /\ currentState' = "CHOOSE"
  /\ ranNow' = {}
  /\ second' = FALSE
  /\ UNCHANGED <<buckets, pending_effects, round_effect_valid_id, walk, numbers, doomed, spent>>

Finish ==
  /\ currentState = "COMPLETION" /\ Outside
  /\ currentState' = "FINISHED"
  /\ UNCHANGED <<buckets, pending_effects, round_effect_valid_id, roundCount, second, walk,
                 numbers, history>>

Over == currentState = "FINISHED" /\ UNCHANGED vars

Next ==
  \/ on_selected
  \/ register_branch
  \/ registerPendingEffect
  \/ grant_guaranteed_first
  \/ PluginRegister
  \/ Race
  \/ \E rules \in RuleTypes : break_round_effects(rules)
  \/ invalidate_on_stage_effects
  \/ Execute
  \/ VisitTrigger
  \/ EndTriggers
  \/ \E c \in Container : Visit(c) \/ EndWalk(c)
  \/ Advance
  \/ advanceRound
  \/ Finish
  \/ Over

Spec == Init /\ [][Next]_vars

(***************************************************************************)
(* Properties.                                                             *)
(***************************************************************************)

\* The function of an effect with number u is called in this step.
Calls(u) == u # 0 /\ running' = u /\ cursor' # cursor

\* Once its side is broken or its pet leaves the stage, an ON_STAGE effect
\* never runs again, whatever is registered, replaced or walked meanwhile
\* (battleContext.h: invalidate_on_stage_effects, invalidate_all_round_effects).
BrokenNeverRuns == [][\A u \in doomed : ~Calls(u)]_vars

\* A registration runs at most once in a round (BattleFsm visits a timing point
\* once), although walks see effects their own effects register.
OncePerRound == [][\A u \in ranNow : ~Calls(u)]_vars

\* An effect registered as once runs once per registration.
OnceRunsOnce == [][\A u \in spent : ~Calls(u)]_vars

\* No effect runs twice where once was meant, in a round or in its life.
NeverRunsTwice == OncePerRound /\ OnceRunsOnce

\* A walk skips nothing: what was registered when it began and still lives when
\* it ends has run, also if effects were registered or invalidated on the way.
WalkSkipsNothing ==
  stage = "after" /\ currentState \in Timing \ {"CHOOSE"} =>
    \A c \in Container : \A e \in buckets[c].effects :
      e.trigger = currentState /\ e.uid < began /\ Runs(e, roundCount, round_effect_valid_id)
        => e.uid \in ranNow

\* An effect of N rounds is gone N rounds after the one it was registered for,
\* even if it never ran: nothing expired is left over for a later round.  Only a
\* trigger leaves an older one, which has waited for it: then no longer than a
\* trigger waits.
LeftoversAreBrief ==
  \A c \in Container : \A e \in buckets[c].effects :
    LET age == roundCount - e.registered_round
    IN isRoundEffect(e) => age <= e.duration_rounds \/ \E ttl \in Ttls : ttl < 0 \/ age <= ttl

\* "An effect without a source has a unique key and takes no part in the
\* replacement": registering another one never takes its place.
UnsourcedStay ==
  [][serial' # serial =>
       \A c \in Container : \A e \in buckets[c].effects :
         e.key \notin Sources => e \in buckets'[c].effects]_vars

RoundEffectsOf(c) == {e \in buckets[c].effects : isRoundEffect(e)}

\* Before anything was invalidated, a break finds every round effect: the count
\* is never below the number of them in the bucket (timed_bucket.h).
CountCoversBucket ==
  round_effect_valid_id = 1 =>
    \A c \in Container : buckets[c].active_round_count >= Cardinality(RoundEffectsOf(c))

\* Until a once effect has run, a break never succeeds on an empty bucket.
CountWithinBucket ==
  spent = {} =>
    \A c \in Container : buckets[c].active_round_count <= Cardinality(RoundEffectsOf(c))

\* The count that decides whether a break succeeds fits the bucket on both sides.
CountFitsBucket == CountCoversBucket /\ CountWithinBucket
=============================================================================
