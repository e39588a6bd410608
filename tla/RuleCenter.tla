----------------------------- MODULE RuleCenter -----------------------------
(***************************************************************************)
(* The rules a battle asks before it acts: immunities, seals on skills     *)
(* (armours and their like), skills whose hit takes no effect, and         *)
(* reflections.  A rule is granted by a source, works on a target, and     *)
(* ends with its counts, its rounds, a break or the departure of its pet.  *)
(*                                                                         *)
(* The vector of tickets is a set; place orders it.  The timing points of  *)
(* a round are cut to FIGHT, up to the reduction of rounds, and END, after *)
(* it.  What an immunity covers (coverage and anomaly_mask) is a set of    *)
(* threats.                                                                *)
(***************************************************************************)
EXTENDS Integers, FiniteSets

CONSTANTS
  Slot, FirstSlot,  \* the slots of a team, and the one that starts
  SourceSlots,      \* the source_slot of grants
  Status,           \* the statuses that immunities tell apart
  Effects,          \* source_effect_id of the rules
  Immunities,       \* [subtype, covers, soul, scope, counts, rounds]
  Seals,            \* [subtype, scope, counts, rounds, penetrable, consumed_when_pierced, conditional]
  Invalids,         \* [category, subtype, counts]
  Reflections,      \* [scope, rounds]
  MaxRound, MaxGrants, MaxBreaks

Side == {0, 1}
Other(s) == 1 - s
Timing == {"FIGHT", "END"}
Threat == [at : Timing, status : Status]
NoSlot == -1
Scope == {"ON_STAGE", "TEAM"}
RuleCategory == {"IMMUNE", "SEAL", "HIT_INVALID_ATTACK", "HIT_INVALID_ATTRIBUTE", "REFLECT"}
\* STAT_DROP, STAT_CLEAR and HEAL_BLOCK are only asked for and change nothing here.
ImmunityType == {"BREAK", "DAMAGE", "ANOMALY"}
SealKind == {"SEAL_ATTACK", "SEAL_ALL", "SEAL_ATTRIBUTE", "SEAL_ATTRIBUTE_HIT"}
HitInvalidMode == {"kEffectsOnly", "kFullNull"}
Subtype == ImmunityType \cup SealKind \cup HitInvalidMode \cup {"none"}

ASSUME SlotAssumption == Slot \subseteq Nat /\ FirstSlot \in Slot
ASSUME SourceSlotsAssumption == SourceSlots \subseteq Slot \cup {NoSlot}
ASSUME StatusAssumption == 0 \in Status    \* threats without a status
ASSUME EffectsAssumption == Effects \subseteq Int
ASSUME BoundsAssumption == MaxRound \in Nat /\ MaxGrants \in Nat /\ MaxBreaks \in Nat
ASSUME ImmunitiesAssumption ==
  Immunities \subseteq [subtype : ImmunityType, covers : SUBSET Threat, soul : BOOLEAN,
                        scope : Scope, counts : Nat, rounds : Nat]
\* seal_skill and the contract of grant_skill_invalid: either counts or rounds.
ASSUME SealsAssumption ==
  /\ Seals \subseteq [subtype : SealKind, scope : Scope, counts : Nat, rounds : Nat,
                      penetrable : BOOLEAN, consumed_when_pierced : BOOLEAN,
                      conditional : BOOLEAN]
  /\ \A g \in Seals : g.counts = 0 \/ g.rounds = 0
ASSUME InvalidsAssumption ==
  Invalids \subseteq [category : {"HIT_INVALID_ATTACK", "HIT_INVALID_ATTRIBUTE"},
                      subtype : HitInvalidMode, counts : Nat \ {0}]
ASSUME ReflectionsAssumption == Reflections \subseteq [scope : Scope, rounds : Nat]

VARIABLES
  all_,                   \* the tickets
  round_count_,           \* of each source, the rules a break can end
  next_source_id_,
  round_effect_valid_id,
  on_stage,
  roundCount,
  currentState,
  emitted,                \* handles of the EVENT_SKILL_ARMOR_RESOLVED of this step
  handles,                \* history: handles that granted immunities have returned
  grants                  \* history: numbers the grants

battle == <<on_stage, roundCount, currentState>>
vars == <<all_, round_count_, next_source_id_, round_effect_valid_id, battle, emitted,
          handles, grants>>

\* ends (history): the reduction of rounds that ends a rule; benched (history):
\* the rule was granted for a pet that was not on stage.
Ticket ==
  [place : Nat, source_owner : Side, source_slot : Slot \cup {NoSlot},
   source_effect_id : Effects, scope : Scope, source_id : Nat, source_valid_id : Nat,
   target : Side, category : RuleCategory, subtype : Subtype, covers : SUBSET Threat,
   soul : BOOLEAN, penetrable : BOOLEAN, consumed_when_pierced : BOOLEAN,
   conditional : BOOLEAN, remaining_counts : Nat, remaining_rounds : Nat,
   register_round : Nat, ends : Nat, benched : BOOLEAN]

TypeOK ==
  /\ all_ \subseteq Ticket
  /\ round_count_ \in [Side -> Nat]
  /\ next_source_id_ \in Nat \ {0}
  /\ round_effect_valid_id \in [Side -> Nat \ {0}]
  /\ on_stage \in [Side -> Slot]
  /\ roundCount \in Nat
  /\ currentState \in Timing
  /\ emitted \subseteq Nat /\ handles \subseteq Nat
  /\ grants \in Nat

Init ==
  /\ all_ = {}
  /\ round_count_ = [s \in Side |-> 0]
  /\ next_source_id_ = 1
  /\ round_effect_valid_id = [s \in Side |-> 1]
  /\ on_stage = [s \in Side |-> FirstSlot]
  /\ roundCount = 0 /\ currentState = "FIGHT"
  /\ emitted = {} /\ handles = {} /\ grants = 0

is_round_type(t) == t.category # "IMMUNE" /\ t.remaining_rounds > 0

Reductions == roundCount + (IF currentState = "END" THEN 1 ELSE 0)

\* Mutant: a break of the target of a rule would find it.
RecountByTarget(rules) ==
  [s \in Side |-> Cardinality({t \in rules : is_round_type(t) /\ t.target = s})]

recount(rules) ==
  [s \in Side |-> Cardinality({t \in rules : is_round_type(t) /\ t.source_owner = s})]

(***************************************************************************)
(* Grants.                                                                 *)
(***************************************************************************)

\* A ticket with the values its members are declared with.
NewTicket(owner, slot, effect, scope, target, category, subtype) ==
  [place |-> grants, source_owner |-> owner, source_slot |-> slot,
   source_effect_id |-> effect, scope |-> scope, source_id |-> 0, source_valid_id |-> 0,
   target |-> target, category |-> category, subtype |-> subtype, covers |-> {},
   soul |-> FALSE, penetrable |-> TRUE, consumed_when_pierced |-> FALSE,
   conditional |-> FALSE, remaining_counts |-> 0, remaining_rounds |-> 0,
   register_round |-> 0, ends |-> 0, benched |-> slot \notin {NoSlot, on_stage[owner]}]

\* The rule a grant refreshes instead of adding one.
SameKey(t) ==
  {o \in all_ : /\ o.category = t.category /\ o.source_owner = t.source_owner
                /\ o.source_effect_id = t.source_effect_id /\ o.subtype = t.subtype}

Refresh(t) ==
  IF SameKey(t) = {} THEN all_ \cup {t}
  ELSE (all_ \ SameKey(t)) \cup {[t EXCEPT !.place = o.place] : o \in SameKey(t)}

Granting ==
  /\ grants < MaxGrants /\ grants' = grants + 1
  /\ emitted' = {}
  /\ UNCHANGED <<round_effect_valid_id, battle>>

\* Mutant: a new rule of a handle that was given takes the next handle's number.
ReusesHandle(given) == IF given # 0 THEN given ELSE next_source_id_

Handle(given) == IF given # 0 THEN given ELSE next_source_id_ + 1

\* grant_immunity.  given: a handle it has returned before, or 0.
grant_immune ==
  /\ Granting
  /\ \E owner \in Side, effect \in Effects, g \in Immunities, given \in handles \cup {0} :
       LET values(t) ==
             [t EXCEPT !.covers = g.covers, !.soul = g.soul, !.scope = g.scope,
                       !.source_slot = NoSlot, !.remaining_counts = g.counts,
                       !.remaining_rounds = g.rounds, !.register_round = roundCount,
                       !.benched = FALSE]
           t == values(NewTicket(owner, NoSlot, effect, g.scope, owner, "IMMUNE", g.subtype))
           held == {o \in all_ : given # 0 /\ o.category = "IMMUNE" /\ o.source_id = given}
           old == IF held # {} THEN held ELSE SameKey(t)
       IN IF old # {}
          THEN /\ all_' = (all_ \ old) \cup {values(o) : o \in old}
               /\ UNCHANGED <<next_source_id_, handles>>
          ELSE /\ all_' = all_ \cup {[t EXCEPT !.source_id = Handle(given)]}
               /\ next_source_id_' = IF given # 0 THEN next_source_id_ ELSE next_source_id_ + 1
               /\ handles' = handles \cup {Handle(given)}
  /\ UNCHANGED round_count_

\* seal_skill and grant_skill_invalid.
grant_seal ==
  /\ Granting
  /\ \E source \in Side, target \in Side, slot \in SourceSlots, effect \in Effects,
        g \in Seals :
       LET t == NewTicket(source, slot, effect, g.scope, target, "SEAL", g.subtype) IN
       /\ g.counts > 0 \/ g.rounds > 0
       /\ all_' = Refresh(
            [t EXCEPT !.remaining_counts = g.counts, !.remaining_rounds = g.rounds,
                      !.penetrable = g.penetrable, !.conditional = g.conditional,
                      !.consumed_when_pierced = g.consumed_when_pierced,
                      !.source_valid_id = round_effect_valid_id[source],
                      !.source_id = next_source_id_ + 1,
                      !.ends = Reductions + g.rounds])
  /\ next_source_id_' = next_source_id_ + 1
  /\ round_count_' = recount(all_')
  /\ UNCHANGED handles

\* hit_effect_invalid.
grant_hit_invalid ==
  /\ Granting
  /\ \E target \in Side, effect \in Effects, g \in Invalids :
       LET t == NewTicket(target, NoSlot, effect, "ON_STAGE", target, g.category, g.subtype) IN
       all_' = Refresh([t EXCEPT !.remaining_counts = g.counts])
  /\ UNCHANGED <<round_count_, next_source_id_, handles>>

\* Reflections are added, never refreshed.
grant_reflect ==
  /\ Granting
  /\ \E source \in Side, target \in Side, slot \in SourceSlots, effect \in Effects,
        g \in Reflections :
       LET t == NewTicket(source, slot, effect, g.scope, target, "REFLECT", "none") IN
       all_' = all_ \cup
         {[t EXCEPT !.remaining_rounds = g.rounds, !.ends = Reductions + g.rounds,
                    !.source_valid_id = round_effect_valid_id[source]]}
  /\ round_count_' = recount(all_')
  /\ UNCHANGED <<next_source_id_, handles>>

revoke_immunity ==
  /\ \E h \in handles : all_' = {t \in all_ : t.source_id # h}
  /\ all_' # all_
  /\ emitted' = {}
  /\ UNCHANGED <<round_count_, next_source_id_, round_effect_valid_id, battle, handles, grants>>

(***************************************************************************)
(* Questions.                                                              *)
(***************************************************************************)

WindowOver(t) == t.remaining_rounds > 0 /\ roundCount - t.register_round >= t.remaining_rounds

\* What is_immune finds for a threat.
Protecting(target, type, status, souls) ==
  {t \in all_ : /\ t.category = "IMMUNE" /\ t.target = target /\ t.subtype = type
                /\ t.soul \in souls /\ ~WindowOver(t)
                /\ [at |-> currentState, status |-> status] \in t.covers}

Counted(rules) == {t \in rules : t.remaining_counts > 0}

\* The first of some rules in the vector.
First(some) == {t \in some : \A o \in some : t.place <= o.place}

\* Rules that lose a count, and are gone with the last one.
Spend(rules, taken) ==
  (rules \ taken) \cup
  {[t EXCEPT !.remaining_counts = @ - 1] : t \in {o \in taken : o.remaining_counts > 1}}

consume_immune(protecting) == all_' = Spend(all_, First(Counted(protecting)))

Asked ==
  /\ emitted' = {}
  /\ UNCHANGED <<round_count_, next_source_id_, round_effect_valid_id, battle, handles, grants>>

\* apply_anomaly: an immunity before the resistance turns it away; or the pet
\* resists it; or a soul immunity, or the mark that works like one, turns it away.
\* What is reflected falls on the actor without taking counts of its rules.
apply_anomaly(target, status) ==
  LET early == Protecting(target, "ANOMALY", status, {FALSE})
      late == Protecting(target, "ANOMALY", status, {TRUE})
  IN /\ \/ early # {} /\ consume_immune(early)
        \/ early = {} /\ UNCHANGED all_
        \/ early = {} /\ consume_immune(late)
     /\ Asked

\* The default node of the damage pipeline that blocks attack damage.
block_damage(target) ==
  consume_immune(Protecting(target, "DAMAGE", 0, BOOLEAN)) /\ Asked

Responds(t, attribute) ==
  \/ t.subtype = "SEAL_ALL"
  \/ t.subtype = "SEAL_ATTACK" /\ ~attribute
  \/ t.subtype \in {"SEAL_ATTRIBUTE", "SEAL_ATTRIBUTE_HIT"} /\ attribute

(***************************************************************************)
(* query_usage: a skill of user asks notify, which spends every seal that  *)
(* responds; a miss asks too, and announces nothing.  What passes the gate *)
(* is subject to the rules on its hit.                                     *)
(***************************************************************************)
query_usage(user, attribute, ignores, outcome, failing) ==
  LET met == {t \in all_ : /\ t.category = "SEAL" /\ t.target = user
                           /\ Responds(t, attribute) /\ t \notin failing}
      pierced == {t \in met : t.penetrable /\ ignores}
      taken == Counted((met \ pierced) \cup {t \in pierced : t.consumed_when_pierced})
      notified == Spend(all_, taken)
      kind == IF attribute THEN "HIT_INVALID_ATTRIBUTE" ELSE "HIT_INVALID_ATTACK"
      invalids == {t \in notified : t.category = kind /\ t.target = Other(user)}
  IN /\ all_' = IF outcome = "hits" /\ met = pierced
                THEN Spend(notified, First(Counted(invalids))) ELSE notified
     /\ emitted' = IF outcome = "misses" THEN {} ELSE {t.source_id : t \in met}
     /\ UNCHANGED <<round_count_, next_source_id_, round_effect_valid_id, battle, handles,
                    grants>>

UseSkill ==
  \E user \in Side, attribute \in BOOLEAN, ignores \in BOOLEAN,
     outcome \in {"hits", "misses", "forced"}, failing \in SUBSET {t \in all_ : t.conditional} :
    query_usage(user, attribute, ignores, outcome, failing)

(***************************************************************************)
(* Ends.                                                                   *)
(***************************************************************************)

\* break_round_effects when it succeeds; effects: the buckets hold round effects.
\* What invalidate_stale takes, clear_round_type takes too.
break_round_effects(target, effects) ==
  /\ round_effect_valid_id[target] <= MaxBreaks
  /\ Protecting(target, "BREAK", 0, BOOLEAN) = {}
  /\ effects \/ round_count_[target] > 0
  /\ round_effect_valid_id' = [round_effect_valid_id EXCEPT ![target] = @ + 1]
  /\ all_' = {t \in all_ : ~(t.source_owner = target /\ is_round_type(t))}
  /\ round_count_' = recount(all_')
  /\ emitted' = {}
  /\ UNCHANGED <<next_source_id_, battle, handles, grants>>

\* Mutant: the rules of the pet that comes are taken.
TakesNewcomers(owner, leaving) ==
  {t \in all_ : /\ t.source_owner = owner /\ t.scope = "ON_STAGE"
                /\ t.source_slot \in {NoSlot} \cup (Slot \ {leaving})}

LeavesWith(owner, leaving) ==
  {t \in all_ : /\ t.source_owner = owner /\ t.scope = "ON_STAGE"
                /\ t.source_slot \in {NoSlot, leaving}}

\* perform_switch: invalidate_on_stage_effects, clear_on_stage, then the new pet.
perform_switch(owner, slot) ==
  /\ round_effect_valid_id[owner] <= MaxBreaks
  /\ slot # on_stage[owner]
  /\ round_effect_valid_id' = [round_effect_valid_id EXCEPT ![owner] = @ + 1]
  /\ all_' = all_ \ LeavesWith(owner, on_stage[owner])
  /\ round_count_' = recount(all_')
  /\ on_stage' = [on_stage EXCEPT ![owner] = slot]
  /\ emitted' = {}
  /\ UNCHANGED <<next_source_id_, roundCount, currentState, handles, grants>>

\* Mutant: the rules of the team keep their rounds.
TicksOnStage ==
  {t \in all_ : ~is_round_type(t) \/ t.scope = "TEAM"} \cup
  {[t EXCEPT !.remaining_rounds = @ - 1] : t \in {o \in all_ : is_round_type(o)
                                       /\ o.scope = "ON_STAGE" /\ o.remaining_rounds > 1}}

tick_rounds ==
  {t \in all_ : ~is_round_type(t)} \cup
  {[t EXCEPT !.remaining_rounds = @ - 1] : t \in {o \in all_ : is_round_type(o)
                                                              /\ o.remaining_rounds > 1}}

\* handle_BattleRoundReductionAllRoundMinus: tick_rounds, then cleanup.
Reduce ==
  /\ currentState = "FIGHT"
  /\ currentState' = "END"
  /\ all_' = {t \in tick_rounds : ~(t.category = "IMMUNE" /\ WindowOver(t))}
  /\ round_count_' = recount(all_')
  /\ emitted' = {}
  /\ UNCHANGED <<next_source_id_, round_effect_valid_id, on_stage, roundCount, handles, grants>>

advanceRound ==
  /\ currentState = "END" /\ roundCount < MaxRound
  /\ currentState' = "FIGHT"
  /\ roundCount' = roundCount + 1
  /\ emitted' = {}
  /\ UNCHANGED <<all_, round_count_, next_source_id_, round_effect_valid_id, on_stage, handles,
                 grants>>

Next ==
  \/ grant_immune \/ grant_seal \/ grant_hit_invalid \/ grant_reflect \/ revoke_immunity
  \/ \E target \in Side : block_damage(target) \/ \E status \in Status : apply_anomaly(target, status)
  \/ UseSkill
  \/ \E target \in Side, effects \in BOOLEAN : break_round_effects(target, effects)
  \/ \E owner \in Side, slot \in Slot : perform_switch(owner, slot)
  \/ Reduce \/ advanceRound

Spec == Init /\ [][Next]_vars
(***************************************************************************)
(* Properties.                                                             *)
(***************************************************************************)

\* The count kept of each source, by which a break decides whether there is
\* anything to end, agrees with its rules, although skills, immunities and
\* revocations remove tickets without counting again (has_round_type).
CountInStep ==
  \A s \in Side :
    round_count_[s] = Cardinality({t \in all_ : t.source_owner = s /\ is_round_type(t)})

\* "The handle is unique": revoking one never takes another rule with it, though
\* immunities are granted again under handles whose ticket is long gone.
HandlesUnique ==
  \A a, b \in all_ : a.source_id # 0 /\ a.source_id = b.source_id => a = b

\* "The same source and effect covers, it does not add": no grant, in whatever
\* order with refreshing by handle, leaves two rules of a key.
OneTicketPerKey ==
  \A a, b \in all_ :
    /\ a.category = b.category /\ a.category # "REFLECT"
    /\ a.source_owner = b.source_owner /\ a.source_effect_id = b.source_effect_id
    /\ a.subtype = b.subtype
    => a = b

\* However grants, refreshes and revocations follow each other, a rule is told
\* from every other one, by its handle and by what refreshes it.
TicketsUnique == HandlesUnique /\ OneTicketPerKey

\* A rule of N rounds ends with the N-th reduction after its grant, however often
\* it answers, and an expired immunity is not left over.
RulesEndInTime ==
  \A t \in all_ :
    /\ is_round_type(t) => t.remaining_rounds + Reductions = t.ends
    /\ t.category = "IMMUNE" /\ t.remaining_rounds > 0
         => roundCount - t.register_round <= t.remaining_rounds

\* A rule that a pet granted on stage leaves with it, except a rule of the team.
RulesLeaveWithPet ==
  \A t \in all_ :
    t.scope = "ON_STAGE" /\ ~t.benched => t.source_slot \in {NoSlot, on_stage[t.source_owner]}

\* A rule granted on stage that a break can end carries the version its source
\* has now: breaks and switches leave no stale one behind (invalidate_stale).
NoStaleRule ==
  \A t \in all_ :
    is_round_type(t) /\ t.scope = "ON_STAGE" /\ ~t.benched
      => t.source_valid_id = round_effect_valid_id[t.source_owner]

\* No rule granted on stage is left when its pet or its version has gone.
RulesFollowPet == RulesLeaveWithPet /\ NoStaleRule
=============================================================================
