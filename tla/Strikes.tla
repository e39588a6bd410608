------------------------------ MODULE Strikes ------------------------------
(***************************************************************************)
(* Damage and healing of the two pets on stage while they stay there: the  *)
(* attack and its pipeline, the damage primitives effects call, the banks  *)
(* of shields and hoods that absorb, drains, healing, and the events a     *)
(* step leaves in the event center.                                        *)
(*                                                                         *)
(* Red damage (NORMAL) is that of an attack, pink damage (the kinds FIXED, *)
(* PERCENT and PERCENT_VALUE) that of effects; true damage passes by every *)
(* bank.  Effects may turn an attack into fixed or into true damage, and   *)
(* may take its mark of red damage from it.  What an attack starts from, the damage formula, is any of        *)
(* Amount; what effects and plugins have set on a side is one of the       *)
(* records of Standing.                                                    *)
(***************************************************************************)
EXTENDS Sides, Sequences, FiniteSetsExt, SequencesExt

CONSTANTS
  MaxHp,      \* numericalBase[HP] of both pets
  Amount,     \* amounts and percentages that callers pass
  Denominator, \* fractions of the maximum that callers pass
  Potion,     \* kMedicineHealAmount
  Standing,   \* what effects may have set on a side: records of StandingType
  Holder,     \* sides to whose pets plugins give shields, hoods and blocks
  NewShield,  \* the shields and hoods they give
  MaxShields, \* ShieldBank::kMaxShields
  MaxBlocks   \* bound: attacks a pet may be granted immunity against

Unknown == -1
Pink == {"FIXED", "PERCENT", "PERCENT_VALUE"}
Bank == {"shield", "hood"}
Category == {"AMP", "MITIGATE", "BLOCK", "DETECT"}
Shield == [priority : Int, quantity : Nat \ {0}, source : Nat, duration : Nat]
StandingType ==
  [pink_immune : BOOLEAN, pink_to_true : BOOLEAN, fixed_pct : 0 .. 100,
   percent_pct : 0 .. 100, pink_reduce_pct : 0 .. 100,   \* as a target of pink damage
   heal_block : BOOLEAN, heal_mod_pct : Int,             \* as a target of healing
   damage_immune : BOOLEAN,   \* for a window or for ever, as the target of an attack
   reduce_pct : -100 .. 100, suppressed : SUBSET Category, \* as the target of an attack
   ignore_shield : BOOLEAN, add_pct : Int, add_flat : Int, zero_damage : BOOLEAN] \* as an attacker

ASSUME StrikesAssumption ==
  /\ MaxHp \in Nat \ {0} /\ Amount \subseteq Nat /\ Denominator \subseteq Nat \ {0}
  /\ Potion \in Nat /\ Standing \subseteq StandingType /\ Holder \subseteq Side
  /\ NewShield \subseteq Shield /\ MaxShields \in Nat /\ MaxBlocks \in Nat

VARIABLES
  hp, bank,  \* of the pet on stage
  blocks,    \* attacks that the counted DAMAGE immunity of a side still takes
  standing,  \* what effects have set on a side
  last       \* the last step and the events it left; read by the properties only

state == <<hp, bank, blocks, standing>>
vars == <<hp, bank, blocks, standing, last>>

Percent(n, pct) == (n * pct) \div 100
AtLeast0(n) == IF n < 0 THEN 0 ELSE n
AtMostMax(n) == IF n > MaxHp THEN MaxHp ELSE n
Event(type, t, amount) == [type |-> type, target |-> t, amount |-> amount]
\* A step of op on t: the kind and amount of the damage, the events.
Step(op, t, kind, amount, events) ==
  [op |-> op, target |-> t, kind |-> kind, amount |-> amount, events |-> events]
Quiet(op, t) == Step(op, t, "NONE", 0, {})

----------------------------------------------------------------------------
(* Shields and hoods: slots in the order they were added.                  *)

\* The first of the slots of the highest priority.
Best(slots) ==
  CHOOSE i \in DOMAIN slots : \A j \in DOMAIN slots :
    slots[j].priority < slots[i].priority \/ (slots[j].priority = slots[i].priority /\ i <= j)

\* Mutant: what a broken shield did not take is lost.
AbsorbOnceWhole(p) ==
  IF p.left <= 0 \/ p.slots = <<>> THEN p
  ELSE LET i == Best(p.slots) IN
    IF p.slots[i].quantity > p.left
    THEN [p EXCEPT !.slots[i].quantity = @ - p.left, !.left = 0]
    ELSE [slots |-> RemoveAt(p.slots, i), left |-> 0, broken |-> p.broken + 1]

\* One pass of the loop of absorb over the slots, the damage that is left and the
\* number of shields broken.
AbsorbOnce(p) ==
  IF p.left <= 0 \/ p.slots = <<>> THEN p
  ELSE LET i == Best(p.slots) IN
    IF p.slots[i].quantity > p.left
    THEN [p EXCEPT !.slots[i].quantity = @ - p.left, !.left = 0]
    ELSE [slots |-> RemoveAt(p.slots, i), left |-> p.left - p.slots[i].quantity,
          broken |-> p.broken + 1]

\* The loop: every pass but the last breaks a shield, so there are no more passes
\* than shields.
Absorb(slots, damage) ==
  LET pass[n \in 0 .. Len(slots)] ==
        IF n = 0 THEN [slots |-> slots, left |-> damage, broken |-> 0]
        ELSE AbsorbOnce(pass[n - 1])
  IN pass[Len(slots)]

\* Mutant: a full bank takes another shield.
AddsAlways(slots, shield) == Append(slots, shield)

Added(slots, shield) == IF Len(slots) < MaxShields THEN Append(slots, shield) ELSE slots

Refreshed(slots, source, quantity) ==
  LET i == SelectInSeq(slots, LAMBDA s : s.source = source)
  IN IF i = 0 THEN slots ELSE [slots EXCEPT ![i].quantity = quantity]

\* Older shields, in their order, without those whose time is up.
Ticked(slots) ==
  LET Older(shield) == IF shield.duration > 0 THEN [shield EXCEPT !.duration = @ - 1] ELSE shield
      ticked[n \in 0 .. Len(slots)] ==
        IF n = 0 THEN <<>>
        ELSE IF slots[n].duration = 1 THEN ticked[n - 1]
        ELSE Append(ticked[n - 1], Older(slots[n]))
  IN ticked[Len(slots)]

----------------------------------------------------------------------------
(* The damage primitive: what the target is left with, and the events.     *)

Untouched(t) == [hp |-> hp[t], bank |-> bank[t], events |-> {}]

Answering(kind) == IF kind = "NORMAL" THEN {"shield"} ELSE IF kind \in Pink THEN {"hood"} ELSE {}

\* Mutant: the event tells the damage and not the loss.
LandedTellsDamage(t, damage, kind, actor) ==
  LET Takes(b) == b \in Answering(kind) /\ ~(actor \in Side /\ standing[actor].ignore_shield)
      after == [b \in Bank |-> IF Takes(b) THEN Absorb(bank[t][b], damage)
                               ELSE [slots |-> bank[t][b], left |-> damage, broken |-> 0]]
      left == IF Takes("shield") THEN after["shield"].left ELSE after["hood"].left
  IN [hp |-> IF left > 0 THEN AtLeast0(hp[t] - left) ELSE hp[t],
      bank |-> [b \in Bank |-> after[b].slots],
      events |-> {Event("TAKE_DAMAGE", t, left) : x \in {n \in {left} : n > 0}}]

Landed(t, damage, kind, actor) ==
  LET Takes(b) == b \in Answering(kind) /\ ~(actor \in Side /\ standing[actor].ignore_shield)
      after == [b \in Bank |-> IF Takes(b) THEN Absorb(bank[t][b], damage)
                               ELSE [slots |-> bank[t][b], left |-> damage, broken |-> 0]]
      left == IF Takes("shield") THEN after["shield"].left ELSE after["hood"].left
      loss == IF left < hp[t] THEN left ELSE hp[t]
  IN [hp |-> hp[t] - loss,
      bank |-> [b \in Bank |-> after[b].slots],
      events |-> {Event("SHIELD_BROKEN", t, 0) : b \in {c \in Bank : after[c].broken > 0}}
                   \cup {Event("TAKE_DAMAGE", t, n) : n \in {loss} \cap (1 .. MaxHp)}]

\* What immunity, resistance and reduction leave of pink damage.
Resisted(t, damage, kind) ==
  LET pct == IF kind = "FIXED" THEN standing[t].fixed_pct ELSE standing[t].percent_pct
      resisted == damage - Percent(damage, pct)
  IN IF standing[t].pink_immune THEN 0
     ELSE resisted - Percent(resisted, standing[t].pink_reduce_pct)

Dealt(amount, kind) == IF kind = "PERCENT" THEN Percent(MaxHp, amount) ELSE amount

deal_damage(t, amount, kind, actor) ==
  LET dealt == Dealt(amount, kind)
      left == IF kind \in Pink THEN Resisted(t, dealt, kind) ELSE dealt
  IN CASE dealt <= 0 \/ hp[t] = 0 -> Untouched(t)
       [] dealt > 0 /\ hp[t] > 0 /\ left > 0 -> Landed(t, left, kind, actor)
       [] dealt > 0 /\ hp[t] > 0 /\ left <= 0 ->
            IF standing[t].pink_to_true THEN Landed(t, dealt, "TRUE", actor) ELSE Untouched(t)

\* Mutant: a blocked recovery still gives its amount.
HealedBlocked(s, amount) ==
  IF amount <= 0 THEN hp[s]
  ELSE AtMostMax(hp[s] + AtLeast0(Percent(amount, 100 + standing[s].heal_mod_pct)))

\* heal_impl: the hp of s after a recovery of amount.
Healed(s, amount) ==
  IF amount <= 0 \/ standing[s].heal_block THEN hp[s]
  ELSE AtMostMax(hp[s] + AtLeast0(Percent(amount, 100 + standing[s].heal_mod_pct)))

----------------------------------------------------------------------------
(* The attack: the pipeline of damage effects with the engine's own ones.  *)

Suppressed(s, category) == category \in standing[s].suppressed

Amplified(a, damage) ==
  IF damage <= 0 \/ Suppressed(a, "AMP") \/ (standing[a].add_pct = 0 /\ standing[a].add_flat = 0)
  THEN damage
  ELSE AtLeast0(Percent(damage, 100 + standing[a].add_pct) + standing[a].add_flat)

\* The slots of added and multiplied reductions, taken together as one percentage.
applyDamageReduction(damage, pct) == Percent(damage, 100 - pct)

Reduced(t, damage) ==
  IF Suppressed(t, "MITIGATE") THEN damage ELSE applyDamageReduction(damage, standing[t].reduce_pct)

\* A DAMAGE immunity holds: one of a window, of the battle, or a counted one.
is_immune(t) == standing[t].damage_immune \/ blocks[t] > 0

\* Mutant: the immunity is asked before the reduction.
BlockedFirst(a, raw, red) ==
  LET t == Opponent(a)
  IN red /\ Amplified(a, raw) > 0 /\ is_immune(t) /\ ~Suppressed(t, "BLOCK")

\* An immunity of the defender takes the attack of a, if it is red damage.
Blocked(a, raw, red) ==
  LET t == Opponent(a)
  IN red /\ Reduced(t, Amplified(a, raw)) > 0 /\ is_immune(t) /\ ~Suppressed(t, "BLOCK")

\* resolvedDamage.final after the pipeline and the skill whose effects are void.
Final(a, raw, red) ==
  IF Blocked(a, raw, red) \/ standing[a].zero_damage THEN 0
  ELSE Reduced(Opponent(a), Amplified(a, raw))

Strike(t, hit) ==
  /\ hp' = [hp EXCEPT ![t] = hit.hp]
  /\ bank' = [bank EXCEPT ![t] = hit.bank]
  /\ UNCHANGED standing

\* isTrueDamage goes before isFixed.
AttackKind == {"NORMAL", "FIXED", "TRUE"}

\* handle_Battle*AttackDamage from the pipeline on, apply_resolved_damage.  A
\* counted immunity is spent on what is blocked, whichever immunity blocks it.
Attack(a, raw, kind, red) ==
  LET t == Opponent(a)
      final == Final(a, raw, red) IN
  /\ blocks' = IF Blocked(a, raw, red) /\ blocks[t] > 0 THEN [blocks EXCEPT ![t] = @ - 1]
               ELSE blocks
  /\ LET hit == IF final > 0 THEN deal_damage(t, final, kind, a)
                ELSE [Untouched(t) EXCEPT !.events = {Event("ATTACK_BLOCKED", t, 0)}]
     IN Strike(t, hit) /\ last' = Step("Attack", t, kind, final, hit.events)

----------------------------------------------------------------------------
(* What effects call.                                                      *)

\* fixed_damage calls with an unknown actor.
deal_pink_damage(t, amount, kind, actor) ==
  LET hit == deal_damage(t, amount, kind, actor) IN
  /\ amount > 0
  /\ Strike(t, hit) /\ last' = Step("Pink", t, kind, amount, hit.events)
  /\ UNCHANGED blocks

Drain(a, t, amount, denominator) ==
  LET hit == deal_damage(t, amount, "FIXED", a) IN
  /\ a # t /\ hp[t] > 0 /\ amount > 0
  /\ hp' = [hp EXCEPT ![t] = hit.hp, ![a] = Healed(a, amount)]
  /\ bank' = [bank EXCEPT ![t] = hit.bank]
  /\ last' = Step("Drain", t, "FIXED", denominator, hit.events)
  /\ UNCHANGED <<blocks, standing>>

drain_hp_amount(a, t, amount) == Drain(a, t, amount, 0)

\* hp is a reference to numericalProperties[HP], which the code takes for the maximum.
drain_hp(a, t, denominator) ==
  Drain(a, t, IF hp[t] \div denominator > 1 THEN hp[t] \div denominator ELSE 1, denominator)

heal_amount(s, amount) ==
  /\ hp' = [hp EXCEPT ![s] = Healed(s, amount)]
  /\ last' = Quiet("Heal", s)
  /\ UNCHANGED <<bank, blocks, standing>>

heal(s, denominator) == heal_amount(s, MaxHp \div denominator)

kill(t) ==
  /\ hp[t] > 0
  /\ hp' = [hp EXCEPT ![t] = 0]
  /\ last' = Quiet("Kill", t)
  /\ UNCHANGED <<bank, blocks, standing>>

\* A medicine is the player's: no block and no modifier applies.
use_medicine(s) ==
  /\ hp[s] > 0
  /\ hp' = [hp EXCEPT ![s] = AtMostMax(@ + Potion)]
  /\ last' = Quiet("Medicine", s)
  /\ UNCHANGED <<bank, blocks, standing>>

\* settle_staged_action_start_abnormal_damage, for n damaging states.
SettleAbnormalDamage(s, n) ==
  LET each == IF MaxHp \div 8 > 1 THEN MaxHp \div 8 ELSE 1 IN
  /\ hp[s] > 0
  /\ hp' = [hp EXCEPT ![s] = AtLeast0(@ - n * each)]
  /\ last' = Quiet("Settle", s)
  /\ UNCHANGED <<bank, blocks, standing>>

\* What plugins do with the banks of a pet.
ChangeBank(s, b) ==
  /\ \/ \E shield \in NewShield :
          \/ bank' = [bank EXCEPT ![s][b] = Added(@, shield)]
          \/ bank' = [bank EXCEPT ![s][b] = Refreshed(@, shield.source, shield.quantity)]
     \/ bank' = [bank EXCEPT ![s][b] = Ticked(@)]
     \/ bank' = [bank EXCEPT ![s][b] = <<>>]
  /\ last' = Quiet("Bank", s)
  /\ UNCHANGED <<hp, blocks, standing>>

GrantBlock(s) ==
  /\ blocks[s] < MaxBlocks
  /\ blocks' = [blocks EXCEPT ![s] = @ + 1]
  /\ last' = Quiet("Grant", s)
  /\ UNCHANGED <<hp, bank, standing>>

\* Effects set and reset what the primitives read, the round resets the workspace.
ChangeStanding(s) ==
  /\ \E new \in Standing : standing' = [standing EXCEPT ![s] = new]
  /\ last' = Quiet("Standing", s)
  /\ UNCHANGED <<hp, bank, blocks>>

Init ==
  /\ hp = [s \in Side |-> MaxHp]
  /\ bank = [s \in Side |-> [b \in Bank |-> <<>>]]
  /\ blocks = [s \in Side |-> 0]
  /\ standing \in [Side -> Standing]
  /\ last = Quiet("Init", 0)

Next ==
  \/ \E a \in Side, raw \in Amount, kind \in AttackKind, red \in BOOLEAN :
       Attack(a, raw, kind, red)
  \/ \E t \in Side, n \in Amount, kind \in Pink, actor \in Side \cup {Unknown} :
       deal_pink_damage(t, n, kind, actor)
  \/ \E a, t \in Side, n \in Amount : drain_hp_amount(a, t, n)
  \/ \E a, t \in Side, d \in Denominator : drain_hp(a, t, d)
  \/ \E s \in Side, n \in Amount : heal_amount(s, n)
  \/ \E s \in Side, d \in Denominator : heal(s, d)
  \/ \E s \in Side : kill(s) \/ use_medicine(s) \/ ChangeStanding(s)
  \/ \E s \in Side, n \in {1, 2} : SettleAbnormalDamage(s, n)
  \/ \E s \in Holder : GrantBlock(s) \/ (\E b \in Bank : ChangeBank(s, b))

Spec == Init /\ [][Next]_vars

----------------------------------------------------------------------------
\* The types of the variables: hp between 0 and the maximum, no bank beyond its
\* capacity, no empty shield kept.
TypeOK ==
  /\ hp \in [Side -> 0 .. MaxHp]
  /\ bank \in [Side -> [Bank -> Seq(Shield)]]
  /\ \A s \in Side, b \in Bank : Len(bank[s][b]) <= MaxShields
  /\ blocks \in [Side -> 0 .. MaxBlocks]
  /\ standing \in [Side -> Standing]

\* ShieldBank::total.
Total(slots) ==
  LET sum[n \in 0 .. Len(slots)] == IF n = 0 THEN 0 ELSE sum[n - 1] + slots[n].quantity
  IN sum[Len(slots)]

Gone(s, b) == Total(bank[s][b]) - Total(bank'[s][b])
Struck == last'.op \in {"Attack", "Pink", "Drain"}

\* Resistance leaves nothing of pink damage: only as true damage can it arrive.
ResistedWhole(t, damage, kind) == kind \in Pink /\ Resisted(t, damage, kind) <= 0

\* What arrives of an attack: fixed damage answers to the resistance of the target.
Arriving(t, damage, kind) ==
  IF kind \notin Pink \/ (ResistedWhole(t, damage, kind) /\ standing[t].pink_to_true) THEN damage
  ELSE AtLeast0(Resisted(t, damage, kind))

\* Nothing of an attack gets lost between the pipeline and the pet: banks and hp
\* together lose what the pipeline and, of fixed damage, resistance left, unless
\* the pet falls to less.  Only shields answer a normal attack and only hoods a
\* fixed one; true damage takes all from hp.
NothingIsLost ==
  [][last'.op = "Attack" =>
       LET t == last'.target
           arriving == Arriving(t, last'.amount, last'.kind)
           lost == hp[t] - hp'[t] + Gone(t, "shield") + Gone(t, "hood")
       IN /\ \A b \in Bank \ Answering(last'.kind) : Gone(t, b) = 0
          /\ hp[t] > 0 => (lost = arriving \/ (hp'[t] = 0 /\ lost < arriving))]_vars

\* Shields and hoods are spent from the highest priority down: while one is left
\* untouched, none of a lower priority has lost anything to a strike.
HighestFirst ==
  [][Struck => \A s \in Side, b \in Bank :
       LET untouched == Range(bank'[s][b]) \cap Range(bank[s][b])
       IN \A x \in Range(bank[s][b]) \ untouched : \A y \in untouched :
            y.priority <= x.priority]_vars

\* Hp are lost to an attack only when no shield is left, or no hood if it is
\* fixed damage, unless it breaks through or has become true damage: the loop over
\* the slots does not end before its time.
BanksGoFirst ==
  [][\A t \in Side :
       last'.op = "Attack" /\ last'.target = t /\ hp'[t] < hp[t] =>
         \A b \in Answering(last'.kind) :
           \/ bank'[t][b] = <<>> \/ standing[Opponent(t)].ignore_shield
           \/ ResistedWhole(t, last'.amount, last'.kind)]_vars

\* An attack is accounted for: nothing of it gets lost, and what it spends it
\* spends in order and to the end, however many shields and hoods stand.
AttackIsAccounted == NothingIsLost /\ HighestFirst /\ BanksGoFirst

\* Every loss of hp to a strike is announced with its amount, and no other loss
\* is: watchers count on the event and its amount.
LossIsAnnounced ==
  [][\A s \in Side :
       {e.amount : e \in {x \in last'.events : x.type = "TAKE_DAMAGE" /\ x.target = s}}
         = IF Struck /\ hp'[s] < hp[s] THEN {hp[s] - hp'[s]} ELSE {}]_vars

\* While recovery is blocked only a medicine raises hp: drains, shares and
\* amounts all go through the block.
BlockedNeverRecovers ==
  [][\A s \in Side :
       standing[s].heal_block /\ hp'[s] > hp[s] => last'.op = "Medicine"]_vars

\* A counted immunity against attacks is spent on an attack that would have
\* arrived, and the attack then takes nothing, of banks as little as of hp.
BlockSpentOnBlows ==
  [][\A s \in Side : blocks'[s] < blocks[s] =>
       /\ last'.op = "Attack" /\ last'.target = s /\ last'.amount = 0
       /\ hp'[s] = hp[s] /\ bank'[s] = bank[s]
       /\ standing[s].reduce_pct < 100 \/ Suppressed(s, "MITIGATE")]_vars
=============================================================================
