---------------------------- MODULE TimedBucket ----------------------------
(***************************************************************************)
(* TimedBucket and ContinuousEffect: the effects one side has registered   *)
(* at timing points, with the number of round effects among them that      *)
(* break_round_effects asks for.                                           *)
(*                                                                         *)
(* A bucket is [effects, active_round_count].  An effect carries the       *)
(* trigger and the key it is stored under, so the two maps of the code     *)
(* (state to owner to key) are one set in which the pair is unique.  uid   *)
(* is not in the code: it tells the registrations of an effect apart.      *)
(***************************************************************************)
EXTENDS Integers, FiniteSets

Scope == {"ON_STAGE", "TEAM"}

Effect(Trigger) ==
  [trigger : Trigger, key : Nat, duration_rounds : Int, registered_round : Int,
   valid_id : Nat, scope : Scope, once : BOOLEAN, uid : Nat]

Bucket(Trigger) == [effects : SUBSET Effect(Trigger), active_round_count : Nat]

EmptyBucket == [effects |-> {}, active_round_count |-> 0]

isRoundEffect(e) == e.duration_rounds > 0

isExpired(e, currentRound) ==
  /\ e.duration_rounds >= 0
  /\ currentRound - e.registered_round >= e.duration_rounds

is_epoch_invalidated(e, epoch_valid_id) ==
  /\ e.scope = "ON_STAGE"
  /\ e.valid_id # epoch_valid_id

\* execute_at calls an effect that is neither invalidated nor expired.
Runs(e, currentRound, epoch_valid_id) ==
  /\ ~is_epoch_invalidated(e, epoch_valid_id)
  /\ ~isExpired(e, currentRound)

AtLeastZero(n) == IF n < 0 THEN 0 ELSE n

SameKey(b, e) == {o \in b.effects : o.trigger = e.trigger /\ o.key = e.key}

\* Mutant: whatever is replaced was counted.
RegisterTakesBackAny(b, effect, epoch_valid_id) ==
  LET e == [effect EXCEPT !.valid_id = epoch_valid_id]
      counted == b.active_round_count + (IF isRoundEffect(e) THEN 1 ELSE 0)
  IN [effects |-> (b.effects \ SameKey(b, e)) \cup {e},
      active_round_count |-> IF SameKey(b, e) # {} THEN AtLeastZero(counted - 1) ELSE counted]

(***************************************************************************)
(* register_effect: count the new effect, give it the version of its side, *)
(* and put it in the place of the effect of the same key, whose count is   *)
(* taken back.                                                             *)
(***************************************************************************)
register_effect(b, effect, epoch_valid_id) ==
  LET e == [effect EXCEPT !.valid_id = epoch_valid_id]
      counted == b.active_round_count + (IF isRoundEffect(e) THEN 1 ELSE 0)
  IN [effects |-> (b.effects \ SameKey(b, e)) \cup {e},
      active_round_count |->
        IF \E o \in SameKey(b, e) : isRoundEffect(o)
        THEN AtLeastZero(counted - 1)
        ELSE counted]

\* What execute_at erases when its walk over a timing point has ended.
erase(b, t, keys) ==
  [b EXCEPT !.effects = {e \in @ : ~(e.trigger = t /\ e.key \in keys)}]

\* Mutant: expired effects are left to the next invalidation.
RemovableInvalidated(e, current_round, epoch_valid_id) == is_epoch_invalidated(e, epoch_valid_id)

Removable(e, current_round, epoch_valid_id) ==
  \/ is_epoch_invalidated(e, epoch_valid_id)
  \/ isRoundEffect(e) /\ isExpired(e, current_round)

cleanup(b, current_round, epoch_valid_id) ==
  LET removed == {e \in b.effects : Removable(e, current_round, epoch_valid_id)}
      removed_round == Cardinality({e \in removed : isRoundEffect(e)})
  IN [effects |-> b.effects \ removed,
      active_round_count |-> AtLeastZero(b.active_round_count - removed_round)]

reset_round_count(b) == [b EXCEPT !.active_round_count = 0]

KeysAt(b, t) == {e.key : e \in {o \in b.effects : o.trigger = t}}

\* Mutant: the walk steps over the key after the one it has visited.
KeysSkipping(b, t, cursor) == {k \in KeysAt(b, t) : k > cursor + 1}

\* Mutant: the walk starts again after each effect.
KeysRestarting(b, t, cursor) == KeysAt(b, t) \ {cursor}

\* The keys the loop of execute_at has still to visit: the map is ordered, and
\* effects registered meanwhile are met if their key comes later.
KeysAfter(b, t, cursor) == {k \in KeysAt(b, t) : k > cursor}
=============================================================================
