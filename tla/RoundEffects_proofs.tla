------------------------ MODULE RoundEffects_proofs ------------------------
(***************************************************************************)
(* What the continuous effects of a side do in battles of any length, with *)
(* any effects of skills and plugins.                                      *)
(***************************************************************************)
EXTENDS RoundEffects, FiniteSetTheorems, TLAPS

\* The effects are finitely many, have a key and are numbered, no number occurs twice, and no
\* number that has not been given out is remembered.
Numbered ==
  /\ \A c \in Container : IsFiniteSet(buckets[c].effects)
  /\ \A c \in Container : \A e \in buckets[c].effects : e.uid \in 1 .. serial - 1 /\ e.key # 0
  /\ \A c, d \in Container : \A e \in buckets[c].effects, o \in buckets[d].effects :
       e.uid = o.uid => c = d /\ e = o
  /\ doomed \subseteq 1 .. serial - 1
  /\ ranNow \subseteq 1 .. serial - 1
  /\ spent \subseteq 1 .. serial - 1

\* A key holds one effect.
OnePerKey ==
  \A c \in Container : \A e, o \in buckets[c].effects :
    e.trigger = o.trigger /\ e.key = o.key => e = o

\* A function runs only during a walk.
RunsInWalk == stage \notin Container => running = 0

\* The versions: what was invalidated has an old one.
Versions ==
  \A c \in Container : \A e \in buckets[c].effects :
    /\ e.valid_id <= round_effect_valid_id
    /\ e.uid \in doomed => e.scope = "ON_STAGE" /\ e.valid_id < round_effect_valid_id

\* The walk of this timing point has gone past an effect of container c.
Behind(c, e) ==
  \/ stage = c /\ e.key <= cursor
  \/ stage = "after"
  \/ stage = "skill" /\ c = "soul"

Place(t) == CASE t = "CHOOSE" -> 1 [] t = "MOVE_RIGHT" -> 2 [] t = "ACTION" -> 3
              [] t = "ALL_ROUND_MINUS" -> 4 [] t = "COMPLETION" -> 5 [] OTHER -> 6

\* What has run in this round is behind the walk.
RanIsBehind ==
  \A c \in Container : \A e \in buckets[c].effects :
    e.uid \in ranNow =>
      \/ Place(e.trigger) < Place(currentState)
      \/ e.trigger = currentState /\ Behind(c, e)

\* An effect that has run as a once effect waits for the end of the walk to be erased.
SpentIsErased ==
  \A c \in Container : \A e \in buckets[c].effects :
    e.uid \in spent =>
      /\ stage = c /\ e.trigger = currentState
      /\ e.key \in once_keys /\ e.key <= cursor

\* What the walk has gone past and lives has run.
BehindHasRun ==
  currentState # "CHOOSE" =>
    \A c \in Container : \A e \in buckets[c].effects :
      e.trigger = currentState /\ Behind(c, e) /\ e.uid < began
      /\ Runs(e, roundCount, round_effect_valid_id) => e.uid \in ranNow

Began == began <= serial

IInv ==
  TypeOK /\ Numbered /\ OnePerKey /\ RunsInWalk /\ Versions /\ RanIsBehind /\ SpentIsErased
  /\ BehindHasRun /\ Began

(***************************************************************************)
(* The operators of TimedBucket.                                           *)
(***************************************************************************)

LEMMA RegisterType ==
  ASSUME NEW T, NEW b \in Bucket(T), NEW e \in Effect(T), NEW v \in Nat,
         IsFiniteSet(b.effects)
  PROVE  /\ register_effect(b, e, v) \in Bucket(T)
         /\ IsFiniteSet(register_effect(b, e, v).effects)
         /\ register_effect(b, e, v).effects \subseteq
              (b.effects \ SameKey(b, e)) \cup {[e EXCEPT !.valid_id = v]}
<1> DEFINE n == [e EXCEPT !.valid_id = v]
           counted == b.active_round_count + (IF isRoundEffect(n) THEN 1 ELSE 0)
           count == IF \E o \in SameKey(b, n) : isRoundEffect(o)
                    THEN AtLeastZero(counted - 1) ELSE counted
           left == (b.effects \ SameKey(b, n)) \cup {n}
<1>1. n \in Effect(T) /\ SameKey(b, n) = SameKey(b, e)
  BY DEF Effect, SameKey
<1>2. b.active_round_count \in Nat /\ b.effects \in SUBSET Effect(T)
  BY DEF Bucket
<1>3. counted \in Nat
  BY <1>2
<1>4. count \in Nat
  BY <1>3 DEF AtLeastZero
<1>5. left \in SUBSET Effect(T) /\ left \subseteq (b.effects \ SameKey(b, e)) \cup {n}
  BY <1>1, <1>2
<1>6. IsFiniteSet(left)
  <2>1. IsFiniteSet(b.effects \ SameKey(b, n))
    BY FS_Subset
  <2>. QED  BY <2>1, FS_AddElement
<1>7. register_effect(b, e, v) = [effects |-> left, active_round_count |-> count]
  BY DEF register_effect
<1>. QED  BY <1>4, <1>5, <1>6, <1>7 DEF Bucket

LEMMA EraseType ==
  ASSUME NEW T, NEW b \in Bucket(T), NEW t, NEW K, IsFiniteSet(b.effects)
  PROVE  /\ erase(b, t, K) \in Bucket(T)
         /\ IsFiniteSet(erase(b, t, K).effects)
         /\ erase(b, t, K).effects = {e \in b.effects : ~(e.trigger = t /\ e.key \in K)}
<1> DEFINE left == {e \in b.effects : ~(e.trigger = t /\ e.key \in K)}
<1>1. erase(b, t, K) = [effects |-> left, active_round_count |-> b.active_round_count]
  BY DEF erase, Bucket
<1>2. IsFiniteSet(left)
  BY FS_Subset, left \subseteq b.effects
<1>. QED  BY <1>1, <1>2 DEF Bucket

LEMMA CleanupType ==
  ASSUME NEW T, NEW b \in Bucket(T), NEW r, NEW v, IsFiniteSet(b.effects)
  PROVE  /\ cleanup(b, r, v) \in Bucket(T)
         /\ IsFiniteSet(cleanup(b, r, v).effects)
         /\ cleanup(b, r, v).effects = {e \in b.effects : ~Removable(e, r, v)}
<1> DEFINE removed == {e \in b.effects : Removable(e, r, v)}
           rounds == {e \in removed : isRoundEffect(e)}
           count == AtLeastZero(b.active_round_count - Cardinality(rounds))
<1>1. cleanup(b, r, v) = [effects |-> b.effects \ removed, active_round_count |-> count]
  BY DEF cleanup
<1>2. IsFiniteSet(rounds) /\ IsFiniteSet(b.effects \ removed)
  BY FS_Subset, rounds \subseteq b.effects, b.effects \ removed \subseteq b.effects
<1>3. Cardinality(rounds) \in Nat
  BY <1>2, FS_CardinalityType
<1>4. count \in Nat
  BY <1>3 DEF AtLeastZero, Bucket
<1>5. b.effects \ removed = {e \in b.effects : ~Removable(e, r, v)}
  OBVIOUS
<1>. QED  BY <1>1, <1>2, <1>4, <1>5 DEF Bucket

LEMMA ResetType ==
  ASSUME NEW T, NEW b \in Bucket(T)
  PROVE  reset_round_count(b) \in Bucket(T) /\ reset_round_count(b).effects = b.effects
BY DEF reset_round_count, Bucket

(***************************************************************************)
(* Registration.                                                           *)
(***************************************************************************)

LEMMA RegisterAdds ==
  ASSUME TypeOK, Numbered, NEW c \in Container, NEW e \in Effect(Timing), Register(c, e)
  PROVE  /\ buckets' \in [Container -> Bucket(Timing)]
         /\ \A d \in Container : IsFiniteSet(buckets'[d].effects)
         /\ \A d \in Container : d # c => buckets'[d] = buckets[d]
         /\ buckets'[c].effects \subseteq
              (buckets[c].effects \ SameKey(buckets[c], e))
                \cup {[e EXCEPT !.valid_id = round_effect_valid_id]}
         /\ serial' = serial + 1 /\ counter' \in Nat \ {0}
<1>1. /\ buckets \in [Container -> Bucket(Timing)] /\ round_effect_valid_id \in Nat
      /\ counter \in Nat \ {0}
  BY DEF TypeOK
<1>2. /\ buckets' = [buckets EXCEPT ![c] = register_effect(buckets[c], e, round_effect_valid_id)]
      /\ serial' = serial + 1 /\ counter' = timed_effect_key(e)
  BY DEF Register
<1>3. \A d \in Container : IsFiniteSet(buckets[d].effects)
  BY DEF Numbered
<1>4. /\ register_effect(buckets[c], e, round_effect_valid_id) \in Bucket(Timing)
      /\ IsFiniteSet(register_effect(buckets[c], e, round_effect_valid_id).effects)
      /\ register_effect(buckets[c], e, round_effect_valid_id).effects \subseteq
           (buckets[c].effects \ SameKey(buckets[c], e))
             \cup {[e EXCEPT !.valid_id = round_effect_valid_id]}
  BY <1>1, <1>3, RegisterType
<1>5. counter' \in Nat \ {0}
  BY <1>1, <1>2 DEF timed_effect_key
<1>. QED  BY <1>1, <1>2, <1>3, <1>4, <1>5

\* Everything but the walk and the history stays as it is.
LEMMA RegisterKeeps ==
  ASSUME IInv, NEW c \in Container, NEW e \in Effect(Timing), e.uid = serial, e.key # 0,
         Register(c, e),
         UNCHANGED <<round_effect_valid_id, roundCount, currentState, stage, once_keys, running,
                     began, history>>,
         cursor' = cursor \/ stage = "pending"
  PROVE  Numbered' /\ OnePerKey' /\ RunsInWalk' /\ Versions' /\ RanIsBehind' /\ SpentIsErased'
         /\ BehindHasRun' /\ Began'
<1> DEFINE n == [e EXCEPT !.valid_id = round_effect_valid_id]
<1>1. /\ \A d \in Container : IsFiniteSet(buckets'[d].effects)
      /\ \A d \in Container : d # c => buckets'[d] = buckets[d]
      /\ buckets'[c].effects \subseteq (buckets[c].effects \ SameKey(buckets[c], e)) \cup {n}
      /\ serial' = serial + 1
  BY RegisterAdds DEF IInv
<1>2. /\ n.uid = serial /\ n.valid_id = round_effect_valid_id /\ n.key # 0
      /\ n.trigger = e.trigger /\ n.key = e.key
  BY DEF Effect
<1> HIDE DEF n
<1>3. \A d \in Container : \A o \in buckets'[d].effects :
        o \in buckets[d].effects \/ (d = c /\ o = n)
  <2>. SUFFICES ASSUME NEW d \in Container, NEW o \in buckets'[d].effects
                PROVE  o \in buckets[d].effects \/ (d = c /\ o = n)
    OBVIOUS
  <2>1. CASE d = c
    BY <1>1, <2>1
  <2>2. CASE d # c
    BY <1>1, <2>2
  <2>. QED  BY <2>1, <2>2
<1>4. serial \in Nat \ {0} /\ began \in Nat /\ round_effect_valid_id \in Nat /\ cursor \in Nat
  BY DEF IInv, TypeOK
<1>5. UNCHANGED <<doomed, ranNow, spent>>
  BY DEF history
<1>6. n.uid \notin doomed /\ n.uid \notin ranNow /\ n.uid \notin spent
  BY <1>2, <1>4 DEF IInv, Numbered
<1>7. \A d \in Container : \A o \in buckets[d].effects : o.uid \in 1 .. serial - 1 /\ o.uid # n.uid
  BY <1>2, <1>4 DEF IInv, Numbered
<1>8. Numbered'
  <2>1. \A d \in Container : \A o \in buckets'[d].effects : o.uid \in 1 .. serial' - 1 /\ o.key # 0
    BY <1>1, <1>2, <1>3, <1>4, <1>7 DEF IInv, Numbered
  <2>2. \A d, g \in Container : \A o \in buckets'[d].effects, p \in buckets'[g].effects :
          o.uid = p.uid => d = g /\ o = p
    BY <1>3, <1>7 DEF IInv, Numbered
  <2>3. 1 .. serial - 1 \subseteq 1 .. serial' - 1
    BY <1>1, <1>4
  <2>. QED  BY <1>1, <1>5, <2>1, <2>2, <2>3 DEF IInv, Numbered
<1>16. OnePerKey'
  <2>. SUFFICES ASSUME NEW d \in Container, NEW o \in buckets'[d].effects,
                       NEW q \in buckets'[d].effects, o.trigger = q.trigger, o.key = q.key
                PROVE  o = q
    BY DEF OnePerKey
  <2>1. CASE d = c
    <3>1. \A x \in buckets'[c].effects :
            x = n \/ (x \in buckets[c].effects /\ ~(x.trigger = n.trigger /\ x.key = n.key))
      BY <1>1, <1>2 DEF SameKey
    <3>. QED  BY <2>1, <3>1 DEF IInv, OnePerKey
  <2>2. CASE d # c
    BY <1>1, <2>2 DEF IInv, OnePerKey
  <2>. QED  BY <2>1, <2>2
<1>9. RunsInWalk'
  BY DEF IInv, RunsInWalk
<1>10. Versions'
  BY <1>2, <1>3, <1>4, <1>5, <1>6 DEF IInv, Versions
<1>11. \A d \in Container : \A o : Behind(d, o)' <=> Behind(d, o)
  BY DEF Behind, Container
<1>12. RanIsBehind'
  BY <1>3, <1>5, <1>6, <1>11 DEF IInv, RanIsBehind
<1>13. SpentIsErased'
  BY <1>3, <1>5, <1>6 DEF IInv, SpentIsErased, Container
<1>14. BehindHasRun'
  <2>1. ~(n.uid < began)
    BY <1>2, <1>4 DEF IInv, Began
  <2>. QED  BY <1>3, <1>5, <1>11, <2>1 DEF IInv, BehindHasRun
<1>15. Began'
  BY <1>1, <1>4 DEF IInv, Began
<1>. QED  BY <1>8, <1>16, <1>9, <1>10, <1>12, <1>13, <1>14, <1>15

LEMMA RoundsType == Rounds \subseteq Int
BY RoundsAssumption

LEMMA NewEffectType ==
  ASSUME TypeOK, NEW t \in Timing, NEW k \in Nat \ {0}, NEW n \in Int, NEW r \in Int,
         NEW s \in Scope, NEW once \in BOOLEAN
  PROVE  /\ NewEffect(t, k, n, r, s, once) \in Effect(Timing)
         /\ NewEffect(t, k, n, r, s, once).uid = serial
         /\ NewEffect(t, k, n, r, s, once).key # 0
BY DEF TypeOK, NewEffect, Effect

LEMMA RegisterOnlyStep ==
  ASSUME IInv, NEW c \in Container, NEW e \in Effect(Timing), e.uid = serial, e.key # 0,
         RegisterOnly(c, e)
  PROVE  IInv'
<1>1. Register(c, e)
  BY DEF RegisterOnly
<1>2. UNCHANGED <<round_effect_valid_id, roundCount, currentState, stage, cursor, once_keys,
                  running, began, history, pending_effects, second>>
  BY DEF RegisterOnly, walk
<1>3. /\ buckets' \in [Container -> Bucket(Timing)]
      /\ serial' = serial + 1 /\ counter' \in Nat \ {0}
  BY <1>1, RegisterAdds DEF IInv
<1>4. TypeOK'
  BY <1>2, <1>3 DEF IInv, TypeOK, history
<1>. QED  BY <1>1, <1>2, <1>4, RegisterKeeps DEF IInv

(***************************************************************************)
(* Invalidation.                                                           *)
(***************************************************************************)

LEMMA InvalidateStep == ASSUME IInv, Invalidate PROVE IInv'
<1>1. /\ buckets \in [Container -> Bucket(Timing)] /\ round_effect_valid_id \in Nat \ {0}
      /\ serial \in Nat \ {0}
  BY DEF IInv, TypeOK
<1>2. /\ round_effect_valid_id' = round_effect_valid_id + 1
      /\ buckets' = [c \in Container |-> reset_round_count(buckets[c])]
      /\ doomed' = doomed \cup {e.uid : e \in {o \in Registered : o.scope = "ON_STAGE"}}
      /\ UNCHANGED <<pending_effects, roundCount, currentState, second, stage, cursor, once_keys,
                     running, began, counter, serial, ranNow, spent>>
  BY DEF Invalidate, walk, numbers
<1>3. /\ buckets' \in [Container -> Bucket(Timing)]
      /\ \A c \in Container : buckets'[c].effects = buckets[c].effects
  BY <1>1, <1>2, ResetType
<1>4. \A c \in Container : \A e \in buckets[c].effects :
        /\ e \in Effect(Timing) /\ e.uid \in 1 .. serial - 1
        /\ e.uid \in Nat /\ e.valid_id \in Nat
  BY <1>1 DEF Bucket, Effect, IInv, Numbered
<1>5. doomed' \subseteq 1 .. serial - 1 /\ doomed' \subseteq Nat
  <2>1. \A e \in Registered : e.uid \in 1 .. serial - 1
    BY <1>4 DEF Registered
  <2>2. doomed \subseteq 1 .. serial - 1
    BY DEF IInv, Numbered
  <2>3. doomed' \subseteq 1 .. serial - 1
    BY <1>2, <2>1, <2>2
  <2>. QED  BY <1>1, <2>3
<1>6. TypeOK'
  BY <1>1, <1>2, <1>3, <1>5 DEF IInv, TypeOK
<1>7. Numbered' /\ OnePerKey'
  BY <1>2, <1>3, <1>5 DEF IInv, Numbered, OnePerKey
<1>8. Versions'
  <2>. SUFFICES ASSUME NEW c \in Container, NEW e \in buckets[c].effects
                PROVE  /\ e.valid_id <= round_effect_valid_id + 1
                       /\ e.uid \in doomed' => e.scope = "ON_STAGE"
                                             /\ e.valid_id < round_effect_valid_id + 1
    BY <1>2, <1>3 DEF Versions
  <2>1. e.valid_id <= round_effect_valid_id
    BY DEF IInv, Versions
  <2>2. e.uid \in doomed => e.scope = "ON_STAGE"
    BY DEF IInv, Versions
  <2>3. \A o \in Registered : o.uid = e.uid => o = e
    BY DEF IInv, Numbered, Registered
  <2>. QED  BY <1>1, <1>2, <1>4, <2>1, <2>2, <2>3
<1>9. RanIsBehind' /\ SpentIsErased' /\ RunsInWalk' /\ Began'
  BY <1>2, <1>3 DEF IInv, RanIsBehind, SpentIsErased, RunsInWalk, Began, Behind
<1>10. \A c \in Container : \A e \in buckets[c].effects :
         Runs(e, roundCount, round_effect_valid_id + 1) => Runs(e, roundCount, round_effect_valid_id)
  BY <1>1, <1>4 DEF IInv, Versions, Runs, is_epoch_invalidated
<1>11. BehindHasRun'
  BY <1>2, <1>3, <1>10 DEF IInv, BehindHasRun, Behind
<1>. QED  BY <1>6, <1>7, <1>8, <1>9, <1>11 DEF IInv

(***************************************************************************)
(* The walk.                                                               *)
(***************************************************************************)

LEMMA ExecuteStep == ASSUME IInv, Execute PROVE IInv'
<1>1. /\ stage = "before" /\ stage' = "pending" /\ cursor' = 0 /\ began' = serial
      /\ UNCHANGED <<buckets, pending_effects, round_effect_valid_id, roundCount, currentState,
                     second, once_keys, running, counter, serial, doomed, ranNow, spent>>
  BY DEF Execute, history, numbers
<1>2. serial \in Nat
  BY DEF IInv, TypeOK
<1>3. TypeOK'
  BY <1>1, <1>2 DEF IInv, TypeOK
<1>4. Numbered' /\ OnePerKey' /\ Versions' /\ RunsInWalk' /\ Began'
  BY <1>1, <1>2 DEF IInv, Numbered, OnePerKey, Versions, RunsInWalk, Began, Container
<1>5. \A c \in Container : \A e : ~Behind(c, e) /\ ~Behind(c, e)'
  BY <1>1 DEF Behind, Container
<1>6. RanIsBehind' /\ BehindHasRun'
  BY <1>1, <1>5 DEF IInv, RanIsBehind, BehindHasRun
<1>7. SpentIsErased'
  BY <1>1 DEF IInv, SpentIsErased, Container
<1>. QED  BY <1>3, <1>4, <1>6, <1>7 DEF IInv

LEMMA VisitTriggerStep == ASSUME IInv, VisitTrigger PROVE IInv'
<1>1. /\ stage = "pending"
      /\ UNCHANGED <<round_effect_valid_id, roundCount, currentState, second, stage, once_keys,
                     running, began, doomed, ranNow, spent, history>>
  BY DEF VisitTrigger, history, numbers
<1>2. PICK p \in DueTriggers :
        /\ cursor' = p.uid
        /\ pending_effects' =
             IF TtlOver(p) \/ p.consume THEN pending_effects \ {p} ELSE pending_effects
        /\ IF TtlOver(p)
           THEN UNCHANGED <<buckets, numbers>>
           ELSE Register("skill", NewEffect(p.trigger, counter, p.duration_rounds,
                                            p.start_round, "ON_STAGE", FALSE))
  BY DEF VisitTrigger
<1>3. p \in Pending /\ pending_effects \subseteq Pending
  BY DEF DueTriggers, IInv, TypeOK
<1>4. cursor' \in Nat /\ pending_effects' \subseteq Pending
  BY <1>2, <1>3 DEF Pending
<1>5. CASE TtlOver(p)
  <2>1. UNCHANGED <<buckets, counter, serial>>
    BY <1>2, <1>5 DEF numbers
  <2>2. TypeOK'
    BY <1>1, <1>4, <2>1 DEF IInv, TypeOK
  <2>3. \A c \in Container : \A e : Behind(c, e)' <=> Behind(c, e)
    BY <1>1 DEF Behind, Container
  <2>4. Numbered' /\ OnePerKey' /\ Versions' /\ RunsInWalk' /\ Began' /\ RanIsBehind' /\ BehindHasRun'
    BY <1>1, <2>1, <2>3
       DEF IInv, Numbered, OnePerKey, Versions, RunsInWalk, Began, RanIsBehind, BehindHasRun
  <2>5. SpentIsErased'
    BY <1>1, <2>1 DEF IInv, SpentIsErased, Container
  <2>. QED  BY <2>2, <2>4, <2>5 DEF IInv
<1>6. CASE ~TtlOver(p)
  <2> DEFINE e == NewEffect(p.trigger, counter, p.duration_rounds, p.start_round, "ON_STAGE", FALSE)
  <2>1. Register("skill", e)
    BY <1>2, <1>6
  <2>2. /\ p.trigger \in Timing /\ p.duration_rounds \in Rounds /\ p.start_round \in Int
        /\ counter \in Nat \ {0} /\ serial \in Nat \ {0}
    BY <1>3 DEF Pending, IInv, TypeOK
  <2>3. e \in Effect(Timing) /\ e.uid = serial /\ e.key # 0
    <3>1. TypeOK /\ "ON_STAGE" \in Scope /\ FALSE \in BOOLEAN
      BY DEF IInv, Scope
    <3>2. p.duration_rounds \in Int
      BY <2>2, RoundsType
    <3>. QED  BY <2>2, <3>1, <3>2 DEF NewEffect, Effect
  <2> HIDE DEF e
  <2>4. "skill" \in Container
    BY DEF Container
  <2>5. /\ buckets' \in [Container -> Bucket(Timing)]
        /\ serial' = serial + 1 /\ counter' \in Nat \ {0}
    BY <2>1, <2>3, <2>4, RegisterAdds DEF IInv
  <2>6. TypeOK'
    BY <1>1, <1>4, <2>2, <2>5 DEF IInv, TypeOK
  <2>. QED  BY <1>1, <2>1, <2>3, <2>4, <2>6, RegisterKeeps DEF IInv
<1>. QED  BY <1>5, <1>6

LEMMA EndTriggersStep == ASSUME IInv, EndTriggers PROVE IInv'
<1>1. /\ stage = "pending" /\ stage' = "soul" /\ cursor' = 0 /\ once_keys' = {}
      /\ UNCHANGED <<buckets, pending_effects, round_effect_valid_id, roundCount, currentState,
                     second, running, counter, serial, began, doomed, ranNow, spent>>
  BY DEF EndTriggers, history, numbers
<1>2. TypeOK'
  BY <1>1 DEF IInv, TypeOK
<1>3. Numbered' /\ OnePerKey' /\ Versions' /\ RunsInWalk' /\ Began'
  BY <1>1 DEF IInv, Numbered, OnePerKey, Versions, RunsInWalk, Began, Container
<1>4. \A c \in Container : \A e : ~Behind(c, e)
  BY <1>1 DEF Behind, Container
<1>5. RanIsBehind'
  BY <1>1, <1>4 DEF IInv, RanIsBehind
<1>6. \A c \in Container : \A e \in buckets[c].effects : ~(e.key <= 0)
  BY DEF IInv, Numbered, TypeOK, Bucket, Effect
<1>7. BehindHasRun'
  BY <1>1, <1>6 DEF BehindHasRun, Behind, Container
<1>8. SpentIsErased'
  BY <1>1 DEF IInv, SpentIsErased, Container
<1>. QED  BY <1>2, <1>3, <1>5, <1>7, <1>8 DEF IInv

\* The walk comes to one effect: the next key holds no other.
LEMMA VisitStep == ASSUME IInv, NEW c \in Container, Visit(c) PROVE IInv'
<1>1. /\ stage = c
      /\ UNCHANGED <<buckets, pending_effects, round_effect_valid_id, roundCount, currentState,
                     second, stage, counter, serial, began, doomed>>
  BY DEF Visit, numbers
<1>2. PICK e \in buckets[c].effects :
        /\ Reaches(c, e)
        /\ cursor' = e.key
        /\ IF Runs(e, roundCount, round_effect_valid_id)
           THEN /\ running' = e.uid
                /\ once_keys' = IF e.once THEN once_keys \cup {e.key} ELSE once_keys
                /\ ranNow' = ranNow \cup {e.uid}
                /\ spent' = IF e.once THEN spent \cup {e.uid} ELSE spent
           ELSE running' = 0 /\ UNCHANGED <<once_keys, ranNow, spent>>
  BY DEF Visit
<1>3. \A d \in Container : \A o \in buckets[d].effects :
        /\ o.key \in Nat /\ o.once \in BOOLEAN
        /\ o.uid \in 1 .. serial - 1 /\ o.uid \in Nat
  BY DEF IInv, TypeOK, Numbered, Bucket, Effect
<1>4. cursor \in Nat /\ began \in Nat /\ serial \in Nat \ {0}
  BY DEF IInv, TypeOK
<1>5. /\ e.trigger = currentState /\ e.key > cursor
      /\ \A o \in buckets[c].effects :
           o.trigger = currentState /\ o.key > cursor => e.key <= o.key
  BY <1>2 DEF Reaches, KeysAfter, KeysAt
<1>6. e.uid \in 1 .. serial - 1 /\ e.key \in Nat
  BY <1>3
<1>7. TypeOK'
  <2>1. e.uid \in Nat
    BY <1>3
  <2>2. running' \in Nat /\ once_keys' \subseteq Nat /\ ranNow' \subseteq Nat /\ spent' \subseteq Nat
    <3>1. once_keys \subseteq Nat /\ ranNow \subseteq Nat /\ spent \subseteq Nat
      BY DEF IInv, TypeOK
    <3>2. CASE Runs(e, roundCount, round_effect_valid_id)
      BY <1>2, <1>6, <2>1, <3>1, <3>2
    <3>3. CASE ~Runs(e, roundCount, round_effect_valid_id)
      <4>1. running' = 0 /\ once_keys' = once_keys /\ ranNow' = ranNow /\ spent' = spent
        BY <1>2, <3>3
      <4>. QED  BY <3>1, <4>1
    <3>. QED  BY <3>2, <3>3
  <2>. QED  BY <1>1, <1>2, <1>6, <2>2 DEF IInv, TypeOK
<1>8. Numbered' /\ OnePerKey' /\ Versions' /\ Began'
  <2>1. ranNow' \subseteq 1 .. serial - 1 /\ spent' \subseteq 1 .. serial - 1
    BY <1>2, <1>6 DEF IInv, Numbered
  <2>. QED  BY <1>1, <2>1 DEF IInv, Numbered, OnePerKey, Versions, Began
<1>9. RunsInWalk'
  BY <1>1 DEF RunsInWalk
<1>10. \A d \in Container : \A o \in buckets[d].effects : o.uid = e.uid => d = c /\ o = e
  BY DEF IInv, Numbered
<1>11. \A d \in Container : \A o \in buckets[d].effects : Behind(d, o) => Behind(d, o)'
  BY <1>1, <1>2, <1>3, <1>4, <1>5 DEF Behind
<1>12. Behind(c, e)'
  BY <1>1, <1>2, <1>6 DEF Behind
<1>13. RanIsBehind'
  <2>. SUFFICES ASSUME NEW d \in Container, NEW o \in buckets[d].effects, o.uid \in ranNow'
                PROVE  \/ Place(o.trigger) < Place(currentState)
                       \/ o.trigger = currentState /\ Behind(d, o)'
    BY <1>1 DEF RanIsBehind
  <2>1. CASE o.uid \in ranNow
    BY <1>11, <2>1 DEF IInv, RanIsBehind
  <2>2. CASE o.uid \notin ranNow
    <3>1. o.uid = e.uid
      BY <1>2, <2>2
    <3>. QED  BY <1>5, <1>10, <1>12, <3>1
  <2>. QED  BY <2>1, <2>2
<1>14. SpentIsErased'
  <2>. SUFFICES ASSUME NEW d \in Container, NEW o \in buckets[d].effects, o.uid \in spent'
                PROVE  /\ stage = d /\ o.trigger = currentState
                       /\ o.key \in once_keys' /\ o.key <= cursor'
    BY <1>1 DEF SpentIsErased
  <2>1. CASE o.uid \in spent
    <3>1. stage = d /\ o.trigger = currentState /\ o.key \in once_keys /\ o.key <= cursor
      BY <2>1 DEF IInv, SpentIsErased
    <3>2. once_keys \subseteq once_keys' /\ cursor < cursor'
      BY <1>2, <1>5
    <3>. QED  BY <1>2, <1>3, <1>4, <3>1, <3>2
  <2>2. CASE o.uid \notin spent
    <3>1. spent' # spent
      BY <2>2
    <3>2. /\ Runs(e, roundCount, round_effect_valid_id) /\ e.once
          /\ spent' = spent \cup {e.uid} /\ once_keys' = once_keys \cup {e.key}
      BY <1>2, <3>1
    <3>3. o = e /\ d = c
      BY <1>10, <2>2, <3>2
    <3>. QED  BY <1>1, <1>2, <1>5, <1>6, <3>2, <3>3
  <2>. QED  BY <2>1, <2>2
<1>15. BehindHasRun'
  <2>. SUFFICES ASSUME currentState # "CHOOSE",
                       NEW d \in Container, NEW o \in buckets[d].effects,
                       o.trigger = currentState, Behind(d, o)', o.uid < began,
                       Runs(o, roundCount, round_effect_valid_id)
                PROVE  o.uid \in ranNow'
    BY <1>1 DEF BehindHasRun
  <2>0. ranNow \subseteq ranNow'
    BY <1>2
  <2>1. CASE Behind(d, o)
    BY <2>0, <2>1 DEF IInv, BehindHasRun
  <2>2. CASE ~Behind(d, o)
    <3>1. d = c /\ o.key > cursor /\ o.key <= e.key
      BY <1>1, <1>2, <1>3, <1>4, <2>2 DEF Behind, Container
    <3>2. o.key = e.key
      BY <1>3, <1>5, <1>6, <3>1
    <3>3. o = e
      BY <1>5, <3>1, <3>2 DEF IInv, OnePerKey
    <3>. QED  BY <1>2, <3>3
  <2>. QED  BY <2>1, <2>2
<1>. QED  BY <1>7, <1>8, <1>9, <1>13, <1>14, <1>15 DEF IInv

\* The walk over a container ends: the once effects it has run are gone.
LEMMA EndWalkStep == ASSUME IInv, NEW c \in Container, EndWalk(c) PROVE IInv'
<1>1. /\ stage = c /\ KeysAfter(buckets[c], currentState, cursor) = {}
      /\ buckets' = [buckets EXCEPT ![c] = erase(buckets[c], currentState, once_keys)]
      /\ stage' = IF c = "soul" THEN "skill" ELSE "after"
      /\ cursor' = 0 /\ once_keys' = {} /\ running' = 0
      /\ UNCHANGED <<pending_effects, round_effect_valid_id, roundCount, currentState, second,
                     counter, serial, began, doomed, ranNow, spent>>
  BY DEF EndWalk, history, numbers
<1>2. buckets \in [Container -> Bucket(Timing)] /\ buckets[c] \in Bucket(Timing)
      /\ IsFiniteSet(buckets[c].effects)
  BY DEF IInv, TypeOK, Numbered
<1>3. /\ erase(buckets[c], currentState, once_keys) \in Bucket(Timing)
      /\ IsFiniteSet(erase(buckets[c], currentState, once_keys).effects)
      /\ erase(buckets[c], currentState, once_keys).effects =
           {e \in buckets[c].effects : ~(e.trigger = currentState /\ e.key \in once_keys)}
  BY <1>2, EraseType
<1>4. /\ buckets' \in [Container -> Bucket(Timing)]
      /\ \A d \in Container : buckets'[d].effects \subseteq buckets[d].effects
      /\ \A d \in Container : IsFiniteSet(buckets'[d].effects)
      /\ \A e \in buckets'[c].effects : ~(e.trigger = currentState /\ e.key \in once_keys)
  <2>1. \A d \in Container :
          buckets'[d] = IF d = c THEN erase(buckets[c], currentState, once_keys) ELSE buckets[d]
    BY <1>1, <1>2
  <2>. QED  BY <1>1, <1>2, <1>3, <2>1 DEF IInv, Numbered
<1>5. TypeOK'
  BY <1>1, <1>4 DEF IInv, TypeOK
<1>6. Numbered' /\ OnePerKey' /\ Versions' /\ Began'
  BY <1>1, <1>4 DEF IInv, Numbered, OnePerKey, Versions, Began
<1>7. RunsInWalk'
  BY <1>1 DEF RunsInWalk
<1>8. \A d \in Container : \A e \in buckets[d].effects :
        e.trigger = currentState => (Behind(d, e)' <=> Behind(d, e))
  <2>. SUFFICES ASSUME NEW d \in Container, NEW e \in buckets[d].effects, e.trigger = currentState
                PROVE  Behind(d, e)' <=> Behind(d, e)
    OBVIOUS
  <2>1. e.key \in Nat /\ e.key # 0 /\ cursor \in Nat
    BY DEF IInv, TypeOK, Numbered, Bucket, Effect
  <2>2. d = c => e.key <= cursor
    BY <1>1, <2>1 DEF KeysAfter, KeysAt
  <2>. QED  BY <1>1, <2>1, <2>2 DEF Behind, Container
<1>9. RanIsBehind'
  BY <1>1, <1>4, <1>8 DEF IInv, RanIsBehind
<1>10. SpentIsErased'
  BY <1>1, <1>4 DEF IInv, SpentIsErased
<1>11. BehindHasRun'
  BY <1>1, <1>4, <1>8 DEF IInv, BehindHasRun
<1>. QED  BY <1>5, <1>6, <1>7, <1>9, <1>10, <1>11 DEF IInv

(***************************************************************************)
(* The ends of handlers.                                                   *)
(***************************************************************************)

LEMMA FollowsLater ==
  ASSUME NEW t \in {"CHOOSE", "MOVE_RIGHT", "ACTION", "ALL_ROUND_MINUS"}
  PROVE  Follows(t) \in Timing /\ Place(Follows(t)) = Place(t) + 1
<1> DEFINE At(u) == \E i \in 1 .. 4 : t = Order[i] /\ u = Order[i + 1]
<1>1. /\ Order[1] = "CHOOSE" /\ Order[2] = "MOVE_RIGHT" /\ Order[3] = "ACTION"
      /\ Order[4] = "ALL_ROUND_MINUS" /\ Order[5] = "COMPLETION"
  BY DEF Order
<1>2. PICK i \in 1 .. 4 : t = Order[i]
  BY <1>1
<1>3. Order[i + 1] \in Timing
  BY <1>1, i = 1 \/ i = 2 \/ i = 3 \/ i = 4 DEF Timing
<1>4. At(Order[i + 1])
  BY <1>2
<1>5. Follows(t) \in Timing /\ At(Follows(t))
  BY <1>3, <1>4 DEF Follows
<1>6. PICK j \in 1 .. 4 : t = Order[j] /\ Follows(t) = Order[j + 1]
  BY <1>5
<1>7. \A k \in 1 .. 5 : Place(Order[k]) = k
  <2>. SUFFICES ASSUME NEW k \in 1 .. 5 PROVE Place(Order[k]) = k
    OBVIOUS
  <2>. QED  BY <1>1, k = 1 \/ k = 2 \/ k = 3 \/ k = 4 \/ k = 5 DEF Place
<1>. QED  BY <1>5, <1>6, <1>7, j + 1 \in 1 .. 5, j \in 1 .. 5

LEMMA PlaceType == \A t : Place(t) \in 1 .. 6
BY DEF Place

LEMMA AdvanceStep == ASSUME IInv, Advance PROVE IInv'
<1>1. /\ stage = "after" /\ stage' = "before"
      /\ currentState \in {"CHOOSE", "MOVE_RIGHT", "ACTION", "ALL_ROUND_MINUS"}
      /\ currentState' = Follows(currentState)
      /\ IF currentState = "ALL_ROUND_MINUS" THEN cleanup_expired_effects ELSE UNCHANGED buckets
      /\ IF currentState = "MOVE_RIGHT" THEN second' \in BOOLEAN ELSE UNCHANGED second
      /\ UNCHANGED <<pending_effects, round_effect_valid_id, roundCount, cursor, once_keys, running,
                     began, counter, serial, doomed, ranNow, spent>>
  BY DEF Advance, history, numbers
<1>2. currentState' \in Timing /\ Place(currentState') = Place(currentState) + 1
  BY <1>1, FollowsLater
<1>3. /\ buckets' \in [Container -> Bucket(Timing)]
      /\ \A c \in Container : buckets'[c].effects \subseteq buckets[c].effects
      /\ \A c \in Container : IsFiniteSet(buckets'[c].effects)
  <2>1. /\ buckets \in [Container -> Bucket(Timing)]
        /\ \A c \in Container : IsFiniteSet(buckets[c].effects)
    BY DEF IInv, TypeOK, Numbered
  <2>2. CASE cleanup_expired_effects
    <3>1. buckets' = [c \in Container |-> cleanup(buckets[c], roundCount, round_effect_valid_id)]
      BY <2>2 DEF cleanup_expired_effects
    <3>. QED  BY <2>1, <3>1, CleanupType
  <2>3. CASE UNCHANGED buckets
    BY <2>1, <2>3
  <2>. QED  BY <1>1, <2>2, <2>3
<1>4. TypeOK'
  BY <1>1, <1>2, <1>3 DEF IInv, TypeOK
<1>5. Numbered' /\ OnePerKey' /\ Versions' /\ RunsInWalk' /\ Began'
  BY <1>1, <1>3 DEF IInv, Numbered, OnePerKey, Versions, RunsInWalk, Began, Container
<1>6. \A c \in Container : \A e : ~Behind(c, e)'
  BY <1>1 DEF Behind, Container
<1>7. BehindHasRun'
  BY <1>6 DEF BehindHasRun
<1>8. RanIsBehind'
  BY <1>1, <1>2, <1>3, PlaceType DEF IInv, RanIsBehind
<1>9. SpentIsErased'
  BY <1>1, <1>3 DEF IInv, SpentIsErased, Container
<1>. QED  BY <1>4, <1>5, <1>7, <1>8, <1>9 DEF IInv

LEMMA AdvanceRoundStep == ASSUME IInv, advanceRound PROVE IInv'
<1>1. /\ stage = "after" /\ currentState' = "CHOOSE" /\ roundCount' = roundCount + 1
      /\ ranNow' = {} /\ second' = FALSE
      /\ UNCHANGED <<buckets, pending_effects, round_effect_valid_id, stage, cursor, once_keys,
                     running, began, counter, serial, doomed, spent>>
  BY DEF advanceRound, walk, numbers
<1>2. TypeOK'
  <2>1. currentState' \in Timing /\ second' \in BOOLEAN /\ ranNow' \subseteq Nat
    BY <1>1 DEF Timing
  <2>2. roundCount' \in Nat
    BY <1>1 DEF IInv, TypeOK
  <2>. QED  BY <1>1, <2>1, <2>2 DEF IInv, TypeOK
<1>3. Numbered' /\ OnePerKey' /\ Versions' /\ RunsInWalk' /\ Began'
  BY <1>1 DEF IInv, Numbered, OnePerKey, Versions, RunsInWalk, Began
<1>4. RanIsBehind' /\ BehindHasRun'
  BY <1>1 DEF RanIsBehind, BehindHasRun
<1>5. SpentIsErased'
  BY <1>1 DEF IInv, SpentIsErased, Container
<1>. QED  BY <1>2, <1>3, <1>4, <1>5 DEF IInv

LEMMA FinishStep == ASSUME IInv, Finish PROVE IInv'
<1>1. /\ currentState = "COMPLETION" /\ stage \in {"before", "after"}
      /\ currentState' = "FINISHED"
      /\ UNCHANGED <<buckets, pending_effects, round_effect_valid_id, roundCount, second, stage,
                     cursor, once_keys, running, began, counter, serial, doomed, ranNow, spent>>
  BY DEF Finish, Outside, walk, history, numbers
<1>2. TypeOK'
  BY <1>1 DEF IInv, TypeOK
<1>3. Numbered' /\ OnePerKey' /\ Versions' /\ RunsInWalk' /\ Began'
  BY <1>1 DEF IInv, Numbered, OnePerKey, Versions, RunsInWalk, Began
<1>4. \A c \in Container : \A e \in buckets[c].effects : e.trigger \in Timing
  BY DEF IInv, TypeOK, Bucket, Effect
<1>5. BehindHasRun'
  BY <1>1, <1>4 DEF BehindHasRun, Timing
<1>6. RanIsBehind'
  <2>1. \A t \in Timing : Place(t) < Place("FINISHED")
    BY DEF Place, Timing
  <2>. QED  BY <1>1, <1>4, <2>1 DEF IInv, RanIsBehind
<1>7. SpentIsErased'
  BY <1>1 DEF IInv, SpentIsErased, Container
<1>. QED  BY <1>2, <1>3, <1>5, <1>6, <1>7 DEF IInv

(***************************************************************************)
(* Every step.                                                             *)
(***************************************************************************)

LEMMA SourcesType == Sources \subseteq Nat \ {0}
<1>1. MaxEffects * (MaxRound + 2) \in Nat
  BY BoundsAssumption
<1>. QED  BY <1>1, SourcesAssumption DEF MaxSerial

\* What the actions register now: an effect of a source, or one with a key of its own.
LEMMA TakesAKey ==
  ASSUME IInv, on_selected \/ register_branch \/ grant_guaranteed_first \/ PluginRegister
  PROVE  \E c \in Container, t \in Timing, k \in Sources \cup {counter}, n \in Int, s \in Scope,
            once \in BOOLEAN, r \in {roundCount, roundCount + 1} :
           RegisterOnly(c, NewEffect(t, k, n, r, s, once))
<1>1. /\ "MOVE_RIGHT" \in Timing /\ "ON_STAGE" \in Scope /\ "skill" \in Container
      /\ FALSE \in BOOLEAN /\ TRUE \in BOOLEAN /\ 2 \in Int
  BY DEF Timing, Scope, Container
<1>2. CASE on_selected
  <2>1. PICK k \in Sources, n \in Rounds :
          RegisterOnly("skill", NewEffect("MOVE_RIGHT", k, n, roundCount, "ON_STAGE", FALSE))
    BY <1>2 DEF on_selected
  <2>. QED  BY <1>1, <2>1, RoundsType
<1>3. CASE register_branch
  <2>1. PICK t \in States, n \in Rounds :
          RegisterOnly("skill", NewEffect(t, counter, n, roundCount, "ON_STAGE", FALSE))
    BY <1>3 DEF register_branch
  <2>2. t \in Timing /\ n \in Int
    BY StatesAssumption, RoundsType
  <2>. QED  BY <1>1, <2>1, <2>2
<1>4. CASE grant_guaranteed_first
  <2>1. RegisterOnly("skill", NewEffect("MOVE_RIGHT", counter, 2, roundCount, "ON_STAGE", TRUE))
    BY <1>4 DEF grant_guaranteed_first
  <2>. QED  BY <1>1, <2>1
<1>5. CASE PluginRegister
  <2>1. PICK p \in Plugins, r \in {roundCount, roundCount + 1} :
          RegisterOnly(p.container,
            NewEffect(p.trigger, IF p.key = NoKey THEN counter ELSE p.key, p.duration_rounds,
                      r, p.scope, FALSE))
    BY <1>5 DEF PluginRegister
  <2> DEFINE k == IF p.key = NoKey THEN counter ELSE p.key
  <2>2. /\ p.container \in Container /\ p.trigger \in Timing /\ p.duration_rounds \in Int
        /\ p.scope \in Scope /\ p.key \in {NoKey} \cup Sources
    BY PluginsAssumption
  <2>3. k \in Sources \cup {counter}
    BY <2>2
  <2>4. RegisterOnly(p.container,
          NewEffect(p.trigger, k, p.duration_rounds, r, p.scope, FALSE))
    BY <2>1
  <2> HIDE DEF k
  <2>. QED  BY <1>1, <2>2, <2>3, <2>4
<1>. QED  BY <1>2, <1>3, <1>4, <1>5

LEMMA KeysType == ASSUME IInv PROVE Sources \cup {counter} \subseteq Nat \ {0}
BY SourcesType DEF IInv, TypeOK

LEMMA RegistrationStep ==
  ASSUME IInv, on_selected \/ register_branch \/ grant_guaranteed_first \/ PluginRegister
  PROVE  IInv'
<1>1. PICK c \in Container, t \in Timing, k \in Sources \cup {counter}, n \in Int, s \in Scope,
           once \in BOOLEAN, r \in {roundCount, roundCount + 1} :
        RegisterOnly(c, NewEffect(t, k, n, r, s, once))
  BY TakesAKey
<1> DEFINE e == NewEffect(t, k, n, r, s, once)
<1>2. r \in Int /\ TypeOK /\ k \in Nat \ {0}
  BY KeysType DEF IInv, TypeOK
<1>3. e \in Effect(Timing) /\ e.uid = serial /\ e.key # 0
  BY <1>2, NewEffectType
<1> HIDE DEF e
<1>4. RegisterOnly(c, e)
  BY <1>1 DEF e
<1>. QED  BY <1>3, <1>4, RegisterOnlyStep

LEMMA TriggerRegisteredStep == ASSUME IInv, registerPendingEffect PROVE IInv'
<1>0. /\ counter \in Nat \ {0} /\ serial \in Nat \ {0} /\ roundCount \in Int
  BY DEF IInv, TypeOK
<1>1. /\ serial' = serial + 1
      /\ UNCHANGED <<buckets, round_effect_valid_id, roundCount, currentState, second, stage,
                     cursor, once_keys, running, began, counter, doomed, ranNow, spent>>
  BY DEF registerPendingEffect, walk, history
<1>2. pending_effects' \subseteq Pending
  <2>1. PICK o \in States, t \in States, n \in Rounds, ttl \in Ttls, c \in BOOLEAN :
          pending_effects' = pending_effects \cup
            {[observe |-> o, trigger |-> t, ttl_rounds |-> ttl, registered_round |-> roundCount,
              consume |-> c, duration_rounds |-> n,
              start_round |-> round_effect_start_round(n), uid |-> serial]}
    BY DEF registerPendingEffect
  <2>2. o \in Timing /\ t \in Timing /\ ttl \in Int
    BY StatesAssumption, TtlsAssumption
  <2>3. round_effect_start_round(n) \in Int
    BY <1>0 DEF round_effect_start_round
  <2>. QED  BY <1>0, <2>1, <2>2, <2>3 DEF Pending, IInv, TypeOK
<1>3. TypeOK'
  BY <1>0, <1>1, <1>2 DEF IInv, TypeOK
<1>4. 1 .. serial - 1 \subseteq 1 .. serial' - 1
  BY <1>0, <1>1
<1>5. Numbered'
  BY <1>1, <1>4 DEF IInv, Numbered
<1>6. OnePerKey' /\ RunsInWalk' /\ Versions' /\ SpentIsErased'
  BY <1>1 DEF IInv, OnePerKey, RunsInWalk, Versions, SpentIsErased
<1>7. RanIsBehind' /\ BehindHasRun' /\ Began'
  BY <1>0, <1>1 DEF IInv, TypeOK, RanIsBehind, BehindHasRun, Behind, Began
<1>. QED  BY <1>3, <1>5, <1>6, <1>7 DEF IInv

LEMMA RaceStep == ASSUME IInv, Race PROVE IInv'
<1>1. /\ counter' \in Nat \ {0}
      /\ UNCHANGED <<buckets, pending_effects, round_effect_valid_id, roundCount, currentState,
                     second, stage, cursor, once_keys, running, began, serial, doomed, ranNow,
                     spent>>
  BY DEF Race, walk, history, IInv, TypeOK
<1>2. TypeOK' /\ Numbered' /\ OnePerKey' /\ Versions' /\ RunsInWalk' /\ Began'
  BY <1>1 DEF IInv, TypeOK, Numbered, OnePerKey, Versions, RunsInWalk, Began
<1>3. RanIsBehind' /\ BehindHasRun' /\ SpentIsErased'
  BY <1>1 DEF IInv, RanIsBehind, BehindHasRun, SpentIsErased, Behind
<1>. QED  BY <1>2, <1>3 DEF IInv

LEMMA InitIInv == Init => IInv
<1>. SUFFICES ASSUME Init PROVE IInv
  OBVIOUS
<1>1. /\ buckets = [c \in Container |-> EmptyBucket]
      /\ pending_effects = {} /\ round_effect_valid_id = 1 /\ roundCount = 0
      /\ currentState = "CHOOSE" /\ second = FALSE /\ stage = "after"
      /\ cursor = 0 /\ once_keys = {} /\ running = 0 /\ began = 1
      /\ counter = 1 /\ serial = 1
      /\ doomed = {} /\ ranNow = {} /\ spent = {}
  BY DEF Init
<1>2. EmptyBucket \in Bucket(Timing) /\ EmptyBucket.effects = {}
  BY DEF EmptyBucket, Bucket
<1>3. \A c \in Container : buckets[c].effects = {}
  BY <1>1, <1>2
<1>4. TypeOK
  <2>1. buckets \in [Container -> Bucket(Timing)]
    BY <1>1, <1>2
  <2>2. /\ pending_effects \subseteq Pending /\ once_keys \subseteq Nat
        /\ doomed \subseteq Nat /\ ranNow \subseteq Nat /\ spent \subseteq Nat
    BY <1>1
  <2>3. /\ round_effect_valid_id \in Nat \ {0} /\ roundCount \in Nat
        /\ currentState \in Timing \cup {"FINISHED"}
        /\ stage \in {"before", "pending", "soul", "skill", "after"}
        /\ cursor \in Nat /\ running \in Nat /\ began \in Nat
        /\ counter \in Nat \ {0} /\ serial \in Nat \ {0}
    BY <1>1 DEF Timing
  <2>4. second \in BOOLEAN
    BY <1>1, Zenon
  <2>. QED  BY <2>1, <2>2, <2>3, <2>4 DEF TypeOK
<1>5. Numbered
  BY <1>1, <1>3, FS_EmptySet DEF Numbered
<1>6. OnePerKey /\ RunsInWalk /\ Versions /\ RanIsBehind /\ SpentIsErased /\ BehindHasRun /\ Began
  BY <1>1, <1>3
     DEF OnePerKey, RunsInWalk, Versions, RanIsBehind, SpentIsErased, BehindHasRun, Began
<1>. QED  BY <1>4, <1>5, <1>6 DEF IInv

LEMMA NextIInv == IInv /\ [Next]_vars => IInv'
<1>. SUFFICES ASSUME IInv, [Next]_vars PROVE IInv'
  OBVIOUS
<1>1. CASE on_selected \/ register_branch \/ grant_guaranteed_first \/ PluginRegister
  BY <1>1, RegistrationStep
<1>14. CASE registerPendingEffect
  BY <1>14, TriggerRegisteredStep
<1>2. ASSUME NEW rules \in RuleTypes, break_round_effects(rules) PROVE IInv'
  BY <1>2, InvalidateStep DEF break_round_effects
<1>3. CASE invalidate_on_stage_effects
  BY <1>3, InvalidateStep DEF invalidate_on_stage_effects
<1>4. CASE Execute
  BY <1>4, ExecuteStep
<1>5. CASE VisitTrigger
  BY <1>5, VisitTriggerStep
<1>6. CASE EndTriggers
  BY <1>6, EndTriggersStep
<1>7. ASSUME NEW c \in Container, Visit(c) PROVE IInv'
  BY <1>7, VisitStep
<1>8. ASSUME NEW c \in Container, EndWalk(c) PROVE IInv'
  BY <1>8, EndWalkStep
<1>9. CASE Advance
  BY <1>9, AdvanceStep
<1>10. CASE advanceRound
  BY <1>10, AdvanceRoundStep
<1>11. CASE Finish
  BY <1>11, FinishStep
<1>12. CASE UNCHANGED vars
  <2>1. UNCHANGED <<buckets, pending_effects, round_effect_valid_id, roundCount, currentState,
                    second, stage, cursor, once_keys, running, began, counter, serial, doomed,
                    ranNow, spent>>
    BY <1>12 DEF vars, walk, history, numbers
  <2>2. TypeOK' /\ Numbered' /\ OnePerKey' /\ Versions' /\ RunsInWalk' /\ Began'
    BY <2>1 DEF IInv, TypeOK, Numbered, OnePerKey, Versions, RunsInWalk, Began
  <2>3. RanIsBehind' /\ BehindHasRun' /\ SpentIsErased'
    BY <2>1 DEF IInv, RanIsBehind, BehindHasRun, SpentIsErased, Behind
  <2>. QED  BY <2>2, <2>3 DEF IInv
<1>13. CASE Race
  BY <1>13, RaceStep
<1>. QED
  BY <1>1, <1>2, <1>3, <1>4, <1>5, <1>6, <1>7, <1>8, <1>9, <1>10, <1>11, <1>12, <1>13,
     <1>14 DEF Next, Over

\* The invariant the theorems rest on.
THEOREM EffectsInvariant == Spec => []IInv
<1>. QED  BY InitIInv, NextIInv, PTL DEF Spec

\* The variables keep their types, however effects are registered and ended.
THEOREM TypeCorrect == Spec => []TypeOK
<1>1. IInv => TypeOK
  BY DEF IInv
<1>. QED  BY <1>1, EffectsInvariant, PTL

(***************************************************************************)
(* What runs.                                                              *)
(***************************************************************************)

\* Only a walk calls effects, and only the effect it comes to.
LEMMA OnlyVisitCalls ==
  ASSUME IInv, [Next]_vars, NEW u, Calls(u)
  PROVE  \E c \in Container : \E e \in buckets[c].effects :
           /\ stage = c /\ Reaches(c, e) /\ e.uid = u
           /\ Runs(e, roundCount, round_effect_valid_id)
<1>1. u # 0 /\ running' = u /\ cursor' # cursor
  BY DEF Calls
<1>2. stage \notin Container => running = 0
  BY DEF IInv, RunsInWalk
<1>3. ~(UNCHANGED cursor)
  BY <1>1
<1>4. \A c, e : ~RegisterOnly(c, e)
  BY <1>3 DEF RegisterOnly, walk
<1>5. ~on_selected /\ ~register_branch /\ ~grant_guaranteed_first /\ ~PluginRegister
  BY <1>4 DEF on_selected, register_branch, grant_guaranteed_first, PluginRegister
<1>6. ~Race /\ ~registerPendingEffect /\ ~Invalidate /\ ~advanceRound /\ ~Finish /\ ~(UNCHANGED vars)
  BY <1>3 DEF Race, registerPendingEffect, Invalidate, advanceRound, Finish, walk, vars
<1>7. ~Execute /\ ~VisitTrigger /\ ~EndTriggers /\ ~Advance
  BY <1>1, <1>2 DEF Execute, VisitTrigger, EndTriggers, Advance, Container
<1>8. \A c \in Container : ~EndWalk(c)
  BY <1>1 DEF EndWalk
<1>9. PICK c \in Container : Visit(c)
  BY <1>5, <1>6, <1>7, <1>8
     DEF Next, Over, break_round_effects, invalidate_on_stage_effects
<1>10. PICK e \in buckets[c].effects :
         /\ Reaches(c, e)
         /\ Runs(e, roundCount, round_effect_valid_id) => running' = e.uid
         /\ ~Runs(e, roundCount, round_effect_valid_id) => running' = 0
  BY <1>9 DEF Visit
<1>. QED  BY <1>1, <1>9, <1>10 DEF Visit

\* An ON_STAGE effect that a break or a switch of its side has invalidated never runs again.
THEOREM BrokenNeverRunsHolds == Spec => BrokenNeverRuns
<1>1. IInv /\ [Next]_vars => [\A u \in doomed : ~Calls(u)]_vars
  <2>. SUFFICES ASSUME IInv, [Next]_vars, NEW u \in doomed, Calls(u) PROVE FALSE
    OBVIOUS
  <2>1. PICK c \in Container : \E e \in buckets[c].effects :
          e.uid = u /\ Runs(e, roundCount, round_effect_valid_id)
    BY OnlyVisitCalls
  <2>2. PICK e \in buckets[c].effects : e.uid = u /\ Runs(e, roundCount, round_effect_valid_id)
    BY <2>1
  <2>3. e.scope = "ON_STAGE" /\ e.valid_id < round_effect_valid_id
    BY <2>2 DEF IInv, Versions
  <2>4. e.valid_id \in Nat /\ round_effect_valid_id \in Nat
    BY DEF IInv, TypeOK, Bucket, Effect
  <2>. QED  BY <2>2, <2>3, <2>4 DEF Runs, is_epoch_invalidated
<1>. QED  BY <1>1, EffectsInvariant, PTL DEF Spec, BrokenNeverRuns

\* A registration runs at most once in a round.
THEOREM OncePerRoundHolds == Spec => OncePerRound
<1>1. IInv /\ [Next]_vars => [\A u \in ranNow : ~Calls(u)]_vars
  <2>. SUFFICES ASSUME IInv, [Next]_vars, NEW u \in ranNow, Calls(u) PROVE FALSE
    OBVIOUS
  <2>1. PICK c \in Container : \E e \in buckets[c].effects :
          stage = c /\ Reaches(c, e) /\ e.uid = u
    BY OnlyVisitCalls
  <2>2. PICK e \in buckets[c].effects : stage = c /\ Reaches(c, e) /\ e.uid = u
    BY <2>1
  <2>3. e.trigger = currentState /\ e.key > cursor
    BY <2>2 DEF Reaches, KeysAfter, KeysAt
  <2>4. Behind(c, e)
    BY <2>2, <2>3, PlaceType DEF IInv, RanIsBehind
  <2>5. e.key \in Nat /\ cursor \in Nat
    BY DEF IInv, TypeOK, Bucket, Effect
  <2>. QED  BY <2>2, <2>3, <2>4, <2>5 DEF Behind, Container
<1>. QED  BY <1>1, EffectsInvariant, PTL DEF Spec, OncePerRound

\* A registration as once runs once.
THEOREM OnceRunsOnceHolds == Spec => OnceRunsOnce
<1>1. IInv /\ [Next]_vars => [\A u \in spent : ~Calls(u)]_vars
  <2>. SUFFICES ASSUME IInv, [Next]_vars, NEW u \in spent, Calls(u) PROVE FALSE
    OBVIOUS
  <2>1. PICK c \in Container : \E e \in buckets[c].effects :
          stage = c /\ Reaches(c, e) /\ e.uid = u
    BY OnlyVisitCalls
  <2>2. PICK e \in buckets[c].effects : stage = c /\ Reaches(c, e) /\ e.uid = u
    BY <2>1
  <2>3. e.key <= cursor
    BY <2>2 DEF IInv, SpentIsErased
  <2>4. e.key \in Nat /\ cursor \in Nat
    BY DEF IInv, TypeOK, Bucket, Effect
  <2>. QED  BY <2>2, <2>3, <2>4 DEF Reaches, KeysAfter
<1>. QED  BY <1>1, EffectsInvariant, PTL DEF Spec, OnceRunsOnce

\* No effect runs twice where once was meant, in a round or in its life.
THEOREM NeverRunsTwiceHolds == Spec => NeverRunsTwice
<1>. QED  BY OncePerRoundHolds, OnceRunsOnceHolds DEF NeverRunsTwice

\* When a walk has ended, what was registered before it and lives has run.
THEOREM WalkSkipsNothingHolds == Spec => []WalkSkipsNothing
<1>1. IInv => WalkSkipsNothing
  BY DEF IInv, BehindHasRun, Behind, WalkSkipsNothing
<1>. QED  BY <1>1, EffectsInvariant, PTL

(***************************************************************************)
(* What is left over.                                                      *)
(***************************************************************************)

\* n rounds are short of what a trigger may wait.
WithinWait(n) == \E ttl \in Ttls : ttl < 0 \/ n < ttl

\* An effect has rounds left when the reduction of this round has been, and one
\* more before, unless a trigger has registered it late.  A trigger knows how
\* long it may wait, and that its effect starts no earlier than it did.
Brief ==
  /\ \A p \in pending_effects : p.ttl_rounds \in Ttls /\ p.registered_round <= p.start_round
  /\ \A c \in Container : \A e \in buckets[c].effects :
       LET age == roundCount - e.registered_round IN
       isRoundEffect(e) =>
         /\ age <= e.duration_rounds \/ WithinWait(age - 1)
         /\ currentState \in {"COMPLETION", "FINISHED"} =>
              age < e.duration_rounds \/ WithinWait(age)

\* A round less is as short.
LEMMA WaitsLonger == \A n \in Int : WithinWait(n) => WithinWait(n - 1)
BY TtlsAssumption, SMT DEF WithinWait

\* Whatever registers an effect that has rounds left, or a late one of a trigger.
LEMMA BriefAdds ==
  ASSUME IInv, Brief, NEW c \in Container, NEW e \in Effect(Timing), Register(c, e),
         UNCHANGED <<roundCount, currentState>>, pending_effects' \subseteq pending_effects,
         \/ roundCount - e.registered_round < e.duration_rounds
         \/ WithinWait(roundCount - e.registered_round)
         \/ ~isRoundEffect(e)
  PROVE  Brief'
<1> DEFINE m == [e EXCEPT !.valid_id = round_effect_valid_id]
<1>1. /\ m.registered_round = e.registered_round /\ m.duration_rounds = e.duration_rounds
      /\ e.registered_round \in Int /\ e.duration_rounds \in Int /\ roundCount \in Nat
  BY DEF Effect, IInv, TypeOK
<1> HIDE DEF m
<1>2. /\ \A d \in Container : d # c => buckets'[d] = buckets[d]
      /\ buckets'[c].effects \subseteq (buckets[c].effects \ SameKey(buckets[c], e)) \cup {m}
  BY RegisterAdds DEF IInv, m
<1>3. \A d \in Container : \A o \in buckets'[d].effects : o \in buckets[d].effects \/ o = m
  BY <1>2
<1>4. isRoundEffect(m) =>
        \/ roundCount - m.registered_round < m.duration_rounds
        \/ WithinWait(roundCount - m.registered_round)
  BY <1>1 DEF isRoundEffect
<1>5. isRoundEffect(m) =>
        \/ roundCount - m.registered_round <= m.duration_rounds
        \/ WithinWait((roundCount - m.registered_round) - 1)
  BY <1>1, <1>4, WaitsLonger
<1>. QED  BY <1>3, <1>4, <1>5 DEF Brief

LEMMA BriefRegistered ==
  ASSUME IInv, Brief, NEW c \in Container, NEW t \in Timing, NEW k \in Nat \ {0}, NEW n \in Int,
         NEW s \in Scope, NEW once \in BOOLEAN,
         NEW r \in {roundCount, roundCount + 1},
         RegisterOnly(c, NewEffect(t, k, n, r, s, once))
  PROVE  Brief'
<1> DEFINE e == NewEffect(t, k, n, r, s, once)
<1>1. e \in Effect(Timing) /\ e.registered_round = r /\ e.duration_rounds = n /\ roundCount \in Nat
  BY DEF IInv, TypeOK, NewEffect, Effect
<1> HIDE DEF e
<1>2. Register(c, e) /\ UNCHANGED <<pending_effects, roundCount, currentState>>
  BY DEF RegisterOnly, e
<1>3. isRoundEffect(e) => roundCount - e.registered_round < e.duration_rounds
  BY <1>1 DEF isRoundEffect
<1>. QED  BY <1>1, <1>2, <1>3, BriefAdds

\* A trigger is kept with the start its effect will have.
LEMMA BriefWaits == ASSUME IInv, Brief, registerPendingEffect PROVE Brief'
<1>1. PICK o \in States, t \in States, n \in Rounds, ttl \in Ttls, c \in BOOLEAN :
        pending_effects' = pending_effects \cup
          {[observe |-> o, trigger |-> t, ttl_rounds |-> ttl, registered_round |-> roundCount,
            consume |-> c, duration_rounds |-> n,
            start_round |-> round_effect_start_round(n), uid |-> serial]}
  BY DEF registerPendingEffect
<1>2. roundCount \in Nat
  BY DEF IInv, TypeOK
<1>3. roundCount <= round_effect_start_round(n)
  BY <1>2 DEF round_effect_start_round
<1>4. \A p \in pending_effects' : p.ttl_rounds \in Ttls /\ p.registered_round <= p.start_round
  BY <1>1, <1>3 DEF Brief
<1>5. UNCHANGED <<buckets, roundCount, currentState>>
  BY DEF registerPendingEffect
<1>. QED  BY <1>4, <1>5 DEF Brief

\* A trigger that is visited in time registers an effect that is no older than it.
LEMMA BriefTriggers == ASSUME IInv, Brief, VisitTrigger PROVE Brief'
<1>1. PICK p \in DueTriggers :
        /\ pending_effects' =
             IF TtlOver(p) \/ p.consume THEN pending_effects \ {p} ELSE pending_effects
        /\ IF TtlOver(p)
           THEN UNCHANGED <<buckets, numbers>>
           ELSE Register("skill", NewEffect(p.trigger, counter, p.duration_rounds,
                                            p.start_round, "ON_STAGE", FALSE))
  BY DEF VisitTrigger
<1>2. UNCHANGED <<roundCount, currentState>> /\ pending_effects' \subseteq pending_effects
  BY <1>1 DEF VisitTrigger
<1>3. CASE TtlOver(p)
  BY <1>1, <1>2, <1>3 DEF Brief
<1>4. CASE ~TtlOver(p)
  <2> DEFINE e == NewEffect(p.trigger, counter, p.duration_rounds, p.start_round, "ON_STAGE", FALSE)
  <2>1. p \in Pending /\ p.ttl_rounds \in Ttls /\ p.registered_round <= p.start_round
    BY DEF DueTriggers, IInv, TypeOK, Brief
  <2>2. e \in Effect(Timing) /\ e.registered_round = p.start_round
    <3>1. p.duration_rounds \in Int
      <4>1. p.duration_rounds \in Rounds
        BY <2>1 DEF Pending
      <4>2. Rounds \subseteq Int
        BY RoundsAssumption
      <4>. QED  BY <4>1, <4>2
    <3>. QED  BY <2>1, <3>1 DEF NewEffect, Effect, Scope, Pending, IInv, TypeOK
  <2>3. Register("skill", e) /\ "skill" \in Container
    BY <1>1, <1>4 DEF Container
  <2> HIDE DEF e
  <2>4. /\ roundCount \in Nat /\ p.registered_round \in Int /\ p.start_round \in Int
        /\ p.ttl_rounds \in Int
    BY <2>1 DEF Pending, IInv, TypeOK
  <2>5. p.ttl_rounds < 0 \/ roundCount - p.registered_round < p.ttl_rounds
    BY <1>4, <2>4 DEF TtlOver
  <2>6. WithinWait(roundCount - e.registered_round)
    BY <2>1, <2>2, <2>4, <2>5 DEF WithinWait
  <2>. QED  BY <1>2, <2>2, <2>3, <2>6, BriefAdds
<1>. QED  BY <1>3, <1>4

LEMMA BriefAdvances == ASSUME IInv, Brief, Advance PROVE Brief'
<1>1. /\ currentState \in {"CHOOSE", "MOVE_RIGHT", "ACTION", "ALL_ROUND_MINUS"}
      /\ currentState' = Follows(currentState)
      /\ IF currentState = "ALL_ROUND_MINUS" THEN cleanup_expired_effects ELSE UNCHANGED buckets
      /\ UNCHANGED <<pending_effects, roundCount>>
  BY DEF Advance
<1>2. /\ buckets \in [Container -> Bucket(Timing)]
      /\ \A c \in Container : IsFiniteSet(buckets[c].effects)
      /\ \A c \in Container : \A e \in buckets[c].effects :
           e.registered_round \in Int /\ e.duration_rounds \in Int
      /\ roundCount \in Nat
  BY DEF IInv, TypeOK, Numbered, Bucket, Effect
<1>3. CASE currentState = "ALL_ROUND_MINUS"
  <2>1. buckets' = [c \in Container |-> cleanup(buckets[c], roundCount, round_effect_valid_id)]
    BY <1>1, <1>3 DEF cleanup_expired_effects
  <2>2. \A c \in Container :
          buckets'[c].effects =
            {e \in buckets[c].effects : ~Removable(e, roundCount, round_effect_valid_id)}
    BY <1>2, <2>1, CleanupType
  <2>. QED  BY <1>1, <1>2, <2>2 DEF Brief, Removable, isExpired, isRoundEffect
<1>4. CASE currentState # "ALL_ROUND_MINUS"
  <2>1. Place(currentState') = Place(currentState) + 1
    BY <1>1, FollowsLater
  <2>2. currentState' \notin {"COMPLETION", "FINISHED"}
    BY <1>1, <1>4, <2>1 DEF Place
  <2>. QED  BY <1>1, <1>4, <2>2 DEF Brief
<1>. QED  BY <1>3, <1>4

LEMMA BriefStep == IInv /\ Brief /\ [Next]_vars => Brief'
<1>. SUFFICES ASSUME IInv, Brief, [Next]_vars PROVE Brief'
  OBVIOUS
<1>1. buckets \in [Container -> Bucket(Timing)]
  BY DEF IInv, TypeOK
<1>2. CASE on_selected \/ register_branch \/ grant_guaranteed_first \/ PluginRegister
  BY <1>2, TakesAKey, KeysType, BriefRegistered
<1>6. CASE registerPendingEffect
  BY <1>6, BriefWaits
<1>7. CASE Invalidate
  <2>1. buckets' = [c \in Container |-> reset_round_count(buckets[c])]
    BY <1>7 DEF Invalidate
  <2>2. \A c \in Container : buckets'[c].effects = buckets[c].effects
    BY <1>1, <2>1, ResetType
  <2>. QED  BY <1>7, <2>2 DEF Invalidate, Brief
<1>8. CASE Race \/ Execute \/ EndTriggers \/ UNCHANGED vars
  BY <1>8 DEF Race, Execute, EndTriggers, vars, Brief
<1>9. CASE VisitTrigger
  BY <1>9, BriefTriggers
<1>10. ASSUME NEW c \in Container, Visit(c) PROVE Brief'
  BY <1>10 DEF Visit, Brief
<1>11. ASSUME NEW c \in Container, EndWalk(c) PROVE Brief'
  <2>1. buckets' = [buckets EXCEPT ![c] = erase(buckets[c], currentState, once_keys)]
    BY <1>11 DEF EndWalk
  <2>2. erase(buckets[c], currentState, once_keys).effects \subseteq buckets[c].effects
    BY <1>1, EraseType DEF IInv, Numbered
  <2>3. \A d \in Container : buckets'[d].effects \subseteq buckets[d].effects
    BY <1>1, <2>1, <2>2
  <2>. QED  BY <1>11, <2>3 DEF EndWalk, Brief
<1>12. CASE Advance
  BY <1>12, BriefAdvances
<1>13. CASE advanceRound
  <2>1. \A c \in Container : \A e \in buckets[c].effects :
          e.registered_round \in Int /\ e.duration_rounds \in Int
    BY DEF IInv, TypeOK, Bucket, Effect
  <2>2. roundCount \in Nat
    BY DEF IInv, TypeOK
  <2>. QED  BY <1>13, <2>1, <2>2 DEF advanceRound, Brief
<1>14. CASE Finish
  BY <1>14 DEF Finish, Brief
<1>. QED
  BY <1>2, <1>6, <1>7, <1>8, <1>9, <1>10, <1>11, <1>12, <1>13, <1>14
     DEF Next, Over, break_round_effects, invalidate_on_stage_effects

\* Nothing expired is left over for a later round, but by a trigger, and then for
\* no longer than a trigger waits.
THEOREM LeftoversHold == Spec => []LeftoversAreBrief
<1>1. Init => Brief
  BY DEF Init, Brief, EmptyBucket
<1>2. IInv /\ Brief /\ [Next]_vars => Brief'
  BY BriefStep
<1>3. IInv /\ Brief => LeftoversAreBrief
  <2> SUFFICES ASSUME IInv, Brief, NEW c \in Container, NEW e \in buckets[c].effects,
                      isRoundEffect(e),
                      ~(roundCount - e.registered_round <= e.duration_rounds)
               PROVE  \E ttl \in Ttls : ttl < 0 \/ roundCount - e.registered_round <= ttl
    BY DEF LeftoversAreBrief
  <2>1. WithinWait((roundCount - e.registered_round) - 1)
    BY DEF Brief
  <2>2. roundCount - e.registered_round \in Int
    BY DEF IInv, TypeOK, Bucket, Effect
  <2>. QED  BY <2>1, <2>2, TtlsAssumption DEF WithinWait
<1>. QED  BY <1>1, <1>2, <1>3, EffectsInvariant, PTL DEF Spec

(***************************************************************************)
(* The count of a bucket.                                                  *)
(***************************************************************************)

RoundsIn(b) == {e \in b.effects : isRoundEffect(e)}

\* The count keeps its relation to the bucket.
KeepsCount(b, a) ==
  /\ b.active_round_count >= Cardinality(RoundsIn(b)) =>
       a.active_round_count >= Cardinality(RoundsIn(a))
  /\ b.active_round_count <= Cardinality(RoundsIn(b)) =>
       a.active_round_count <= Cardinality(RoundsIn(a))

LEMMA RegisterCounts ==
  ASSUME NEW T, NEW b \in Bucket(T), NEW e \in Effect(T), NEW v \in Nat,
         IsFiniteSet(b.effects), e.uid \notin {o.uid : o \in b.effects},
         \A o, p \in b.effects : o.trigger = p.trigger /\ o.key = p.key => o = p
  PROVE  KeepsCount(b, register_effect(b, e, v))
<1> DEFINE n == [e EXCEPT !.valid_id = v]
           a == register_effect(b, e, v)
           counted == b.active_round_count + (IF isRoundEffect(n) THEN 1 ELSE 0)
           replaced == \E o \in SameKey(b, n) : isRoundEffect(o)
           left == {o \in RoundsIn(b) : o \notin SameKey(b, n)}
<1>1. /\ a.effects = (b.effects \ SameKey(b, n)) \cup {n}
      /\ a.active_round_count = IF replaced THEN AtLeastZero(counted - 1) ELSE counted
  BY DEF register_effect
<1>2. b.active_round_count \in Nat /\ n.uid = e.uid /\ n \notin b.effects
  BY DEF Bucket, Effect
<1>3. IsFiniteSet(RoundsIn(b)) /\ IsFiniteSet(left)
  BY FS_Subset, RoundsIn(b) \subseteq b.effects, left \subseteq b.effects DEF RoundsIn
<1>4. Cardinality(RoundsIn(b)) \in Nat /\ Cardinality(left) \in Nat
  BY <1>3, FS_CardinalityType
<1>5. Cardinality(left) = IF replaced THEN Cardinality(RoundsIn(b)) - 1
                                      ELSE Cardinality(RoundsIn(b))
  <2>1. CASE replaced
    <3>1. PICK o \in SameKey(b, n) : isRoundEffect(o)
      BY <2>1
    <3>2. o \in RoundsIn(b) /\ left = RoundsIn(b) \ {o}
      BY <3>1 DEF SameKey, RoundsIn
    <3>. QED  BY <1>3, <2>1, <3>2, FS_RemoveElement
  <2>2. CASE ~replaced
    <3>1. left = RoundsIn(b)
      BY <2>2 DEF RoundsIn
    <3>. QED  BY <2>2, <3>1
  <2>. QED  BY <2>1, <2>2
<1>6. RoundsIn(a) = IF isRoundEffect(n) THEN left \cup {n} ELSE left
  BY <1>1 DEF RoundsIn
<1>7. n \notin left
  BY <1>2 DEF RoundsIn
<1>8. Cardinality(RoundsIn(a)) = Cardinality(left) + (IF isRoundEffect(n) THEN 1 ELSE 0)
  <2>1. Cardinality(left \cup {n}) = Cardinality(left) + 1
    BY <1>3, <1>7, FS_AddElement
  <2> HIDE DEF left, n
  <2>. QED  BY <1>4, <1>6, <2>1
<1> HIDE DEF left, n, a, replaced
<1>. QED  BY <1>1, <1>2, <1>4, <1>5, <1>8 DEF KeepsCount, AtLeastZero, a

LEMMA CleanupCounts ==
  ASSUME NEW T, NEW b \in Bucket(T), NEW r, NEW v, IsFiniteSet(b.effects)
  PROVE  KeepsCount(b, cleanup(b, r, v))
<1> DEFINE removed == {e \in b.effects : Removable(e, r, v)}
           rounds == {e \in removed : isRoundEffect(e)}
           a == cleanup(b, r, v)
<1>1. /\ a.effects = b.effects \ removed
      /\ a.active_round_count = AtLeastZero(b.active_round_count - Cardinality(rounds))
  BY DEF cleanup
<1>2. RoundsIn(a) = RoundsIn(b) \ rounds /\ RoundsIn(b) \cap rounds = rounds
  BY <1>1 DEF RoundsIn
<1>3. IsFiniteSet(RoundsIn(b)) /\ IsFiniteSet(rounds) /\ IsFiniteSet(RoundsIn(a))
  BY <1>2, FS_Subset, RoundsIn(b) \subseteq b.effects, rounds \subseteq b.effects,
     RoundsIn(b) \ rounds \subseteq b.effects DEF RoundsIn
<1>4. /\ Cardinality(RoundsIn(b)) \in Nat /\ Cardinality(rounds) \in Nat
      /\ Cardinality(RoundsIn(a)) \in Nat /\ b.active_round_count \in Nat
  BY <1>3, FS_CardinalityType DEF Bucket
<1>5. Cardinality(RoundsIn(a)) = Cardinality(RoundsIn(b)) - Cardinality(rounds)
  BY <1>2, <1>3, FS_Difference
<1> HIDE DEF rounds, a
<1>. QED  BY <1>1, <1>4, <1>5 DEF KeepsCount, AtLeastZero, a

\* Both counts, and what the second rests on.
Counted ==
  /\ \A c \in Container :
       /\ round_effect_valid_id = 1 =>
            buckets[c].active_round_count >= Cardinality(RoundsIn(buckets[c]))
       /\ spent = {} => buckets[c].active_round_count <= Cardinality(RoundsIn(buckets[c]))
  /\ spent = {} => once_keys = {}

LEMMA CountedRegistered ==
  ASSUME IInv, Counted, NEW c \in Container, NEW e \in Effect(Timing), e.uid = serial,
         Register(c, e), UNCHANGED <<round_effect_valid_id, spent, once_keys>>
  PROVE  Counted'
<1>1. /\ buckets \in [Container -> Bucket(Timing)] /\ round_effect_valid_id \in Nat
      /\ serial \in Nat
  BY DEF IInv, TypeOK
<1>2. buckets' = [buckets EXCEPT ![c] = register_effect(buckets[c], e, round_effect_valid_id)]
  BY DEF Register
<1>3. \A o \in buckets[c].effects : o.uid # serial
  BY <1>1 DEF IInv, Numbered
<1>4. KeepsCount(buckets[c], register_effect(buckets[c], e, round_effect_valid_id))
  <2>1. \A o, p \in buckets[c].effects : o.trigger = p.trigger /\ o.key = p.key => o = p
    BY DEF IInv, OnePerKey
  <2>2. IsFiniteSet(buckets[c].effects) /\ e.uid \notin {o.uid : o \in buckets[c].effects}
    BY <1>3 DEF IInv, Numbered
  <2>. QED  BY <1>1, <2>1, <2>2, RegisterCounts
<1>5. \A d \in Container : d = c \/ buckets'[d] = buckets[d]
  BY <1>1, <1>2
<1>6. buckets'[c] = register_effect(buckets[c], e, round_effect_valid_id)
  BY <1>1, <1>2
<1>7. \A d \in Container : KeepsCount(buckets[d], buckets'[d])
  <2>. SUFFICES ASSUME NEW d \in Container PROVE KeepsCount(buckets[d], buckets'[d])
    OBVIOUS
  <2>1. CASE d = c
    BY <1>4, <1>6, <2>1
  <2>2. CASE d # c
    BY <1>5, <2>2 DEF KeepsCount
  <2>. QED  BY <2>1, <2>2
<1>. QED  BY <1>7 DEF Counted, KeepsCount

LEMMA CountedStep == IInv /\ Counted /\ [Next]_vars => Counted'
<1>. SUFFICES ASSUME IInv, Counted, [Next]_vars PROVE Counted'
  OBVIOUS
<1>1. /\ buckets \in [Container -> Bucket(Timing)] /\ round_effect_valid_id \in Nat \ {0}
      /\ roundCount \in Int /\ counter \in Nat \ {0} /\ TypeOK
      /\ \A c \in Container : IsFiniteSet(buckets[c].effects)
  BY DEF IInv, TypeOK, Numbered
<1>2. ASSUME NEW c \in Container, NEW t \in Timing, NEW k \in Nat \ {0}, NEW n \in Int,
             NEW s \in Scope, NEW once \in BOOLEAN, NEW r \in {roundCount, roundCount + 1},
             RegisterOnly(c, NewEffect(t, k, n, r, s, once))
      PROVE  Counted'
  <2> DEFINE e == NewEffect(t, k, n, r, s, once)
  <2>1. e \in Effect(Timing) /\ e.uid = serial
    BY <1>1, NewEffectType
  <2> HIDE DEF e
  <2>2. Register(c, e) /\ UNCHANGED <<round_effect_valid_id, spent, once_keys>>
    BY <1>2 DEF RegisterOnly, walk, history, e
  <2>. QED  BY <2>1, <2>2, CountedRegistered
<1>3. /\ "MOVE_RIGHT" \in Timing /\ "ON_STAGE" \in Scope /\ "skill" \in Container
      /\ FALSE \in BOOLEAN /\ TRUE \in BOOLEAN /\ 2 \in Int
  BY DEF Timing, Scope, Container
<1>4. CASE on_selected \/ register_branch \/ grant_guaranteed_first \/ PluginRegister
  BY <1>2, <1>4, TakesAKey, KeysType
<1>8. CASE Race \/ registerPendingEffect \/ Execute \/ advanceRound \/ Finish \/ UNCHANGED vars
  <2>1. UNCHANGED <<buckets, round_effect_valid_id, spent, once_keys>>
    BY <1>8 DEF Race, registerPendingEffect, Execute, advanceRound, Finish, vars, walk, history
  <2>. QED  BY <2>1 DEF Counted
<1>9. CASE Invalidate
  <2>1. /\ round_effect_valid_id' = round_effect_valid_id + 1
        /\ buckets' = [c \in Container |-> reset_round_count(buckets[c])]
        /\ UNCHANGED <<spent, once_keys>>
    BY <1>9 DEF Invalidate, walk, numbers
  <2>2. \A c \in Container :
          buckets'[c].effects = buckets[c].effects /\ buckets'[c].active_round_count = 0
    BY <1>1, <2>1 DEF reset_round_count, Bucket
  <2>3. \A c \in Container :
          IsFiniteSet(RoundsIn(buckets'[c])) /\ Cardinality(RoundsIn(buckets'[c])) \in Nat
    BY <1>1, <2>2, FS_Subset, FS_CardinalityType,
       \A c \in Container : RoundsIn(buckets'[c]) \subseteq buckets'[c].effects DEF RoundsIn
  <2>4. round_effect_valid_id' # 1
    BY <1>1, <2>1
  <2>. QED  BY <2>1, <2>2, <2>3, <2>4 DEF Counted
<1>10. CASE VisitTrigger
  <2>1. UNCHANGED <<round_effect_valid_id, spent, once_keys>>
    BY <1>10 DEF VisitTrigger, history, numbers
  <2>2. PICK p \in DueTriggers :
          IF TtlOver(p)
          THEN UNCHANGED <<buckets, numbers>>
          ELSE Register("skill", NewEffect(p.trigger, counter, p.duration_rounds,
                                           p.start_round, "ON_STAGE", FALSE))
    BY <1>10 DEF VisitTrigger
  <2>3. CASE TtlOver(p)
    BY <2>1, <2>2, <2>3 DEF Counted
  <2>4. CASE ~TtlOver(p)
    <3> DEFINE e == NewEffect(p.trigger, counter, p.duration_rounds, p.start_round, "ON_STAGE",
                              FALSE)
    <3>1. Register("skill", e)
      BY <2>2, <2>4
    <3>2. p.trigger \in Timing /\ p.duration_rounds \in Int /\ p.start_round \in Int
      BY RoundsType DEF DueTriggers, Pending, IInv, TypeOK
    <3>3. e \in Effect(Timing) /\ e.uid = serial
      BY <1>1, <1>3, <3>2, NewEffectType
    <3> HIDE DEF e
    <3>. QED  BY <1>3, <2>1, <3>1, <3>3, CountedRegistered
  <2>. QED  BY <2>3, <2>4
<1>11. CASE EndTriggers
  BY <1>11 DEF EndTriggers, history, Counted
<1>12. ASSUME NEW c \in Container, Visit(c) PROVE Counted'
  <2>1. UNCHANGED <<buckets, round_effect_valid_id>> /\ spent \subseteq spent'
        /\ (once_keys' # once_keys => spent' # {})
    BY <1>12 DEF Visit
  <2>2. spent' = {} => spent = {}
    BY <2>1
  <2>. QED  BY <2>1, <2>2 DEF Counted
<1>13. ASSUME NEW c \in Container, EndWalk(c) PROVE Counted'
  <2>1. /\ buckets' = [buckets EXCEPT ![c] = erase(buckets[c], currentState, once_keys)]
        /\ once_keys' = {}
        /\ UNCHANGED <<round_effect_valid_id, spent>>
    BY <1>13 DEF EndWalk, history, numbers
  <2> DEFINE a == erase(buckets[c], currentState, once_keys)
  <2>2. /\ a.active_round_count = buckets[c].active_round_count
        /\ a.effects = {e \in buckets[c].effects :
                          ~(e.trigger = currentState /\ e.key \in once_keys)}
    BY <1>1 DEF erase, Bucket
  <2>3. \A d \in Container : buckets'[d] = IF d = c THEN a ELSE buckets[d]
    BY <1>1, <2>1
  <2> HIDE DEF a
  <2>4. Cardinality(RoundsIn(a)) <= Cardinality(RoundsIn(buckets[c]))
    <3>1. IsFiniteSet(RoundsIn(buckets[c])) /\ RoundsIn(a) \subseteq RoundsIn(buckets[c])
      BY <1>1, <2>2, FS_Subset, RoundsIn(buckets[c]) \subseteq buckets[c].effects DEF RoundsIn
    <3>. QED  BY <3>1, FS_Subset
  <2>5. /\ Cardinality(RoundsIn(a)) \in Nat /\ Cardinality(RoundsIn(buckets[c])) \in Nat
        /\ buckets[c].active_round_count \in Nat
    BY <1>1, <2>2, FS_Subset, FS_CardinalityType, RoundsIn(buckets[c]) \subseteq buckets[c].effects,
       RoundsIn(a) \subseteq buckets[c].effects DEF RoundsIn, Bucket
  <2>6. spent = {} => RoundsIn(a) = RoundsIn(buckets[c])
    BY <2>2 DEF Counted, RoundsIn
  <2>. QED  BY <2>1, <2>2, <2>3, <2>4, <2>5, <2>6 DEF Counted
<1>14. CASE Advance
  <2>1. UNCHANGED <<round_effect_valid_id, spent, once_keys>>
    BY <1>14 DEF Advance, history, numbers
  <2>2. cleanup_expired_effects \/ UNCHANGED buckets
    BY <1>14 DEF Advance
  <2>3. \A c \in Container :
          KeepsCount(buckets[c], cleanup(buckets[c], roundCount, round_effect_valid_id))
    BY <1>1, CleanupCounts
  <2>4. \A c \in Container : KeepsCount(buckets[c], buckets'[c])
    BY <2>2, <2>3 DEF cleanup_expired_effects, KeepsCount
  <2>. QED  BY <2>1, <2>4 DEF Counted, KeepsCount
<1>. QED
  BY <1>4, <1>8, <1>9, <1>10, <1>11, <1>12, <1>13, <1>14
     DEF Next, Over, break_round_effects, invalidate_on_stage_effects

LEMMA CountedHolds == Spec => []Counted
<1>1. Init => Counted
  <2>. SUFFICES ASSUME Init PROVE Counted
    OBVIOUS
  <2>1. \A c \in Container : buckets[c].active_round_count = 0 /\ RoundsIn(buckets[c]) = {}
    BY DEF Init, EmptyBucket, RoundsIn
  <2>. QED  BY <2>1, FS_EmptySet DEF Init, Counted
<1>2. IInv /\ Counted /\ [Next]_vars => Counted'
  BY CountedStep
<1>. QED  BY <1>1, <1>2, EffectsInvariant, PTL DEF Spec

\* Before anything was invalidated, a break finds every round effect there is.
THEOREM CountCoversBucketHolds == Spec => []CountCoversBucket
<1>1. Counted => CountCoversBucket
  BY DEF Counted, CountCoversBucket, RoundEffectsOf, RoundsIn
<1>. QED  BY <1>1, CountedHolds, PTL

\* Until a once effect has run, a break succeeds only where there is a round effect.
THEOREM CountWithinBucketHolds == Spec => []CountWithinBucket
<1>1. Counted => CountWithinBucket
  BY DEF Counted, CountWithinBucket, RoundEffectsOf, RoundsIn
<1>. QED  BY <1>1, CountedHolds, PTL

\* The count that decides a break fits the bucket on both sides.
THEOREM CountFitsBucketHolds == Spec => []CountFitsBucket
<1>. QED  BY CountCoversBucketHolds, CountWithinBucketHolds, PTL DEF CountFitsBucket

(***************************************************************************)
(* Keys without a source, when no other battle takes them.                 *)
(***************************************************************************)

\* The keys taken are below the counter.
Fresh ==
  \A c \in Container : \A e \in buckets[c].effects : e.key \notin Sources => e.key < counter

UnsourcedKept ==
  \A c \in Container : \A e \in buckets[c].effects :
    e.key \notin Sources => e \in buckets'[c].effects

LEMMA FreshRegistered ==
  ASSUME IInv, Fresh, NEW c \in Container, NEW e \in Effect(Timing),
         e.key \in Sources \cup {counter}, Register(c, e)
  PROVE  Fresh' /\ UnsourcedKept
<1> DEFINE b == register_effect(buckets[c], e, round_effect_valid_id)
           n == [e EXCEPT !.valid_id = round_effect_valid_id]
<1>1. /\ buckets \in [Container -> Bucket(Timing)] /\ counter \in Nat
      /\ \A d \in Container : \A o \in buckets[d].effects : o.key \in Nat
  BY DEF IInv, TypeOK, Bucket, Effect
<1>2. /\ b.effects = (buckets[c].effects \ SameKey(buckets[c], n)) \cup {n}
      /\ n.key = e.key
  BY DEF register_effect, Effect
<1>3. \A d \in Container : buckets'[d] = IF d = c THEN b ELSE buckets[d]
  BY <1>1 DEF Register
<1>4. counter' = IF e.key \in Sources THEN counter ELSE counter + 1
  BY DEF Register, timed_effect_key
<1> HIDE DEF b, n
<1>5. \A o \in buckets[c].effects : o.key \notin Sources => o \in b.effects
  BY <1>1, <1>2 DEF SameKey, Fresh
<1>6. \A o \in b.effects : o.key \notin Sources => o.key < counter'
  BY <1>1, <1>2, <1>4 DEF Fresh
<1>7. counter <= counter'
  BY <1>1, <1>4
<1>8. \A d \in Container : \A o \in buckets'[d].effects : o.key \notin Sources => o.key < counter'
  <2>. SUFFICES ASSUME NEW d \in Container, NEW o \in buckets'[d].effects, o.key \notin Sources
                PROVE  o.key < counter'
    OBVIOUS
  <2>1. CASE d = c
    BY <1>3, <1>6, <2>1
  <2>2. CASE d # c
    <3>1. o \in buckets[d].effects
      BY <1>3, <2>2
    <3>2. counter' \in Nat
      BY <1>1, <1>4
    <3>. QED  BY <1>1, <1>7, <3>1, <3>2 DEF Fresh
  <2>. QED  BY <2>1, <2>2
<1>9. UnsourcedKept
  BY <1>3, <1>5 DEF UnsourcedKept
<1>. QED  BY <1>8, <1>9 DEF Fresh

LEMMA FreshStep ==
  ASSUME Races = FALSE, IInv, Fresh, [Next]_vars
  PROVE  Fresh' /\ (serial' # serial => UnsourcedKept)
<1>1. /\ buckets \in [Container -> Bucket(Timing)] /\ roundCount \in Int /\ TypeOK
      /\ \A c \in Container : IsFiniteSet(buckets[c].effects)
  BY DEF IInv, TypeOK, Numbered
<1>2. CASE on_selected \/ register_branch \/ grant_guaranteed_first \/ PluginRegister
  <2>1. PICK c \in Container, t \in Timing, k \in Sources \cup {counter}, n \in Int, s \in Scope,
             once \in BOOLEAN, r \in {roundCount, roundCount + 1} :
          RegisterOnly(c, NewEffect(t, k, n, r, s, once))
    BY <1>2, TakesAKey
  <2> DEFINE e == NewEffect(t, k, n, r, s, once)
  <2>2. e \in Effect(Timing)
    BY <1>1, KeysType, NewEffectType
  <2>3. e.key = k
    BY DEF NewEffect
  <2> HIDE DEF e
  <2>4. Register(c, e)
    BY <2>1 DEF RegisterOnly, e
  <2>. QED  BY <2>2, <2>3, <2>4, FreshRegistered
<1>3. CASE VisitTrigger
  <2>1. PICK p \in DueTriggers :
          IF TtlOver(p)
          THEN UNCHANGED <<buckets, numbers>>
          ELSE Register("skill", NewEffect(p.trigger, counter, p.duration_rounds,
                                           p.start_round, "ON_STAGE", FALSE))
    BY <1>3 DEF VisitTrigger
  <2>2. CASE TtlOver(p)
    BY <2>1, <2>2 DEF numbers, Fresh
  <2>3. CASE ~TtlOver(p)
    <3> DEFINE e == NewEffect(p.trigger, counter, p.duration_rounds, p.start_round, "ON_STAGE",
                              FALSE)
    <3>1. Register("skill", e)
      BY <2>1, <2>3
    <3>2. /\ p.trigger \in Timing /\ p.duration_rounds \in Int /\ p.start_round \in Int
          /\ "ON_STAGE" \in Scope /\ "skill" \in Container /\ FALSE \in BOOLEAN
      BY RoundsType DEF DueTriggers, Pending, IInv, TypeOK, Scope, Container
    <3>3. e \in Effect(Timing)
      BY <1>1, <3>2, KeysType, NewEffectType
    <3>4. e.key = counter
      BY DEF NewEffect
    <3> HIDE DEF e
    <3>. QED  BY <3>1, <3>2, <3>3, <3>4, FreshRegistered
  <2>. QED  BY <2>2, <2>3
<1>4. CASE registerPendingEffect
  BY <1>4 DEF registerPendingEffect, Fresh, UnsourcedKept
<1>5. CASE Invalidate
  <2>1. buckets' = [c \in Container |-> reset_round_count(buckets[c])]
        /\ UNCHANGED <<counter, serial>>
    BY <1>5 DEF Invalidate, numbers
  <2>2. \A c \in Container : buckets'[c].effects = buckets[c].effects
    BY <1>1, <2>1, ResetType
  <2>. QED  BY <2>1, <2>2 DEF Fresh
<1>6. CASE Execute \/ EndTriggers \/ advanceRound \/ Finish \/ UNCHANGED vars
  BY <1>6 DEF Execute, EndTriggers, advanceRound, Finish, vars, numbers, Fresh
<1>7. ASSUME NEW c \in Container, Visit(c) PROVE Fresh' /\ serial' = serial
  BY <1>7 DEF Visit, numbers, Fresh
<1>8. ASSUME NEW c \in Container, EndWalk(c) PROVE Fresh' /\ serial' = serial
  <2>1. /\ buckets' = [buckets EXCEPT ![c] = erase(buckets[c], currentState, once_keys)]
        /\ UNCHANGED <<counter, serial>>
    BY <1>8 DEF EndWalk, numbers
  <2>2. erase(buckets[c], currentState, once_keys).effects \subseteq buckets[c].effects
    BY <1>1, EraseType
  <2>3. \A d \in Container : buckets'[d].effects \subseteq buckets[d].effects
    BY <1>1, <2>1, <2>2
  <2>. QED  BY <2>1, <2>3 DEF Fresh
<1>9. CASE Advance
  <2>1. (cleanup_expired_effects \/ UNCHANGED buckets) /\ UNCHANGED <<counter, serial>>
    BY <1>9 DEF Advance, numbers
  <2>2. \A c \in Container :
          cleanup(buckets[c], roundCount, round_effect_valid_id).effects \subseteq buckets[c].effects
    BY <1>1, CleanupType
  <2>3. \A c \in Container : buckets'[c].effects \subseteq buckets[c].effects
    BY <2>1, <2>2 DEF cleanup_expired_effects
  <2>. QED  BY <2>1, <2>3 DEF Fresh
<1>10. ~Race
  BY DEF Race
<1>. QED
  BY <1>2, <1>3, <1>4, <1>5, <1>6, <1>7, <1>8, <1>9, <1>10
     DEF Next, Over, break_round_effects, invalidate_on_stage_effects

\* In a process that runs one battle, an effect without a source is never replaced.
THEOREM UnsourcedStayHolds == ASSUME Races = FALSE PROVE Spec => UnsourcedStay
<1>1. Init => Fresh
  BY DEF Init, Fresh, EmptyBucket
<1>2. IInv /\ Fresh /\ [Next]_vars => Fresh'
  BY FreshStep
<1>3. IInv /\ Fresh /\ [Next]_vars => [serial' # serial => UnsourcedKept]_vars
  BY FreshStep
<1>4. Spec => [][serial' # serial => UnsourcedKept]_vars
  BY <1>1, <1>2, <1>3, EffectsInvariant, PTL DEF Spec
<1>. QED  BY <1>4 DEF UnsourcedStay, UnsourcedKept

=============================================================================
