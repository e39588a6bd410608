-------------------------- MODULE Primitives_proofs --------------------------
(***************************************************************************)
(* Proofs about Levels and Strikes.                                        *)
(*                                                                         *)
(* Levels: its types with the caps of the levels, the views that follow    *)
(* the pets, whose resistances and elements they hold, and the levels of   *)
(* the bench, for any pets, levels and steps.  ViewFollowsPet,             *)
(* ResistanceIsOwn and ElementsAreOwn are inductive given the types.       *)
(*                                                                         *)
(* Strikes: its types, and what its steps may never do, for any banks,     *)
(* amounts and standing.  TypeOK is inductive; each action property        *)
(* follows from it, because a step is one that strikes a side (StruckBy)   *)
(* or none.  The loop over the shields and the totals are functions on     *)
(* 0 .. n, about which one argues by induction; the induction is that a    *)
(* set of naturals has a least member.                                     *)
(***************************************************************************)
EXTENDS Levels, Strikes, WellFoundedInduction, SequenceTheorems, TLAPS

\* A level that is cut at the caps is one, and so is an opposite.
LEMMA LevelFacts ==
  /\ 0 \in Level
  /\ \A n \in Level : -n \in Level
  /\ \A m, n \in Level : n > 0 => Capped(m + n) \in Level
  /\ \A m \in Level, n \in 1 .. MaxDrop : Floored(m - n) \in Level
BY LevelsAssumption, SMT DEF Level, Capped, Floored

\* A side's opponent is the other side.
LEMMA OpponentFacts == \A s \in Side : Opponent(s) \in Side /\ Opponent(s) # s
BY SMT DEF Side, Opponent

\* Levels with some of their values replaced by levels are levels.
LEMMA WithFacts ==
  ASSUME NEW f \in [Stat -> Level], NEW W \in SUBSET Stat, NEW new,
         \A x \in W : new[x] \in Level
  PROVE  /\ With(f, W, new) \in [Stat -> Level]
         /\ \A x \in Stat : With(f, W, new)[x] = IF x \in W THEN new[x] ELSE f[x]
BY DEF With

----------------------------------------------------------------------------
(* What changes the levels: one pet on stage, or both.                     *)

\* Write keeps the types.
LEMMA WriteTypes ==
  ASSUME LevelsTypeOK, NEW s \in Side, NEW W \in SUBSET Stat, NEW new,
         \A x \in W : new[x] \in Level, Write(s, W, new)
  PROVE  LevelsTypeOK'
<1> DEFINE f == With(levels[s][on_stage[s]], W, new)
           g == With(view_levels[s], W, new)
<1>0. levels[s][on_stage[s]] \in [Stat -> Level] /\ view_levels[s] \in [Stat -> Level]
  BY DEF LevelsTypeOK
<1>1. f \in [Stat -> Level] /\ g \in [Stat -> Level]
  BY <1>0, WithFacts
<1>2. levels' = [levels EXCEPT ![s][on_stage[s]] = f] /\ view_levels' = [view_levels EXCEPT ![s] = g]
  BY DEF Write, Staged
<1> HIDE DEF f, g
<1>3. levels' \in [Side -> [Slot -> [Stat -> Level]]] /\ view_levels' \in [Side -> [Stat -> Level]]
  BY <1>1, <1>2 DEF LevelsTypeOK
<1> QED BY <1>3 DEF Write, LevelsTypeOK, roundVars, baseVars

\* Write changes the pet and its view alike.
LEMMA WriteFollows ==
  ASSUME LevelsTypeOK, ViewFollowsPet, NEW s \in Side, NEW W \in SUBSET Stat, NEW new,
         \A x \in W : new[x] \in Level, Write(s, W, new)
  PROVE  ViewFollowsPet'
<1> SUFFICES ASSUME NEW q \in Side, NEW x \in Stat
             PROVE  \/ view_levels'[q][x] = Staged(q)'[x]
                    \/ phase' = "CHOOSE" /\ view_levels'[q][x] < 0 /\ Staged(q)'[x] >= 0
  BY DEF ViewFollowsPet
<1> DEFINE f == With(levels[s][on_stage[s]], W, new)
           g == With(view_levels[s], W, new)
<1>0. levels[s][on_stage[s]] \in [Stat -> Level] /\ view_levels[s] \in [Stat -> Level]
  BY DEF LevelsTypeOK
<1>1. f[x] = (IF x \in W THEN new[x] ELSE levels[s][on_stage[s]][x])
      /\ g[x] = (IF x \in W THEN new[x] ELSE view_levels[s][x])
  BY DEF With
<1>2. levels' = [levels EXCEPT ![s][on_stage[s]] = f] /\ view_levels' = [view_levels EXCEPT ![s] = g]
      /\ on_stage' = on_stage /\ phase' = phase
  BY DEF Write, Staged, roundVars
<1> HIDE DEF f, g
<1>3. on_stage[q] \in Slot
  BY DEF LevelsTypeOK
<1>4. Staged(q)' = IF q = s THEN f ELSE Staged(q)
  BY <1>2, <1>3 DEF LevelsTypeOK, Staged
<1>5. view_levels'[q] = IF q = s THEN g ELSE view_levels[q]
  BY <1>2 DEF LevelsTypeOK
<1>6. \/ view_levels[q][x] = Staged(q)[x]
      \/ phase = "CHOOSE" /\ view_levels[q][x] < 0 /\ Staged(q)[x] >= 0
  BY DEF ViewFollowsPet
<1> QED BY <1>1, <1>2, <1>4, <1>5, <1>6 DEF Staged

\* Nothing but levels and views of levels is written.
LEMMA WriteFrame ==
  ASSUME LevelsTypeOK, NEW s \in Side, NEW W \in SUBSET Stat, NEW new, Write(s, W, new)
  PROVE  /\ UNCHANGED <<phase, on_stage, immune, resist_view, element_view, bound_slot>>
         /\ \A q \in Side, p \in Slot : p # on_stage[q] => levels'[q][p] = levels[q][p]
BY DEF Write, LevelsTypeOK, roundVars, baseVars

\* Of the primitives, all but the transfer write levels on stats of the target.
LEMMA PrimitiveWrites ==
  ASSUME LevelsTypeOK, NEW s \in Side, Primitive(s), ~transfer_stat_boosts(s)
  PROVE  \E W \in SUBSET Stat : \E new : (\A x \in W : new[x] \in Level) /\ Write(s, W, new)
<1>0. Staged(s) \in [Stat -> Level]
  BY DEF LevelsTypeOK, Staged
<1>1. CASE \E x \in Stat, delta \in -MaxStep .. MaxStep : stat_change(s, x, delta)
  <2>1. PICK x \in Stat, delta \in -MaxStep .. MaxStep : stat_change(s, x, delta)
    BY <1>1
  <2> DEFINE new == [y \in {x} |-> Staged(s)[x] + delta]
  <2>2. {x} \in SUBSET Stat /\ (\A y \in {x} : new[y] \in Level) /\ Write(s, {x}, new)
    BY <2>1 DEF stat_change
  <2> QED BY <2>2
<1>2. CASE \E x \in Stat, amount \in 1 .. MaxDrop : stat_drop(s, x, amount)
  <2>1. PICK x \in Stat, amount \in 1 .. MaxDrop : stat_drop(s, x, amount)
    BY <1>2
  <2> DEFINE new == [y \in {x} |-> Floored(Staged(s)[x] - amount)]
  <2>2. Floored(Staged(s)[x] - amount) \in Level
    BY <1>0, LevelFacts
  <2>3. {x} \in SUBSET Stat /\ (\A y \in {x} : new[y] \in Level) /\ Write(s, {x}, new)
    BY <2>1, <2>2 DEF stat_drop
  <2> QED BY <2>3
<1>3. CASE \E x \in Defence : crit_defense_break(s, x)
  <2>1. PICK x \in Defence : crit_defense_break(s, x)
    BY <1>3
  <2>2. {x} \in SUBSET Stat /\ Write(s, {x}, Zero)
    BY <2>1, LevelsAssumption DEF crit_defense_break
  <2>3. \A y \in {x} : Zero[y] \in Level
    BY <2>2, LevelFacts DEF Zero
  <2> QED BY <2>2, <2>3
<1>4. \A y \in Stat : Zero[y] \in Level /\ Opposite(s)[y] \in Level
  BY <1>0, LevelFacts DEF Zero, Opposite
<1>5. Boosted(s) \in SUBSET Stat /\ Dropped(s) \in SUBSET Stat
  BY DEF Boosted, Dropped
<1>6. CASE clear_stat_boosts(s)
  BY <1>4, <1>5, <1>6 DEF clear_stat_boosts
<1>7. CASE clear_stat_drops(s)
  BY <1>4, <1>5, <1>7 DEF clear_stat_drops
<1>8. CASE stat_reversal(s)
  BY <1>4, <1>5, <1>8 DEF stat_reversal
<1>9. CASE stat_boost_reversal(s)
  BY <1>4, <1>5, <1>9 DEF stat_boost_reversal
<1> QED BY <1>1, <1>2, <1>3, <1>6, <1>7, <1>8, <1>9 DEF Primitive

\* What a transfer does to the pets on stage and to their views.
LEMMA TransferFacts ==
  ASSUME LevelsTypeOK, NEW s \in Side, transfer_stat_boosts(s)
  PROVE  /\ levels' \in [Side -> [Slot -> [Stat -> Level]]]
         /\ view_levels' \in [Side -> [Stat -> Level]]
         /\ UNCHANGED <<phase, on_stage, immune, resist_view, element_view, bound_slot>>
         /\ \A q \in Side, p \in Slot : p # on_stage[q] => levels'[q][p] = levels[q][p]
         /\ \A q \in Side, x \in Stat :
              IF x \in Boosted(s)
              THEN /\ view_levels'[q][x] = Staged(q)'[x]
                   /\ Staged(q)'[x] >= 0 \/ Staged(q)'[x] >= Staged(q)[x]
              ELSE view_levels'[q][x] = view_levels[q][x] /\ Staged(q)'[x] = Staged(q)[x]
<1> DEFINE o == Opponent(s)
           W == Boosted(s)
           gains == [x \in Stat |-> Capped(Staged(o)[x] + Staged(s)[x])]
           f == With(levels[s][on_stage[s]], W, Zero)
           g == With(view_levels[s], W, Zero)
           ff == With(levels[o][on_stage[o]], W, gains)
           gg == With(view_levels[o], W, gains)
<1>0. o \in Side /\ o # s /\ on_stage[s] \in Slot /\ on_stage[o] \in Slot /\ W \in SUBSET Stat
  BY OpponentFacts DEF LevelsTypeOK, Boosted
<1>1. /\ levels[s][on_stage[s]] \in [Stat -> Level] /\ view_levels[s] \in [Stat -> Level]
      /\ levels[o][on_stage[o]] \in [Stat -> Level] /\ view_levels[o] \in [Stat -> Level]
  BY <1>0 DEF LevelsTypeOK
<1>2. \A x \in W : Zero[x] = 0 /\ Zero[x] \in Level
  BY <1>0, LevelFacts DEF Zero
<1>3. \A x \in W : /\ gains[x] \in Level
                   /\ gains[x] >= levels[o][on_stage[o]][x]
  <2> SUFFICES ASSUME NEW x \in W
               PROVE  gains[x] \in Level /\ gains[x] >= levels[o][on_stage[o]][x]
    OBVIOUS
  <2>1. x \in Stat /\ levels[s][on_stage[s]][x] > 0
    BY DEF Boosted, Staged
  <2>2. levels[s][on_stage[s]][x] \in Level /\ levels[o][on_stage[o]][x] \in Level
    BY <1>1, <2>1
  <2>3. gains[x] = Capped(levels[o][on_stage[o]][x] + levels[s][on_stage[s]][x])
    BY <2>1 DEF Staged
  <2>4. gains[x] \in Level
    BY <2>1, <2>2, <2>3, LevelFacts
  <2>5. Capped(levels[o][on_stage[o]][x] + levels[s][on_stage[s]][x]) >= levels[o][on_stage[o]][x]
    BY <2>1, <2>2, LevelsAssumption DEF Capped, Level
  <2> QED BY <2>3, <2>4, <2>5
<1>4. /\ f \in [Stat -> Level] /\ g \in [Stat -> Level]
      /\ \A x \in Stat : /\ f[x] = IF x \in W THEN 0 ELSE levels[s][on_stage[s]][x]
                         /\ g[x] = IF x \in W THEN 0 ELSE view_levels[s][x]
  <2>1. f \in [Stat -> Level] /\ g \in [Stat -> Level]
    BY <1>0, <1>1, <1>2, WithFacts
  <2>2. ASSUME NEW x \in Stat
        PROVE  /\ f[x] = IF x \in W THEN 0 ELSE levels[s][on_stage[s]][x]
               /\ g[x] = IF x \in W THEN 0 ELSE view_levels[s][x]
    BY <1>2 DEF With
  <2> QED BY <2>1, <2>2
<1>5. /\ ff \in [Stat -> Level] /\ gg \in [Stat -> Level]
      /\ \A x \in Stat : /\ ff[x] = IF x \in W THEN gains[x] ELSE levels[o][on_stage[o]][x]
                         /\ gg[x] = IF x \in W THEN gains[x] ELSE view_levels[o][x]
  <2> HIDE DEF gains
  <2>1. ff \in [Stat -> Level] /\ gg \in [Stat -> Level]
    BY <1>0, <1>1, <1>3, WithFacts
  <2>2. ASSUME NEW x \in Stat
        PROVE  /\ ff[x] = IF x \in W THEN gains[x] ELSE levels[o][on_stage[o]][x]
               /\ gg[x] = IF x \in W THEN gains[x] ELSE view_levels[o][x]
    BY DEF With
  <2> QED BY <2>1, <2>2
<1>6. /\ levels' = [levels EXCEPT ![s][on_stage[s]] = f, ![o][on_stage[o]] = ff]
      /\ view_levels' = [view_levels EXCEPT ![s] = g, ![o] = gg]
      /\ UNCHANGED <<phase, on_stage, immune, resist_view, element_view, bound_slot>>
  BY DEF transfer_stat_boosts, Staged, roundVars, baseVars
<1> HIDE DEF f, g, ff, gg, gains, W, o
<1>7. /\ levels' \in [Side -> [Slot -> [Stat -> Level]]]
      /\ view_levels' \in [Side -> [Stat -> Level]]
  BY <1>0, <1>4, <1>5, <1>6 DEF LevelsTypeOK
<1>8. /\ levels'[s][on_stage[s]] = f /\ view_levels'[s] = g
      /\ levels'[o][on_stage[o]] = ff /\ view_levels'[o] = gg
      /\ \A q \in Side, p \in Slot : p # on_stage[q] => levels'[q][p] = levels[q][p]
  BY <1>0, <1>6 DEF LevelsTypeOK
<1>9. \A q \in Side : q = s \/ q = o
  BY <1>0, SMT DEF Side
<1>10. ASSUME NEW q \in Side, NEW x \in Stat
       PROVE  IF x \in W
              THEN /\ view_levels'[q][x] = Staged(q)'[x]
                   /\ Staged(q)'[x] >= 0 \/ Staged(q)'[x] >= Staged(q)[x]
              ELSE view_levels'[q][x] = view_levels[q][x] /\ Staged(q)'[x] = Staged(q)[x]
  <2>1. CASE q = s
    <3>1. Staged(q)' = f /\ view_levels'[q] = g /\ Staged(q) = levels[s][on_stage[s]]
      BY <1>6, <1>8, <2>1 DEF Staged
    <3>2. view_levels[q] = view_levels[s]
      BY <2>1
    <3> QED BY <1>4, <3>1, <3>2
  <2>2. CASE q = o
    <3>1. Staged(q)' = ff /\ view_levels'[q] = gg /\ Staged(q) = levels[o][on_stage[o]]
      BY <1>6, <1>8, <2>2 DEF Staged
    <3>2. view_levels[q] = view_levels[o]
      BY <2>2
    <3> QED BY <1>3, <1>5, <3>1, <3>2
  <2> QED BY <1>9, <2>1, <2>2
<1> QED BY <1>6, <1>7, <1>8, <1>10 DEF W

----------------------------------------------------------------------------
(* What bases the views anew: the round start, a switch, a replacement.    *)

\* The pet of either side that is on stage afterwards is the one the views hold.
Rebased ==
  /\ on_stage' \in [Side -> Slot] /\ phase' \in Phase /\ (phase' # "CHOOSE" \/ phase = "CHOOSE")
  /\ levels' = levels /\ immune' = immune
  /\ Sync(on_stage')

\* Those three steps are the ones that base the views anew.
LEMMA StepsRebase ==
  ASSUME LevelsTypeOK
  PROVE  /\ RoundStart => Rebased
         /\ \A s \in Side, slot \in Slot : SwitchPet(s, slot) \/ ReplaceDead(s, slot) => Rebased
<1>1. ASSUME RoundStart PROVE Rebased
  <2>1. on_stage' = on_stage /\ phase' = "FIGHT" /\ levels' = levels /\ immune' = immune /\ Sync(on_stage)
    BY <1>1 DEF RoundStart
  <2>2. Sync(on_stage')
    BY <2>1
  <2> QED BY <2>1, <2>2 DEF Rebased, LevelsTypeOK, Phase
<1>2. ASSUME NEW s \in Side, NEW slot \in Slot, SwitchPet(s, slot) \/ ReplaceDead(s, slot)
      PROVE  Rebased
  <2>1. /\ on_stage' = [on_stage EXCEPT ![s] = slot]
        /\ phase' = phase /\ levels' = levels /\ immune' = immune
        /\ Sync([on_stage EXCEPT ![s] = slot])
    BY <1>2 DEF SwitchPet, ReplaceDead, perform_switch
  <2>2. Sync(on_stage')
    BY <2>1
  <2> QED BY <2>1, <2>2 DEF Rebased, LevelsTypeOK
<1> QED BY <1>1, <1>2

\* Based anew, everything the views hold is the pet's on stage.
LEMMA RebaseFacts ==
  ASSUME LevelsTypeOK, ElementsAreOwn, Rebased
  PROVE  LevelsTypeOK' /\ ViewFollowsPet' /\ ResistanceIsOwn' /\ ElementsAreOwn'
<1> DEFINE stage == on_stage'
<1>1. /\ stage \in [Side -> Slot] /\ levels' = levels
      /\ view_levels' = [s \in Side |-> levels[s][stage[s]]]
      /\ resist_view' = [s \in Side |-> Body(s, stage[s])]
      /\ element_view' = [s \in Side |-> IF bound_slot[s] = stage[s] THEN element_view[s]
                                         ELSE [of |-> stage[s], changed |-> FALSE]]
      /\ bound_slot' = [s \in Side |-> stage[s]]
  BY DEF Rebased, Sync
<1> HIDE DEF stage
<1>2. view_levels' \in [Side -> [Stat -> Level]]
  BY <1>1 DEF LevelsTypeOK
<1>3. resist_view' \in [Side -> Resistance]
  BY <1>1 DEF Resistance, Body
<1>4. ASSUME NEW s \in Side
      PROVE  /\ element_view'[s] \in [of : Slot \cup {NoSlot}, changed : BOOLEAN]
             /\ element_view'[s].of = stage[s]
  <2>1. stage[s] \in Slot
    BY <1>1
  <2>2. CASE bound_slot[s] = stage[s]
    <3>1. element_view'[s] = element_view[s]
      BY <1>1, <2>2
    <3> QED BY <2>2, <3>1 DEF ElementsAreOwn, LevelsTypeOK
  <2>3. CASE bound_slot[s] # stage[s]
    <3>1. element_view'[s] = [of |-> stage[s], changed |-> FALSE]
      BY <1>1, <2>3
    <3> QED BY <2>1, <3>1
  <2> QED BY <2>2, <2>3
<1>5. element_view' \in [Side -> [of : Slot \cup {NoSlot}, changed : BOOLEAN]]
  <2> DEFINE e(s) == IF bound_slot[s] = stage[s] THEN element_view[s]
                     ELSE [of |-> stage[s], changed |-> FALSE]
  <2>1. element_view' = [s \in Side |-> e(s)]
    BY <1>1
  <2> HIDE DEF e
  <2>2. \A s \in Side : element_view'[s] = e(s)
    BY <2>1
  <2>3. \A s \in Side : e(s) \in [of : Slot \cup {NoSlot}, changed : BOOLEAN]
    BY <1>4, <2>2
  <2> QED BY <2>1, <2>3
<1>6. bound_slot' \in [Side -> Slot \cup {NoSlot}]
  BY <1>1
<1>7. LevelsTypeOK'
  <2>1. on_stage' \in [Side -> Slot] /\ phase' \in Phase /\ levels' = levels /\ immune' = immune
    BY DEF Rebased
  <2> QED BY <1>2, <1>3, <1>5, <1>6, <2>1 DEF LevelsTypeOK
<1>8. ViewFollowsPet'
  BY <1>1 DEF ViewFollowsPet, Staged, stage
<1>9. ResistanceIsOwn'
  BY <1>1 DEF ResistanceIsOwn, Body, stage
<1>10. ElementsAreOwn'
  BY <1>1, <1>4 DEF ElementsAreOwn, stage
<1> QED BY <1>7, <1>8, <1>9, <1>10

----------------------------------------------------------------------------
(* The invariant, step by step.                                            *)

ViewInv == LevelsTypeOK /\ ViewFollowsPet /\ ResistanceIsOwn /\ ElementsAreOwn

\* A step that leaves pets, levels and views of levels alone keeps the views true,
\* unless the choice ends.
LEMMA LevelsStay ==
  ASSUME LevelsTypeOK, ViewFollowsPet, on_stage' = on_stage, levels' = levels, view_levels' = view_levels,
         phase' = phase \/ phase # "CHOOSE"
  PROVE  ViewFollowsPet'
BY DEF ViewFollowsPet, Staged

\* Primitives keep the invariant.
LEMMA PrimitiveKeeps ==
  ASSUME ViewInv, NEW s \in Side, Primitive(s)
  PROVE  ViewInv'
<1>1. CASE transfer_stat_boosts(s)
  <2>1. /\ levels' \in [Side -> [Slot -> [Stat -> Level]]]
        /\ view_levels' \in [Side -> [Stat -> Level]]
        /\ UNCHANGED <<phase, on_stage, immune, resist_view, element_view, bound_slot>>
    BY <1>1, TransferFacts DEF ViewInv
  <2>2. ASSUME NEW q \in Side, NEW x \in Stat
        PROVE  \/ view_levels'[q][x] = Staged(q)'[x]
               \/ phase' = "CHOOSE" /\ view_levels'[q][x] < 0 /\ Staged(q)'[x] >= 0
    <3>1. \/ view_levels[q][x] = Staged(q)[x]
          \/ phase = "CHOOSE" /\ view_levels[q][x] < 0 /\ Staged(q)[x] >= 0
      BY DEF ViewInv, ViewFollowsPet
    <3>2. IF x \in Boosted(s)
          THEN view_levels'[q][x] = Staged(q)'[x]
          ELSE view_levels'[q][x] = view_levels[q][x] /\ Staged(q)'[x] = Staged(q)[x]
      BY <1>1, TransferFacts DEF ViewInv
    <3> QED BY <2>1, <3>1, <3>2
  <2> QED BY <2>1, <2>2 DEF ViewInv, LevelsTypeOK, ViewFollowsPet, ResistanceIsOwn, ElementsAreOwn
<1>2. CASE ~transfer_stat_boosts(s)
  <2>1. PICK W \in SUBSET Stat : \E new : (\A x \in W : new[x] \in Level) /\ Write(s, W, new)
    BY <1>2, PrimitiveWrites DEF ViewInv
  <2>2. PICK new : (\A x \in W : new[x] \in Level) /\ Write(s, W, new)
    BY <2>1
  <2>3. LevelsTypeOK' /\ ViewFollowsPet'
    BY <2>2, WriteTypes, WriteFollows DEF ViewInv
  <2>4. UNCHANGED <<phase, on_stage, immune, resist_view, element_view, bound_slot>>
    BY <2>2 DEF Write, roundVars, baseVars
  <2> QED BY <2>3, <2>4 DEF ViewInv, ResistanceIsOwn, ElementsAreOwn
<1> QED BY <1>1, <1>2

\* A medicine clears drops of the pet while the players choose.
LEMMA MedicineKeeps ==
  ASSUME ViewInv, NEW s \in Side, medicine_clears_drops(s)
  PROVE  ViewInv'
<1> DEFINE f == With(levels[s][on_stage[s]], Dropped(s), Zero)
<1>1. Dropped(s) \in SUBSET Stat /\ levels[s][on_stage[s]] \in [Stat -> Level] /\ on_stage[s] \in Slot
  BY DEF Dropped, ViewInv, LevelsTypeOK
<1>2. \A x \in Dropped(s) : Zero[x] = 0 /\ Zero[x] \in Level
  BY <1>1, LevelFacts DEF Zero
<1>3. f \in [Stat -> Level]
  BY <1>1, <1>2, WithFacts
<1>4. ASSUME NEW x \in Stat
      PROVE  f[x] = IF x \in Dropped(s) THEN 0 ELSE levels[s][on_stage[s]][x]
  BY <1>2 DEF With
<1>5. /\ levels' = [levels EXCEPT ![s][on_stage[s]] = f] /\ phase = "CHOOSE"
      /\ UNCHANGED <<phase, on_stage, view_levels, immune, resist_view, element_view, bound_slot>>
  BY DEF medicine_clears_drops, Staged, roundVars, baseVars
<1> HIDE DEF f
<1>6. LevelsTypeOK'
  BY <1>3, <1>5 DEF ViewInv, LevelsTypeOK
<1>7. ViewFollowsPet'
  <2> SUFFICES ASSUME NEW q \in Side, NEW x \in Stat
               PROVE  view_levels[q][x] = Staged(q)'[x] \/ (view_levels[q][x] < 0 /\ Staged(q)'[x] >= 0)
    BY <1>5 DEF ViewFollowsPet
  <2>1. view_levels[q][x] = Staged(q)[x] \/ (view_levels[q][x] < 0 /\ Staged(q)[x] >= 0)
    BY DEF ViewInv, ViewFollowsPet
  <2>2. CASE q = s
    <3>1. Staged(q)' = f /\ Staged(q) = levels[s][on_stage[s]]
      BY <1>1, <1>5, <2>2 DEF Staged, ViewInv, LevelsTypeOK
    <3>2. x \in Dropped(s) <=> Staged(q)[x] < 0
      BY <2>2 DEF Dropped
    <3>3. Staged(q)[x] \in Int /\ view_levels[q][x] \in Int
      <4>1. Staged(q)[x] \in Level /\ view_levels[q][x] \in Level
        BY <1>1, <3>1 DEF ViewInv, LevelsTypeOK
      <4> QED BY <4>1, LevelsAssumption DEF Level
    <3> QED BY <1>4, <2>1, <3>1, <3>2, <3>3
  <2>3. CASE q # s
    <3>1. on_stage[q] \in Slot
      BY DEF ViewInv, LevelsTypeOK
    <3>2. Staged(q)' = Staged(q)
      BY <1>5, <2>3, <3>1 DEF Staged, ViewInv, LevelsTypeOK
    <3> QED BY <2>1, <3>2
  <2> QED BY <2>2, <2>3
<1> QED BY <1>5, <1>6, <1>7 DEF ViewInv, ResistanceIsOwn, ElementsAreOwn

\* Buffs, changed elements, immunities and the end of a phase keep the invariant.
LEMMA OthersKeep ==
  ASSUME ViewInv, NEW s \in Side,
         BuffResistance(s) \/ ChangeElements(s) \/ ChangeImmunity(s) \/ PhaseEnds
  PROVE  ViewInv'
<1>1. CASE BuffResistance(s)
  <2>1. resist_view[s] = "OWN" /\ resist_view' = [resist_view EXCEPT ![s] = "FULL"]
        /\ UNCHANGED <<phase, on_stage, levels, view_levels, immune, element_view, bound_slot>>
    BY <1>1 DEF BuffResistance, roundVars, levelVars
  <2>2. LevelsTypeOK'
    BY <2>1 DEF ViewInv, LevelsTypeOK, Resistance
  <2>3. ResistanceIsOwn'
    BY <2>1 DEF ViewInv, LevelsTypeOK, ResistanceIsOwn
  <2> QED BY <2>1, <2>2, <2>3, LevelsStay DEF ViewInv, ElementsAreOwn
<1>2. CASE ChangeElements(s)
  <2>1. phase # "CHOOSE" /\ element_view' = [element_view EXCEPT ![s].changed = TRUE]
        /\ UNCHANGED <<phase, on_stage, levels, view_levels, immune, resist_view, bound_slot>>
    BY <1>2 DEF ChangeElements, roundVars, levelVars
  <2>2. LevelsTypeOK'
    BY <2>1 DEF ViewInv, LevelsTypeOK
  <2>3. \A q \in Side : element_view'[q].of = element_view[q].of
    BY <2>1 DEF ViewInv, LevelsTypeOK
  <2>4. \A q \in Side : bound_slot[q] = on_stage[q]
    BY <2>1 DEF ViewInv, ElementsAreOwn
  <2>5. ElementsAreOwn'
    BY <2>1, <2>3, <2>4 DEF ViewInv, ElementsAreOwn
  <2> QED BY <2>1, <2>2, <2>5, LevelsStay DEF ViewInv, ResistanceIsOwn
<1>3. CASE ChangeImmunity(s)
  <2>1. immune' \in [Side -> SUBSET Immunity]
    BY <1>3 DEF ChangeImmunity, ViewInv, LevelsTypeOK
  <2>2. UNCHANGED <<phase, on_stage, levels, view_levels, resist_view, element_view, bound_slot>>
    BY <1>3 DEF ChangeImmunity, roundVars, levelVars, baseVars
  <2> QED BY <2>1, <2>2, LevelsStay DEF ViewInv, LevelsTypeOK, ResistanceIsOwn, ElementsAreOwn
<1>4. CASE PhaseEnds
  <2>1. phase # "CHOOSE" /\ phase' \in Phase
    BY <1>4 DEF PhaseEnds, Phase
  <2>2. UNCHANGED <<on_stage, levels, view_levels, immune, resist_view, element_view, bound_slot>>
    BY <1>4 DEF PhaseEnds, levelVars, baseVars
  <2>3. LevelsTypeOK'
    BY <2>1, <2>2 DEF ViewInv, LevelsTypeOK
  <2>4. ViewFollowsPet'
    BY <2>1, <2>2, LevelsStay DEF ViewInv
  <2>5. ElementsAreOwn'
    BY <2>1, <2>2 DEF ViewInv, ElementsAreOwn
  <2> QED BY <2>2, <2>3, <2>4, <2>5 DEF ViewInv, ResistanceIsOwn
<1> QED BY <1>1, <1>2, <1>3, <1>4

\* The invariant holds in every state.
THEOREM ViewInvariance == LevelsSpec => []ViewInv
<1>1. LevelsInit => ViewInv
  <2> SUFFICES ASSUME LevelsInit PROVE ViewInv
    OBVIOUS
  <2>1. 0 \in Level /\ Lead \in Slot
    BY LevelFacts, LevelsAssumption
  <2>2. LevelsTypeOK
    BY <2>1 DEF LevelsInit, LevelsTypeOK, Phase, Resistance, Immunity
  <2> QED BY <2>1, <2>2 DEF LevelsInit, ViewInv, ViewFollowsPet, ResistanceIsOwn, ElementsAreOwn, Staged
<1>2. ViewInv /\ [LevelsNext]_levelsState => ViewInv'
  <2> SUFFICES ASSUME ViewInv, [LevelsNext]_levelsState PROVE ViewInv'
    OBVIOUS
  <2>1. CASE RoundStart
    BY <2>1, StepsRebase, RebaseFacts DEF ViewInv
  <2>2. CASE PhaseEnds
    <3>1. 0 \in Side
      BY DEF Side
    <3> QED BY <2>2, <3>1, OthersKeep
  <2>3. ASSUME NEW s \in Side, Primitive(s) PROVE ViewInv'
    BY <2>3, PrimitiveKeeps
  <2>4. ASSUME NEW s \in Side, NEW slot \in Slot, SwitchPet(s, slot) \/ ReplaceDead(s, slot)
        PROVE  ViewInv'
    BY <2>4, StepsRebase, RebaseFacts DEF ViewInv
  <2>5. ASSUME NEW s \in Side, medicine_clears_drops(s) PROVE ViewInv'
    BY <2>5, MedicineKeeps
  <2>6. ASSUME NEW s \in Side, BuffResistance(s) \/ ChangeElements(s) \/ ChangeImmunity(s)
        PROVE  ViewInv'
    BY <2>6, OthersKeep
  <2>7. CASE UNCHANGED levelsState
    BY <2>7 DEF levelsState, roundVars, levelVars, baseVars, ViewInv, LevelsTypeOK, ViewFollowsPet, Staged,
                ResistanceIsOwn, ElementsAreOwn
  <2> QED BY <2>1, <2>2, <2>3, <2>4, <2>5, <2>6, <2>7 DEF LevelsNext
<1> QED BY <1>1, <1>2, PTL DEF LevelsSpec

\* Types, and no level beyond the caps.
THEOREM LevelsTyped == LevelsSpec => []LevelsTypeOK
<1>1. ViewInv => LevelsTypeOK
  BY DEF ViewInv
<1> QED BY <1>1, ViewInvariance, PTL

\* The view is the levels of the pet on stage, but for drops a medicine cleared.
THEOREM ViewFollows == LevelsSpec => []ViewFollowsPet
<1>1. ViewInv => ViewFollowsPet
  BY DEF ViewInv
<1> QED BY <1>1, ViewInvariance, PTL

\* Resistances are those of the pet on stage.
THEOREM ResistanceOwn == LevelsSpec => []ResistanceIsOwn
<1>1. ViewInv => ResistanceIsOwn
  BY DEF ViewInv
<1> QED BY <1>1, ViewInvariance, PTL

\* Elements are those of the pet on stage.
THEOREM ElementsOwn == LevelsSpec => []ElementsAreOwn
<1>1. ViewInv => ElementsAreOwn
  BY DEF ViewInv
<1> QED BY <1>1, ViewInvariance, PTL

\* All that the formula of damage reads of a side is that of the pet on stage.
THEOREM ViewsOwn == LevelsSpec => []ViewsAreOwn
<1> QED BY ViewFollows, ResistanceOwn, ElementsOwn, PTL DEF ViewsAreOwn

----------------------------------------------------------------------------
(* What no step does.                                                      *)

\* Only the pet that is on stage before and after the step has its levels changed.
Benched == \A s \in Side, p \in Slot :
             p # on_stage[s] \/ on_stage'[s] # on_stage[s] => levels'[s][p] = levels[s][p]

\* The levels of the bench, in every step.
LEMMA StepKeepsBench ==
  ASSUME LevelsTypeOK, [LevelsNext]_levelsState
  PROVE  Benched
<1>1. CASE RoundStart
  BY <1>1, StepsRebase DEF Rebased, Benched
<1>2. CASE PhaseEnds
  BY <1>2 DEF PhaseEnds, levelVars, Benched
<1>3. ASSUME NEW s \in Side, Primitive(s) PROVE Benched
  <2>1. CASE transfer_stat_boosts(s)
    BY <1>3, <2>1, TransferFacts DEF Benched
  <2>2. CASE ~transfer_stat_boosts(s)
    <3>1. PICK W \in SUBSET Stat : \E new : (\A x \in W : new[x] \in Level) /\ Write(s, W, new)
      BY <1>3, <2>2, PrimitiveWrites
    <3>2. PICK new : Write(s, W, new)
      BY <3>1
    <3> QED BY <3>2, WriteFrame DEF Benched
  <2> QED BY <2>1, <2>2
<1>4. ASSUME NEW s \in Side, NEW slot \in Slot, SwitchPet(s, slot) \/ ReplaceDead(s, slot)
      PROVE  Benched
  BY <1>4, StepsRebase DEF Rebased, Benched
<1>5. ASSUME NEW s \in Side, medicine_clears_drops(s) PROVE Benched
  <2>1. UNCHANGED <<phase, on_stage>>
        /\ levels' = [levels EXCEPT ![s][on_stage[s]] = With(Staged(s), Dropped(s), Zero)]
    BY <1>5 DEF medicine_clears_drops, roundVars
  <2> QED BY <2>1 DEF Benched, LevelsTypeOK
<1>6. ASSUME NEW s \in Side, BuffResistance(s) \/ ChangeElements(s) \/ ChangeImmunity(s)
      PROVE  Benched
  BY <1>6 DEF BuffResistance, ChangeElements, ChangeImmunity, roundVars, levelVars, Benched
<1>7. CASE UNCHANGED levelsState
  BY <1>7 DEF levelsState, roundVars, levelVars, Benched
<1> QED BY <1>1, <1>2, <1>3, <1>4, <1>5, <1>6, <1>7 DEF LevelsNext

\* Pets on the bench keep their levels, and so does the pet that leaves.
THEOREM BenchKept == LevelsSpec => BenchKeepsLevels
<1>1. LevelsTypeOK /\ [LevelsNext]_levelsState => Benched
  BY StepKeepsBench
<1>2. Benched => \A s \in Side, p \in Slot :
        p # on_stage[s] \/ on_stage'[s] # on_stage[s] => levels'[s][p] = levels[s][p]
  BY DEF Benched
<1> QED BY <1>1, <1>2, LevelsTyped, PTL DEF LevelsSpec, BenchKeepsLevels

\* No level of q's pet on stage falls below zero.
NotWeakened(q) == \A x \in Stat :
  ~(levels'[q][on_stage[q]][x] < levels[q][on_stage[q]][x] /\ levels'[q][on_stage[q]][x] < 0)

\* The levels of a pet on stage are numbers.
LEMMA LevelsAreNumbers ==
  ASSUME LevelsTypeOK, NEW q \in Side
  PROVE  on_stage[q] \in Slot /\ \A x \in Stat : levels[q][on_stage[q]][x] \in Int
<1>1. on_stage[q] \in Slot /\ \A x \in Stat : levels[q][on_stage[q]][x] \in Level
  BY DEF LevelsTypeOK
<1>2. \A n \in Level : n \in Int
  BY LevelsAssumption DEF Level
<1> QED BY <1>1, <1>2

\* Writing what is not negative weakens nobody.
LEMMA WriteWeakensNobody ==
  ASSUME LevelsTypeOK, NEW s \in Side, NEW W \in SUBSET Stat, NEW new,
         \A x \in W : new[x] \in Level, Write(s, W, new),
         \A x \in W : new[x] >= 0, NEW q \in Side
  PROVE  NotWeakened(q)
<1> DEFINE f == With(levels[s][on_stage[s]], W, new)
<1>1. on_stage[s] \in Slot /\ on_stage[q] \in Slot
  BY DEF LevelsTypeOK
<1>2. levels' = [levels EXCEPT ![s][on_stage[s]] = f]
  BY DEF Write, Staged
<1>3. ASSUME NEW x \in Stat PROVE f[x] = IF x \in W THEN new[x] ELSE levels[s][on_stage[s]][x]
  BY DEF With
<1>4. \A x \in Stat : levels[q][on_stage[q]][x] \in Int
  BY LevelsAreNumbers
<1> HIDE DEF f
<1>5. CASE q = s
  <2>1. levels'[q][on_stage[q]] = f
    BY <1>1, <1>2, <1>5 DEF LevelsTypeOK
  <2>2. \A x \in W : new[x] \in Int
    BY LevelsAssumption DEF Level
  <2> QED BY <1>3, <1>4, <1>5, <2>1, <2>2 DEF NotWeakened
<1>6. CASE q # s
  <2>1. levels'[q] = levels[q]
    BY <1>2, <1>6 DEF LevelsTypeOK
  <2> QED BY <1>4, <2>1 DEF NotWeakened
<1> QED BY <1>5, <1>6

\* A write on one side does not touch the other.
LEMMA OtherSideStays ==
  ASSUME LevelsTypeOK, NEW s \in Side, NEW W \in SUBSET Stat, NEW new, Write(s, W, new),
         NEW q \in Side, q # s
  PROVE  NotWeakened(q)
<1>1. levels'[q] = levels[q]
  BY DEF Write, LevelsTypeOK
<1>2. \A x \in Stat : levels[q][on_stage[q]][x] \in Int
  BY LevelsAreNumbers
<1> QED BY <1>1, <1>2 DEF NotWeakened

\* Levels that stay weaken nobody.
LEMMA LevelsStayNotWeakened ==
  ASSUME LevelsTypeOK, NEW q \in Side, levels' = levels
  PROVE  NotWeakened(q)
<1>1. \A x \in Stat : levels[q][on_stage[q]][x] \in Int
  BY LevelsAreNumbers
<1> QED BY <1>1 DEF NotWeakened

\* No primitive weakens a side that is immune, but for the raw change of a level.
LEMMA PrimitiveSpares ==
  ASSUME LevelsTypeOK, NEW s \in Side, Primitive(s), NEW q \in Side, Immune(q, "STAT_DROP"),
         NEW x \in Stat,
         levels'[q][on_stage[q]][x] < levels[q][on_stage[q]][x], levels'[q][on_stage[q]][x] < 0
  PROVE  \E delta \in -MaxStep .. MaxStep : stat_change(q, x, delta)
<1>0. ~NotWeakened(q)
  BY DEF NotWeakened
<1>1. \A y \in Stat : Zero[y] = 0 /\ Zero[y] \in Level
  BY LevelFacts DEF Zero
<1>2. Boosted(s) \in SUBSET Stat /\ Dropped(s) \in SUBSET Stat /\ Defence \in SUBSET Stat
  BY LevelsAssumption DEF Boosted, Dropped
<1>3. CASE \E y \in Stat, delta \in -MaxStep .. MaxStep : stat_change(s, y, delta)
  <2>1. PICK y \in Stat, delta \in -MaxStep .. MaxStep : stat_change(s, y, delta)
    BY <1>3
  <2> DEFINE new == [z \in {y} |-> Staged(s)[y] + delta]
  <2>2. {y} \in SUBSET Stat /\ Write(s, {y}, new)
    BY <2>1 DEF stat_change
  <2>3. q = s
    BY <1>0, <2>2, OtherSideStays
  <2>4. x = y
    <3> SUFFICES ASSUME x # y PROVE FALSE
      OBVIOUS
    <3>1. With(levels[s][on_stage[s]], {y}, new)[x] = levels[s][on_stage[s]][x]
      BY DEF With
    <3>2. levels'[s][on_stage[s]] = With(levels[s][on_stage[s]], {y}, new)
      BY <2>2 DEF Write, Staged, LevelsTypeOK
    <3>3. levels[s][on_stage[s]][x] \in Int
      BY LevelsAreNumbers
    <3> QED BY <2>3, <3>1, <3>2, <3>3
  <2> QED BY <2>1, <2>3, <2>4
<1>4. CASE \E y \in Stat, amount \in 1 .. MaxDrop : stat_drop(s, y, amount)
  <2>1. PICK y \in Stat, amount \in 1 .. MaxDrop : stat_drop(s, y, amount)
    BY <1>4
  <2> DEFINE new == [z \in {y} |-> Floored(Staged(s)[y] - amount)]
  <2>2. {y} \in SUBSET Stat /\ Write(s, {y}, new) /\ ~Immune(s, "STAT_DROP")
    BY <2>1 DEF stat_drop
  <2>3. q # s
    BY <2>2
  <2> QED BY <1>0, <2>2, <2>3, OtherSideStays
<1>5. CASE \E y \in Defence : crit_defense_break(s, y)
  <2>1. PICK y \in Defence : crit_defense_break(s, y)
    BY <1>5
  <2>2. {y} \in SUBSET Stat /\ Write(s, {y}, Zero)
    BY <1>2, <2>1 DEF crit_defense_break
  <2>3. \A z \in {y} : Zero[z] \in Level /\ Zero[z] >= 0
    BY <1>1, <2>2
  <2> QED BY <1>0, <2>2, <2>3, WriteWeakensNobody
<1>6. CASE clear_stat_boosts(s)
  <2>1. Write(s, Boosted(s), Zero) /\ \A z \in Boosted(s) : Zero[z] \in Level /\ Zero[z] >= 0
    BY <1>1, <1>2, <1>6 DEF clear_stat_boosts
  <2> QED BY <1>0, <1>2, <2>1, WriteWeakensNobody
<1>7. CASE clear_stat_drops(s)
  <2>1. Write(s, Dropped(s), Zero) /\ \A z \in Dropped(s) : Zero[z] \in Level /\ Zero[z] >= 0
    BY <1>1, <1>2, <1>7 DEF clear_stat_drops
  <2> QED BY <1>0, <1>2, <2>1, WriteWeakensNobody
<1>8. CASE transfer_stat_boosts(s)
  <2>1. \A z \in Stat : levels[q][on_stage[q]][z] \in Level
    BY DEF LevelsTypeOK
  <2>2. levels' \in [Side -> [Slot -> [Stat -> Level]]] /\ on_stage' = on_stage
    BY <1>8, TransferFacts
  <2>3. \A z \in Stat : levels'[q][on_stage[q]][z] \in Level
    BY <2>2 DEF LevelsTypeOK
  <2>4. IF x \in Boosted(s)
        THEN Staged(q)'[x] >= 0 \/ Staged(q)'[x] >= Staged(q)[x]
        ELSE Staged(q)'[x] = Staged(q)[x]
    BY <1>8, TransferFacts
  <2>5. Staged(q)'[x] = levels'[q][on_stage[q]][x] /\ Staged(q)[x] = levels[q][on_stage[q]][x]
    BY <2>2 DEF Staged
  <2>6. levels[q][on_stage[q]][x] \in Int /\ levels'[q][on_stage[q]][x] \in Int
    BY <2>1, <2>3, LevelsAssumption DEF Level
  <2> QED BY <2>4, <2>5, <2>6
<1>9. CASE stat_reversal(s)
  <2>1. \A z \in Stat : Staged(s)[z] \in Level
    BY DEF LevelsTypeOK, Staged
  <2>2. \A z \in Dropped(s) : Opposite(s)[z] \in Level /\ Opposite(s)[z] >= 0
    BY <1>2, <2>1, LevelsAssumption DEF Dropped, Opposite, Level
  <2>3. Write(s, Dropped(s), Opposite(s))
    BY <1>9 DEF stat_reversal
  <2> QED BY <1>0, <1>2, <2>2, <2>3, WriteWeakensNobody
<1>10. CASE stat_boost_reversal(s)
  <2>1. Write(s, Boosted(s), Opposite(s)) /\ q # s
    BY <1>10 DEF stat_boost_reversal
  <2> QED BY <1>0, <1>2, <2>1, OtherSideStays
<1> QED BY <1>3, <1>4, <1>5, <1>6, <1>7, <1>8, <1>9, <1>10 DEF Primitive

\* A weakened pet of an immune side was weakened by the raw change.
Spared ==
  \A s \in Side, x \in Stat : Immune(s, "STAT_DROP") =>
    LET p == on_stage[s] IN
    levels'[s][p][x] < levels[s][p][x] /\ levels'[s][p][x] < 0 =>
      \E delta \in -MaxStep .. MaxStep : stat_change(s, x, delta)

\* A step that weakens nobody spares everybody.
LEMMA NobodyWeakened ==
  ASSUME \A q \in Side : NotWeakened(q)
  PROVE  Spared
BY DEF Spared, NotWeakened

\* Immune sides are spared in every step.
LEMMA StepSpares ==
  ASSUME LevelsTypeOK, [LevelsNext]_levelsState
  PROVE  Spared
<1>1. CASE levels' = levels
  BY <1>1, LevelsStayNotWeakened, NobodyWeakened
<1>2. ASSUME NEW s \in Side, Primitive(s) PROVE Spared
  BY <1>2, PrimitiveSpares DEF Spared
<1>3. ASSUME NEW s \in Side, medicine_clears_drops(s) PROVE Spared
  <2> DEFINE f == With(levels[s][on_stage[s]], Dropped(s), Zero)
  <2>1. levels' = [levels EXCEPT ![s][on_stage[s]] = f]
    BY <1>3 DEF medicine_clears_drops, Staged
  <2>2. ASSUME NEW x \in Stat
        PROVE  f[x] = 0 \/ f[x] = levels[s][on_stage[s]][x]
    BY DEF With, Zero
  <2> HIDE DEF f
  <2>3. ASSUME NEW q \in Side PROVE NotWeakened(q)
    <3>1. on_stage[q] \in Slot /\ \A x \in Stat : levels[q][on_stage[q]][x] \in Int
      BY LevelsAreNumbers
    <3>2. levels'[q][on_stage[q]] = IF q = s THEN f ELSE levels[q][on_stage[q]]
      BY <2>1, <3>1 DEF LevelsTypeOK
    <3> QED BY <2>2, <3>1, <3>2 DEF NotWeakened
  <2> QED BY <2>3, NobodyWeakened
<1>4. CASE RoundStart
  BY <1>1, <1>4 DEF RoundStart
<1>5. CASE PhaseEnds
  BY <1>1, <1>5 DEF PhaseEnds, levelVars
<1>6. ASSUME NEW s \in Side, NEW slot \in Slot, SwitchPet(s, slot) \/ ReplaceDead(s, slot)
      PROVE  Spared
  BY <1>1, <1>6, StepsRebase DEF Rebased
<1>7. ASSUME NEW s \in Side, BuffResistance(s) \/ ChangeElements(s) \/ ChangeImmunity(s)
      PROVE  Spared
  BY <1>1, <1>7 DEF BuffResistance, ChangeElements, ChangeImmunity, levelVars
<1>8. CASE UNCHANGED levelsState
  BY <1>1, <1>8 DEF levelsState, levelVars
<1> QED BY <1>2, <1>3, <1>4, <1>5, <1>6, <1>7, <1>8 DEF LevelsNext

\* A side immune to weakening is weakened by nothing but the raw change of a level.
THEOREM ImmuneSpared == LevelsSpec => ImmuneStaysAbove
<1>1. LevelsTypeOK /\ [LevelsNext]_levelsState => Spared
  BY StepSpares
<1>2. Spared => \A s \in Side, x \in Stat : Immune(s, "STAT_DROP") =>
        LET p == on_stage[s] IN
        levels'[s][p][x] < levels[s][p][x] /\ levels'[s][p][x] < 0 =>
          \E delta \in -MaxStep .. MaxStep : stat_change(s, x, delta)
  BY DEF Spared
<1> QED BY <1>1, <1>2, LevelsTyped, PTL DEF LevelsSpec, ImmuneStaysAbove

\* No step changes a level behind its pet's back.
THEOREM LevelsGuarded == LevelsSpec => LevelsAreGuarded
<1> QED BY BenchKept, ImmuneSpared DEF LevelsAreGuarded

-----------------------------------------------------------------------------
(* Induction.  The theorems of the library that take a predicate cannot be   *)
(* used, so what follows is proved from the least member of a set.           *)

\* A set of naturals has a least member.
LEMMA LeastNatural ==
  ASSUME NEW T \in SUBSET Nat, T # {}
  PROVE  \E n \in T : \A m \in T : n <= m
  <1> DEFINE R == OpToRel(<, Nat)
  <1>1. IsWellFoundedOn(R, Nat)
    BY NatLessThanWellFounded
  <1>2. \A x, y \in Nat : y < x => <<y, x>> \in R
    BY DEF OpToRel
  <1> HIDE DEF R
  <1>3. PICK x \in T : \A y \in T : ~(<<y, x>> \in R)
    BY <1>1, WFMin
  <1>4. \A y \in T : ~(y < x)
    BY <1>2, <1>3
  <1>5. \A y \in T : x <= y
    BY <1>4
  <1> QED
    BY <1>5

\* A set with 0 and with the successor of each of its members up to N has all of 0 .. N.
LEMMA CountingUp ==
  ASSUME NEW N \in Nat, NEW T, 0 \in T, \A n \in 0 .. N - 1 : n \in T => n + 1 \in T
  PROVE  \A n \in 0 .. N : n \in T
  <1> DEFINE U == {n \in 0 .. N : n \notin T}
  <1>1. SUFFICES ASSUME U # {} PROVE FALSE
    OBVIOUS
  <1>2. U \in SUBSET Nat
    OBVIOUS
  <1>3. PICK n \in U : \A m \in U : n <= m
    BY <1>1, <1>2, LeastNatural
  <1>4. n # 0 /\ n - 1 \in 0 .. N - 1
    BY <1>3
  <1>5. n - 1 \in T
    BY <1>3, <1>4
  <1>6. (n - 1) + 1 = n
    BY <1>4
  <1> QED
    BY <1>3, <1>4, <1>5, <1>6

\* g is the function on 0 .. N that starts at x0; h takes the value before and the index.
Recurses(g, N, X, x0, h) ==
  /\ g \in [0 .. N -> X]
  /\ g = [n \in 0 .. N |-> IF n = 0 THEN x0 ELSE h[<<g[n - 1], n>>]]

\* There is such a function.
LEMMA RecursionOnIndices ==
  ASSUME NEW N \in Nat, NEW X, NEW x0 \in X, NEW h \in [X \X (1 .. N) -> X]
  PROVE  \E g : Recurses(g, N, X, x0, h)
  <1> DEFINE Good(g, k) == g[0] = x0 /\ \A n \in 1 .. k : g[n] = h[<<g[n - 1], n>>]
             T == {k \in 0 .. N : \E g \in [0 .. k -> X] : Good(g, k)}
  <1>1. 0 \in T
    <2> DEFINE g == [n \in 0 .. 0 |-> x0]
    <2>1. g \in [0 .. 0 -> X] /\ Good(g, 0)
      OBVIOUS
    <2>2. 0 \in 0 .. N
      OBVIOUS
    <2> HIDE DEF g, Good
    <2> QED
      BY <2>1, <2>2
  <1>2. ASSUME NEW k \in 0 .. N - 1, k \in T
        PROVE  k + 1 \in T
    <2>1. PICK g \in [0 .. k -> X] : Good(g, k)
      BY <1>2
    <2> DEFINE f == [n \in 0 .. k + 1 |-> IF n <= k THEN g[n] ELSE h[<<g[k], k + 1>>]]
    <2>2. k + 1 \in 1 .. N /\ g[k] \in X
      OBVIOUS
    <2>3. h[<<g[k], k + 1>>] \in X
      BY <2>2
    <2>4. f \in [0 .. k + 1 -> X]
      BY <2>3
    <2>5. f[0] = x0
      BY <2>1
    <2>6. ASSUME NEW n \in 1 .. k + 1 PROVE f[n] = h[<<f[n - 1], n>>]
      <3>1. CASE n <= k
        <4>1. n \in 1 .. k /\ n \in 0 .. k + 1 /\ n - 1 \in 0 .. k + 1 /\ n - 1 <= k
          BY <3>1
        <4>2. f[n] = g[n] /\ f[n - 1] = g[n - 1]
          BY <3>1, <4>1
        <4> QED
          BY <2>1, <4>1, <4>2
      <3>2. CASE n = k + 1
        <4>1. f[n] = h[<<g[k], k + 1>>] /\ f[n - 1] = g[k] /\ n - 1 = k
          BY <3>2
        <4> QED
          BY <3>2, <4>1
      <3> QED
        BY <3>1, <3>2
    <2>7. Good(f, k + 1)
      BY <2>5, <2>6
    <2>8. k + 1 \in 0 .. N
      OBVIOUS
    <2> HIDE DEF f, Good
    <2> QED
      BY <2>4, <2>7, <2>8
  <1> HIDE DEF T
  <1>3. N \in T
    BY <1>1, <1>2, CountingUp
  <1>4. PICK g \in [0 .. N -> X] : Good(g, N)
    BY <1>3 DEF T
  <1>5. ASSUME NEW n \in 0 .. N
        PROVE  g[n] = IF n = 0 THEN x0 ELSE h[<<g[n - 1], n>>]
    BY <1>4, <1>5
  <1>6. Recurses(g, N, X, x0, h)
    BY <1>4, <1>5 DEF Recurses
  <1> QED
    BY <1>6
-----------------------------------------------------------------------------
(* Banks.                                                                    *)

\* The fields of a shield.
LEMMA ShieldFacts ==
  ASSUME NEW x \in Shield
  PROVE  /\ x.priority \in Int /\ x.quantity \in Nat \ {0} /\ x.source \in Nat
         /\ x.duration \in Nat
         /\ \A q \in Nat \ {0} : [x EXCEPT !.quantity = q] \in Shield
         /\ \A q : /\ [x EXCEPT !.quantity = q].quantity = q
                   /\ [x EXCEPT !.quantity = q].priority = x.priority
         /\ \A d \in Nat : [x EXCEPT !.duration = d] \in Shield
  BY DEF Shield

\* What is left when the shield i is gone.
LEMMA RemoveAtFacts ==
  ASSUME NEW s \in Seq(Shield), NEW i \in 1 .. Len(s)
  PROVE  /\ RemoveAt(s, i) \in Seq(Shield)
         /\ Len(RemoveAt(s, i)) = Len(s) - 1
         /\ \A j \in 1 .. Len(s) - 1 : RemoveAt(s, i)[j] = IF j < i THEN s[j] ELSE s[j + 1]
  <1> DEFINE a == SubSeq(s, 1, i - 1)
             b == SubSeq(s, i + 1, Len(s))
  <1>1. /\ a \in Seq(Shield) /\ Len(a) = i - 1
        /\ \A j \in 1 .. i - 1 : a[j] = s[j]
    <2>1. \A j \in 1 .. i - 1 : s[j] \in Shield
      OBVIOUS
    <2>2. /\ a \in Seq(Shield) /\ Len(a) = IF 1 <= i - 1 THEN i - 1 - 1 + 1 ELSE 0
          /\ \A j \in 1 .. i - 1 - 1 + 1 : a[j] = s[1 + j - 1]
      BY <2>1, SubSeqProperties
    <2> QED
      BY <2>2
  <1>2. /\ b \in Seq(Shield) /\ Len(b) = Len(s) - i
        /\ \A j \in 1 .. Len(s) - i : b[j] = s[j + i]
    <2>1. \A j \in i + 1 .. Len(s) : s[j] \in Shield
      OBVIOUS
    <2>2. /\ b \in Seq(Shield)
          /\ Len(b) = IF i + 1 <= Len(s) THEN Len(s) - (i + 1) + 1 ELSE 0
          /\ \A j \in 1 .. Len(s) - (i + 1) + 1 : b[j] = s[i + 1 + j - 1]
      BY <2>1, SubSeqProperties
    <2> QED
      BY <2>2
  <1> HIDE DEF a, b
  <1>3. /\ a \o b \in Seq(Shield) /\ Len(a \o b) = Len(a) + Len(b)
        /\ \A j \in 1 .. Len(a) + Len(b) :
             (a \o b)[j] = IF j <= Len(a) THEN a[j] ELSE b[j - Len(a)]
    BY <1>1, <1>2, ConcatProperties
  <1>4. RemoveAt(s, i) = a \o b
    BY DEF RemoveAt, a, b
  <1>5. ASSUME NEW j \in 1 .. Len(s) - 1
        PROVE  (a \o b)[j] = IF j < i THEN s[j] ELSE s[j + 1]
    <2>1. (a \o b)[j] = IF j <= i - 1 THEN a[j] ELSE b[j - (i - 1)]
      BY <1>1, <1>2, <1>3
    <2>2. CASE j < i
      BY <1>1, <2>1, <2>2
    <2>3. CASE ~(j < i)
      <3>1. j - (i - 1) \in 1 .. Len(s) - i /\ ~(j <= i - 1)
        BY <2>3
      <3>2. b[j - (i - 1)] = s[(j - (i - 1)) + i]
        BY <1>2, <3>1
      <3>3. (j - (i - 1)) + i = j + 1
        OBVIOUS
      <3> QED
        BY <2>1, <2>3, <3>1, <3>2, <3>3
    <2> QED
      BY ONLY <2>2, <2>3
  <1>6. Len(a) + Len(b) = Len(s) - 1
    BY <1>1, <1>2
  <1> QED
    BY <1>3, <1>4, <1>5, <1>6

\* sum has the totals of the first shields of s.
Sums(s, sum) ==
  /\ sum \in [0 .. Len(s) -> Nat] /\ sum[0] = 0
  /\ \A n \in 1 .. Len(s) : sum[n] = sum[n - 1] + s[n].quantity

\* The total is the last of them.
LEMMA TotalIsSum ==
  ASSUME NEW s \in Seq(Shield)
  PROVE  \E sum : Sums(s, sum) /\ Total(s) = sum[Len(s)]
  <1> DEFINE N == Len(s)
             h == [p \in Nat \X (1 .. N) |-> p[1] + s[p[2]].quantity]
             IsSum(g) == g = [n \in 0 .. N |-> IF n = 0 THEN 0 ELSE g[n - 1] + s[n].quantity]
             sum == CHOOSE g : IsSum(g)
  <1>1. N \in Nat /\ \A n \in 1 .. N : s[n].quantity \in Nat
    BY ShieldFacts
  <1>2. h \in [Nat \X (1 .. N) -> Nat]
    BY <1>1
  <1>3. \A v \in Nat, n \in 1 .. N : h[<<v, n>>] = v + s[n].quantity
    OBVIOUS
  <1> HIDE DEF h, N
  <1>4. PICK g : Recurses(g, N, Nat, 0, h)
    <2>1. 0 \in Nat
      OBVIOUS
    <2> QED
      BY <1>1, <1>2, <2>1, RecursionOnIndices
  <1>5. ASSUME NEW n \in 0 .. N PROVE g[n] = IF n = 0 THEN 0 ELSE g[n - 1] + s[n].quantity
    <2>1. CASE n = 0
      BY <1>4, <2>1 DEF Recurses
    <2>2. CASE n # 0
      <3>1. n - 1 \in 0 .. N /\ n \in 1 .. N
        BY <1>1, <2>2
      <3>2. g[n] = h[<<g[n - 1], n>>] /\ g[n - 1] \in Nat
        BY <1>4, <2>2, <3>1 DEF Recurses
      <3> QED
        BY <1>3, <2>2, <3>1, <3>2
    <2> QED
      BY <2>1, <2>2
  <1>6. IsSum(g)
    BY <1>4, <1>5 DEF Recurses
  <1> HIDE DEF IsSum
  <1>7. IsSum(sum)
    BY <1>6, Zenon
  <1> HIDE DEF sum
  <1>8. sum = [n \in 0 .. N |-> IF n = 0 THEN 0 ELSE sum[n - 1] + s[n].quantity]
    BY <1>7 DEF IsSum
  <1>9. sum[0] = 0 /\ \A n \in 1 .. N : sum[n] = sum[n - 1] + s[n].quantity
    BY <1>1, <1>8
  <1>10. \A n \in 0 .. N : sum[n] \in Nat
    <2> DEFINE T == {n \in 0 .. N : sum[n] \in Nat}
    <2>1. 0 \in T
      BY <1>1, <1>9
    <2>2. \A n \in 0 .. N - 1 : n \in T => n + 1 \in T
      <3>1. SUFFICES ASSUME NEW n \in 0 .. N - 1, n \in T PROVE n + 1 \in T
        OBVIOUS
      <3>2. n + 1 \in 1 .. N /\ (n + 1) - 1 = n
        BY <1>1
      <3>3. sum[n + 1] = sum[n] + s[n + 1].quantity
        BY <1>9, <3>2
      <3>4. sum[n + 1] \in Nat
        BY <1>1, <3>1, <3>2, <3>3
      <3> QED
        BY <1>1, <3>2, <3>4
    <2> HIDE DEF T
    <2>3. \A n \in 0 .. N : n \in T
      BY <1>1, <2>1, <2>2, CountingUp
    <2> QED
      BY <2>3 DEF T
  <1>11. Sums(s, sum)
    BY <1>8, <1>9, <1>10 DEF Sums, N
  <1>12. Total(s) = sum[Len(s)]
    BY Zenon DEF Total, sum, IsSum, N
  <1> QED
    BY <1>11, <1>12

\* The total after the quantity of the shield i has become q.
LEMMA TotalOfChanged ==
  ASSUME NEW s \in Seq(Shield), NEW i \in 1 .. Len(s), NEW q \in Nat \ {0}
  PROVE  /\ [s EXCEPT ![i].quantity = q] \in Seq(Shield)
         /\ Total([s EXCEPT ![i].quantity = q]) = (Total(s) - s[i].quantity) + q
  <1> DEFINE t == [s EXCEPT ![i].quantity = q]
  <1>1. t \in Seq(Shield) /\ Len(t) = Len(s)
    <2>1. [s[i] EXCEPT !.quantity = q] \in Shield
      BY ShieldFacts
    <2> QED
      BY <2>1, ExceptSeq
  <1>2. \A j \in 1 .. Len(s) :
          /\ s[j].quantity \in Nat
          /\ t[j].quantity = IF j = i THEN q ELSE s[j].quantity
    BY ShieldFacts
  <1> HIDE DEF t
  <1>3. PICK f : Sums(s, f) /\ Total(s) = f[Len(s)]
    BY TotalIsSum
  <1>4. PICK g : Sums(t, g) /\ Total(t) = g[Len(t)]
    BY <1>1, TotalIsSum
  <1> DEFINE N == Len(s)
             Shift(n) == IF n < i THEN f[n] ELSE (f[n] - s[i].quantity) + q
             T == {n \in 0 .. N : g[n] = Shift(n)}
  <1>5. N \in Nat /\ i \in 1 .. N
    OBVIOUS
  <1>6. f \in [0 .. N -> Nat] /\ f[0] = 0 /\ \A n \in 1 .. N : f[n] = f[n - 1] + s[n].quantity
    BY <1>3 DEF Sums
  <1>7. g \in [0 .. N -> Nat] /\ g[0] = 0 /\ \A n \in 1 .. N : g[n] = g[n - 1] + t[n].quantity
    BY <1>1, <1>4 DEF Sums
  <1> HIDE DEF N
  <1>8. 0 \in T
    BY <1>5, <1>6, <1>7
  <1>9. ASSUME NEW n \in 0 .. N - 1, n \in T
        PROVE  n + 1 \in T
    <2>1. n + 1 \in 1 .. N /\ (n + 1) - 1 = n /\ n \in 0 .. N /\ n + 1 \in 0 .. N
      BY <1>5
    <2>2. f[n + 1] = f[n] + s[n + 1].quantity /\ g[n + 1] = g[n] + t[n + 1].quantity
      BY <1>6, <1>7, <2>1
    <2>3. f[n] \in Nat /\ g[n] \in Nat /\ s[n + 1].quantity \in Nat /\ s[i].quantity \in Nat
      BY <1>2, <1>5, <1>6, <1>7, <2>1 DEF N
    <2>4. t[n + 1].quantity = IF n + 1 = i THEN q ELSE s[n + 1].quantity
      BY <1>2, <2>1 DEF N
    <2>5. g[n] = Shift(n)
      BY <1>9
    <2>6. g[n + 1] = Shift(n + 1)
      <3>1. CASE n + 1 < i
        BY <1>5, <2>1, <2>2, <2>3, <2>4, <2>5, <3>1
      <3>2. CASE n + 1 = i
        BY <1>5, <2>1, <2>2, <2>3, <2>4, <2>5, <3>2
      <3>3. CASE n + 1 > i
        BY <1>5, <2>1, <2>2, <2>3, <2>4, <2>5, <3>3
      <3> QED
        BY <1>5, <3>1, <3>2, <3>3
    <2> QED
      BY <2>1, <2>6
  <1> HIDE DEF T
  <1>10. N \in T
    <2>1. \A n \in 0 .. N - 1 : n \in T => n + 1 \in T
      BY <1>9
    <2>2. \A n \in 0 .. N : n \in T
      BY <1>5, <1>8, <2>1, CountingUp
    <2> QED
      BY <1>5, <2>2
  <1>11. g[N] = (f[N] - s[i].quantity) + q
    BY <1>5, <1>10 DEF T
  <1>12. Total(t) = (Total(s) - s[i].quantity) + q
    BY <1>1, <1>3, <1>4, <1>11 DEF N
  <1> QED
    BY <1>1, <1>12 DEF t

\* The total after the shield i has been removed.
LEMMA TotalOfRemoved ==
  ASSUME NEW s \in Seq(Shield), NEW i \in 1 .. Len(s)
  PROVE  Total(RemoveAt(s, i)) = Total(s) - s[i].quantity
  <1> DEFINE t == RemoveAt(s, i)
             N == Len(s)
  <1>1. t \in Seq(Shield) /\ Len(t) = N - 1
    BY RemoveAtFacts
  <1>2. \A j \in 1 .. N : s[j].quantity \in Nat
    BY ShieldFacts
  <1>3. \A j \in 1 .. N - 1 : t[j] = IF j < i THEN s[j] ELSE s[j + 1]
    BY RemoveAtFacts
  <1> HIDE DEF t
  <1>4. PICK f : Sums(s, f) /\ Total(s) = f[Len(s)]
    BY TotalIsSum
  <1>5. PICK g : Sums(t, g) /\ Total(t) = g[Len(t)]
    BY <1>1, TotalIsSum
  <1> DEFINE Shift(n) == IF n < i THEN f[n] ELSE f[n + 1] - s[i].quantity
             T == {n \in 0 .. N - 1 : g[n] = Shift(n)}
  <1>6. N \in Nat /\ N - 1 \in Nat /\ i \in 1 .. N
    OBVIOUS
  <1>7. f \in [0 .. N -> Nat] /\ f[0] = 0 /\ \A n \in 1 .. N : f[n] = f[n - 1] + s[n].quantity
    BY <1>4 DEF Sums
  <1>8. g \in [0 .. N - 1 -> Nat] /\ g[0] = 0 /\ \A n \in 1 .. N - 1 : g[n] = g[n - 1] + t[n].quantity
    BY <1>1, <1>5 DEF Sums
  <1>9. Total(s) = f[N] /\ Total(t) = g[N - 1]
    BY <1>1, <1>4, <1>5
  <1> HIDE DEF N
  <1>10. 0 \in T
    BY <1>6, <1>7, <1>8
  <1>11. ASSUME NEW n \in 0 .. (N - 1) - 1, n \in T
         PROVE  n + 1 \in T
    <2>1. /\ n + 1 \in 1 .. N - 1 /\ (n + 1) - 1 = n /\ n \in 0 .. N - 1
          /\ n + 1 \in 0 .. N - 1 /\ n + 2 \in 1 .. N /\ (n + 2) - 1 = n + 1
          /\ n + 1 \in 1 .. N /\ (n + 1) + 1 = n + 2
      BY <1>6
    <2>2. /\ f[n + 1] = f[n] + s[n + 1].quantity
          /\ f[n + 2] = f[n + 1] + s[n + 2].quantity
          /\ g[n + 1] = g[n] + t[n + 1].quantity
      <3>1. f[n + 1] = f[(n + 1) - 1] + s[n + 1].quantity
        BY <1>7, <2>1
      <3>2. f[n + 2] = f[(n + 2) - 1] + s[n + 2].quantity
        BY <1>7, <2>1
      <3>3. g[n + 1] = g[(n + 1) - 1] + t[n + 1].quantity
        BY <1>8, <2>1
      <3> QED
        BY <2>1, <3>1, <3>2, <3>3
    <2>3. /\ f[n] \in Nat /\ f[n + 1] \in Nat /\ g[n] \in Nat
          /\ s[n + 1].quantity \in Nat /\ s[n + 2].quantity \in Nat /\ s[i].quantity \in Nat
      <3>1. n \in 0 .. N /\ n + 1 \in 0 .. N
        BY <1>6
      <3>2. f[n] \in Nat /\ f[n + 1] \in Nat
        BY <1>7, <3>1
      <3>3. g[n] \in Nat
        BY <1>8, <2>1
      <3>4. s[n + 1].quantity \in Nat /\ s[n + 2].quantity \in Nat /\ s[i].quantity \in Nat
        BY <1>2, <1>6, <2>1
      <3> QED
        BY <3>2, <3>3, <3>4
    <2>4. t[n + 1] = IF n + 1 < i THEN s[n + 1] ELSE s[n + 2]
      BY <1>3, <2>1
    <2>5. g[n] = Shift(n)
      BY <1>11
    <2>6. g[n + 1] = Shift(n + 1)
      <3>1. CASE n + 1 < i
        BY <1>6, <2>1, <2>2, <2>3, <2>4, <2>5, <3>1
      <3>2. CASE n + 1 = i
        BY <1>6, <2>1, <2>2, <2>3, <2>4, <2>5, <3>2
      <3>3. CASE n + 1 > i
        <4>1. g[n] = f[n + 1] - s[i].quantity /\ t[n + 1] = s[n + 2]
          BY <1>6, <2>1, <2>4, <2>5, <3>3
        <4>2. Shift(n + 1) = f[n + 2] - s[i].quantity
          BY <1>6, <2>1, <3>3
        <4>3. g[n + 1] = f[n + 2] - s[i].quantity
          <5>1. g[n + 1] = (f[n + 1] - s[i].quantity) + s[n + 2].quantity
            BY <2>2, <4>1
          <5> QED
            BY <2>2, <2>3, <5>1, SMTT(30)
        <4> QED
          BY <4>2, <4>3, Zenon
      <3> QED
        BY <1>6, <3>1, <3>2, <3>3
    <2> QED
      BY <2>1, <2>6
  <1> HIDE DEF T
  <1>12. N - 1 \in T
    <2>1. \A n \in 0 .. (N - 1) - 1 : n \in T => n + 1 \in T
      BY <1>11
    <2>2. \A n \in 0 .. N - 1 : n \in T
      BY <1>6, <1>10, <2>1, CountingUp
    <2> QED
      BY <1>6, <2>2
  <1>13. g[N - 1] = Shift(N - 1)
    BY <1>12 DEF T
  <1>14. g[N - 1] = f[N] - s[i].quantity
    <2>1. CASE N - 1 < i
      <3>1. i = N
        BY <1>6, <2>1
      <3>2. f[N] = f[N - 1] + s[N].quantity /\ f[N - 1] \in Nat /\ s[N].quantity \in Nat
        BY <1>2, <1>6, <1>7
      <3> QED
        BY <1>13, <2>1, <3>1, <3>2
    <2>2. CASE ~(N - 1 < i)
      <3>1. (N - 1) + 1 = N
        BY <1>6
      <3> QED
        BY <1>13, <2>2, <3>1
    <2> QED
      BY <2>1, <2>2
  <1> QED
    BY <1>9, <1>14 DEF t

\* The total is a natural number.
LEMMA TotalIsNat == ASSUME NEW s \in Seq(Shield) PROVE Total(s) \in Nat
  <1>1. PICK f : Sums(s, f) /\ Total(s) = f[Len(s)]
    BY TotalIsSum
  <1> QED
    BY <1>1 DEF Sums

\* Of some shields there is the first of the highest priority.
LEMMA BestFacts ==
  ASSUME NEW s \in Seq(Shield), s # <<>>
  PROVE  Best(s) \in 1 .. Len(s) /\ \A j \in 1 .. Len(s) : s[j].priority <= s[Best(s)].priority
  <1> DEFINE N == Len(s)
             Before(i, j) == \/ s[j].priority < s[i].priority
                             \/ s[j].priority = s[i].priority /\ i <= j
             First(i, n) == i \in 1 .. n /\ \A j \in 1 .. n : Before(i, j)
             T == {n \in 0 .. N - 1 : \E i \in 1 .. N : First(i, n + 1)}
  <1>1. N \in Nat /\ N - 1 \in Nat /\ N \in 1 .. N /\ DOMAIN s = 1 .. N /\ (N - 1) + 1 = N
    BY EmptySeq
  <1>2. \A j \in 1 .. N : s[j].priority \in Int
    BY ShieldFacts
  <1> HIDE DEF N
  <1>3. 0 \in T
    <2>1. 1 \in 1 .. N /\ First(1, 0 + 1)
      BY <1>1, <1>2
    <2> QED
      BY <1>1, <2>1
  <1>4. ASSUME NEW n \in 0 .. (N - 1) - 1, n \in T
        PROVE  n + 1 \in T
    <2>1. PICK i \in 1 .. N : First(i, n + 1)
      BY <1>4
    <2>2. n + 2 \in 1 .. N /\ n + 1 \in 0 .. N - 1 /\ (n + 1) + 1 = n + 2
      BY <1>1
    <2>3. s[i].priority \in Int /\ s[n + 2].priority \in Int
      BY <1>2, <2>2
    <2>4. CASE s[n + 2].priority <= s[i].priority
      <3>1. Before(i, n + 2)
        BY <1>1, <2>1, <2>2, <2>3, <2>4
      <3>2. First(i, n + 2)
        BY <1>1, <2>1, <2>2, <3>1
      <3> QED
        BY <2>2, <3>2
    <2>5. CASE s[n + 2].priority > s[i].priority
      <3>1. \A j \in 1 .. n + 1 : s[j].priority <= s[i].priority /\ s[j].priority \in Int
        BY <1>1, <1>2, <2>1, <2>3
      <3>2. \A j \in 1 .. n + 1 : Before(n + 2, j)
        BY <2>3, <2>5, <3>1
      <3>3. Before(n + 2, n + 2)
        BY <2>2, <2>3
      <3>4. First(n + 2, n + 2)
        BY <1>1, <2>2, <3>2, <3>3
      <3> QED
        BY <2>2, <3>4
    <2> QED
      BY <2>3, <2>4, <2>5
  <1> HIDE DEF T
  <1>5. N - 1 \in T
    BY <1>1, <1>3, <1>4, CountingUp
  <1>6. PICK i \in 1 .. N : First(i, N)
    BY <1>1, <1>5 DEF T
  <1>7. \E k \in DOMAIN s : \A j \in DOMAIN s : Before(k, j)
    BY <1>1, <1>6
  <1>8. Best(s) \in DOMAIN s /\ \A j \in DOMAIN s : Before(Best(s), j)
    BY <1>7, Zenon DEF Best
  <1> QED
    BY <1>1, <1>2, <1>8 DEF N
-----------------------------------------------------------------------------
(* The loop over the shields.                                                *)

Pass == [slots : Seq(Shield), left : Nat, broken : Nat]

\* y is no shield of a higher priority than x.
Below(y, x) == y.priority <= x.priority

\* One pass: what the shields lose the damage loses, the shield that changes is
\* of the highest priority, and unless the damage is gone a shield is.
LEMMA AbsorbOnceFacts ==
  ASSUME NEW p \in Pass, NEW r, r = AbsorbOnce(p)
  PROVE  /\ r \in Pass
         /\ r.left <= p.left
         /\ Total(p.slots) - Total(r.slots) = p.left - r.left
         /\ Len(r.slots) <= Len(p.slots)
         /\ p.left = 0 => r = p
         /\ r.left = 0 \/ r.slots = <<>> \/ Len(r.slots) <= Len(p.slots) - 1
         /\ \A y \in Range(r.slots) : \E z \in Range(p.slots) : y.priority = z.priority
         /\ \A x \in Range(p.slots) \ Range(r.slots) : \A z \in Range(p.slots) : Below(z, x)
  <1> DEFINE s == p.slots
             i == Best(s)
  <1>1. s \in Seq(Shield) /\ p.left \in Nat /\ p.broken \in Nat
    BY DEF Pass
  <1>2. CASE p.left <= 0 \/ s = <<>>
    <2>1. r = p
      BY <1>2 DEF AbsorbOnce
    <2>2. Total(s) \in Nat
      BY <1>1, TotalIsNat
    <2>3. p.left = 0 \/ s = <<>>
      BY <1>1, <1>2
    <2>4. Len(s) \in Nat
      BY <1>1
    <2> QED
      BY <1>1, <2>1, <2>2, <2>3, <2>4
  <1>3. CASE ~(p.left <= 0 \/ s = <<>>)
    <2>1. i \in 1 .. Len(s) /\ \A j \in 1 .. Len(s) : s[j].priority <= s[i].priority
      BY <1>1, <1>3, BestFacts
    <2>2. s[i] \in Shield
      BY <1>1, <2>1
    <2>3. \A z \in Range(s) : Below(z, s[i])
      BY <1>1, <2>1 DEF Range, Below
    <2>4. Total(s) \in Nat /\ Len(s) \in Nat /\ DOMAIN s = 1 .. Len(s)
      BY <1>1, TotalIsNat
    <2> HIDE DEF i
    <2>5. CASE s[i].quantity > p.left
      <3> DEFINE q == s[i].quantity - p.left
                 t == [s EXCEPT ![i].quantity = q]
      <3>1. q \in Nat \ {0}
        BY <1>1, <2>2, <2>5, ShieldFacts
      <3>2. t \in Seq(Shield) /\ Total(t) = (Total(s) - s[i].quantity) + q
        BY <1>1, <2>1, <3>1, TotalOfChanged
      <3>3. r = [p EXCEPT !.slots = t, !.left = 0]
        BY <1>3, <2>5 DEF AbsorbOnce, i
      <3>4. r.slots = t /\ r.left = 0 /\ r \in Pass
        <4> HIDE DEF t
        <4>1. /\ p \in [slots : Seq(Shield), left : Nat, broken : Nat]
              /\ r = [p EXCEPT !.slots = t, !.left = 0] /\ t \in Seq(Shield)
          BY <3>2, <3>3 DEF Pass
        <4> HIDE DEF s
        <4>2. r = [slots |-> t, left |-> 0, broken |-> p.broken]
          BY <4>1
        <4>3. /\ r \in [slots : Seq(Shield), left : Nat, broken : Nat]
              /\ r.slots = t /\ r.left = 0
          BY <4>1, <4>2
        <4> QED
          BY <4>3 DEF Pass
      <3>5. Total(s) - Total(t) = p.left
        BY <1>1, <2>2, <2>4, <3>1, <3>2, ShieldFacts
      <3>6. DOMAIN t = 1 .. Len(s) /\ Len(t) = Len(s)
        BY <1>1, <3>2
      <3>7. \A j \in 1 .. Len(s) : j # i => t[j] = s[j]
        BY <1>1, <3>2
      <3>8. t[i].priority = s[i].priority
        BY <2>1, <2>2, <2>4, <3>1, ShieldFacts
      <3> HIDE DEF t, q
      <3>9. \A y \in Range(t) : \E z \in Range(s) : y.priority = z.priority
        <4>1. SUFFICES ASSUME NEW j \in 1 .. Len(s)
                       PROVE  \E z \in Range(s) : t[j].priority = z.priority
          BY <3>6 DEF Range
        <4>2. s[j] \in Range(s) /\ t[j].priority = s[j].priority
          BY <2>1, <2>4, <3>7, <3>8 DEF Range
        <4> QED
          BY <4>2
      <3>10. \A x \in Range(s) \ Range(t) : x = s[i]
        BY <2>4, <3>6, <3>7 DEF Range
      <3> QED
        BY <1>1, <1>3, <2>3, <2>4, <3>4, <3>5, <3>6, <3>9, <3>10
    <2>6. CASE ~(s[i].quantity > p.left)
      <3> DEFINE t == RemoveAt(s, i)
      <3>1. /\ t \in Seq(Shield) /\ Len(t) = Len(s) - 1
            /\ \A j \in 1 .. Len(s) - 1 : t[j] = IF j < i THEN s[j] ELSE s[j + 1]
        BY <1>1, <2>1, RemoveAtFacts
      <3>2. Total(t) = Total(s) - s[i].quantity
        BY <1>1, <2>1, TotalOfRemoved
      <3>3. r = [slots |-> t, left |-> p.left - s[i].quantity, broken |-> p.broken + 1]
        BY <1>3, <2>6 DEF AbsorbOnce, i
      <3> HIDE DEF t
      <3>4. s[i].quantity \in Nat /\ s[i].quantity <= p.left
        BY <1>1, <2>2, <2>6, ShieldFacts
      <3>5. r.slots = t /\ r.left = p.left - s[i].quantity /\ r \in Pass
        BY <1>1, <3>1, <3>3, <3>4 DEF Pass
      <3>6. Total(s) - Total(t) = p.left - r.left
        BY <1>1, <2>4, <3>2, <3>4, <3>5
      <3>7. DOMAIN t = 1 .. Len(s) - 1
        BY <3>1
      <3>8. \A y \in Range(t) : y \in Range(s)
        <4>1. SUFFICES ASSUME NEW j \in 1 .. Len(s) - 1
                       PROVE  t[j] \in Range(s)
          BY <3>7 DEF Range
        <4>2. j \in 1 .. Len(s) /\ j + 1 \in 1 .. Len(s)
          BY <2>4
        <4>3. s[j] \in Range(s) /\ s[j + 1] \in Range(s)
          BY <2>4, <4>2 DEF Range
        <4> QED
          BY <3>1, <4>3
      <3>9. \A x \in Range(s) \ Range(t) : x = s[i]
        <4>1. SUFFICES ASSUME NEW j \in 1 .. Len(s), j # i
                       PROVE  s[j] \in Range(t)
          BY <2>4 DEF Range
        <4>2. CASE j < i
          <5>1. j \in 1 .. Len(s) - 1
            BY <2>1, <2>4, <4>2
          <5>2. t[j] = s[j]
            BY <3>1, <4>2, <5>1
          <5> QED
            BY <3>7, <5>1, <5>2 DEF Range
        <4>3. CASE j > i
          <5>1. j - 1 \in 1 .. Len(s) - 1 /\ ~(j - 1 < i) /\ (j - 1) + 1 = j
            BY <2>1, <2>4, <4>3
          <5>2. t[j - 1] = s[j]
            BY <3>1, <5>1
          <5> QED
            BY <3>7, <5>1, <5>2 DEF Range
        <4> QED
          BY <2>1, <4>1, <4>2, <4>3
      <3>10. Len(t) <= Len(s) /\ Len(t) <= Len(s) - 1
        BY <2>4, <3>1
      <3>11. r.left <= p.left
        BY <1>1, <3>4, <3>5
      <3> QED
        BY <1>1, <1>3, <2>3, <3>5, <3>6, <3>8, <3>9, <3>10, <3>11
    <2> QED
      BY <2>5, <2>6
  <1> QED
    BY <1>2, <1>3

\* g has the passes over the slots.
Passes(slots, damage, g) ==
  /\ g \in [0 .. Len(slots) -> Pass]
  /\ g[0] = [slots |-> slots, left |-> damage, broken |-> 0]
  /\ \A n \in 1 .. Len(slots) : g[n] = AbsorbOnce(g[n - 1])

\* What absorb returns is the last of them.
LEMMA AbsorbIsPasses ==
  ASSUME NEW s \in Seq(Shield), NEW damage \in Nat
  PROVE  \E g : Passes(s, damage, g) /\ Absorb(s, damage) = g[Len(s)]
  <1> DEFINE N == Len(s)
             x0 == [slots |-> s, left |-> damage, broken |-> 0]
             h == [p \in Pass \X (1 .. N) |-> AbsorbOnce(p[1])]
             IsPass(g) == g = [n \in 0 .. N |-> IF n = 0 THEN x0 ELSE AbsorbOnce(g[n - 1])]
             pass == CHOOSE g : IsPass(g)
             T == {n \in 0 .. N : pass[n] \in Pass}
  <1>1. N \in Nat
    OBVIOUS
  <1>2. x0 \in Pass
    BY DEF Pass
  <1>3. \A p \in Pass : AbsorbOnce(p) \in Pass
    BY AbsorbOnceFacts
  <1>4. h \in [Pass \X (1 .. N) -> Pass]
    BY <1>3
  <1>5. \A p \in Pass, n \in 1 .. N : h[<<p, n>>] = AbsorbOnce(p)
    OBVIOUS
  <1> HIDE DEF h, N, x0
  <1>6. PICK g : Recurses(g, N, Pass, x0, h)
    BY <1>1, <1>2, <1>4, RecursionOnIndices
  <1>7. ASSUME NEW n \in 0 .. N
        PROVE  g[n] = IF n = 0 THEN x0 ELSE AbsorbOnce(g[n - 1])
    <2>1. CASE n = 0
      BY <1>6, <2>1 DEF Recurses
    <2>2. CASE n # 0
      <3>1. n - 1 \in 0 .. N /\ n \in 1 .. N
        BY <1>1, <2>2
      <3>2. g[n] = h[<<g[n - 1], n>>] /\ g[n - 1] \in Pass
        BY <1>6, <2>2, <3>1 DEF Recurses
      <3> QED
        BY <1>5, <2>2, <3>1, <3>2
    <2> QED
      BY <2>1, <2>2
  <1>8. IsPass(g)
    BY <1>6, <1>7 DEF Recurses
  <1> HIDE DEF IsPass
  <1>9. IsPass(pass)
    BY <1>8, Zenon
  <1> HIDE DEF pass
  <1>10. pass = [n \in 0 .. N |-> IF n = 0 THEN x0 ELSE AbsorbOnce(pass[n - 1])]
    BY <1>9 DEF IsPass
  <1>11. pass[0] = x0 /\ \A n \in 1 .. N : pass[n] = AbsorbOnce(pass[n - 1])
    BY <1>1, <1>10
  <1>12. 0 \in T
    BY <1>1, <1>2, <1>11
  <1>13. ASSUME NEW n \in 0 .. N - 1, n \in T
         PROVE  n + 1 \in T
    <2>1. n + 1 \in 1 .. N /\ (n + 1) - 1 = n /\ n + 1 \in 0 .. N
      BY <1>1
    <2>2. pass[n + 1] = AbsorbOnce(pass[n])
      BY <1>11, <2>1
    <2>3. pass[n + 1] \in Pass
      BY <1>3, <1>13, <2>2
    <2> QED
      BY <2>1, <2>3
  <1> HIDE DEF T
  <1>14. \A n \in 0 .. N : pass[n] \in Pass
    <2>1. \A n \in 0 .. N : n \in T
      BY <1>1, <1>12, <1>13, CountingUp
    <2> QED
      BY <2>1 DEF T
  <1>15. Passes(s, damage, pass)
    BY <1>10, <1>11, <1>14 DEF Passes, N, x0
  <1>16. Absorb(s, damage) = pass[Len(s)]
    BY Zenon DEF Absorb, pass, IsPass, N, x0
  <1> QED
    BY <1>15, <1>16

\* What the shields s have lost against a damage when p is left of both.
Spent(s, damage, p) == Total(s) - Total(p.slots) = damage - p.left

\* One loss after the other.
LEMMA SpentAgain ==
  ASSUME NEW s, NEW damage \in Nat, NEW p, NEW q, Total(s) \in Nat,
         Total(p.slots) \in Nat, Total(q.slots) \in Nat, p.left \in Nat, q.left \in Nat,
         Spent(s, damage, p), Spent(p.slots, p.left, q)
  PROVE  Spent(s, damage, q)
  BY DEF Spent

\* The loop: what the shields lose the damage loses, the damage is gone or the
\* shields are, and none is touched while there is one of a higher priority.
LEMMA AbsorbFacts ==
  ASSUME NEW s \in Seq(Shield), NEW damage \in Nat, NEW r, r = Absorb(s, damage)
  PROVE  /\ r \in Pass
         /\ r.left <= damage
         /\ Spent(s, damage, r)
         /\ Len(r.slots) <= Len(s)
         /\ r.left = 0 \/ r.slots = <<>>
         /\ \A x \in Range(s) \ Range(r.slots) : \A y \in Range(r.slots) : Below(y, x)
  <1> DEFINE N == Len(s)
             Ordered(p) == \A x \in Range(s) \ Range(p.slots) : \A y \in Range(p.slots) : Below(y, x)
             Kept(p) == /\ p \in Pass /\ p.left <= damage
                        /\ Spent(s, damage, p)
                        /\ Ordered(p)
             Fewer(p, n) == /\ Len(p.slots) <= N
                            /\ p.left = 0 \/ p.slots = <<>> \/ Len(p.slots) <= N - n
  <1>1. PICK g : Passes(s, damage, g) /\ r = g[N]
    BY AbsorbIsPasses
  <1> DEFINE T == {n \in 0 .. N : Kept(g[n]) /\ Fewer(g[n], n)}
  <1>2. N \in Nat /\ Total(s) \in Nat
    BY TotalIsNat
  <1>3. /\ g \in [0 .. N -> Pass]
        /\ g[0].slots = s /\ g[0].left = damage
        /\ \A n \in 1 .. N : g[n] = AbsorbOnce(g[n - 1])
    BY <1>1 DEF Passes
  <1>4. 0 \in T
    <2>1. 0 \in 0 .. N /\ g[0] \in Pass
      BY <1>2, <1>3
    <2>2. Kept(g[0])
      <3>1. Spent(s, damage, g[0])
        BY <1>2, <1>3 DEF Spent
      <3> QED
        BY <1>2, <1>3, <2>1, <3>1
    <2>3. Fewer(g[0], 0)
      BY <1>2, <1>3
    <2> HIDE DEF Kept, Fewer
    <2> QED
      BY <2>1, <2>2, <2>3
  <1>5. ASSUME NEW n \in 0 .. N - 1, n \in T
        PROVE  n + 1 \in T
    <2>1. n + 1 \in 1 .. N /\ (n + 1) - 1 = n /\ n + 1 \in 0 .. N
      BY <1>2
    <2>2. PICK p : p = g[n]
      OBVIOUS
    <2>3. PICK q : q = g[n + 1]
      OBVIOUS
    <2>4. Kept(p) /\ Fewer(p, n)
      BY <1>5, <2>2
    <2>5. q = AbsorbOnce(p)
      BY <1>3, <2>1, <2>2, <2>3
    <2>6. /\ q \in Pass /\ q.left <= p.left
          /\ Spent(p.slots, p.left, q)
          /\ Len(q.slots) <= Len(p.slots)
          /\ p.left = 0 => q = p
          /\ q.left = 0 \/ q.slots = <<>> \/ Len(q.slots) <= Len(p.slots) - 1
      BY <2>4, <2>5, AbsorbOnceFacts DEF Spent
    <2>7. /\ \A y \in Range(q.slots) : \E z \in Range(p.slots) : y.priority = z.priority
          /\ \A x \in Range(p.slots) \ Range(q.slots) : \A z \in Range(p.slots) : Below(z, x)
      BY <2>4, <2>5, AbsorbOnceFacts
    <2>8. /\ p.slots \in Seq(Shield) /\ q.slots \in Seq(Shield) /\ p.left \in Nat /\ q.left \in Nat
          /\ Total(p.slots) \in Nat /\ Total(q.slots) \in Nat
          /\ Len(p.slots) \in Nat /\ Len(q.slots) \in Nat
      BY <2>4, <2>6, TotalIsNat DEF Pass
    <2>9. Ordered(q)
      <3>1. SUFFICES ASSUME NEW x \in Range(s) \ Range(q.slots), NEW y \in Range(q.slots)
                     PROVE  Below(y, x)
        OBVIOUS
      <3>2. PICK z \in Range(p.slots) : y.priority = z.priority
        BY <2>7
      <3>3. Below(z, x)
        <4>1. CASE x \in Range(p.slots)
          BY <2>7, <4>1
        <4>2. CASE x \notin Range(p.slots)
          BY <2>4, <4>2
        <4> QED
          BY <4>1, <4>2
      <3> QED
        BY <3>2, <3>3 DEF Below
    <2> HIDE DEF Ordered
    <2>10. Kept(q)
      <3>1. q.left <= damage
        BY <2>4, <2>6, <2>8
      <3>2. Spent(s, damage, q)
        BY <1>2, <2>4, <2>6, <2>8, SpentAgain
      <3> QED
        BY <2>6, <2>9, <3>1, <3>2, Zenon
    <2>11. Fewer(q, n + 1)
      <3>1. Len(q.slots) <= N
        BY <1>2, <2>4, <2>6, <2>8
      <3>2. CASE q.left = 0 \/ q.slots = <<>>
        BY <3>1, <3>2
      <3>3. CASE ~(q.left = 0 \/ q.slots = <<>>)
        <4>1. p.left # 0
          BY <2>6, <3>3
        <4>2. p.slots # <<>>
          <5>1. Len(q.slots) # 0
            BY <2>8, <3>3, EmptySeq
          <5> QED
            BY <2>6, <2>8, <5>1
        <4>3. Len(p.slots) <= N - n /\ Len(q.slots) <= Len(p.slots) - 1
          BY <2>4, <2>6, <3>3, <4>1, <4>2
        <4>4. Len(q.slots) <= N - (n + 1)
          BY <1>2, <2>8, <4>3
        <4> QED
          BY <3>1, <4>4
      <3> QED
        BY <3>2, <3>3
    <2> HIDE DEF Kept, Fewer
    <2> QED
      BY <2>1, <2>3, <2>10, <2>11
  <1> HIDE DEF T
  <1>6. N \in T
    <2>1. \A n \in 0 .. N - 1 : n \in T => n + 1 \in T
      BY <1>5
    <2> HIDE DEF N
    <2>2. \A n \in 0 .. N : n \in T
      BY <1>2, <1>4, <2>1, CountingUp
    <2> QED
      BY <1>2, <2>2
  <1>7. Kept(r) /\ Fewer(r, N)
    BY <1>1, <1>6 DEF T
  <1>8. r.left = 0 \/ r.slots = <<>>
    <2>1. r.slots \in Seq(Shield) /\ Len(r.slots) \in Nat
      BY <1>7 DEF Pass
    <2>2. Len(r.slots) <= 0 => Len(r.slots) = 0
      BY <2>1
    <2>3. N - N = 0
      BY <1>2
    <2> QED
      BY <1>7, <2>1, <2>2, <2>3, EmptySeq
  <1> QED
    BY <1>7, <1>8
-----------------------------------------------------------------------------
(* What plugins do with a bank keeps it one.                                 *)

\* What a bank may hold: shields, no more than its slots.
Contents == {slots \in Seq(Shield) : Len(slots) <= MaxShields}

\* A shield more while there is room.
LEMMA AddedFacts ==
  ASSUME NEW s \in Contents, NEW x \in Shield
  PROVE  Added(s, x) \in Contents
  <1>1. s \in Seq(Shield) /\ Len(s) \in Nat /\ Len(s) <= MaxShields
    BY DEF Contents
  <1>2. Append(s, x) \in Seq(Shield) /\ Len(Append(s, x)) = Len(s) + 1
    BY <1>1, AppendProperties
  <1> QED
    BY <1>1, <1>2, StrikesAssumption DEF Added, Contents

\* A shield whose quantity is set anew.
LEMMA RefreshedFacts ==
  ASSUME NEW s \in Contents, NEW source, NEW q \in Nat \ {0}
  PROVE  Refreshed(s, source, q) \in Contents
  <1> DEFINE I == {i \in 1 .. Len(s) : s[i].source = source}
             i == IF I # {} THEN Min(I) ELSE 0
  <1>1. s \in Seq(Shield) /\ Len(s) \in Nat /\ Len(s) <= MaxShields
    BY DEF Contents
  <1>2. Refreshed(s, source, q) = IF i = 0 THEN s ELSE [s EXCEPT ![i].quantity = q]
    BY DEF Refreshed, SelectInSeq
  <1>3. i = 0 \/ i \in 1 .. Len(s)
    <2>1. I \in SUBSET Nat
      OBVIOUS
    <2> HIDE DEF I
    <2>2. ASSUME I # {} PROVE Min(I) \in I
      <3>1. \E n \in I : \A m \in I : n <= m
        BY <2>1, <2>2, LeastNatural
      <3> QED
        BY <3>1, Zenon DEF Min
    <2> QED
      BY <2>2 DEF I
  <1> HIDE DEF i
  <1>4. ASSUME i \in 1 .. Len(s)
        PROVE  [s EXCEPT ![i].quantity = q] \in Contents
    <2>1. [s[i] EXCEPT !.quantity = q] \in Shield
      BY <1>1, <1>4, ShieldFacts
    <2>2. [s EXCEPT ![i].quantity = q] \in Seq(Shield)
      BY <1>1, <1>4, <2>1, ExceptSeq
    <2>3. Len([s EXCEPT ![i].quantity = q]) = Len(s)
      BY <1>1, <1>4, <2>1, ExceptSeq
    <2> QED
      BY <1>1, <2>2, <2>3 DEF Contents
  <1> QED
    BY <1>2, <1>3, <1>4

\* A bank after a tick: no more shields, and each with some of its quantity.
LEMMA TickedFacts ==
  ASSUME NEW s \in Contents
  PROVE  Ticked(s) \in Contents
  <1> DEFINE N == Len(s)
             X == Seq(Shield)
             Older(x) == IF x.duration > 0 THEN [x EXCEPT !.duration = @ - 1] ELSE x
             Next1(v, n) == IF s[n].duration = 1 THEN v ELSE Append(v, Older(s[n]))
             h == [p \in X \X (1 .. N) |-> Next1(p[1], p[2])]
             IsTick(g) == g = [n \in 0 .. N |->
                                 IF n = 0 THEN <<>>
                                 ELSE IF s[n].duration = 1 THEN g[n - 1]
                                 ELSE Append(g[n - 1], Older(s[n]))]
             ticked == CHOOSE g : IsTick(g)
             T == {n \in 0 .. N : ticked[n] \in X /\ Len(ticked[n]) <= n}
  <1>1. s \in Seq(Shield) /\ N \in Nat /\ N <= MaxShields
    BY DEF Contents
  <1>2. <<>> \in X /\ Len(<<>>) = 0
    BY EmptySeq
  <1>3. \A n \in 1 .. N : Older(s[n]) \in Shield
    <2>1. SUFFICES ASSUME NEW n \in 1 .. N PROVE Older(s[n]) \in Shield
      OBVIOUS
    <2>2. s[n] \in Shield
      BY <1>1
    <2>3. s[n].duration > 0 => s[n].duration - 1 \in Nat
      BY <2>2, ShieldFacts
    <2> QED
      BY <2>2, <2>3, ShieldFacts
  <1> HIDE DEF Older
  <1>4. \A v \in X, n \in 1 .. N : /\ Next1(v, n) \in X
                                   /\ Len(Next1(v, n)) <= Len(v) + 1
    <2>1. SUFFICES ASSUME NEW v \in X, NEW n \in 1 .. N
                   PROVE  Next1(v, n) \in X /\ Len(Next1(v, n)) <= Len(v) + 1
      OBVIOUS
    <2>2. /\ Append(v, Older(s[n])) \in X /\ Len(Append(v, Older(s[n]))) = Len(v) + 1
          /\ Len(v) \in Nat
      BY <1>3, AppendProperties
    <2> QED
      BY <2>2
  <1>5. h \in [X \X (1 .. N) -> X]
    BY <1>4
  <1>6. \A v \in X, n \in 1 .. N : h[<<v, n>>] = Next1(v, n)
    OBVIOUS
  <1> HIDE DEF h, N, X
  <1>7. PICK g : Recurses(g, N, X, <<>>, h)
    BY <1>1, <1>2, <1>5, RecursionOnIndices
  <1>8. ASSUME NEW n \in 0 .. N
        PROVE  g[n] = IF n = 0 THEN <<>>
                      ELSE IF s[n].duration = 1 THEN g[n - 1]
                      ELSE Append(g[n - 1], Older(s[n]))
    <2>1. CASE n = 0
      BY <1>7, <2>1 DEF Recurses
    <2>2. CASE n # 0
      <3>1. n - 1 \in 0 .. N /\ n \in 1 .. N
        BY <1>1, <2>2
      <3>2. g[n] = h[<<g[n - 1], n>>] /\ g[n - 1] \in X
        BY <1>7, <2>2, <3>1 DEF Recurses
      <3>3. g[n] = Next1(g[n - 1], n)
        BY <1>6, <3>1, <3>2
      <3> QED
        BY <2>2, <3>3
    <2> QED
      BY <2>1, <2>2
  <1>9. IsTick(g)
    BY <1>7, <1>8 DEF Recurses
  <1> HIDE DEF IsTick
  <1>10. IsTick(ticked)
    BY <1>9, Zenon
  <1> HIDE DEF ticked
  <1>11. ticked = [n \in 0 .. N |->
                     IF n = 0 THEN <<>>
                     ELSE IF s[n].duration = 1 THEN ticked[n - 1]
                     ELSE Append(ticked[n - 1], Older(s[n]))]
    BY <1>10 DEF IsTick
  <1>12. ticked[0] = <<>> /\ \A n \in 1 .. N : ticked[n] = Next1(ticked[n - 1], n)
    <2>1. 0 \in 0 .. N
      BY <1>1
    <2>2. ASSUME NEW n \in 1 .. N PROVE ticked[n] = Next1(ticked[n - 1], n)
      <3>1. n \in 0 .. N /\ n # 0
        BY <1>1
      <3> QED
        BY <1>11, <3>1
    <2> QED
      BY <1>11, <2>1, <2>2
  <1> HIDE DEF Next1
  <1>13. 0 \in T
    BY <1>1, <1>2, <1>12
  <1>14. ASSUME NEW n \in 0 .. N - 1, n \in T
         PROVE  n + 1 \in T
    <2>1. n + 1 \in 1 .. N /\ (n + 1) - 1 = n /\ n + 1 \in 0 .. N
      BY <1>1
    <2>2. ticked[n + 1] = Next1(ticked[n], n + 1)
      BY <1>12, <2>1
    <2>3. ticked[n] \in X /\ Len(ticked[n]) <= n
      BY <1>14
    <2>4. ticked[n + 1] \in X /\ Len(ticked[n + 1]) <= Len(ticked[n]) + 1
      BY <1>4, <2>1, <2>2, <2>3
    <2>5. Len(ticked[n]) \in Nat /\ Len(ticked[n + 1]) \in Nat
      BY <2>3, <2>4 DEF X
    <2>6. Len(ticked[n + 1]) <= n + 1
      BY <2>3, <2>4, <2>5
    <2> QED
      BY <2>1, <2>4, <2>6
  <1> HIDE DEF T
  <1>15. N \in T
    <2>1. \A n \in 0 .. N - 1 : n \in T => n + 1 \in T
      BY <1>14
    <2>2. \A n \in 0 .. N : n \in T
      BY <1>1, <1>13, <2>1, CountingUp
    <2> QED
      BY <1>1, <2>2
  <1>16. ticked[N] \in Seq(Shield) /\ Len(ticked[N]) <= N /\ Len(ticked[N]) \in Nat
    BY <1>15 DEF T, X
  <1>17. ticked[N] \in Contents
    BY <1>1, <1>16, StrikesAssumption DEF Contents
  <1>18. Ticked(s) = ticked[N]
    BY Zenon DEF Ticked, ticked, IsTick, N, Older
  <1> QED
    BY <1>17, <1>18
-----------------------------------------------------------------------------
(* What the primitives return.                                               *)

\* Percentages of integers are integers, those of naturals naturals.
LEMMA PercentFacts ==
  /\ \A n, pct \in Int : Percent(n, pct) \in Int
  /\ \A n, pct \in Nat : Percent(n, pct) \in Nat
  /\ \A n \in Nat : Percent(n, 0) = 0
  /\ \A pct \in Int : Percent(0, pct) = 0
  <1>1. ASSUME NEW n \in Int, NEW pct \in Int PROVE Percent(n, pct) \in Int
    <2>1. n * pct \in Int
      OBVIOUS
    <2> QED
      BY <2>1 DEF Percent
  <1>2. ASSUME NEW n \in Nat, NEW pct \in Nat PROVE Percent(n, pct) \in Nat
    <2>1. n * pct \in Nat
      OBVIOUS
    <2> QED
      BY <2>1 DEF Percent
  <1>3. ASSUME NEW n \in Nat PROVE Percent(n, 0) = 0
    <2>1. n * 0 = 0
      OBVIOUS
    <2> QED
      BY <2>1 DEF Percent
  <1>4. ASSUME NEW pct \in Int PROVE Percent(0, pct) = 0
    <2>1. 0 * pct = 0
      OBVIOUS
    <2> QED
      BY <2>1 DEF Percent
  <1> QED
    BY <1>1, <1>2, <1>3, <1>4

\* What the types say of a side.
LEMMA SideFacts ==
  ASSUME TypeOK, NEW s \in Side
  PROVE  /\ hp[s] \in Nat /\ hp[s] <= MaxHp /\ MaxHp \in Nat
         /\ bank[s] \in [Bank -> Contents]
         /\ standing[s] \in StandingType
         /\ blocks[s] \in Nat /\ blocks[s] <= MaxBlocks
  <1>1. bank[s] \in [Bank -> Contents]
    <2>1. bank[s] \in [Bank -> Seq(Shield)]
      BY DEF TypeOK
    <2>2. \A b \in Bank : bank[s][b] \in Seq(Shield) /\ Len(bank[s][b]) <= MaxShields
      BY <2>1 DEF TypeOK
    <2>3. \A b \in Bank : bank[s][b] \in Contents
      BY <2>2 DEF Contents
    <2> QED
      BY <2>1, <2>3
  <1> QED
    BY <1>1, StrikesAssumption DEF TypeOK

\* The events tell of a loss of n by t, and of no other.
Told(events, t, n) ==
  /\ \A e \in events : e.target = t
  /\ {e.amount : e \in {x \in events : x.type = "TAKE_DAMAGE" /\ x.target = t}}
       = IF n > 0 THEN {n} ELSE {}

\* What a strike leaves of t: hp and banks that have only lost, the banks from
\* the highest priority down, and events that tell the loss.
Sound(t, hit) ==
  /\ hit.hp \in 0 .. hp[t]
  /\ hit.bank \in [Bank -> Contents]
  /\ \A b \in Bank : \A x \in Range(bank[t][b]) \ Range(hit.bank[b]) :
       \A y \in Range(hit.bank[b]) : Below(y, x)
  /\ Told(hit.events, t, hp[t] - hit.hp)

\* What t loses of banks and hp.
LostTo(t, hit) ==
  (hp[t] - hit.hp) + (Total(bank[t]["shield"]) - Total(hit.bank["shield"]))
    + (Total(bank[t]["hood"]) - Total(hit.bank["hood"]))

\* Nothing of what landed is lost between the banks that answer and the pet.
Counted(t, damage, kind, actor, hit) ==
  /\ \A b \in Bank \ Answering(kind) : hit.bank[b] = bank[t][b]
  /\ LostTo(t, hit) = damage \/ (hit.hp = 0 /\ LostTo(t, hit) < damage)
  /\ hit.hp < hp[t] =>
       \A b \in Answering(kind) : hit.bank[b] = <<>> \/ standing[actor].ignore_shield

\* Nothing of an attack is lost but what resistance takes.
Accounted(t, damage, kind, actor, hit) ==
  /\ \A b \in Bank \ Answering(kind) : hit.bank[b] = bank[t][b]
  /\ hp[t] > 0 => \/ LostTo(t, hit) = Arriving(t, damage, kind)
                  \/ hit.hp = 0 /\ LostTo(t, hit) < Arriving(t, damage, kind)
  /\ hit.hp < hp[t] =>
       \A b \in Answering(kind) : \/ hit.bank[b] = <<>> \/ standing[actor].ignore_shield
                                  \/ ResistedWhole(t, damage, kind)

\* A pet that nothing has touched.
LEMMA UntouchedFacts ==
  ASSUME TypeOK, NEW t \in Side
  PROVE  /\ Sound(t, Untouched(t))
         /\ Sound(t, [Untouched(t) EXCEPT !.events = {Event("ATTACK_BLOCKED", t, 0)}])
  <1>1. hp[t] \in Nat /\ hp[t] - hp[t] = 0 /\ hp[t] \in 0 .. hp[t] /\ bank[t] \in [Bank -> Contents]
    BY SideFacts
  <1>2. Told({}, t, 0)
    BY DEF Told
  <1>3. Told({Event("ATTACK_BLOCKED", t, 0)}, t, 0)
    BY DEF Told, Event
  <1> DEFINE hit == [Untouched(t) EXCEPT !.events = {Event("ATTACK_BLOCKED", t, 0)}]
  <1>4. /\ Untouched(t).hp = hp[t] /\ Untouched(t).bank = bank[t] /\ Untouched(t).events = {}
        /\ hit.hp = hp[t] /\ hit.bank = bank[t] /\ hit.events = {Event("ATTACK_BLOCKED", t, 0)}
    BY DEF Untouched
  <1> HIDE DEF hit
  <1>5. Sound(t, Untouched(t))
    BY <1>1, <1>2, <1>4 DEF Sound
  <1>6. Sound(t, hit)
    BY <1>1, <1>3, <1>4 DEF Sound
  <1> QED
    BY <1>5, <1>6 DEF hit

\* What the banks that answer to a kind of damage leave of it.
LEMMA LandedFacts ==
  ASSUME TypeOK, NEW t \in Side, NEW damage \in Nat, NEW kind, NEW actor
  PROVE  /\ Sound(t, Landed(t, damage, kind, actor))
         /\ actor \in Side => Counted(t, damage, kind, actor, Landed(t, damage, kind, actor))
  <1> DEFINE Takes(b) == b \in Answering(kind) /\ ~(actor \in Side /\ standing[actor].ignore_shield)
             after == [b \in Bank |-> IF Takes(b) THEN Absorb(bank[t][b], damage)
                                      ELSE [slots |-> bank[t][b], left |-> damage, broken |-> 0]]
             left == IF Takes("shield") THEN after["shield"].left ELSE after["hood"].left
             loss == IF left < hp[t] THEN left ELSE hp[t]
             hit == Landed(t, damage, kind, actor)
             events == {Event("SHIELD_BROKEN", t, 0) : b \in {c \in Bank : after[c].broken > 0}}
                         \cup {Event("TAKE_DAMAGE", t, n) : n \in {loss} \cap (1 .. MaxHp)}
  <1>1. /\ hit.hp = hp[t] - loss
        /\ hit.bank = [b \in Bank |-> after[b].slots]
        /\ hit.events = events
    BY DEF Landed
  <1>2. hp[t] \in Nat /\ hp[t] <= MaxHp /\ MaxHp \in Nat /\ bank[t] \in [Bank -> Contents]
    BY SideFacts
  <1>3. ASSUME NEW b \in Bank
        PROVE  /\ after[b].slots \in Contents
               /\ after[b].left \in Nat /\ after[b].left <= damage
               /\ Spent(bank[t][b], damage, after[b])
               /\ Takes(b) => after[b].left = 0 \/ after[b].slots = <<>>
               /\ ~Takes(b) => after[b].slots = bank[t][b] /\ after[b].left = damage
               /\ \A x \in Range(bank[t][b]) \ Range(after[b].slots) :
                    \A y \in Range(after[b].slots) : Below(y, x)
    <2>1. bank[t][b] \in Contents /\ bank[t][b] \in Seq(Shield) /\ Len(bank[t][b]) <= MaxShields
      BY <1>2 DEF Contents
    <2>2. Total(bank[t][b]) \in Nat /\ Len(bank[t][b]) \in Nat
      BY <2>1, TotalIsNat
    <2>3. CASE Takes(b)
      <3> DEFINE r == Absorb(bank[t][b], damage)
      <3>1. /\ r \in Pass /\ r.left <= damage /\ Spent(bank[t][b], damage, r)
            /\ Len(r.slots) <= Len(bank[t][b])
            /\ r.left = 0 \/ r.slots = <<>>
            /\ \A x \in Range(bank[t][b]) \ Range(r.slots) : \A y \in Range(r.slots) : Below(y, x)
        BY <2>1, AbsorbFacts
      <3>2. after[b] = r
        BY <2>3
      <3> HIDE DEF r, after, Takes
      <3>3. r.slots \in Seq(Shield) /\ r.left \in Nat /\ Len(r.slots) \in Nat
        BY <3>1 DEF Pass
      <3>4. r.slots \in Contents
        BY <2>1, <2>2, <3>1, <3>3, StrikesAssumption DEF Contents
      <3> QED
        BY <2>3, <3>1, <3>2, <3>3, <3>4
    <2>4. CASE ~Takes(b)
      <3>1. after[b].slots = bank[t][b] /\ after[b].left = damage
        BY <2>4
      <3> HIDE DEF after, Takes
      <3>2. Spent(bank[t][b], damage, after[b])
        BY <2>2, <3>1 DEF Spent
      <3> QED
        BY <2>1, <2>4, <3>1, <3>2
    <2> QED
      BY <2>3, <2>4
  <1> HIDE DEF after, hit, Takes
  <1>4. left \in Nat /\ left <= damage
    BY <1>3 DEF Bank
  <1>5. loss \in Nat /\ loss <= hp[t] /\ loss <= left
    BY <1>2, <1>4
  <1>6. Told(events, t, loss)
    <2> HIDE DEF loss
    <2>1. \A e \in events : e.target = t
      BY DEF Event
    <2>2. \A e \in events : e.type = "TAKE_DAMAGE" => e.amount = loss /\ loss > 0
      BY <1>5 DEF Event
    <2>3. ASSUME loss > 0
          PROVE  Event("TAKE_DAMAGE", t, loss) \in events
      <3>1. loss \in {loss} \cap (1 .. MaxHp)
        BY <1>2, <1>5, <2>3
      <3> QED
        BY <3>1
    <2>4. Event("TAKE_DAMAGE", t, loss).type = "TAKE_DAMAGE"
          /\ Event("TAKE_DAMAGE", t, loss).target = t
          /\ Event("TAKE_DAMAGE", t, loss).amount = loss
      BY DEF Event
    <2> HIDE DEF events
    <2> DEFINE told == {e.amount : e \in {x \in events : x.type = "TAKE_DAMAGE" /\ x.target = t}}
    <2>5. \A n \in told : n = loss /\ loss > 0
      BY <2>2
    <2>6. loss > 0 => loss \in told
      BY <2>3, <2>4
    <2> HIDE DEF told
    <2>7. told = IF loss > 0 THEN {loss} ELSE {}
      BY <2>5, <2>6
    <2> QED
      BY <2>1, <2>7 DEF Told, told
  <1> HIDE DEF events
  <1>7. hp[t] - hit.hp = loss /\ hit.hp \in 0 .. hp[t]
    BY <1>1, <1>2, <1>5
  <1>8. Sound(t, hit)
    <2>1. hit.bank \in [Bank -> Contents]
      BY <1>1, <1>3
    <2>2. \A b \in Bank : hit.bank[b] = after[b].slots
      BY <1>1
    <2> QED
      BY <1>1, <1>3, <1>6, <1>7, <2>1, <2>2 DEF Sound
  <1>9. ASSUME actor \in Side
        PROVE  Counted(t, damage, kind, actor, hit)
    <2>1. /\ ~(Takes("shield") /\ Takes("hood"))
          /\ \A b \in Bank : b \notin Answering(kind) => ~Takes(b)
          /\ \A b \in Answering(kind) : ~Takes(b) => standing[actor].ignore_shield
      BY <1>9 DEF Takes, Answering, Pink
    <2>2. "shield" \in Bank /\ "hood" \in Bank /\ Answering(kind) \subseteq Bank
      BY DEF Bank, Answering
    <2>3. \A b \in Bank : hit.bank[b] = after[b].slots
      BY <1>1
    <2>4. \A b \in Bank : Takes(b) => left = after[b].left
      BY <1>3, <2>1, <2>2 DEF Bank
    <2>5. ~Takes("shield") /\ ~Takes("hood") => left = damage
      BY <1>3, <2>2
    <2>6. ASSUME NEW b \in Bank
          PROVE  /\ Total(bank[t][b]) \in Nat /\ Total(hit.bank[b]) \in Nat
                 /\ Total(bank[t][b]) - Total(hit.bank[b]) = IF Takes(b) THEN damage - left ELSE 0
      <3>1. Total(bank[t][b]) \in Nat /\ Total(hit.bank[b]) \in Nat
        BY <1>2, <1>3, <2>3, TotalIsNat DEF Contents
      <3>2. Total(bank[t][b]) - Total(hit.bank[b]) = damage - after[b].left
        BY <1>3, <2>3 DEF Spent
      <3>3. ~Takes(b) => damage - after[b].left = 0
        BY <1>3
      <3> QED
        BY <2>4, <3>1, <3>2, <3>3
    <2>7. LostTo(t, hit) = loss + (damage - left)
      <3>1. /\ Total(bank[t]["shield"]) - Total(hit.bank["shield"])
                 = IF Takes("shield") THEN damage - left ELSE 0
            /\ Total(bank[t]["hood"]) - Total(hit.bank["hood"])
                 = IF Takes("hood") THEN damage - left ELSE 0
        BY <2>2, <2>6
      <3>2. LostTo(t, hit) = loss + (IF Takes("shield") THEN damage - left ELSE 0)
                                  + (IF Takes("hood") THEN damage - left ELSE 0)
        BY <1>7, <3>1 DEF LostTo
      <3> HIDE DEF loss, left
      <3> QED
        BY <1>4, <1>5, <2>1, <2>5, <3>2
    <2> HIDE DEF left
    <2>8. LostTo(t, hit) = damage \/ (hit.hp = 0 /\ LostTo(t, hit) < damage)
      <3>1. CASE left < hp[t]
        BY <1>4, <2>7, <3>1
      <3>2. CASE ~(left < hp[t])
        <4>1. loss = hp[t] /\ hit.hp = 0
          BY <1>1, <1>2, <3>2
        <4>2. hp[t] <= left
          BY <1>2, <1>4, <3>2
        <4> QED
          BY <1>2, <1>4, <2>7, <4>1, <4>2
      <3> QED
        BY <3>1, <3>2
    <2>9. ASSUME hit.hp < hp[t], NEW b \in Answering(kind)
          PROVE  hit.bank[b] = <<>> \/ standing[actor].ignore_shield
      <3>1. loss > 0
        BY <1>2, <1>5, <1>7, <2>9
      <3>2. left # 0
        BY <1>4, <1>5, <3>1
      <3> QED
        BY <1>3, <2>1, <2>2, <2>3, <2>4, <3>2
    <2>10. \A b \in Bank \ Answering(kind) : hit.bank[b] = bank[t][b]
      BY <1>3, <2>1, <2>3
    <2> QED
      BY <2>8, <2>9, <2>10 DEF Counted
  <1> QED
    BY <1>8, <1>9 DEF hit

\* What resistance leaves of an amount is an integer, and nothing of nothing.
LEMMA ResistedFacts ==
  ASSUME TypeOK, NEW t \in Side, NEW damage \in Nat, NEW kind
  PROVE  /\ Resisted(t, damage, kind) \in Int
         /\ damage = 0 => Resisted(t, damage, kind) = 0
  <1> DEFINE pct == IF kind = "FIXED" THEN standing[t].fixed_pct ELSE standing[t].percent_pct
             resisted == damage - Percent(damage, pct)
  <1>1. pct \in Int /\ standing[t].pink_reduce_pct \in Int
    BY SideFacts DEF StandingType
  <1> HIDE DEF pct
  <1>2. Percent(damage, pct) \in Int /\ (damage = 0 => Percent(damage, pct) = 0)
    <2>1. Percent(damage, pct) \in Int
      BY <1>1, PercentFacts
    <2>2. Percent(0, pct) = 0
      BY <1>1, PercentFacts, Zenon
    <2> QED
      BY <2>1, <2>2, Zenon
  <1>3. resisted \in Int /\ (damage = 0 => resisted = 0)
    BY <1>2
  <1> HIDE DEF resisted
  <1>4. /\ resisted - Percent(resisted, standing[t].pink_reduce_pct) \in Int
        /\ damage = 0 => resisted - Percent(resisted, standing[t].pink_reduce_pct) = 0
    <2>1. /\ Percent(resisted, standing[t].pink_reduce_pct) \in Int
          /\ damage = 0 => Percent(resisted, standing[t].pink_reduce_pct) = 0
      BY <1>1, <1>3, PercentFacts
    <2> QED
      BY <1>3, <2>1
  <1>5. Resisted(t, damage, kind)
          = IF standing[t].pink_immune THEN 0
            ELSE resisted - Percent(resisted, standing[t].pink_reduce_pct)
    BY DEF Resisted, resisted, pct
  <1> QED
    BY <1>4, <1>5

\* A pet that loses nothing accounts for an attack of which nothing arrives.
LEMMA UntouchedLoses ==
  ASSUME TypeOK, NEW t \in Side, NEW damage, NEW kind, NEW actor, NEW hit,
         hit.hp = hp[t], hit.bank = bank[t], Arriving(t, damage, kind) = 0 \/ hp[t] = 0
  PROVE  Accounted(t, damage, kind, actor, hit)
  <1>1. hp[t] \in Nat /\ bank[t]["shield"] \in Contents /\ bank[t]["hood"] \in Contents
    BY SideFacts DEF Bank
  <1>2. Total(bank[t]["shield"]) \in Nat /\ Total(bank[t]["hood"]) \in Nat
    BY <1>1, TotalIsNat DEF Contents
  <1>3. LostTo(t, hit) = 0
    BY <1>1, <1>2 DEF LostTo
  <1>4. ~(hit.hp < hp[t]) /\ (hp[t] = 0 => ~(hp[t] > 0))
    BY <1>1
  <1> QED
    BY <1>3, <1>4 DEF Accounted

\* The damage primitive, whatever the kind; what an attack deals arrives.
LEMMA DealFacts ==
  ASSUME TypeOK, NEW t \in Side, NEW amount \in Nat, NEW kind, NEW actor
  PROVE  /\ Sound(t, deal_damage(t, amount, kind, actor))
         /\ kind \in AttackKind /\ actor \in Side /\ amount > 0 /\ hp[t] > 0 =>
              Accounted(t, amount, kind, actor, deal_damage(t, amount, kind, actor))
         /\ hp[t] = 0 => deal_damage(t, amount, kind, actor) = Untouched(t)
  <1> DEFINE dealt == Dealt(amount, kind)
             left == IF kind \in Pink THEN Resisted(t, dealt, kind) ELSE dealt
             hit == deal_damage(t, amount, kind, actor)
  <1>1. hp[t] \in Nat /\ MaxHp \in Nat
    BY SideFacts
  <1>2. dealt \in Nat
    <2>1. Percent(MaxHp, amount) \in Nat
      BY <1>1, PercentFacts
    <2> QED
      BY <2>1 DEF Dealt
  <1>3. left \in Int
    BY <1>2, ResistedFacts
  <1>4. hit = CASE dealt <= 0 \/ hp[t] = 0 -> Untouched(t)
                [] dealt > 0 /\ hp[t] > 0 /\ left > 0 -> Landed(t, left, kind, actor)
                [] dealt > 0 /\ hp[t] > 0 /\ left <= 0 ->
                     IF standing[t].pink_to_true THEN Landed(t, dealt, "TRUE", actor)
                     ELSE Untouched(t)
    BY DEF deal_damage
  <1> HIDE DEF hit
  <1>5. kind \in AttackKind =>
          /\ dealt = amount
          /\ left = IF kind \in Pink THEN Resisted(t, amount, kind) ELSE amount
    BY DEF Dealt, Pink, AttackKind
  <1> HIDE DEF dealt, left
  <1>6. CASE dealt <= 0 \/ hp[t] = 0
    <2>1. hit = Untouched(t)
      BY <1>1, <1>2, <1>3, <1>4, <1>6
    <2>2. Sound(t, hit)
      BY <2>1, UntouchedFacts
    <2>3. kind \in AttackKind => ~(amount > 0 /\ hp[t] > 0)
      BY <1>1, <1>2, <1>5, <1>6
    <2> QED
      BY <2>1, <2>2, <2>3 DEF hit
  <1>7. CASE dealt > 0 /\ hp[t] > 0 /\ left > 0
    <2>1. hit = Landed(t, left, kind, actor) /\ left \in Nat
      BY <1>1, <1>2, <1>3, <1>4, <1>7
    <2>2. Sound(t, hit) /\ (actor \in Side => Counted(t, left, kind, actor, hit))
      BY <2>1, LandedFacts
    <2>3. hp[t] # 0
      BY <1>1, <1>7
    <2>4. kind \in AttackKind => left = Arriving(t, amount, kind)
      BY <1>3, <1>5, <1>7 DEF Arriving, ResistedWhole, AtLeast0
    <2> QED
      BY <2>2, <2>3, <2>4 DEF hit, Counted, Accounted
  <1>8. CASE dealt > 0 /\ hp[t] > 0 /\ left <= 0
    <2>1. hit = IF standing[t].pink_to_true THEN Landed(t, dealt, "TRUE", actor)
                ELSE Untouched(t)
      BY <1>1, <1>2, <1>3, <1>4, <1>8
    <2>2. Sound(t, hit)
      BY <1>2, <2>1, LandedFacts, UntouchedFacts
    <2>3. ASSUME kind \in AttackKind, actor \in Side
          PROVE  Accounted(t, amount, kind, actor, hit)
      <3>1. ResistedWhole(t, amount, kind)
        BY <1>2, <1>3, <1>5, <1>8, <2>3 DEF ResistedWhole
      <3>2. CASE standing[t].pink_to_true
        <4>1. hit = Landed(t, amount, "TRUE", actor)
          BY <1>5, <2>1, <2>3, <3>2
        <4>2. Counted(t, amount, "TRUE", actor, hit)
          BY <2>3, <4>1, LandedFacts
        <4>3. Answering("TRUE") = {} /\ Arriving(t, amount, kind) = amount
          BY <3>1, <3>2 DEF Answering, Pink, Arriving
        <4> QED
          BY <3>1, <4>2, <4>3 DEF Counted, Accounted
      <3>3. CASE ~standing[t].pink_to_true
        <4>1. hit = Untouched(t)
          BY <2>1, <3>3
        <4>2. hit.hp = hp[t] /\ hit.bank = bank[t]
          BY <4>1 DEF Untouched
        <4>3. Arriving(t, amount, kind) = 0
          BY <1>3, <3>1, <3>3, ResistedFacts DEF Arriving, ResistedWhole, AtLeast0
        <4> HIDE DEF hit
        <4> QED
          BY <4>2, <4>3, UntouchedLoses
      <3> QED
        BY <3>2, <3>3
    <2>4. hp[t] # 0
      BY <1>1, <1>8
    <2> QED
      BY <2>2, <2>3, <2>4 DEF hit
  <1> QED
    BY <1>1, <1>2, <1>3, <1>6, <1>7, <1>8

\* Recovery never lowers hp, and a block lets none through.
LEMMA HealedFacts ==
  ASSUME TypeOK, NEW s \in Side, NEW amount \in Nat
  PROVE  /\ Healed(s, amount) \in 0 .. MaxHp /\ Healed(s, amount) >= hp[s]
         /\ standing[s].heal_block => Healed(s, amount) = hp[s]
  <1> DEFINE pct == 100 + standing[s].heal_mod_pct
  <1>1. hp[s] \in Nat /\ hp[s] <= MaxHp /\ MaxHp \in Nat
    BY SideFacts
  <1>2. pct \in Int
    BY SideFacts DEF StandingType
  <1> HIDE DEF pct
  <1>3. Percent(amount, pct) \in Int
    BY <1>2, PercentFacts
  <1>4. Healed(s, amount) = IF amount <= 0 \/ standing[s].heal_block THEN hp[s]
                            ELSE AtMostMax(hp[s] + AtLeast0(Percent(amount, pct)))
    BY DEF Healed, pct
  <1> QED
    BY <1>1, <1>3, <1>4 DEF AtMostMax, AtLeast0

\* What the pipeline leaves of an attack is a natural number, and none when a
\* immunity takes it: one that reduction has not taken already.
LEMMA PipelineFacts ==
  ASSUME TypeOK, NEW a \in Side, NEW raw \in Nat, NEW red \in BOOLEAN
  PROVE  /\ Final(a, raw, red) \in Nat
         /\ Blocked(a, raw, red) =>
              /\ Final(a, raw, red) = 0
              /\ \/ standing[Opponent(a)].reduce_pct < 100
                 \/ Suppressed(Opponent(a), "MITIGATE")
  <1> DEFINE t == Opponent(a)
             m == Amplified(a, raw)
             pct == standing[t].reduce_pct
  <1>1. t \in Side
    BY OpponentFacts
  <1>2. standing[a].add_pct \in Int /\ standing[a].add_flat \in Int /\ pct \in -100 .. 100
    BY <1>1, SideFacts DEF StandingType
  <1>3. m \in Nat
    <2> DEFINE add == 100 + standing[a].add_pct
    <2>1. add \in Int
      BY <1>2
    <2> HIDE DEF add
    <2>2. Percent(raw, add) \in Int
      BY <2>1, PercentFacts
    <2>3. AtLeast0(Percent(raw, add) + standing[a].add_flat) \in Nat
      BY <1>2, <2>2 DEF AtLeast0
    <2> QED
      BY <2>3 DEF Amplified, add
  <1> HIDE DEF m
  <1>4. 100 - pct \in Nat /\ (~(pct < 100) => 100 - pct = 0)
    BY <1>2
  <1>5. Reduced(t, m) = IF Suppressed(t, "MITIGATE") THEN m ELSE Percent(m, 100 - pct)
    BY DEF Reduced, applyDamageReduction
  <1>6. Percent(m, 100 - pct) \in Nat /\ Percent(m, 0) = 0
    BY <1>3, <1>4, PercentFacts
  <1>7. Reduced(t, m) \in Nat
    BY <1>3, <1>5, <1>6
  <1>8. ~(pct < 100) /\ ~Suppressed(t, "MITIGATE") => Reduced(t, m) = 0
    BY <1>4, <1>5, <1>6
  <1>9. Blocked(a, raw, red) => Reduced(t, m) > 0
    BY DEF Blocked, m
  <1>10. Final(a, raw, red) = IF Blocked(a, raw, red) \/ standing[a].zero_damage THEN 0 ELSE Reduced(t, m)
    BY DEF Final, m
  <1> QED
    BY <1>7, <1>8, <1>9, <1>10
-----------------------------------------------------------------------------
(* Steps: those that strike a pet, and those that strike none.               *)

\* A block of t is spent on an attack that reduction would have let through, and
\* the attack takes nothing.
TakesBlock(t, hit) ==
  /\ last'.op = "Attack" /\ last'.amount = 0
  /\ blocks[t] > 0 /\ blocks' = [blocks EXCEPT ![t] = @ - 1]
  /\ hit.hp = hp[t] /\ hit.bank = bank[t]
  /\ standing[t].reduce_pct < 100 \/ Suppressed(t, "MITIGATE")

StruckBy(t, hit) ==
  /\ last'.op \in {"Attack", "Pink", "Drain"}
  /\ last'.target = t /\ last'.events = hit.events
  /\ Sound(t, hit)
  /\ bank' = [bank EXCEPT ![t] = hit.bank]
  /\ hp' \in [Side -> 0 .. MaxHp] /\ hp'[t] = hit.hp
  /\ \A s \in Side \ {t} : hp'[s] >= hp[s] /\ (standing[s].heal_block => hp'[s] = hp[s])
  /\ UNCHANGED standing
  /\ UNCHANGED blocks \/ TakesBlock(t, hit)
  /\ last'.op = "Attack" => Accounted(t, last'.amount, last'.kind, Opponent(t), hit)

StrikesNobody ==
  /\ last'.op \notin {"Attack", "Pink", "Drain"} /\ last'.events = {}
  /\ hp' \in [Side -> 0 .. MaxHp]
  /\ \A s \in Side : standing[s].heal_block /\ hp'[s] > hp[s] => last'.op = "Medicine"
  /\ bank' \in [Side -> [Bank -> Contents]]
  /\ blocks' \in [Side -> 0 .. MaxBlocks] /\ \A s \in Side : blocks'[s] >= blocks[s]
  /\ standing' \in [Side -> Standing]

\* What is told of a step is what was put there.
LEMMA StepFacts ==
  ASSUME NEW op, NEW t, NEW kind, NEW amount, NEW events
  PROVE  /\ Step(op, t, kind, amount, events).op = op
         /\ Step(op, t, kind, amount, events).target = t
         /\ Step(op, t, kind, amount, events).kind = kind
         /\ Step(op, t, kind, amount, events).amount = amount
         /\ Step(op, t, kind, amount, events).events = events
         /\ Quiet(op, t).op = op /\ Quiet(op, t).events = {}
  BY DEF Step, Quiet

\* Nothing arrives of an attack that is nothing.
LEMMA NothingArrives ==
  ASSUME TypeOK, NEW t \in Side, NEW kind
  PROVE  Arriving(t, 0, kind) = 0
  BY ResistedFacts DEF Arriving, AtLeast0

\* An attack.
LEMMA AttackStrikes ==
  ASSUME TypeOK, NEW a \in Side, NEW raw \in Amount, NEW kind \in AttackKind,
         NEW red \in BOOLEAN, Attack(a, raw, kind, red)
  PROVE  \E hit : StruckBy(Opponent(a), hit)
  <1> DEFINE t == Opponent(a)
             n == Final(a, raw, red)
             hit == IF n > 0 THEN deal_damage(t, n, kind, a)
                    ELSE [Untouched(t) EXCEPT !.events = {Event("ATTACK_BLOCKED", t, 0)}]
  <1>1. t \in Side /\ Opponent(t) = a
    BY SMT DEF Side, Opponent
  <1>2. raw \in Nat
    BY StrikesAssumption
  <1>3. /\ n \in Nat
        /\ Blocked(a, raw, red) => /\ n = 0
                                   /\ standing[t].reduce_pct < 100 \/ Suppressed(t, "MITIGATE")
    BY <1>2, PipelineFacts
  <1>4. /\ blocks' = IF Blocked(a, raw, red) /\ blocks[t] > 0 THEN [blocks EXCEPT ![t] = @ - 1]
                     ELSE blocks
        /\ Strike(t, hit) /\ last' = Step("Attack", t, kind, n, hit.events)
    BY DEF Attack
  <1> DEFINE none == [Untouched(t) EXCEPT !.events = {Event("ATTACK_BLOCKED", t, 0)}]
  <1>5. none.hp = hp[t] /\ none.bank = bank[t]
    BY DEF Untouched
  <1>6. hp[t] \in Nat
    BY <1>1, SideFacts
  <1> HIDE DEF n, none
  <1>7. Sound(t, hit)
    BY <1>1, <1>3, DealFacts, UntouchedFacts DEF none
  <1>8. Accounted(t, n, kind, a, hit)
    <2>1. CASE ~(n > 0)
      <3>1. hit = none /\ n = 0
        BY <1>3, <2>1 DEF none
      <3> HIDE DEF hit
      <3> QED
        BY <1>1, <1>5, <3>1, UntouchedLoses, NothingArrives
    <2>2. CASE n > 0 /\ hp[t] = 0
      <3>1. hit = Untouched(t)
        BY <1>1, <1>3, <2>2, DealFacts
      <3>2. hit.hp = hp[t] /\ hit.bank = bank[t]
        BY <3>1 DEF Untouched
      <3> HIDE DEF hit
      <3> QED
        BY <1>1, <1>3, <2>2, <3>2, UntouchedLoses, NothingArrives
    <2>3. CASE n > 0 /\ hp[t] # 0
      <3>1. hp[t] > 0 /\ hit = deal_damage(t, n, kind, a)
        BY <1>6, <2>3
      <3> HIDE DEF hit
      <3> QED
        BY <1>1, <1>3, <2>3, <3>1, DealFacts
    <2> QED
      BY <2>1, <2>2, <2>3
  <1>9. n = 0 => hit.hp = hp[t] /\ hit.bank = bank[t]
    BY <1>5 DEF none
  <1> HIDE DEF hit
  <1>10. hp' = [hp EXCEPT ![t] = hit.hp] /\ bank' = [bank EXCEPT ![t] = hit.bank] /\ UNCHANGED standing
    BY <1>4 DEF Strike
  <1>11. hp' \in [Side -> 0 .. MaxHp] /\ hp'[t] = hit.hp /\ \A s \in Side \ {t} : hp'[s] = hp[s]
    <2>1. hit.hp \in 0 .. MaxHp
      BY <1>1, <1>7, SideFacts DEF Sound
    <2> QED
      BY <1>1, <1>10, <2>1 DEF TypeOK
  <1>12. \A s \in Side \ {t} : hp'[s] >= hp[s]
    BY <1>11, SideFacts
  <1>13. /\ last'.op = "Attack" /\ last'.target = t /\ last'.events = hit.events
         /\ last'.amount = n /\ last'.kind = kind
    BY <1>4, StepFacts
  <1>14. UNCHANGED blocks \/ TakesBlock(t, hit)
    BY <1>3, <1>4, <1>9, <1>13 DEF TakesBlock
  <1>15. StruckBy(t, hit)
    BY <1>1, <1>7, <1>8, <1>10, <1>11, <1>12, <1>13, <1>14 DEF StruckBy
  <1> QED
    BY <1>15

\* Pink damage.
LEMMA PinkStrikes ==
  ASSUME TypeOK, NEW t \in Side, NEW n \in Amount, NEW kind, NEW actor,
         deal_pink_damage(t, n, kind, actor)
  PROVE  \E hit : StruckBy(t, hit)
  <1> DEFINE hit == deal_damage(t, n, kind, actor)
  <1>1. n \in Nat
    BY StrikesAssumption
  <1>2. Strike(t, hit) /\ last' = Step("Pink", t, kind, n, hit.events) /\ UNCHANGED blocks
    BY DEF deal_pink_damage
  <1>3. Sound(t, hit)
    BY <1>1, DealFacts
  <1> HIDE DEF hit
  <1>4. hp' = [hp EXCEPT ![t] = hit.hp] /\ bank' = [bank EXCEPT ![t] = hit.bank] /\ UNCHANGED standing
    BY <1>2 DEF Strike
  <1>5. hp' \in [Side -> 0 .. MaxHp] /\ hp'[t] = hit.hp /\ \A s \in Side \ {t} : hp'[s] = hp[s]
    <2>1. hit.hp \in 0 .. MaxHp
      BY <1>3, SideFacts DEF Sound
    <2> QED
      BY <1>4, <2>1 DEF TypeOK
  <1>6. \A s \in Side \ {t} : hp'[s] >= hp[s]
    BY <1>5, SideFacts
  <1>7. last'.op = "Pink" /\ last'.target = t /\ last'.events = hit.events
    BY <1>2, StepFacts
  <1>8. StruckBy(t, hit)
    BY <1>2, <1>3, <1>4, <1>5, <1>6, <1>7 DEF StruckBy
  <1> QED
    BY <1>8

\* Drains: the other side recovers, unless that is blocked.
LEMMA DrainStrikes ==
  ASSUME TypeOK, NEW a \in Side, NEW t \in Side, NEW n \in Nat, NEW denominator,
         Drain(a, t, n, denominator)
  PROVE  \E hit : StruckBy(t, hit)
  <1> DEFINE hit == deal_damage(t, n, "FIXED", a)
  <1>1. /\ a # t
        /\ hp' = [hp EXCEPT ![t] = hit.hp, ![a] = Healed(a, n)]
        /\ bank' = [bank EXCEPT ![t] = hit.bank]
        /\ last' = Step("Drain", t, "FIXED", denominator, hit.events)
        /\ UNCHANGED <<blocks, standing>>
    BY DEF Drain
  <1>2. Sound(t, hit)
    BY DealFacts
  <1> HIDE DEF hit
  <1>3. /\ Healed(a, n) \in 0 .. MaxHp /\ Healed(a, n) >= hp[a]
        /\ standing[a].heal_block => Healed(a, n) = hp[a]
    BY HealedFacts
  <1>4. hit.hp \in 0 .. MaxHp
    BY <1>2, SideFacts DEF Sound
  <1>5. hp' \in [Side -> 0 .. MaxHp] /\ hp'[t] = hit.hp /\ hp'[a] = Healed(a, n)
    BY <1>1, <1>3, <1>4 DEF TypeOK
  <1>6. \A s \in Side \ {t} : s = a
    BY <1>1, SMT DEF Side
  <1>7. last'.op = "Drain" /\ last'.target = t /\ last'.events = hit.events
    BY <1>1, StepFacts
  <1>8. StruckBy(t, hit)
    BY <1>1, <1>2, <1>3, <1>5, <1>6, <1>7 DEF StruckBy
  <1> QED
    BY <1>8

\* A step that changes the hp of s only, and raises them only as it may.
LEMMA HpChangeIsQuiet ==
  ASSUME TypeOK, NEW s \in Side, NEW n \in 0 .. MaxHp, NEW op,
         op \notin {"Attack", "Pink", "Drain"}, hp' = [hp EXCEPT ![s] = n],
         last' = Quiet(op, s), UNCHANGED <<bank, blocks, standing>>,
         standing[s].heal_block /\ n > hp[s] => op = "Medicine"
  PROVE  StrikesNobody
  <1>1. hp' \in [Side -> 0 .. MaxHp] /\ \A q \in Side : hp'[q] = IF q = s THEN n ELSE hp[q]
    BY DEF TypeOK
  <1>2. last'.op = op /\ last'.events = {}
    BY StepFacts
  <1>3. \A q \in Side : ~(hp[q] > hp[q]) /\ bank[q] \in [Bank -> Contents] /\ blocks[q] \in Nat
    BY SideFacts
  <1>4. \A q \in Side : standing[q].heal_block /\ hp'[q] > hp[q] => last'.op = "Medicine"
    BY <1>1, <1>2, <1>3
  <1>5. bank' \in [Side -> [Bank -> Contents]]
    BY <1>3 DEF TypeOK
  <1>6. blocks' \in [Side -> 0 .. MaxBlocks] /\ \A q \in Side : blocks'[q] >= blocks[q]
    BY <1>3 DEF TypeOK
  <1>7. standing' \in [Side -> Standing]
    BY DEF TypeOK
  <1> QED
    BY <1>1, <1>2, <1>4, <1>5, <1>6, <1>7 DEF StrikesNobody

\* Recovery.
LEMMA HealIsQuiet ==
  ASSUME TypeOK, NEW s \in Side, NEW n \in Nat, heal_amount(s, n)
  PROVE  StrikesNobody
  <1>1. /\ hp' = [hp EXCEPT ![s] = Healed(s, n)] /\ last' = Quiet("Heal", s)
        /\ UNCHANGED <<bank, blocks, standing>>
    BY DEF heal_amount
  <1>2. Healed(s, n) \in 0 .. MaxHp /\ (standing[s].heal_block => Healed(s, n) = hp[s])
    BY HealedFacts
  <1>3. standing[s].heal_block => ~(Healed(s, n) > hp[s])
    BY <1>2, SideFacts
  <1> QED
    BY <1>1, <1>2, <1>3, HpChangeIsQuiet

\* What kills, cures and settles.
LEMMA OtherHpIsQuiet ==
  ASSUME TypeOK, NEW s \in Side,
         kill(s) \/ use_medicine(s) \/ \E n \in {1, 2} : SettleAbnormalDamage(s, n)
  PROVE  StrikesNobody
  <1>1. hp[s] \in Nat /\ hp[s] <= MaxHp /\ MaxHp \in Nat /\ Potion \in Nat
    BY SideFacts, StrikesAssumption
  <1>2. CASE kill(s)
    <2>1. 0 \in 0 .. MaxHp /\ ~(0 > hp[s])
      BY <1>1
    <2> QED
      BY <1>2, <2>1, HpChangeIsQuiet DEF kill
  <1>3. CASE use_medicine(s)
    <2>1. AtMostMax(hp[s] + Potion) \in 0 .. MaxHp
      BY <1>1 DEF AtMostMax
    <2>2. hp' = [hp EXCEPT ![s] = AtMostMax(hp[s] + Potion)]
      BY <1>3 DEF use_medicine
    <2> QED
      BY <1>3, <2>1, <2>2, HpChangeIsQuiet DEF use_medicine
  <1>4. CASE \E n \in {1, 2} : SettleAbnormalDamage(s, n)
    <2>1. PICK n \in {1, 2} : SettleAbnormalDamage(s, n)
      BY <1>4
    <2> DEFINE each == IF MaxHp \div 8 > 1 THEN MaxHp \div 8 ELSE 1
    <2>2. each \in Nat
      BY <1>1
    <2>3. /\ hp' = [hp EXCEPT ![s] = AtLeast0(hp[s] - n * each)]
          /\ last' = Quiet("Settle", s) /\ UNCHANGED <<bank, blocks, standing>>
      BY <2>1 DEF SettleAbnormalDamage
    <2> HIDE DEF each
    <2>4. n * each \in Nat
      BY <2>2
    <2>5. AtLeast0(hp[s] - n * each) \in 0 .. MaxHp /\ ~(AtLeast0(hp[s] - n * each) > hp[s])
      BY <1>1, <2>4 DEF AtLeast0
    <2> QED
      BY <2>3, <2>5, HpChangeIsQuiet
  <1> QED
    BY <1>2, <1>3, <1>4

\* What plugins and effects set.
LEMMA SetIsQuiet ==
  ASSUME TypeOK, NEW s \in Side,
         (\E b \in Bank : ChangeBank(s, b)) \/ GrantBlock(s) \/ ChangeStanding(s)
  PROVE  StrikesNobody
  <1>1. \A q \in Side : bank[q] \in [Bank -> Contents] /\ blocks[q] \in Nat /\ ~(hp[q] > hp[q])
    BY SideFacts
  <1>2. bank \in [Side -> [Bank -> Contents]]
    BY <1>1 DEF TypeOK
  <1>3. CASE \E b \in Bank : ChangeBank(s, b)
    <2>1. PICK b \in Bank : ChangeBank(s, b)
      BY <1>3
    <2>2. bank[s][b] \in Contents
      BY <1>2
    <2>3. \E slots \in Contents : bank' = [bank EXCEPT ![s][b] = slots]
      <3>1. CASE \E shield \in NewShield : bank' = [bank EXCEPT ![s][b] = Added(@, shield)]
        <4>1. PICK shield \in NewShield : bank' = [bank EXCEPT ![s][b] = Added(@, shield)]
          BY <3>1
        <4>2. Added(bank[s][b], shield) \in Contents
          BY <2>2, AddedFacts, StrikesAssumption
        <4> QED
          BY <4>1, <4>2
      <3>2. CASE \E shield \in NewShield :
                   bank' = [bank EXCEPT ![s][b] = Refreshed(@, shield.source, shield.quantity)]
        <4>1. PICK shield \in NewShield :
                bank' = [bank EXCEPT ![s][b] = Refreshed(@, shield.source, shield.quantity)]
          BY <3>2
        <4>2. shield.quantity \in Nat \ {0}
          BY ShieldFacts, StrikesAssumption
        <4>3. Refreshed(bank[s][b], shield.source, shield.quantity) \in Contents
          BY <2>2, <4>2, RefreshedFacts
        <4> QED
          BY <4>1, <4>3
      <3>3. CASE bank' = [bank EXCEPT ![s][b] = Ticked(@)]
        <4>1. Ticked(bank[s][b]) \in Contents
          BY <2>2, TickedFacts
        <4> QED
          BY <3>3, <4>1
      <3>4. CASE bank' = [bank EXCEPT ![s][b] = <<>>]
        <4>1. <<>> \in Contents
          BY EmptySeq, StrikesAssumption DEF Contents
        <4> QED
          BY <3>4, <4>1
      <3> QED
        BY <2>1, <3>1, <3>2, <3>3, <3>4 DEF ChangeBank
    <2>4. bank' \in [Side -> [Bank -> Contents]]
      BY <1>2, <2>3
    <2>5. last'.op = "Bank" /\ last'.events = {} /\ UNCHANGED <<hp, blocks, standing>>
      BY <2>1, StepFacts DEF ChangeBank
    <2> QED
      BY <1>1, <2>4, <2>5 DEF StrikesNobody, TypeOK
  <1>4. CASE GrantBlock(s)
    <2>1. /\ blocks[s] < MaxBlocks /\ blocks' = [blocks EXCEPT ![s] = @ + 1]
          /\ UNCHANGED <<hp, bank, standing>>
      BY <1>4 DEF GrantBlock
    <2>2. last'.op = "Grant" /\ last'.events = {}
      BY <1>4, StepFacts DEF GrantBlock
    <2>3. blocks' \in [Side -> 0 .. MaxBlocks] /\ \A q \in Side : blocks'[q] >= blocks[q]
      BY <1>1, <2>1, StrikesAssumption DEF TypeOK
    <2> QED
      BY <1>1, <1>2, <2>1, <2>2, <2>3 DEF StrikesNobody, TypeOK
  <1>5. CASE ChangeStanding(s)
    <2>1. /\ \E new \in Standing : standing' = [standing EXCEPT ![s] = new]
          /\ UNCHANGED <<hp, bank, blocks>>
      BY <1>5 DEF ChangeStanding
    <2>2. last'.op = "Standing" /\ last'.events = {}
      BY <1>5, StepFacts DEF ChangeStanding
    <2>3. standing' \in [Side -> Standing]
      BY <2>1 DEF TypeOK
    <2> QED
      BY <1>1, <1>2, <2>1, <2>2, <2>3 DEF StrikesNobody, TypeOK
  <1> QED
    BY <1>3, <1>4, <1>5

\* Every step strikes one side or none.
LEMMA StepStrikesOrNot ==
  ASSUME TypeOK, Next
  PROVE  StrikesNobody \/ \E t \in Side : \E hit : StruckBy(t, hit)
  <1>1. ASSUME NEW a \in Side, NEW raw \in Amount, NEW kind \in AttackKind,
               NEW red \in BOOLEAN, Attack(a, raw, kind, red)
        PROVE  \E t \in Side : \E hit : StruckBy(t, hit)
    BY <1>1, AttackStrikes, OpponentFacts
  <1>2. ASSUME NEW t \in Side, NEW n \in Amount, NEW kind \in Pink, NEW actor \in Side \cup {Unknown},
               deal_pink_damage(t, n, kind, actor)
        PROVE  \E q \in Side : \E hit : StruckBy(q, hit)
    BY <1>2, PinkStrikes
  <1>3. ASSUME NEW a \in Side, NEW t \in Side, NEW n \in Amount, drain_hp_amount(a, t, n)
        PROVE  \E q \in Side : \E hit : StruckBy(q, hit)
    <2>1. n \in Nat
      BY StrikesAssumption
    <2> QED
      BY <1>3, <2>1, DrainStrikes DEF drain_hp_amount
  <1>4. ASSUME NEW a \in Side, NEW t \in Side, NEW d \in Denominator, drain_hp(a, t, d)
        PROVE  \E q \in Side : \E hit : StruckBy(q, hit)
    <2> DEFINE n == IF hp[t] \div d > 1 THEN hp[t] \div d ELSE 1
    <2>1. n \in Nat
      <3>1. hp[t] \in Nat /\ d \in Nat \ {0}
        BY SideFacts, StrikesAssumption
      <3>2. hp[t] \div d \in Int
        BY <3>1
      <3> QED
        BY <3>2
    <2>2. Drain(a, t, n, d)
      BY <1>4 DEF drain_hp
    <2> HIDE DEF n
    <2> QED
      BY <2>1, <2>2, DrainStrikes
  <1>5. ASSUME NEW s \in Side, NEW n \in Amount, heal_amount(s, n)
        PROVE  StrikesNobody
    <2>1. n \in Nat
      BY StrikesAssumption
    <2> QED
      BY <1>5, <2>1, HealIsQuiet
  <1>6. ASSUME NEW s \in Side, NEW d \in Denominator, heal(s, d)
        PROVE  StrikesNobody
    <2>1. MaxHp \div d \in Nat
      BY StrikesAssumption
    <2> QED
      BY <1>6, <2>1, HealIsQuiet DEF heal
  <1>7. ASSUME NEW s \in Side, kill(s) \/ use_medicine(s) \/ ChangeStanding(s)
        PROVE  StrikesNobody
    BY <1>7, OtherHpIsQuiet, SetIsQuiet
  <1>8. ASSUME NEW s \in Side, NEW n \in {1, 2}, SettleAbnormalDamage(s, n)
        PROVE  StrikesNobody
    BY <1>8, OtherHpIsQuiet
  <1>9. ASSUME NEW s \in Holder, GrantBlock(s) \/ \E b \in Bank : ChangeBank(s, b)
        PROVE  StrikesNobody
    BY <1>9, SetIsQuiet, StrikesAssumption
  <1> QED
    BY <1>1, <1>2, <1>3, <1>4, <1>5, <1>6, <1>7, <1>8, <1>9 DEF Next
-----------------------------------------------------------------------------
(* The theorems about Strikes.                                               *)

\* Banks that are slots have their type.
LEMMA SlotsAreBanks ==
  ASSUME NEW f \in [Side -> [Bank -> Contents]]
  PROVE  /\ f \in [Side -> [Bank -> Seq(Shield)]]
         /\ \A s \in Side, b \in Bank : Len(f[s][b]) <= MaxShields
  <1>1. Contents \subseteq Seq(Shield) /\ \A x \in Contents : Len(x) <= MaxShields
    BY DEF Contents
  <1>2. \A s \in Side, b \in Bank : f[s][b] \in Contents
    OBVIOUS
  <1>3. \A s \in Side : f[s] \in [Bank -> Seq(Shield)]
    BY <1>1
  <1> QED
    BY <1>1, <1>2, <1>3

\* Hp stay between 0 and the maximum, banks within their capacity and without
\* empty shields, and blocks within their bound.
THEOREM StrikesTyped == Spec => []TypeOK
  <1>1. Init => TypeOK
    <2> SUFFICES ASSUME Init PROVE TypeOK
      OBVIOUS
    <2>1. <<>> \in Contents
      BY EmptySeq, StrikesAssumption DEF Contents
    <2>2. bank \in [Side -> [Bank -> Contents]]
      BY <2>1 DEF Init
    <2>3. 0 \in 0 .. MaxBlocks /\ MaxHp \in 0 .. MaxHp
      BY StrikesAssumption
    <2> QED
      BY <2>2, <2>3, SlotsAreBanks DEF Init, TypeOK
  <1>2. TypeOK /\ [Next]_vars => TypeOK'
    <2> SUFFICES ASSUME TypeOK, [Next]_vars PROVE TypeOK'
      OBVIOUS
    <2>1. CASE UNCHANGED vars
      BY <2>1 DEF vars, TypeOK
    <2>2. CASE StrikesNobody
      BY <2>2, SlotsAreBanks DEF StrikesNobody, TypeOK
    <2>3. ASSUME NEW t \in Side, NEW hit, StruckBy(t, hit) PROVE TypeOK'
      <3>1. hit.bank \in [Bank -> Contents]
        BY <2>3 DEF StruckBy, Sound
      <3>2. bank \in [Side -> [Bank -> Contents]]
        BY SideFacts DEF TypeOK
      <3>3. bank' \in [Side -> [Bank -> Contents]]
        BY <2>3, <3>1, <3>2 DEF StruckBy
      <3>4. blocks' \in [Side -> 0 .. MaxBlocks]
        <4>1. CASE UNCHANGED blocks
          BY <4>1 DEF TypeOK
        <4>2. CASE TakesBlock(t, hit)
          <5>1. blocks[t] - 1 \in 0 .. MaxBlocks
            BY <4>2, SideFacts, StrikesAssumption DEF TakesBlock
          <5> QED
            BY <4>2, <5>1 DEF TakesBlock, TypeOK
        <4> QED
          BY <2>3, <4>1, <4>2 DEF StruckBy
      <3>5. hp' \in [Side -> 0 .. MaxHp] /\ standing' \in [Side -> Standing]
        BY <2>3 DEF StruckBy, TypeOK
      <3> QED
        BY <3>3, <3>4, <3>5, SlotsAreBanks DEF TypeOK
    <2> QED
      BY <2>1, <2>2, <2>3, StepStrikesOrNot
  <1> QED
    BY <1>1, <1>2, PTL DEF Spec

\* Attack, and what it is the target of: nothing of it is lost.
LEMMA StepLosesNothing ==
  ASSUME TypeOK, Next, last'.op = "Attack", NEW t, t = last'.target
  PROVE  LET arriving == Arriving(t, last'.amount, last'.kind)
             lost == hp[t] - hp'[t] + Gone(t, "shield") + Gone(t, "hood")
         IN /\ \A b \in Bank \ Answering(last'.kind) : Gone(t, b) = 0
            /\ hp[t] > 0 => (lost = arriving \/ (hp'[t] = 0 /\ lost < arriving))
  <1>1. PICK q, hit : q \in Side /\ StruckBy(q, hit)
    BY StepStrikesOrNot DEF StrikesNobody
  <1>2. /\ t = q /\ hp'[t] = hit.hp /\ bank' = [bank EXCEPT ![t] = hit.bank]
        /\ Accounted(t, last'.amount, last'.kind, Opponent(t), hit)
        /\ hit.bank \in [Bank -> Contents]
    BY <1>1 DEF StruckBy, Sound
  <1>3. bank'[t] = hit.bank
    BY <1>1, <1>2 DEF TypeOK
  <1>4. \A b \in Bank : Gone(t, b) = Total(bank[t][b]) - Total(hit.bank[b])
    BY <1>3 DEF Gone
  <1>5. \A b \in Bank : Total(bank[t][b]) \in Nat
    <2>1. \A b \in Bank : bank[t][b] \in Seq(Shield)
      BY <1>1, <1>2 DEF TypeOK
    <2> QED
      BY <2>1, TotalIsNat
  <1>6. \A b \in Bank \ Answering(last'.kind) : Gone(t, b) = 0
    BY <1>2, <1>4, <1>5 DEF Accounted
  <1>7. hp[t] - hp'[t] + Gone(t, "shield") + Gone(t, "hood") = LostTo(t, hit)
    BY <1>2, <1>4 DEF LostTo, Bank
  <1> QED
    BY <1>2, <1>6, <1>7 DEF Accounted

\* A bank that is struck loses its shields of the highest priority first.
LEMMA StepKeepsOrder ==
  ASSUME TypeOK, Next, Struck, NEW s \in Side, NEW b \in Bank,
         NEW x \in Range(bank[s][b]), NEW y \in Range(bank'[s][b]) \cap Range(bank[s][b]),
         x \notin Range(bank'[s][b])
  PROVE  y.priority <= x.priority
  <1>1. PICK t, hit : t \in Side /\ StruckBy(t, hit)
    BY StepStrikesOrNot DEF StrikesNobody, Struck
  <1>2. bank' = [bank EXCEPT ![t] = hit.bank]
    BY <1>1 DEF StruckBy
  <1>3. s = t /\ bank'[t] = hit.bank
    BY <1>1, <1>2 DEF TypeOK
  <1>4. \A v \in Range(bank[t][b]) \ Range(hit.bank[b]) :
          \A w \in Range(hit.bank[b]) : Below(w, v)
    BY <1>1 DEF StruckBy, Sound
  <1>5. Below(y, x)
    BY <1>3, <1>4
  <1> QED
    BY <1>5 DEF Below

\* An attack reaches hp past the last shield or hood only.
LEMMA StepEmptiesBanksFirst ==
  ASSUME TypeOK, Next, NEW t \in Side, last'.op = "Attack", last'.target = t, hp'[t] < hp[t],
         NEW b \in Answering(last'.kind)
  PROVE  \/ bank'[t][b] = <<>> \/ standing[Opponent(t)].ignore_shield
         \/ ResistedWhole(t, last'.amount, last'.kind)
  <1>1. PICK q, hit : q \in Side /\ StruckBy(q, hit)
    BY StepStrikesOrNot DEF StrikesNobody
  <1>2. /\ t = q /\ hp'[t] = hit.hp /\ bank' = [bank EXCEPT ![t] = hit.bank]
        /\ Accounted(t, last'.amount, last'.kind, Opponent(t), hit)
    BY <1>1 DEF StruckBy
  <1>3. bank'[t] = hit.bank
    BY <1>2 DEF TypeOK
  <1> QED
    BY <1>2, <1>3 DEF Accounted

\* The loss of a side is told, and no other.
LEMMA StepTellsLoss ==
  ASSUME TypeOK, Next, NEW s \in Side
  PROVE  {e.amount : e \in {x \in last'.events : x.type = "TAKE_DAMAGE" /\ x.target = s}}
           = IF Struck /\ hp'[s] < hp[s] THEN {hp[s] - hp'[s]} ELSE {}
  <1>1. CASE StrikesNobody
    BY <1>1 DEF StrikesNobody, Struck
  <1>2. ASSUME NEW t \in Side, NEW hit, StruckBy(t, hit)
        PROVE  {e.amount : e \in {x \in last'.events : x.type = "TAKE_DAMAGE" /\ x.target = s}}
                 = IF Struck /\ hp'[s] < hp[s] THEN {hp[s] - hp'[s]} ELSE {}
    <2>1. /\ Struck /\ last'.events = hit.events /\ hp'[t] = hit.hp
          /\ Told(hit.events, t, hp[t] - hit.hp) /\ hit.hp \in 0 .. hp[t]
          /\ s # t => hp'[s] >= hp[s]
      BY <1>2 DEF StruckBy, Sound, Struck
    <2>2. hp[s] \in Nat /\ hp[t] \in Nat
      BY SideFacts
    <2>3. CASE s = t
      <3>1. hp[t] - hit.hp > 0 <=> hp'[s] < hp[s]
        BY <2>1, <2>2, <2>3
      <3> QED
        BY <2>1, <2>3, <3>1 DEF Told
    <2>4. CASE s # t
      <3>1. hp'[s] \in Nat
        BY <1>2 DEF StruckBy
      <3>2. ~(hp'[s] < hp[s])
        BY <2>1, <2>2, <2>4, <3>1
      <3>3. {x \in last'.events : x.type = "TAKE_DAMAGE" /\ x.target = s} = {}
        BY <2>1, <2>4 DEF Told
      <3> QED
        BY <3>2, <3>3
    <2> QED
      BY <2>3, <2>4
  <1> QED
    BY <1>1, <1>2, StepStrikesOrNot

\* Nothing but a medicine raises hp while recovery is blocked.
LEMMA StepKeepsBlock ==
  ASSUME TypeOK, Next, NEW s \in Side, standing[s].heal_block, hp'[s] > hp[s]
  PROVE  last'.op = "Medicine"
  <1>1. CASE StrikesNobody
    BY <1>1 DEF StrikesNobody
  <1>2. ASSUME NEW t \in Side, NEW hit, StruckBy(t, hit) PROVE FALSE
    <2>1. hp[s] \in Nat
      BY SideFacts
    <2>2. CASE s = t
      <3>1. hp'[s] \in 0 .. hp[s]
        BY <1>2, <2>2 DEF StruckBy, Sound
      <3> QED
        BY <2>1, <3>1
    <2>3. CASE s # t
      <3>1. hp'[s] = hp[s]
        BY <1>2, <2>3 DEF StruckBy
      <3> QED
        BY <2>1, <3>1
    <2> QED
      BY <2>2, <2>3
  <1> QED
    BY <1>1, <1>2, StepStrikesOrNot

\* A block is spent on an attack that takes nothing and would have taken something.
LEMMA StepSpendsBlock ==
  ASSUME TypeOK, Next, NEW s \in Side, blocks'[s] < blocks[s]
  PROVE  /\ last'.op = "Attack" /\ last'.target = s /\ last'.amount = 0
         /\ hp'[s] = hp[s] /\ bank'[s] = bank[s]
         /\ standing[s].reduce_pct < 100 \/ Suppressed(s, "MITIGATE")
  <1>0. blocks[s] \in Nat /\ ~(blocks[s] < blocks[s])
    BY SideFacts
  <1>1. ~StrikesNobody
    <2>1. SUFFICES ASSUME StrikesNobody PROVE FALSE
      OBVIOUS
    <2>2. blocks'[s] \in Nat /\ blocks'[s] >= blocks[s]
      BY <2>1, StrikesAssumption DEF StrikesNobody
    <2> QED
      BY <1>0, <2>2
  <1>2. PICK t, hit : t \in Side /\ StruckBy(t, hit)
    BY <1>1, StepStrikesOrNot
  <1>3. TakesBlock(t, hit)
    BY <1>0, <1>2 DEF StruckBy
  <1>4. s = t
    BY <1>0, <1>3 DEF TakesBlock, TypeOK
  <1>5. hp'[s] = hp[s] /\ bank'[s] = bank[s]
    BY <1>2, <1>3, <1>4 DEF StruckBy, TakesBlock, TypeOK
  <1> QED
    BY <1>2, <1>3, <1>4, <1>5 DEF StruckBy, TakesBlock

\* An attack is accounted for: what the pipeline and resistance left is what banks
\* and hp lose, from the highest priority down, the banks to the last slot.
THEOREM AttacksAccounted == Spec => AttackIsAccounted
  <1>1. TypeOK /\ [Next]_vars =>
          [last'.op = "Attack" =>
             LET t == last'.target
                 arriving == Arriving(t, last'.amount, last'.kind)
                 lost == hp[t] - hp'[t] + Gone(t, "shield") + Gone(t, "hood")
             IN /\ \A b \in Bank \ Answering(last'.kind) : Gone(t, b) = 0
                /\ hp[t] > 0 => (lost = arriving \/ (hp'[t] = 0 /\ lost < arriving))]_vars
    BY StepLosesNothing
  <1>2. TypeOK /\ [Next]_vars =>
          [Struck => \A s \in Side, b \in Bank :
             LET untouched == Range(bank'[s][b]) \cap Range(bank[s][b])
             IN \A x \in Range(bank[s][b]) \ untouched : \A y \in untouched :
                  y.priority <= x.priority]_vars
    BY StepKeepsOrder
  <1>3. TypeOK /\ [Next]_vars =>
          [\A t \in Side :
             last'.op = "Attack" /\ last'.target = t /\ hp'[t] < hp[t] =>
               \A b \in Answering(last'.kind) :
                 \/ bank'[t][b] = <<>> \/ standing[Opponent(t)].ignore_shield
                 \/ ResistedWhole(t, last'.amount, last'.kind)]_vars
    BY StepEmptiesBanksFirst
  <1>4. Spec => NothingIsLost
    BY <1>1, StrikesTyped, PTL DEF Spec, NothingIsLost
  <1>5. Spec => HighestFirst
    BY <1>2, StrikesTyped, PTL DEF Spec, HighestFirst
  <1>6. Spec => BanksGoFirst
    BY <1>3, StrikesTyped, PTL DEF Spec, BanksGoFirst
  <1> QED
    BY <1>4, <1>5, <1>6 DEF AttackIsAccounted

\* Watchers are told every loss to a strike with its amount, and no other loss.
THEOREM LossAnnounced == Spec => LossIsAnnounced
  <1>1. TypeOK /\ [Next]_vars =>
          [\A s \in Side :
             {e.amount : e \in {x \in last'.events : x.type = "TAKE_DAMAGE" /\ x.target = s}}
               = IF Struck /\ hp'[s] < hp[s] THEN {hp[s] - hp'[s]} ELSE {}]_vars
    BY StepTellsLoss
  <1> QED
    BY <1>1, StrikesTyped, PTL DEF Spec, LossIsAnnounced

\* While recovery is blocked only a medicine raises hp.
THEOREM RecoveryBlocked == Spec => BlockedNeverRecovers
  <1>1. TypeOK /\ [Next]_vars =>
          [\A s \in Side :
             standing[s].heal_block /\ hp'[s] > hp[s] => last'.op = "Medicine"]_vars
    BY StepKeepsBlock
  <1> QED
    BY <1>1, StrikesTyped, PTL DEF Spec, BlockedNeverRecovers

\* Immunity is spent on an attack that would have arrived, and that takes nothing.
THEOREM BlocksSpentOnBlows == Spec => BlockSpentOnBlows
  <1>1. TypeOK /\ [Next]_vars =>
          [\A s \in Side : blocks'[s] < blocks[s] =>
             /\ last'.op = "Attack" /\ last'.target = s /\ last'.amount = 0
             /\ hp'[s] = hp[s] /\ bank'[s] = bank[s]
             /\ standing[s].reduce_pct < 100 \/ Suppressed(s, "MITIGATE")]_vars
    BY StepSpendsBlock
  <1> QED
    BY <1>1, StrikesTyped, PTL DEF Spec, BlockSpentOnBlows
=============================================================================
