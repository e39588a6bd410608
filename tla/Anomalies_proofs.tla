-------------------------- MODULE Anomalies_proofs --------------------------
(***************************************************************************)
(* Types of the abnormal states, whose they are, that the longer one       *)
(* stands and that the dead take none, for any states, durations, teams    *)
(* and conversions.                                                        *)
(***************************************************************************)
EXTENDS Anomalies, TLAPS

\* The lengths effects ask for are counts of rounds.
LEMMA RoundsAreNat == \A d \in Duration : Rounds(d) \in Nat
BY AnomaliesAssumption DEF Rounds, random_anomaly_duration

\* What a write leaves: one entry changed, of the pet on stage.
LEMMA SetFacts ==
  ASSUME TypeOK, NEW s \in Side, NEW a \in Status, NEW end \in Nat, set_end_round(s, a, end)
  PROVE  /\ abnormal_status_end_round' \in [Side -> [Status -> Nat]]
         /\ afflicted' \in [Side -> SUBSET Slot]
         /\ abnormal_status_end_round'[s][a] = end
         /\ \A q \in Side, b \in Status :
              q # s \/ b # a => abnormal_status_end_round'[q][b] = abnormal_status_end_round[q][b]
         /\ afflicted'[s] = afflicted[s] \cup {on_stage[s]}
         /\ \A q \in Side : q # s => afflicted'[q] = afflicted[q]
BY DEF TypeOK, set_end_round

\* A state that is taken replaces one that is over or ends before it.
LEMMA TakeFacts ==
  ASSUME TypeOK, NEW s \in Side, NEW a \in Status, NEW d \in Duration, Take(s, a, d)
  PROVE  /\ \/ UNCHANGED statusVars
            \/ \E b \in Status, end \in Nat : set_end_round(s, b, end)
         /\ \A q \in Side, b \in Status :
              \/ abnormal_status_end_round'[q][b] >= abnormal_status_end_round[q][b]
              \/ ~has_active_abnormal_status(q, b)
         /\ \A q \in Side, b \in Status :
              q # s => abnormal_status_end_round'[q][b] = abnormal_status_end_round[q][b]
<1> DEFINE r == Resolved(s, a)
           end == roundCount + Rounds(d)
<1>1. r \in Status /\ end \in Nat /\ Rounds(d) \in Nat /\ roundCount \in Nat
  BY RoundsAreNat DEF TypeOK, Resolved
<1>2. \A q \in Side, b \in Status : abnormal_status_end_round[q][b] \in Nat
  BY DEF TypeOK
<1>3. CASE Longer(s, r, d)
  <2>1. set_end_round(s, r, end)
    BY <1>3 DEF Take
  <2>2. ~has_active_abnormal_status(s, r) \/ end >= abnormal_status_end_round[s][r]
    <3>1. CASE ~has_active_abnormal_status(s, r)
      BY <3>1
    <3>2. CASE Rounds(d) > abnormal_status_end_round[s][r] - roundCount
      BY <1>1, <1>2, <3>2
    <3> QED BY <1>3, <3>1, <3>2 DEF Longer
  <2> HIDE DEF r, end
  <2>3. /\ abnormal_status_end_round'[s][r] = end
        /\ \A q \in Side, b \in Status :
             q # s \/ b # r => abnormal_status_end_round'[q][b] = abnormal_status_end_round[q][b]
    BY <1>1, <2>1, SetFacts
  <2> QED BY <1>1, <1>2, <2>1, <2>2, <2>3
<1>4. CASE ~Longer(s, r, d)
  BY <1>2, <1>4 DEF Take, statusVars
<1> QED BY <1>3, <1>4

----------------------------------------------------------------------------
(* One application of a state.                                             *)

\* What every application does: at most one side is written, it lives, nothing
\* that works is cut short but by the immunity of a resistance.
OneWrite ==
  /\ \/ UNCHANGED statusVars
     \/ \E q \in Side, b \in Status, end \in Nat : Alive(q) /\ set_end_round(q, b, end)
  /\ \A q \in Side, b \in Status :
       \/ abnormal_status_end_round'[q][b] >= abnormal_status_end_round[q][b]
       \/ ~has_active_abnormal_status(q, b)
       \/ /\ last'.target = q /\ last'.result = "RESISTED_BY_RESISTANCE"
          /\ b = Resolved(q, AbnormalImmunity)

\* Each branch of apply_anomaly is one write at most.
LEMMA ApplicationWrites ==
  ASSUME TypeOK, NEW s \in Side, NEW actor \in Side \cup {Nobody}, apply_anomaly(actor, s)
  PROVE  OneWrite
<1>1. \A q \in Side, b \in Status : abnormal_status_end_round[q][b] \in Nat
  BY DEF TypeOK
<1>2. CASE UNCHANGED statusVars
  BY <1>1, <1>2 DEF OneWrite, statusVars
<1>3. ASSUME NEW q \in Side, NEW a \in Status, NEW d \in Duration, Alive(q), Take(q, a, d)
      PROVE  OneWrite
  BY <1>3, TakeFacts DEF OneWrite
<1>4. ASSUME NEW ward \in Ward, Resisted(actor, s, ward)
      PROVE  OneWrite
  <2> DEFINE r == Resolved(s, AbnormalImmunity)
  <2>1. r \in Status /\ roundCount + 2 \in Nat
    BY AnomaliesAssumption DEF TypeOK, Resolved
  <2>2. set_end_round(s, r, roundCount + 2) /\ Alive(s)
    BY <1>4 DEF Resisted
  <2>3. last'.target = s /\ last'.result = "RESISTED_BY_RESISTANCE"
    BY <1>4 DEF Resisted, Answer
  <2> HIDE DEF r
  <2>4. \A q \in Side, b \in Status :
          q # s \/ b # r => abnormal_status_end_round'[q][b] = abnormal_status_end_round[q][b]
    BY <2>1, <2>2, SetFacts
  <2>5. \A q \in Side, b \in Status :
          \/ abnormal_status_end_round'[q][b] >= abnormal_status_end_round[q][b]
          \/ q = s /\ b = r
    BY <1>1, <2>4
  <2> QED BY <2>1, <2>2, <2>3, <2>5 DEF OneWrite, r
<1>5. CASE Defeated(s)
  BY <1>2, <1>5 DEF Defeated
<1>6. ASSUME NEW ward \in Ward, Stopped(s, ward) PROVE OneWrite
  BY <1>2, <1>6 DEF Stopped
<1>7. ASSUME NEW ward \in Ward, NEW a \in Status, NEW d \in Duration,
             Bounced(actor, s, a, d, ward)
      PROVE  OneWrite
  <2>1. actor \in Side
    BY <1>7 DEF Bounced
  <2>2. UNCHANGED statusVars \/ (Alive(actor) /\ Take(actor, a, d))
    BY <1>7 DEF Bounced
  <2> QED BY <1>2, <1>3, <2>1, <2>2
<1>8. ASSUME NEW ward \in Ward, NEW a \in Status, NEW d \in Duration,
             Applied(actor, s, a, d, ward)
      PROVE  OneWrite
  BY <1>3, <1>8 DEF Applied
<1> QED BY <1>4, <1>5, <1>6, <1>7, <1>8 DEF apply_anomaly

----------------------------------------------------------------------------
(* Types.                                                                  *)

\* The types hold at the start.
LEMMA InitTypes == Init => TypeOK
BY AnomaliesAssumption DEF Init, TypeOK, None, Itself

\* Every step keeps the types.
LEMMA NextTypes ==
  ASSUME TypeOK, [Next]_vars
  PROVE  TypeOK'
<1> USE DEF TypeOK
<1>1. ASSUME NEW s \in Side, NEW actor \in Side \cup {Nobody}, apply_anomaly(actor, s)
      PROVE  TypeOK'
  <2>1. UNCHANGED <<battleVars, conversionVars>>
    BY <1>1 DEF apply_anomaly
  <2>2. CASE UNCHANGED statusVars
    BY <2>1, <2>2 DEF battleVars, conversionVars, statusVars
  <2>3. CASE \E q \in Side, b \in Status, end \in Nat : set_end_round(q, b, end)
    <3>1. /\ abnormal_status_end_round' \in [Side -> [Status -> Nat]]
          /\ afflicted' \in [Side -> SUBSET Slot]
      BY <2>3, SetFacts
    <3> QED BY <2>1, <3>1 DEF battleVars, conversionVars
  <2> QED BY <1>1, <2>2, <2>3, ApplicationWrites DEF OneWrite
<1>2. ASSUME NEW s \in Side, NEW c \in Conversions, SetConversion(s, c[1], c[2])
      PROVE  TypeOK'
  <2>1. c[1] \in Status /\ c[2] \in Status
    BY AnomaliesAssumption
  <2> QED BY <1>2, <2>1 DEF SetConversion, battleVars, statusVars
<1>3. ASSUME NEW s \in Side, NEW slot \in Slot, perform_switch(s, slot)
      PROVE  TypeOK'
  BY <1>3 DEF perform_switch, None, Itself
<1>4. ASSUME NEW s \in Side, use_medicine(s)
      PROVE  TypeOK'
  BY <1>4 DEF use_medicine, None, battleVars, conversionVars
<1>5. ASSUME NEW s \in Side, Falls(s)
      PROVE  TypeOK'
  BY <1>5 DEF Falls, statusVars, conversionVars
<1>6. CASE advanceRound
  BY <1>6, AnomaliesAssumption DEF advanceRound, statusVars, conversionVars
<1>7. CASE UNCHANGED vars
  BY <1>7 DEF vars, battleVars, statusVars, conversionVars
<1> QED BY <1>1, <1>2, <1>3, <1>4, <1>5, <1>6, <1>7 DEF Next

\* Rounds stay in bounds, ends are rounds and conversions lead to states, for any
\* states, durations and teams.
THEOREM TypeCorrect == Spec => []TypeOK
<1>1. Init => TypeOK
  BY InitTypes
<1>2. TypeOK /\ [Next]_vars => TypeOK'
  BY NextTypes
<1> QED BY <1>1, <1>2, PTL DEF Spec

----------------------------------------------------------------------------
(* Whose the states are.                                                   *)

\* Entries and conversions were written for the pet on stage, and for nobody when
\* there are none.
Own ==
  \A s \in Side :
    /\ afflicted[s] \subseteq {on_stage[s]} /\ converting[s] \subseteq {on_stage[s]}
    /\ (\E a \in Status : abnormal_status_end_round[s][a] # 0) => afflicted[s] = {on_stage[s]}
    /\ anomaly_conversion[s] # Itself => converting[s] = {on_stage[s]}

\* Every step keeps states and conversions with the pet they were written for.
LEMMA NextOwn ==
  ASSUME TypeOK, Own, [Next]_vars
  PROVE  Own'
<1>1. ASSUME NEW s \in Side, NEW actor \in Side \cup {Nobody}, apply_anomaly(actor, s)
      PROVE  Own'
  <2>1. UNCHANGED <<battleVars, conversionVars>>
    BY <1>1 DEF apply_anomaly
  <2>2. CASE UNCHANGED statusVars
    BY <2>1, <2>2 DEF Own, battleVars, conversionVars, statusVars, Itself
  <2>3. ASSUME NEW q \in Side, NEW b \in Status, NEW end \in Nat, set_end_round(q, b, end)
        PROVE  Own'
    <3>1. /\ \A p \in Side, c \in Status : p # q =>
               abnormal_status_end_round'[p][c] = abnormal_status_end_round[p][c]
          /\ afflicted'[q] = afflicted[q] \cup {on_stage[q]}
          /\ \A p \in Side : p # q => afflicted'[p] = afflicted[p]
      BY <2>3, SetFacts
    <3>2. on_stage' = on_stage /\ converting' = converting
          /\ anomaly_conversion' = anomaly_conversion
      BY <2>1 DEF battleVars, conversionVars
    <3>3. ASSUME NEW p \in Side
          PROVE  /\ afflicted'[p] \subseteq {on_stage'[p]}
                 /\ (\E a \in Status : abnormal_status_end_round'[p][a] # 0)
                      => afflicted'[p] = {on_stage'[p]}
      BY <3>1, <3>2 DEF Own
    <3>4. ASSUME NEW p \in Side
          PROVE  /\ converting'[p] \subseteq {on_stage'[p]}
                 /\ anomaly_conversion'[p] # Itself => converting'[p] = {on_stage'[p]}
      BY <3>2 DEF Own
    <3> QED BY <3>3, <3>4 DEF Own, Itself
  <2> QED BY <1>1, <2>2, <2>3, ApplicationWrites DEF OneWrite
<1>2. ASSUME NEW s \in Side, NEW c \in Conversions, SetConversion(s, c[1], c[2])
      PROVE  Own'
  BY <1>2 DEF SetConversion, battleVars, statusVars, Own, TypeOK, Itself
<1>3. ASSUME NEW s \in Side, NEW slot \in Slot, perform_switch(s, slot)
      PROVE  Own'
  BY <1>3 DEF perform_switch, statusVars, Own, TypeOK, None, Itself
<1>4. ASSUME NEW s \in Side, use_medicine(s)
      PROVE  Own'
  BY <1>4 DEF use_medicine, None, battleVars, conversionVars, Own, TypeOK, Itself
<1>5. ASSUME NEW s \in Side, Falls(s)
      PROVE  Own'
  BY <1>5 DEF Falls, statusVars, conversionVars, Own, Itself
<1>6. CASE advanceRound
  BY <1>6 DEF advanceRound, statusVars, conversionVars, Own, Itself
<1>7. CASE UNCHANGED vars
  BY <1>7 DEF vars, battleVars, statusVars, conversionVars, Own, Itself
<1> QED BY <1>1, <1>2, <1>3, <1>4, <1>5, <1>6, <1>7 DEF Next

\* What controls a pet, or turns what comes in, was given to that pet and to none
\* that has left.
THEOREM AfflictionsOwn == Spec => []AfflictionsAreOwn
<1>1. Init => Own
  BY DEF Init, Own, None, Itself
<1>2. TypeOK /\ Own /\ [Next]_vars => Own'
  BY NextOwn
<1>3. TypeOK /\ Own => AfflictionsAreOwn
  <2> SUFFICES ASSUME TypeOK, Own, NEW s \in Side, NEW a \in Control,
                      has_active_abnormal_status(s, a)
               PROVE  afflicted[s] = {on_stage[s]}
    BY DEF AfflictionsAreOwn, Own, has_blocking_control_status
  <2>1. a \in Status /\ roundCount \in Nat
    BY AnomaliesAssumption DEF TypeOK
  <2>2. abnormal_status_end_round[s][a] \in Nat
    BY <2>1 DEF TypeOK
  <2>3. abnormal_status_end_round[s][a] # 0
    BY <2>1, <2>2 DEF has_active_abnormal_status
  <2> QED BY <2>1, <2>3 DEF Own
<1> QED BY <1>1, <1>2, <1>3, TypeCorrect, PTL DEF Spec

----------------------------------------------------------------------------
(* How states grow and end.                                                *)

\* A step changes states by one application, by wiping a side, or not at all.
LEMMA StepsOfStates ==
  ASSUME TypeOK, [Next]_vars
  PROVE  \/ OneWrite
         \/ \E s \in Side : /\ abnormal_status_end_round'
                                 = [abnormal_status_end_round EXCEPT ![s] = None]
                            /\ \/ on_stage'[s] # on_stage[s]
                               \/ last'.target = s /\ last'.result = "CURED"
<1>1. ASSUME NEW s \in Side, NEW actor \in Side \cup {Nobody}, apply_anomaly(actor, s)
      PROVE  OneWrite
  BY <1>1, ApplicationWrites
<1>2. ASSUME abnormal_status_end_round' = abnormal_status_end_round, afflicted' = afflicted
      PROVE  OneWrite
  BY <1>2 DEF OneWrite, statusVars, TypeOK
<1>3. ASSUME NEW s \in Side, NEW slot \in Slot, perform_switch(s, slot)
      PROVE  /\ abnormal_status_end_round' = [abnormal_status_end_round EXCEPT ![s] = None]
             /\ on_stage'[s] # on_stage[s]
  BY <1>3 DEF perform_switch, TypeOK
<1>4. ASSUME NEW s \in Side, use_medicine(s)
      PROVE  /\ abnormal_status_end_round' = [abnormal_status_end_round EXCEPT ![s] = None]
             /\ last'.target = s /\ last'.result = "CURED"
  BY <1>4 DEF use_medicine, Quiet, Answer
<1>5. ASSUME NEW s \in Side, NEW a, NEW b, SetConversion(s, a, b) \/ Falls(s)
      PROVE  OneWrite
  BY <1>2, <1>5 DEF SetConversion, Falls, statusVars
<1>6. CASE advanceRound \/ UNCHANGED vars
  BY <1>2, <1>6 DEF advanceRound, vars, statusVars
<1> QED BY <1>1, <1>3, <1>4, <1>5, <1>6 DEF Next

\* While a pet stays, a state that works on it is cut short by a medicine or by the
\* immunity its own resistance sets, and by nothing that is sent again.
THEOREM LongerStanding == Spec => LongerStands
<1> DEFINE Stands ==
      \A s \in Side, a \in Status :
        /\ on_stage'[s] = on_stage[s] /\ has_active_abnormal_status(s, a)
        /\ abnormal_status_end_round'[s][a] < abnormal_status_end_round[s][a]
        => /\ last'.target = s
           /\ \/ last'.result = "CURED"
              \/ last'.result = "RESISTED_BY_RESISTANCE" /\ a = Resolved(s, AbnormalImmunity)
<1>1. ASSUME TypeOK, TypeOK', [Next]_vars PROVE Stands
  <2> SUFFICES ASSUME NEW s \in Side, NEW a \in Status,
                      on_stage'[s] = on_stage[s], has_active_abnormal_status(s, a),
                      abnormal_status_end_round'[s][a] < abnormal_status_end_round[s][a]
               PROVE  /\ last'.target = s
                      /\ \/ last'.result = "CURED"
                         \/ /\ last'.result = "RESISTED_BY_RESISTANCE"
                            /\ a = Resolved(s, AbnormalImmunity)
    OBVIOUS
  <2>1. abnormal_status_end_round'[s][a] \in Nat /\ abnormal_status_end_round[s][a] \in Nat
    BY <1>1 DEF TypeOK
  <2>2. CASE OneWrite
    BY <2>1, <2>2 DEF OneWrite
  <2>3. ASSUME NEW q \in Side,
               abnormal_status_end_round' = [abnormal_status_end_round EXCEPT ![q] = None],
               on_stage'[q] # on_stage[q] \/ (last'.target = q /\ last'.result = "CURED")
        PROVE  last'.target = s /\ last'.result = "CURED"
    <3>1. abnormal_status_end_round'[s]
            = IF q = s THEN None ELSE abnormal_status_end_round[s]
      BY <1>1, <2>3 DEF TypeOK
    <3>2. q = s
      BY <2>1, <3>1
    <3> QED BY <2>3, <3>2
  <2> QED BY <1>1, <2>2, <2>3, StepsOfStates
<1> QED BY <1>1, TypeCorrect, PTL DEF Spec, LongerStands

\* No state reaches a pet that is dead, sent or sent back.
THEOREM DeadClean == Spec => DeadStayClean
<1> DEFINE Clean ==
      \A s \in Side, a \in Status :
        ~Alive(s) => abnormal_status_end_round'[s][a] <= abnormal_status_end_round[s][a]
<1>1. ASSUME TypeOK, [Next]_vars PROVE Clean
  <2> SUFFICES ASSUME NEW s \in Side, NEW a \in Status, ~Alive(s)
               PROVE  abnormal_status_end_round'[s][a] <= abnormal_status_end_round[s][a]
    OBVIOUS
  <2>1. abnormal_status_end_round[s][a] \in Nat
    BY <1>1 DEF TypeOK
  <2>2. CASE UNCHANGED statusVars
    BY <2>1, <2>2 DEF statusVars
  <2>3. ASSUME NEW q \in Side, NEW b \in Status, NEW end \in Nat, Alive(q), set_end_round(q, b, end)
        PROVE  abnormal_status_end_round'[s][a] = abnormal_status_end_round[s][a]
    BY <1>1, <2>3, SetFacts
  <2>4. ASSUME NEW q \in Side,
               abnormal_status_end_round' = [abnormal_status_end_round EXCEPT ![q] = None]
        PROVE  abnormal_status_end_round'[s][a] <= abnormal_status_end_round[s][a]
    <3>1. abnormal_status_end_round'[s][a] \in {0, abnormal_status_end_round[s][a]}
      BY <1>1, <2>4 DEF TypeOK, None
    <3> QED BY <2>1, <3>1
  <2> QED BY <1>1, <2>1, <2>2, <2>3, <2>4, StepsOfStates DEF OneWrite
<1> QED BY <1>1, TypeCorrect, PTL DEF Spec, DeadStayClean

----------------------------------------------------------------------------
(* What the answer to an application says.                                 *)

\* What is written is one entry of one living side, and after a state was taken
\* what it became works.
LEMMA TakeWorks ==
  ASSUME TypeOK, NEW s \in Side, NEW a \in Status, NEW d \in Duration, Take(s, a, d),
         roundCount' = roundCount
  PROVE  roundCount' < abnormal_status_end_round'[s][Resolved(s, a)]
<1> DEFINE r == Resolved(s, a)
           end == roundCount + Rounds(d)
<1>1. r \in Status /\ end \in Nat /\ roundCount \in Nat /\ roundCount < end
  BY AnomaliesAssumption DEF TypeOK, Resolved, Rounds, random_anomaly_duration
<1>2. CASE Longer(s, r, d)
  <2>1. set_end_round(s, r, end)
    BY <1>2 DEF Take
  <2> HIDE DEF r, end
  <2>2. abnormal_status_end_round'[s][r] = end
    BY <1>1, <2>1, SetFacts
  <2> QED BY <1>1, <2>2 DEF r
<1>3. CASE ~Longer(s, r, d)
  <2>1. abnormal_status_end_round' = abnormal_status_end_round
    BY <1>3 DEF Take, statusVars
  <2>2. has_active_abnormal_status(s, r)
    BY <1>3 DEF Longer
  <2> QED BY <2>1, <2>2 DEF has_active_abnormal_status
<1> QED BY <1>2, <1>3

\* How an application ends, by its answer.
Ends ==
  LET s == last'.target
      still == abnormal_status_end_round'[s] = abnormal_status_end_round[s]
      active(a) == roundCount' < abnormal_status_end_round'[s][a]
  IN /\ last'.ward = "EFFECT" => still
     /\ last'.ward = "SOUL" /\ last'.result # "RESISTED_BY_RESISTANCE" => still
     /\ last'.result \in {"TARGET_IMMUNE", "TARGET_DEFEATED", "REFLECTED"} => still
     /\ last'.result \in {"SUCCESS", "DURATION_EXTENDED"} => \E a \in Status : active(a)
     /\ last'.result = "CONVERTED" =>
          \E a, b \in Status : a # b /\ Resolved(s, a) = b /\ active(b)
     /\ last'.spent \subseteq {<<s, last'.ward>>}

\* Each branch of apply_anomaly answers as it ends.
LEMMA ApplicationEnds ==
  ASSUME TypeOK, NEW s \in Side, NEW actor \in Side \cup {Nobody}, apply_anomaly(actor, s)
  PROVE  Ends
<1>1. roundCount' = roundCount
  BY DEF apply_anomaly, battleVars
<1>2. CASE Defeated(s)
  BY <1>2 DEF Defeated, Answer, Ends, statusVars
<1>3. ASSUME NEW ward \in Ward, Stopped(s, ward) PROVE Ends
  BY <1>3 DEF Stopped, Answer, Ends, statusVars
<1>4. ASSUME NEW ward \in Ward, Resisted(actor, s, ward) PROVE Ends
  BY <1>4 DEF Resisted, Answer, Ends
<1>5. ASSUME NEW ward \in Ward, NEW a \in Status, NEW d \in Duration,
             Bounced(actor, s, a, d, ward)
      PROVE  Ends
  <2>1. /\ last'.target = s /\ last'.ward = ward /\ last'.result = "REFLECTED"
        /\ last'.spent = {<<s, ward>>}
    BY <1>5 DEF Bounced, Answer
  <2>2. abnormal_status_end_round'[s] = abnormal_status_end_round[s]
    <3>1. CASE UNCHANGED statusVars
      BY <3>1 DEF statusVars
    <3>2. CASE Take(actor, a, d)
      <4>1. actor \in Side /\ actor # s
        BY <1>5 DEF Bounced
      <4>2. CASE Longer(actor, Resolved(actor, a), d)
        BY <3>2, <4>1, <4>2 DEF Take, set_end_round, TypeOK
      <4>3. CASE ~Longer(actor, Resolved(actor, a), d)
        BY <3>2, <4>3 DEF Take, statusVars
      <4> QED BY <4>2, <4>3
    <3> QED BY <1>5, <3>1, <3>2 DEF Bounced
  <2> QED BY <2>1, <2>2 DEF Ends
<1>6. ASSUME NEW ward \in Ward, NEW a \in Status, NEW d \in Duration,
             Applied(actor, s, a, d, ward)
      PROVE  Ends
  <2>1. /\ last'.target = s /\ last'.ward = "NONE" /\ last'.result = Result(s, a, d)
        /\ last'.spent = {}
    BY <1>6 DEF Applied, Answer
  <2>2. Resolved(s, a) \in Status /\ roundCount' < abnormal_status_end_round'[s][Resolved(s, a)]
    BY <1>1, <1>6, TakeWorks DEF Applied, TypeOK, Resolved
  <2>3. \/ Result(s, a, d) = "CONVERTED" /\ Resolved(s, a) # a
        \/ Result(s, a, d) \in {"SUCCESS", "DURATION_EXTENDED"}
    BY DEF Result
  <2> QED BY <2>1, <2>2, <2>3 DEF Ends
<1> QED BY <1>2, <1>3, <1>4, <1>5, <1>6 DEF apply_anomaly

\* No other step gives an answer of an application.
LEMMA OtherAnswers ==
  ASSUME \/ \E s \in Side :
              \/ \E c \in Conversions : SetConversion(s, c[1], c[2])
              \/ \E slot \in Slot : perform_switch(s, slot)
              \/ use_medicine(s)
              \/ Falls(s)
         \/ advanceRound
  PROVE  /\ last'.ward = "NONE" /\ last'.told = {}
         /\ last'.result \in {"SET", "SWITCHED", "CURED", "FALLEN", "ADVANCED"}
BY DEF SetConversion, perform_switch, use_medicine, Falls, advanceRound, Quiet, Answer

\* One application writes the states of one side at most.
LEMMA OneSide ==
  ASSUME TypeOK, OneWrite
  PROVE  \E s \in Side : \A o \in Side \ {s} :
           abnormal_status_end_round'[o] = abnormal_status_end_round[o]
<1>1. CASE UNCHANGED statusVars
  BY <1>1 DEF statusVars, Side
<1>2. ASSUME NEW q \in Side, NEW b \in Status, NEW end \in Nat, set_end_round(q, b, end)
      PROVE  \A o \in Side \ {q} : abnormal_status_end_round'[o] = abnormal_status_end_round[o]
  BY <1>2 DEF set_end_round, TypeOK
<1> QED BY <1>1, <1>2 DEF OneWrite

\* A state that is sent ends as its answer says, spends at most the ward that
\* stopped it and touches one side at most, whatever wards, reflections and
\* conversions meet.
THEOREM AnswersTrue == Spec => AnswersAreTrue
<1>1. ASSUME TypeOK, [Next]_vars
      PROVE  \/ UNCHANGED vars
             \/ Ends /\ \E s \in Side : \A o \in Side \ {s} :
                  abnormal_status_end_round'[o] = abnormal_status_end_round[o]
             \/ /\ last'.ward = "NONE"
                /\ last'.result \in {"SET", "SWITCHED", "CURED", "FALLEN", "ADVANCED"}
  BY <1>1, ApplicationEnds, ApplicationWrites, OneSide, OtherAnswers DEF Next
<1>2. TypeOK /\ [Next]_vars =>
        [LET s == last'.target IN
         /\ last'.ward = "EFFECT" => abnormal_status_end_round'[s] = abnormal_status_end_round[s]
         /\ last'.ward = "SOUL" /\ last'.result # "RESISTED_BY_RESISTANCE" =>
              abnormal_status_end_round'[s] = abnormal_status_end_round[s]]_vars
  BY <1>1 DEF Ends
<1>3. TypeOK /\ [Next]_vars =>
        [LET s == last'.target
             active(a) == roundCount' < abnormal_status_end_round'[s][a]
         IN /\ last'.result \in {"SUCCESS", "DURATION_EXTENDED"} => \E a \in Status : active(a)
            /\ last'.result = "CONVERTED" =>
                 \E a, b \in Status : a # b /\ Resolved(s, a) = b /\ active(b)
            /\ last'.result \in {"TARGET_IMMUNE", "TARGET_DEFEATED", "REFLECTED"} =>
                 abnormal_status_end_round'[s] = abnormal_status_end_round[s]]_vars
  BY <1>1 DEF Ends
<1>4. TypeOK /\ [Next]_vars =>
        [last'.result \in ApplyAnomalyResult =>
           /\ last'.spent \subseteq {<<last'.target, last'.ward>>}
           /\ \E s \in Side : \A o \in Side \ {s} :
                abnormal_status_end_round'[o] = abnormal_status_end_round[o]]_vars
  BY <1>1 DEF Ends, ApplyAnomalyResult
<1> QED
  BY <1>2, <1>3, <1>4, TypeCorrect, PTL
     DEF Spec, AnswersAreTrue, WardsHold, ResultIsTrue, BouncesCostNothing

----------------------------------------------------------------------------
(* What the watchers hear.                                                 *)

Grown(s) == {a \in Status : abnormal_status_end_round'[s][a] > abnormal_status_end_round[s][a]}
Heard(type, s) == \E e \in last'.told : e[1] = type /\ e[3] = s

ToldTruly ==
  \A s \in Side :
    /\ Grown(s) # {} => Heard("EVENT_ANOMALY_APPLIED", s)
    /\ Grown(s) \cap Control # {} => Heard("EVENT_CONTROLLED", s)
    /\ Heard("EVENT_ANOMALY_APPLIED", s) =>
         Grown(s) # {} \/ last'.result = "RESISTED_BY_RESISTANCE"

\* The events of a state are heard of its side, control where it controls.
LEMMA EventsHeard ==
  ASSUME NEW q, NEW b, NEW actor, last'.told = Events(q, b, actor), NEW s
  PROVE  /\ Heard("EVENT_ANOMALY_APPLIED", s) <=> s = q
         /\ Heard("EVENT_CONTROLLED", s) <=> s = q /\ b \in Control
<1> DEFINE applied == <<"EVENT_ANOMALY_APPLIED", actor, q>>
           control == <<"EVENT_CONTROLLED", actor, q>>
<1>1. /\ applied[1] = "EVENT_ANOMALY_APPLIED" /\ applied[3] = q
      /\ control[1] = "EVENT_CONTROLLED" /\ control[3] = q
  OBVIOUS
<1>2. \A e : e \in last'.told <=> e = applied \/ (e = control /\ b \in Control)
  BY DEF Events
<1> HIDE DEF applied, control
<1>3. "EVENT_ANOMALY_APPLIED" # "EVENT_CONTROLLED"
  OBVIOUS
<1>4. Heard("EVENT_ANOMALY_APPLIED", s) <=> s = q
  BY <1>1, <1>2, <1>3, Zenon DEF Heard
<1>5. Heard("EVENT_CONTROLLED", s) <=> (s = q /\ b \in Control)
  BY <1>1, <1>2, <1>3, Zenon DEF Heard
<1> QED BY <1>4, <1>5

LEMMA NothingGrows ==
  ASSUME TypeOK, last'.told = {},
         \A s \in Side, a \in Status :
           abnormal_status_end_round'[s][a] \in {0, abnormal_status_end_round[s][a]}
  PROVE  ToldTruly
<1>1. \A s \in Side, a \in Status : abnormal_status_end_round[s][a] \in Nat
  BY DEF TypeOK
<1>2. \A s \in Side : Grown(s) = {}
  BY <1>1 DEF Grown
<1>3. \A s, type : ~Heard(type, s)
  BY DEF Heard
<1> QED BY <1>2, <1>3 DEF ToldTruly

\* A write of one entry, heard with the events of that entry.
LEMMA WriteIsHeard ==
  ASSUME TypeOK, NEW q \in Side, NEW b \in Status, NEW end \in Nat, NEW actor,
         set_end_round(q, b, end), last'.told = Events(q, b, actor),
         end > abnormal_status_end_round[q][b] \/ last'.result = "RESISTED_BY_RESISTANCE"
  PROVE  ToldTruly
<1>1. \A p \in Side, c \in Status : abnormal_status_end_round[p][c] \in Nat
  BY DEF TypeOK
<1>2. /\ abnormal_status_end_round'[q][b] = end
      /\ \A p \in Side, c \in Status :
           p # q \/ c # b => abnormal_status_end_round'[p][c] = abnormal_status_end_round[p][c]
  BY SetFacts
<1>3. \A s \in Side : Grown(s) \subseteq IF s = q THEN {b} ELSE {}
  BY <1>1, <1>2 DEF Grown
<1>4. end > abnormal_status_end_round[q][b] => Grown(q) # {}
  BY <1>2 DEF Grown
<1> QED BY <1>3, <1>4, EventsHeard DEF ToldTruly

\* A state that is taken is told of when it changes anything.
LEMMA TakeIsHeard ==
  ASSUME TypeOK, NEW q \in Side, NEW a \in Status, NEW d \in Duration, NEW actor,
         Take(q, a, d), last'.told = Told(q, a, d, actor)
  PROVE  ToldTruly
<1> DEFINE r == Resolved(q, a)
           end == roundCount + Rounds(d)
<1>1. r \in Status /\ end \in Nat /\ roundCount \in Nat /\ Rounds(d) \in Nat /\ Rounds(d) > 0
  BY AnomaliesAssumption DEF TypeOK, Resolved, Rounds, random_anomaly_duration
<1>2. abnormal_status_end_round[q][r] \in Nat
  BY <1>1 DEF TypeOK
<1>3. CASE Longer(q, r, d)
  <2>1. set_end_round(q, r, end) /\ last'.told = Events(q, r, actor)
    BY <1>3 DEF Take, Told
  <2>2. end > abnormal_status_end_round[q][r]
    <3>1. CASE ~has_active_abnormal_status(q, r)
      BY <1>1, <1>2, <3>1 DEF has_active_abnormal_status
    <3>2. CASE Rounds(d) > abnormal_status_end_round[q][r] - roundCount
      BY <1>1, <1>2, <3>2
    <3> QED BY <1>3, <3>1, <3>2 DEF Longer
  <2> HIDE DEF r, end
  <2> QED BY <1>1, <2>1, <2>2, WriteIsHeard
<1>4. CASE ~Longer(q, r, d)
  BY <1>4, NothingGrows DEF Take, Told, statusVars
<1> QED BY <1>3, <1>4

\* Each branch of apply_anomaly tells what it changes.
LEMMA ApplicationTells ==
  ASSUME TypeOK, NEW s \in Side, NEW actor \in Side \cup {Nobody}, apply_anomaly(actor, s)
  PROVE  ToldTruly
<1>1. CASE UNCHANGED statusVars /\ last'.told = {}
  BY <1>1, NothingGrows DEF statusVars
<1>2. ASSUME NEW ward \in Ward, Resisted(actor, s, ward) PROVE ToldTruly
  <2>1. Resolved(s, AbnormalImmunity) \in Status /\ roundCount + 2 \in Nat
    BY AnomaliesAssumption DEF TypeOK, Resolved
  <2>2. /\ set_end_round(s, Resolved(s, AbnormalImmunity), roundCount + 2)
        /\ last'.told = Events(s, Resolved(s, AbnormalImmunity), actor)
        /\ last'.result = "RESISTED_BY_RESISTANCE"
    BY <1>2 DEF Resisted, Answer
  <2> QED BY <2>1, <2>2, WriteIsHeard
<1>3. ASSUME NEW ward \in Ward, NEW a \in Status, NEW d \in Duration,
             Bounced(actor, s, a, d, ward)
      PROVE  ToldTruly
  <2>1. actor \in Side
    BY <1>3 DEF Bounced
  <2>2. \/ UNCHANGED statusVars /\ last'.told = {}
        \/ Take(actor, a, d) /\ last'.told = Told(actor, a, d, s)
    BY <1>3 DEF Bounced, Answer
  <2> QED BY <1>1, <2>1, <2>2, TakeIsHeard
<1>4. ASSUME NEW ward \in Ward, NEW a \in Status, NEW d \in Duration,
             Applied(actor, s, a, d, ward)
      PROVE  ToldTruly
  BY <1>4, TakeIsHeard DEF Applied, Answer
<1>5. ASSUME Defeated(s) \/ \E ward \in Ward : Stopped(s, ward)
      PROVE  ToldTruly
  BY <1>1, <1>5 DEF Defeated, Stopped, Answer
<1> QED BY <1>2, <1>3, <1>4, <1>5 DEF apply_anomaly

LEMMA OthersLoseOnly ==
  ASSUME TypeOK,
         \/ \E s \in Side :
              \/ \E c \in Conversions : SetConversion(s, c[1], c[2])
              \/ \E slot \in Slot : perform_switch(s, slot)
              \/ use_medicine(s)
              \/ Falls(s)
         \/ advanceRound
  PROVE  ToldTruly
<1>1. \/ abnormal_status_end_round' = abnormal_status_end_round
      \/ \E s \in Side :
           abnormal_status_end_round' = [abnormal_status_end_round EXCEPT ![s] = None]
  BY DEF SetConversion, perform_switch, use_medicine, Falls, advanceRound, statusVars
<1>2. \A s \in Side, a \in Status :
        abnormal_status_end_round'[s][a] \in {0, abnormal_status_end_round[s][a]}
  BY <1>1 DEF TypeOK, None
<1> QED BY <1>2, OtherAnswers, NothingGrows

\* Whoever watches for states and for control hears of every state that begins or
\* grows longer, of the right side, and of no change that is none but the immunity
\* a resistance renews.
THEOREM ChangesTold == Spec => ToldOfChanges
<1>1. TypeOK /\ [Next]_vars => ToldTruly \/ UNCHANGED vars
  BY ApplicationTells, OthersLoseOnly DEF Next
<1>2. TypeOK /\ [Next]_vars =>
        [\A s \in Side :
           LET grown == {a \in Status : abnormal_status_end_round'[s][a] > abnormal_status_end_round[s][a]}
               heard(type) == \E e \in last'.told : e[1] = type /\ e[3] = s
           IN /\ grown # {} => heard("EVENT_ANOMALY_APPLIED")
              /\ grown \cap Control # {} => heard("EVENT_CONTROLLED")
              /\ heard("EVENT_ANOMALY_APPLIED") =>
                   grown # {} \/ last'.result = "RESISTED_BY_RESISTANCE"]_vars
  BY <1>1 DEF ToldTruly, Grown, Heard
<1> QED BY <1>2, TypeCorrect, PTL DEF Spec, ToldOfChanges

=============================================================================
