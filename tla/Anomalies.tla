------------------------------ MODULE Anomalies ------------------------------
(***************************************************************************)
(* The abnormal states of the pets on stage and apply_anomaly, the one way *)
(* to give them: wards, resistance, conversion, the longer of two          *)
(* durations, and the bounce that sends a state back to who sent it, once. *)
(* A state is stored as the round in which it is over and belongs to a     *)
(* side, not to a pet: whoever leaves must leave it behind.                *)
(*                                                                         *)
(* Whether a ward holds is what the rule center answers at that point of   *)
(* the battle (RuleCenter); resistance is a throw.                         *)
(***************************************************************************)
EXTENDS Integers

CONSTANTS
  Slot, Lead,        \* elfPets of a side and the one it begins with
  Status, Control,   \* AbnormalStatusId, and those that keep a pet from acting
  AbnormalImmunity,  \* 21, what a resistance that works leaves behind
  Conversions,       \* pairs of a state and what effects turn it into
  Duration,          \* rounds an effect asks for; below 1 the length is thrown
  MaxRound           \* bound on roundCount

Side == {0, 1}
Nobody == -1 \* the sender of a state no effect answers for
Ward == {"NONE", "EFFECT", "SOUL"}
ApplyAnomalyResult == {"SUCCESS", "DURATION_EXTENDED", "CONVERTED", "TARGET_IMMUNE",
                       "TARGET_DEFEATED", "REFLECTED", "RESISTED_BY_RESISTANCE"}

ASSUME AnomaliesAssumption ==
  /\ Slot \subseteq Nat /\ Lead \in Slot
  /\ Control \subseteq Status /\ AbnormalImmunity \in Status
  /\ Conversions \subseteq Status \X Status
  /\ Duration \subseteq Int /\ MaxRound \in Nat

VARIABLES
  roundCount, on_stage, fallen, \* fallen: the slots of a side without hp
  abnormal_status_end_round,    \* by side and state, the first round without it
  anomaly_conversion,           \* by side, what a state becomes that comes in
  afflicted, converting,        \* the pets for which either was written (for checking)
  last                          \* what the last step answered, told and spent (for checking)

statusVars == <<abnormal_status_end_round, afflicted>>
conversionVars == <<anomaly_conversion, converting>>
battleVars == <<roundCount, on_stage, fallen>>
vars == <<battleVars, statusVars, conversionVars, last>>
\* What a run tells states apart by.
view == <<battleVars, statusVars, conversionVars>>

Alive(s) == on_stage[s] \notin fallen[s]
has_active_abnormal_status(s, a) == roundCount < abnormal_status_end_round[s][a]
has_blocking_control_status(s) == \E a \in Control : has_active_abnormal_status(s, a)

random_anomaly_duration == 2
Rounds(d) == IF d <= 0 THEN random_anomaly_duration ELSE d

\* resolve_anomaly_conversion: one hop, and a itself where no conversion is set.
Resolved(s, a) == anomaly_conversion[s][a]

\* set_abnormal_status_end_round, of the pet on stage.
set_end_round(s, a, end) ==
  /\ abnormal_status_end_round' = [abnormal_status_end_round EXCEPT ![s][a] = end]
  /\ afflicted' = [afflicted EXCEPT ![s] = @ \cup {on_stage[s]}]

\* emit_anomaly_events.
Events(s, a, actor) ==
  {<<"EVENT_ANOMALY_APPLIED", actor, s>>}
    \cup (IF a \in Control THEN {<<"EVENT_CONTROLLED", actor, s>>} ELSE {})

Answer(s, ward, result, told, spent) ==
  last' = [target |-> s, ward |-> ward, result |-> result, told |-> told, spent |-> spent]

----------------------------------------------------------------------------
(* apply_anomaly.                                                          *)

\* Mutant: the state that comes last stands.
LastStands(s, a, d) == TRUE

\* The state is new, or the one that stands ends before it.
Longer(s, a, d) ==
  \/ ~has_active_abnormal_status(s, a)
  \/ Rounds(d) > abnormal_status_end_round[s][a] - roundCount

\* Mutant: a state that is made longer is announced to nobody.
ExtendsSilently(s, a, d, actor) ==
  IF ~has_active_abnormal_status(s, Resolved(s, a)) THEN Events(s, Resolved(s, a), actor) ELSE {}

Told(s, a, d, actor) ==
  IF Longer(s, Resolved(s, a), d) THEN Events(s, Resolved(s, a), actor) ELSE {}

\* Nothing stops a from reaching the pet of s.
Take(s, a, d) ==
  IF Longer(s, Resolved(s, a), d)
    THEN set_end_round(s, Resolved(s, a), roundCount + Rounds(d)) ELSE UNCHANGED statusVars

Result(s, a, d) ==
  CASE Resolved(s, a) # a -> "CONVERTED"
    [] Resolved(s, a) = a /\ has_active_abnormal_status(s, a) /\ Longer(s, a, d) -> "DURATION_EXTENDED"
    [] OTHER -> "SUCCESS"

Defeated(s) ==
  /\ ~Alive(s)
  /\ Answer(s, "NONE", "TARGET_DEFEATED", {}, {})
  /\ UNCHANGED statusVars

\* A ward holds and nothing sends the state back.
Stopped(s, ward) ==
  /\ Alive(s) /\ ward # "NONE"
  /\ Answer(s, ward, "TARGET_IMMUNE", {}, {<<s, ward>>})
  /\ UNCHANGED statusVars

\* Mutant: the ward of the sender is spent on what comes back to it.
BounceSpends(actor, s, a, d, ward) ==
  /\ Alive(s) /\ ward # "NONE" /\ actor \notin {Nobody, s}
  /\ \/ /\ Answer(s, ward, "REFLECTED", {}, {<<s, ward>>, <<actor, "EFFECT">>})
        /\ UNCHANGED statusVars
     \/ /\ Alive(actor)
        /\ Answer(s, ward, "REFLECTED", Told(actor, a, d, s), {<<s, ward>>})
        /\ Take(actor, a, d)

\* A ward holds and sends the state back: a living sender takes it, unless a ward
\* of its own holds, which is not spent.  There is no throw of its resistance.
Bounced(actor, s, a, d, ward) ==
  /\ Alive(s) /\ ward # "NONE" /\ actor \notin {Nobody, s}
  /\ \/ /\ Answer(s, ward, "REFLECTED", {}, {<<s, ward>>})
        /\ UNCHANGED statusVars
     \/ /\ Alive(actor)
        /\ Answer(s, ward, "REFLECTED", Told(actor, a, d, s), {<<s, ward>>})
        /\ Take(actor, a, d)

\* Resistance works, after the wards of effects and before those of souls.  The
\* immunity it leaves is set whatever stands, and may be converted itself.
Resisted(actor, s, ward) ==
  LET r == Resolved(s, AbnormalImmunity) IN
  /\ Alive(s) /\ ward # "EFFECT"
  /\ set_end_round(s, r, roundCount + 2)
  /\ Answer(s, ward, "RESISTED_BY_RESISTANCE", Events(s, r, actor), {})

Applied(actor, s, a, d, ward) ==
  /\ Alive(s) /\ ward = "NONE"
  /\ Take(s, a, d)
  /\ Answer(s, ward, Result(s, a, d), Told(s, a, d, actor), {})

\* A state a for d rounds is sent to s; what stops it need not look at them.
apply_anomaly(actor, s) ==
  /\ \/ Defeated(s)
     \/ \E ward \in Ward :
          \/ Stopped(s, ward)
          \/ Resisted(actor, s, ward)
          \/ \E a \in Status, d \in Duration :
               Bounced(actor, s, a, d, ward) \/ Applied(actor, s, a, d, ward)
  /\ UNCHANGED <<battleVars, conversionVars>>

----------------------------------------------------------------------------
(* What else the states depend on.                                         *)

Quiet(s, what) == Answer(s, "NONE", what, {}, {})

\* An effect sets what a becomes when it reaches the pet on stage.
SetConversion(s, a, b) ==
  /\ anomaly_conversion' = [anomaly_conversion EXCEPT ![s][a] = b]
  /\ converting' = [converting EXCEPT ![s] = @ \cup {on_stage[s]}]
  /\ Quiet(s, "SET")
  /\ UNCHANGED <<battleVars, statusVars>>

None == [a \in Status |-> 0]
Itself == [a \in Status |-> a]

\* Mutant: the states stay on stage.
SwitchKeepsStatuses(s, slot) ==
  /\ slot # on_stage[s]
  /\ on_stage' = [on_stage EXCEPT ![s] = slot]
  /\ anomaly_conversion' = [anomaly_conversion EXCEPT ![s] = Itself]
  /\ converting' = [converting EXCEPT ![s] = {}]
  /\ Quiet(s, "SWITCHED")
  /\ UNCHANGED <<roundCount, fallen, statusVars>>

\* A switch or a replacement of the dead.
perform_switch(s, slot) ==
  /\ slot # on_stage[s]
  /\ on_stage' = [on_stage EXCEPT ![s] = slot]
  /\ abnormal_status_end_round' = [abnormal_status_end_round EXCEPT ![s] = None]
  /\ afflicted' = [afflicted EXCEPT ![s] = {}]
  /\ anomaly_conversion' = [anomaly_conversion EXCEPT ![s] = Itself]
  /\ converting' = [converting EXCEPT ![s] = {}]
  /\ Quiet(s, "SWITCHED")
  /\ UNCHANGED <<roundCount, fallen>>

\* A medicine that takes all states away; the dead take none.
use_medicine(s) ==
  /\ Alive(s)
  /\ abnormal_status_end_round' = [abnormal_status_end_round EXCEPT ![s] = None]
  /\ afflicted' = [afflicted EXCEPT ![s] = {}]
  /\ Quiet(s, "CURED")
  /\ UNCHANGED <<battleVars, conversionVars>>

\* The pet on stage loses its last hp.
Falls(s) ==
  /\ Alive(s)
  /\ fallen' = [fallen EXCEPT ![s] = @ \cup {on_stage[s]}]
  /\ Quiet(s, "FALLEN")
  /\ UNCHANGED <<roundCount, on_stage, statusVars, conversionVars>>

\* Nothing is swept: a state that is over keeps its end.
advanceRound ==
  /\ roundCount < MaxRound
  /\ roundCount' = roundCount + 1
  /\ Quiet(0, "ADVANCED")
  /\ UNCHANGED <<on_stage, fallen, statusVars, conversionVars>>

Init ==
  /\ roundCount = 0
  /\ on_stage = [s \in Side |-> Lead]
  /\ fallen = [s \in Side |-> {}]
  /\ abnormal_status_end_round = [s \in Side |-> None]
  /\ anomaly_conversion = [s \in Side |-> Itself]
  /\ afflicted = [s \in Side |-> {}]
  /\ converting = [s \in Side |-> {}]
  /\ last = [target |-> 0, ward |-> "NONE", result |-> "SET", told |-> {}, spent |-> {}]

Next ==
  \/ \E s \in Side :
       \/ \E actor \in Side \cup {Nobody} : apply_anomaly(actor, s)
       \/ \E c \in Conversions : SetConversion(s, c[1], c[2])
       \/ \E slot \in Slot : perform_switch(s, slot)
       \/ use_medicine(s)
       \/ Falls(s)
  \/ advanceRound

Spec == Init /\ [][Next]_vars

----------------------------------------------------------------------------
\* The types of the variables.
TypeOK ==
  /\ roundCount \in 0 .. MaxRound
  /\ on_stage \in [Side -> Slot]
  /\ fallen \in [Side -> SUBSET Slot]
  /\ abnormal_status_end_round \in [Side -> [Status -> Nat]]
  /\ anomaly_conversion \in [Side -> [Status -> Status]]
  /\ afflicted \in [Side -> SUBSET Slot]
  /\ converting \in [Side -> SUBSET Slot]

\* What keeps a pet from acting, or turns what comes in, was given to that pet and
\* not to one that has left.
AfflictionsAreOwn ==
  \A s \in Side : /\ has_blocking_control_status(s) => afflicted[s] = {on_stage[s]}
                  /\ anomaly_conversion[s] # Itself => converting[s] = {on_stage[s]}

\* While a pet stays, a state that works on it is cut short by a medicine or by the
\* immunity its own resistance sets, and by no other effect that sends it again.
LongerStands ==
  [][\A s \in Side, a \in Status :
       /\ on_stage'[s] = on_stage[s] /\ has_active_abnormal_status(s, a)
       /\ abnormal_status_end_round'[s][a] < abnormal_status_end_round[s][a]
       => /\ last'.target = s
          /\ \/ last'.result = "CURED"
             \/ last'.result = "RESISTED_BY_RESISTANCE" /\ a = Resolved(s, AbnormalImmunity)]_vars

\* A ward of an effect stops all that comes, and is asked before resistance is
\* thrown; only resistance may write past the ward of a soul.
WardsHold ==
  [][LET s == last'.target IN
     /\ last'.ward = "EFFECT" => abnormal_status_end_round'[s] = abnormal_status_end_round[s]
     /\ last'.ward = "SOUL" /\ last'.result # "RESISTED_BY_RESISTANCE" =>
          abnormal_status_end_round'[s] = abnormal_status_end_round[s]]_vars

\* However many wards and reflections meet, one state sent changes the states of one
\* side at most, and spends at most the ward of its target that stopped it.
BouncesCostNothing ==
  [][last'.result \in ApplyAnomalyResult =>
       /\ last'.spent \subseteq {<<last'.target, last'.ward>>}
       /\ \E s \in Side : \A o \in Side \ {s} :
            abnormal_status_end_round'[o] = abnormal_status_end_round[o]]_vars

\* Whoever watches for states and for control hears of every state that begins or
\* grows longer, of the right side; a watcher is told of a change that is none only
\* when resistance renews the immunity.
ToldOfChanges ==
  [][\A s \in Side :
       LET grown == {a \in Status : abnormal_status_end_round'[s][a] > abnormal_status_end_round[s][a]}
           heard(type) == \E e \in last'.told : e[1] = type /\ e[3] = s
       IN /\ grown # {} => heard("EVENT_ANOMALY_APPLIED")
          /\ grown \cap Control # {} => heard("EVENT_CONTROLLED")
          /\ heard("EVENT_ANOMALY_APPLIED") =>
               grown # {} \/ last'.result = "RESISTED_BY_RESISTANCE"]_vars

\* The branch an effect takes on the answer fits the target: a state said to be
\* given or made longer works on it, a converted one is there as what it became, and
\* one that was stopped, sent back or too late has left no trace.
ResultIsTrue ==
  [][LET s == last'.target
         active(a) == roundCount' < abnormal_status_end_round'[s][a]
     IN /\ last'.result \in {"SUCCESS", "DURATION_EXTENDED"} => \E a \in Status : active(a)
        /\ last'.result = "CONVERTED" =>
             \E a, b \in Status : a # b /\ Resolved(s, a) = b /\ active(b)
        /\ last'.result \in {"TARGET_IMMUNE", "TARGET_DEFEATED", "REFLECTED"} =>
             abnormal_status_end_round'[s] = abnormal_status_end_round[s]]_vars

\* No state reaches a pet that is dead, sent or sent back.
DeadStayClean ==
  [][\A s \in Side, a \in Status :
       ~Alive(s) => abnormal_status_end_round'[s][a] <= abnormal_status_end_round[s][a]]_vars

\* A state that is sent ends as its answer says, whatever wards, reflections and
\* conversions it meets on the way.
AnswersAreTrue == WardsHold /\ ResultIsTrue /\ BouncesCostNothing
=============================================================================
