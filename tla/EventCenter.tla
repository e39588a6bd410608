----------------------------- MODULE EventCenter -----------------------------
(***************************************************************************)
(* The event channel of a battle: primitives emit, the machine drains the  *)
(* queue after each handler, watchers are called one after the other.      *)
(*                                                                         *)
(* A drain takes the whole queue as a wave; what watchers emit meanwhile   *)
(* is the next wave.  The handler of a state and the function of a watcher *)
(* are the two places from where anything is emitted, registered or        *)
(* removed; what they do there is any sequence of these steps.             *)
(*                                                                         *)
(* Ids are handed out in increasing order and appended to the list of      *)
(* their type, and erasing keeps the order: a list of ids is the set of    *)
(* them, walked from the smallest.                                         *)
(***************************************************************************)
EXTENDS Integers, Sequences

CONSTANTS
  EventType,      \* the types events and watchers may have; "BREAK" is one
  Plugin,         \* the watchers plugins register: type, owner, life and scope
  Duration,       \* the windows of break compensations; 0 is for ever
  MaxWaves,       \* kMaxWaves, 8 in the code
  MaxWatchers,    \* bound: registrations in a battle
  MaxPending,     \* bound: events in the queue
  MaxRound,       \* bound: rounds
  MaxSwitches     \* bound: switches of a side

ASSUME TypeAssumption == "BREAK" \in EventType
ASSUME DurationAssumption == Duration \subseteq Nat
ASSUME PluginAssumption ==
  Plugin \subseteq [type : EventType, owner : {0, 1}, duration : Nat, once : BOOLEAN,
                    scope : {"ON_STAGE", "TEAM"}]
ASSUME BoundAssumption ==
  /\ MaxWaves \in Nat \ {0} /\ MaxWatchers \in Nat /\ MaxPending \in Nat
  /\ MaxRound \in Nat /\ MaxSwitches \in Nat

Side == {0, 1}
Scope == {"ON_STAGE", "TEAM"}
Id == 1 .. MaxWatchers
NoId == 0

VARIABLES
  watchers,          \* id -> watcher
  by_type,           \* type -> ids of that type
  pending,           \* pending_
  next_id,
  watcher_valid_id,  \* a version per side, new with every switch
  roundCount,
  wave,              \* rest of the wave; its head is being delivered
  waves,             \* waves taken by this drain
  ids,               \* rest of the copied list: who is still to be called
  running,           \* the watcher whose function runs
  pc,                \* "handler", "drain", "wave" or "call"
  \* History, read by the properties only:
  spent,             \* the watchers that fire once and were called
  present,           \* who was registered when delivery of the event began
  called             \* who was called for the event, in order

drainVars == <<wave, waves, ids, running, pc>>
historyVars == <<spent, present, called>>
battleVars == <<watcher_valid_id, roundCount>>
vars == <<watchers, by_type, pending, next_id, battleVars, drainVars, historyVars>>

\* depth is history: 1 for what a handler emits, one more than the event being
\* delivered for what a watcher emits.
Event == [type : EventType, target : Side, depth : 1 .. MaxWaves + 1]

\* own is the filter of register_break_callback: only the owner's break counts.
Watcher == [type : EventType, owner : Side, round : 0 .. MaxRound, duration : Nat,
            once : BOOLEAN, scope : Scope, valid : 0 .. MaxSwitches, own : BOOLEAN]

Registered == DOMAIN watchers

TypeOK ==
  /\ Registered \subseteq Id
  /\ watchers \in [Registered -> Watcher]
  /\ by_type \in [EventType -> SUBSET Id]
  /\ pending \in Seq(Event)
  /\ next_id \in 1 .. MaxWatchers + 1
  /\ watcher_valid_id \in [Side -> 0 .. MaxSwitches]
  /\ roundCount \in 0 .. MaxRound
  /\ wave \in Seq(Event)
  /\ waves \in 0 .. MaxWaves
  /\ ids \in SUBSET Id
  /\ running \in Id \cup {NoId}
  /\ pc \in {"handler", "drain", "wave", "call"}
  /\ spent \in SUBSET Id
  /\ present \in SUBSET Id
  /\ called \in Seq(Id)

Init ==
  /\ watchers = <<>> /\ by_type = [t \in EventType |-> {}]
  /\ pending = <<>> /\ next_id = 1
  /\ watcher_valid_id = [s \in Side |-> 0] /\ roundCount = 0
  /\ wave = <<>> /\ waves = 0 /\ ids = {} /\ running = NoId /\ pc = "handler"
  /\ spent = {} /\ present = {} /\ called = <<>>

Expired(w) == w.duration > 0 /\ roundCount - w.round >= w.duration
Stale(w) == w.scope = "ON_STAGE" /\ w.valid # watcher_valid_id[w.owner]

-----------------------------------------------------------------------------
\* What a handler or the function of a watcher may do.

Depth ==
  IF pc # "call" THEN 1
  ELSE IF Head(wave).depth > MaxWaves THEN MaxWaves + 1 ELSE Head(wave).depth + 1

\* The function of a watcher of the owner's breaks returns at once for others'.
Triggered(w, e) == w.own => e.target = w.owner

\* A function that was called may remove its own watcher and go on.
Acting == pc = "handler" \/ running # NoId

emit(t, target) ==
  /\ Acting /\ Len(pending) < MaxPending
  /\ pending' = Append(pending, [type |-> t, target |-> target, depth |-> Depth])
  /\ UNCHANGED <<watchers, by_type, next_id, battleVars, drainVars, historyVars>>

\* Mutant: deliver walks the list itself.
AddToWalkedList(w) ==
  /\ Acting /\ next_id \in Id
  /\ watchers' = [i \in Registered \cup {next_id} |->
                    IF i = next_id THEN w ELSE watchers[i]]
  /\ by_type' = [by_type EXCEPT ![w.type] = @ \cup {next_id}]
  /\ ids' = IF pc = "call" /\ Head(wave).type = w.type THEN ids \cup {next_id} ELSE ids
  /\ next_id' = next_id + 1
  /\ UNCHANGED <<pending, battleVars, wave, waves, running, pc, historyVars>>

AddWatcher(w) ==
  /\ Acting /\ next_id \in Id
  /\ watchers' = [i \in Registered \cup {next_id} |->
                    IF i = next_id THEN w ELSE watchers[i]]
  /\ by_type' = [by_type EXCEPT ![w.type] = @ \cup {next_id}]
  /\ next_id' = next_id + 1
  /\ UNCHANGED <<pending, battleVars, drainVars, historyVars>>

\* A plugin's watcher copies the version of its side.
register_watcher(p) ==
  AddWatcher([type |-> p.type, owner |-> p.owner, round |-> roundCount,
              duration |-> p.duration, once |-> p.once, scope |-> p.scope,
              valid |-> watcher_valid_id[p.owner], own |-> FALSE])

\* The compensation of a broken side.
register_break_callback(owner, duration) ==
  AddWatcher([type |-> "BREAK", owner |-> owner, round |-> roundCount,
              duration |-> duration, once |-> TRUE, scope |-> "ON_STAGE",
              valid |-> watcher_valid_id[owner], own |-> TRUE])

RemoveAll(gone) ==
  /\ watchers' = [i \in Registered \ gone |-> watchers[i]]
  /\ by_type' = [t \in EventType |-> by_type[t] \ gone]

\* Mutant: deliver goes by the place in the list, which moves up when one removes itself.
RemoveShiftsWalk(i) ==
  /\ Acting /\ i \in Registered
  /\ RemoveAll({i})
  /\ ids' = IF i # running THEN ids
            ELSE {j \in ids : \E k \in ids : k < j}
  /\ UNCHANGED <<pending, next_id, battleVars, wave, waves, running, pc, historyVars>>

\* remove_watcher, remove_break_callback.
remove_watcher(i) ==
  /\ Acting /\ i \in Registered
  /\ RemoveAll({i})
  /\ UNCHANGED <<pending, next_id, battleVars, drainVars, historyVars>>

\* invalidate_on_stage_effects, by perform_switch.
Switch(owner) ==
  /\ pc = "handler"
  /\ watcher_valid_id[owner] < MaxSwitches
  /\ watcher_valid_id' = [watcher_valid_id EXCEPT ![owner] = @ + 1]
  /\ UNCHANGED <<watchers, by_type, pending, next_id, roundCount, drainVars,
                 historyVars>>

\* cleanup, in the reduction of rounds.
cleanup ==
  /\ pc = "handler"
  /\ LET gone == {i \in Registered : Expired(watchers[i]) \/ Stale(watchers[i])}
     IN  gone # {} /\ RemoveAll(gone)
  /\ UNCHANGED <<pending, next_id, battleVars, drainVars, historyVars>>

advanceRound ==
  /\ pc = "handler"
  /\ roundCount < MaxRound
  /\ roundCount' = roundCount + 1
  /\ UNCHANGED <<watchers, by_type, pending, next_id, watcher_valid_id, drainVars,
                 historyVars>>

-----------------------------------------------------------------------------
\* drain and deliver, called by the machine after the handler.

\* The handler has returned; runInternal calls drain without the versions.
StartDrain ==
  /\ pc = "handler" /\ pending # <<>>
  /\ pc' = "drain"
  /\ UNCHANGED <<watchers, by_type, pending, next_id, battleVars, wave, waves, ids,
                 running, historyVars>>

\* Mutant: there is no limit on waves.
TakeWaveUncounted ==
  /\ pc = "drain" /\ pending # <<>>
  /\ wave' = pending /\ pending' = <<>>
  /\ pc' = "wave"
  /\ UNCHANGED <<watchers, by_type, next_id, battleVars, waves, ids, running, historyVars>>

TakeWave ==
  /\ pc = "drain" /\ pending # <<>> /\ waves < MaxWaves
  /\ waves' = waves + 1
  /\ wave' = pending /\ pending' = <<>>
  /\ pc' = "wave"
  /\ UNCHANGED <<watchers, by_type, next_id, battleVars, ids, running, historyVars>>

\* The list of ids is copied: watchers come and go while it is walked.
DeliverEvent ==
  /\ pc = "wave" /\ wave # <<>>
  /\ ids' = by_type[Head(wave).type]
  /\ present' = Registered /\ called' = <<>>
  /\ pc' = "call"
  /\ UNCHANGED <<watchers, by_type, pending, next_id, battleVars, wave, waves, running,
                 spent>>

\* The watcher may be gone or past its window; ids name watchers, not places.
\* Without the versions a watcher that a switch made void is called like any other.
Skipped(i) == i \in Registered => Expired(watchers[i])

NextId(i) == i \in ids /\ \A j \in ids : i <= j

SkipWatcher ==
  /\ pc = "call" /\ running = NoId
  /\ \E i \in Id : NextId(i) /\ Skipped(i) /\ ids' = ids \ {i}
  /\ UNCHANGED <<watchers, by_type, pending, next_id, battleVars, wave, waves, running,
                 pc, historyVars>>

\* once is erased after the function returns, whether it triggered or not.
Finish(i, w) ==
  IF w.once THEN RemoveAll({i}) ELSE UNCHANGED <<watchers, by_type>>

CallWatcher ==
  /\ pc = "call" /\ running = NoId
  /\ \E i \in Id :
       /\ NextId(i) /\ ~Skipped(i)
       /\ spent' = IF watchers[i].once THEN spent \cup {i} ELSE spent
       /\ called' = Append(called, i)
       /\ IF Triggered(watchers[i], Head(wave))
            THEN running' = i /\ UNCHANGED <<watchers, by_type>>
            ELSE Finish(i, watchers[i]) /\ UNCHANGED running
       /\ ids' = ids \ {i}
  /\ UNCHANGED <<pending, next_id, battleVars, wave, waves, pc, present>>

\* remove_watcher of an id that removed itself does nothing.
Return ==
  /\ running # NoId
  /\ IF running \in Registered THEN Finish(running, watchers[running])
                               ELSE UNCHANGED <<watchers, by_type>>
  /\ running' = NoId
  /\ UNCHANGED <<pending, next_id, battleVars, wave, waves, ids, pc, historyVars>>

NextEvent ==
  /\ pc = "call" /\ running = NoId /\ ids = {}
  /\ wave' = Tail(wave)
  /\ pc' = "wave"
  /\ present' = {} /\ called' = <<>>
  /\ UNCHANGED <<watchers, by_type, pending, next_id, battleVars, waves, ids, running,
                 spent>>

EndWave ==
  /\ pc = "wave" /\ wave = <<>>
  /\ pc' = "drain"
  /\ UNCHANGED <<watchers, by_type, pending, next_id, battleVars, wave, waves, ids,
                 running, historyVars>>

\* Mutant: the limit is reached a wave early.
EndDrainEarly ==
  /\ pc = "drain"
  /\ pending = <<>> \/ waves + 1 >= MaxWaves
  /\ pending' = <<>>
  /\ pc' = "handler" /\ waves' = 0
  /\ UNCHANGED <<watchers, by_type, next_id, battleVars, wave, ids, running,
                 historyVars>>

\* What is left after the last wave is reported and discarded.
EndDrain ==
  /\ pc = "drain"
  /\ pending = <<>> \/ waves >= MaxWaves
  /\ pending' = <<>>
  /\ pc' = "handler" /\ waves' = 0
  /\ UNCHANGED <<watchers, by_type, next_id, battleVars, wave, ids, running,
                 historyVars>>

Act ==
  \/ \E t \in EventType, s \in Side : emit(t, s)
  \/ \E p \in Plugin : register_watcher(p)
  \/ \E s \in Side, d \in Duration : register_break_callback(s, d)
  \/ \E i \in Id : remove_watcher(i)

Handler == (\E s \in Side : Switch(s)) \/ cleanup \/ advanceRound

Drain == TakeWave \/ DeliverEvent \/ SkipWatcher \/ CallWatcher \/ Return
         \/ NextEvent \/ EndWave \/ EndDrain

Next == Act \/ Handler \/ StartDrain \/ Drain

\* A drain goes on, and the functions of watchers return.
Spec == Init /\ [][Next]_vars /\ WF_vars(Drain)

-----------------------------------------------------------------------------
\* What a watcher may rely on.

\* Both maps tell the same: a list holds the registered watchers of its type and
\* nothing else, so has_watchers and watch_count tell the truth.
\* (register_watcher, remove_watcher and cleanup each change both.)
IndexAgrees ==
  \A t \in EventType : by_type[t] = {i \in Registered : watchers[i].type = t}

\* What a watcher emits is delivered in the next wave, never in its own: the depth
\* of an event is the wave it is in.  (drain moves the queue out before it walks it.)
WaveIsDepth ==
  pc # "handler" =>
    /\ \A i \in DOMAIN wave : wave[i].depth = waves
    /\ \A i \in DOMAIN pending : pending[i].depth = waves + 1

\* An event calls a watcher at most once, none registered after its delivery began,
\* and the earlier registered first, whatever watchers come and go meanwhile.
\* (deliver's copy of the list.)
CalledAtMostOnce ==
  pc = "call" =>
    /\ \A i \in DOMAIN called : called[i] \in present
    /\ \A i, j \in DOMAIN called : i < j => called[i] < called[j]

\* A watcher that fires once is called once in its life, even if it emits the very
\* event it waits for.  (deliver erases it after the call, before the next wave.)
OnceIsOnce ==
  [][\A i \in Id : called' = Append(called, i) => i \notin spent]_vars

\* When an event is done with, every watcher of its type that was there when its
\* delivery began and still is, within its window and not void by a switch of its
\* side (event_center.h:83), has been called: one that removes itself or others
\* makes nobody miss the event.  (deliver.)
NobodyMissed ==
  [][pc = "call" /\ pc' = "wave" =>
       \A i \in present \cap Registered :
         watchers[i].type = Head(wave).type /\ ~Expired(watchers[i]) /\ ~Stale(watchers[i])
           => \E k \in DOMAIN called : called[k] = i]_vars

\* Who registers is served: nobody who stays and counts is left out, and who asked
\* for one call gets no second one.
CallsAsRegistered == NobodyMissed /\ OnceIsOnce

\* Events are discarded only at the end of a chain of MaxWaves watchers that each
\* emitted the next.  (drain's limit on waves.)
OnlyLoopsAreCut ==
  [][pc = "drain" /\ pc' = "handler" =>
       \A i \in DOMAIN pending : pending[i].depth > MaxWaves]_vars

\* A drain ends, although watchers may emit without end.  (kMaxWaves.)
DrainEnds == []<>(pc = "handler")
=============================================================================
