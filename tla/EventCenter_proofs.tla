-------------------------- MODULE EventCenter_proofs --------------------------
(***************************************************************************)
(* What the event channel promises, for any watchers, types, windows and   *)
(* bounds: every invariant of the runs and every action property but       *)
(* liveness, from one inductive invariant.  Of liveness, the part that is  *)
(* safety: a drain goes down and never gets stuck.                         *)
(***************************************************************************)
EXTENDS EventCenter, FiniteSetTheorems, WellFoundedInduction, TLAPS

USE TypeAssumption, DurationAssumption, PluginAssumption, BoundAssumption

\* Ids are given once: whoever is or was known has an id below the next one, and a
\* watcher that fires once is gone once its call is over.
IdsAreFresh ==
  /\ \A i \in Registered \cup present \cup spent : i < next_id
  /\ \A i \in Registered \cap spent : i = running /\ watchers[i].once

\* Where a drain is: what it holds outside the places where it uses it.
Places ==
  /\ pc = "handler" => waves = 0 /\ \A i \in DOMAIN pending : pending[i].depth = 1
  /\ pc = "call" => wave # <<>>
  /\ pc \in {"handler", "drain"} => wave = <<>>
  /\ pc \in {"handler", "drain", "wave"} =>
       ids = {} /\ running = NoId /\ present = {} /\ called = <<>>

\* The walk of a list: it goes upwards through those who were there, and leaves out
\* only who is gone or past the window.
WalkGoesUp ==
  pc = "call" =>
    /\ ids \subseteq present
    /\ \A k \in DOMAIN called, i \in ids : called[k] < i
    /\ \A i \in present \cap Registered :
         watchers[i].type = Head(wave).type =>
           i \in ids \/ Expired(watchers[i]) \/ \E k \in DOMAIN called : called[k] = i

IInv == TypeOK /\ IndexAgrees /\ WaveIsDepth /\ CalledAtMostOnce
        /\ IdsAreFresh /\ Places /\ WalkGoesUp

-----------------------------------------------------------------------------
\* The invariant holds before anything is registered.
LEMMA InitHolds == Init => IInv
  <1> SUFFICES ASSUME Init PROVE IInv
    OBVIOUS
  <1>1. TypeOK
    BY DEF Init, TypeOK, Registered, Side
  <1>2. IndexAgrees /\ WaveIsDepth /\ CalledAtMostOnce /\ IdsAreFresh /\ Places /\ WalkGoesUp
    BY DEF Init, IndexAgrees, WaveIsDepth, CalledAtMostOnce, IdsAreFresh, Places, WalkGoesUp,
           Registered, NoId
  <1> QED
    BY <1>1, <1>2 DEF IInv

\* What an event emitted now is like, and that a queue with it is as deep as before.
LEMMA EmitKeeps ==
  ASSUME IInv, NEW t \in EventType, NEW s \in Side, emit(t, s)
  PROVE  IInv'
  <1> DEFINE e == [type |-> t, target |-> s, depth |-> Depth]
  <1>0. UNCHANGED <<watchers, by_type, next_id, watcher_valid_id, roundCount, wave, waves, ids,
                    running, pc, spent, present, called>> /\ Acting
    BY DEF emit, battleVars, drainVars, historyVars
  <1>1. pc = "call" => wave # <<>> /\ Head(wave) = wave[1] /\ 1 \in DOMAIN wave
    BY DEF IInv, Places, TypeOK
  <1>2. Depth \in 1 .. MaxWaves + 1 /\ (pc = "handler" => Depth = 1)
        /\ (pc # "handler" => Depth = waves + 1)
    <2>1. CASE pc = "call"
      <3>1. wave[1].depth = waves /\ wave[1] \in Event /\ waves \in 0 .. MaxWaves
        BY <1>1, <2>1 DEF IInv, WaveIsDepth, TypeOK
      <3>2. waves \in 1 .. MaxWaves
        BY <3>1 DEF Event
      <3> QED
        BY <1>1, <2>1, <3>1, <3>2 DEF Depth
    <2>2. CASE pc # "call"
      BY <1>0, <2>2 DEF Depth, Acting, IInv, Places, TypeOK
    <2> QED
      BY <2>1, <2>2
  <1>3. e \in Event /\ e.depth = Depth
    BY <1>2 DEF Event
  <1>4. pending' = Append(pending, e)
    BY DEF emit
  <1> HIDE DEF e
  <1>5. pending' \in Seq(Event) /\ Len(pending') = Len(pending) + 1
        /\ pending'[Len(pending) + 1] = e /\ \A i \in 1 .. Len(pending) : pending'[i] = pending[i]
    BY <1>3, <1>4 DEF IInv, TypeOK
  <1>5a. \A i \in DOMAIN pending' : IF i \in DOMAIN pending THEN pending'[i] = pending[i]
                                                            ELSE pending'[i].depth = Depth
    BY <1>3, <1>5 DEF IInv, TypeOK
  <1>6. TypeOK'
    BY <1>0, <1>5 DEF IInv, TypeOK, Registered
  <1>7. WaveIsDepth'
    BY <1>0, <1>2, <1>5a DEF IInv, WaveIsDepth
  <1>8. Places'
    BY <1>0, <1>2, <1>5a DEF IInv, Places
  <1>9. (IndexAgrees /\ CalledAtMostOnce /\ IdsAreFresh /\ WalkGoesUp)'
    BY <1>0 DEF IInv, IndexAgrees, CalledAtMostOnce, IdsAreFresh, WalkGoesUp, Registered, Expired
  <1> QED
    BY <1>6, <1>7, <1>8, <1>9 DEF IInv

\* A new watcher takes a new id, is in the list of its type, and in no list being walked.
LEMMA AddKeeps ==
  ASSUME IInv, NEW w \in Watcher, AddWatcher(w)
  PROVE  IInv'
  <1>0. UNCHANGED <<pending, watcher_valid_id, roundCount, wave, waves, ids, running, pc, spent,
                    present, called>> /\ next_id \in Id /\ next_id' = next_id + 1
    BY DEF AddWatcher, battleVars, drainVars, historyVars
  <1>1. /\ Registered' = Registered \cup {next_id}
        /\ watchers' = [i \in Registered \cup {next_id} |-> IF i = next_id THEN w ELSE watchers[i]]
        /\ by_type' = [by_type EXCEPT ![w.type] = @ \cup {next_id}]
    BY DEF AddWatcher, Registered
  <1>2. next_id \notin Registered /\ next_id \notin present /\ next_id \notin spent
    BY <1>0 DEF IInv, IdsAreFresh, Id
  <1>3. watchers'[next_id] = w /\ \A i \in Registered : watchers'[i] = watchers[i]
    BY <1>1, <1>2
  <1>4. w.type \in EventType
    BY DEF Watcher
  <1>5. \A t \in EventType :
          by_type'[t] = IF t = w.type THEN by_type[t] \cup {next_id} ELSE by_type[t]
    BY <1>1 DEF IInv, TypeOK
  <1>6. TypeOK'
    <2>1. watchers' \in [Registered' -> Watcher] /\ Registered' \subseteq Id
      BY <1>0, <1>1 DEF IInv, TypeOK
    <2>2. by_type' \in [EventType -> SUBSET Id]
      BY <1>0, <1>1, <1>4 DEF IInv, TypeOK
    <2>3. next_id' \in 1 .. MaxWatchers + 1
      BY <1>0 DEF Id
    <2> QED
      BY <1>0, <2>1, <2>2, <2>3 DEF IInv, TypeOK
  <1>7. IndexAgrees'
    BY <1>1, <1>2, <1>3, <1>5 DEF IInv, IndexAgrees
  <1>8. IdsAreFresh'
    BY <1>0, <1>1, <1>2, <1>3 DEF IInv, IdsAreFresh, TypeOK, Id
  <1>9. WalkGoesUp'
    BY <1>0, <1>1, <1>2, <1>3 DEF IInv, WalkGoesUp, Expired
  <1>10. (WaveIsDepth /\ CalledAtMostOnce /\ Places)'
    BY <1>0 DEF IInv, WaveIsDepth, CalledAtMostOnce, Places
  <1> QED
    BY <1>6, <1>7, <1>8, <1>9, <1>10 DEF IInv

\* Removing watchers takes them from both maps and from nothing else.
LEMMA RemoveKeepsMaps ==
  ASSUME IInv, NEW gone, gone \subseteq Registered, RemoveAll(gone)
  PROVE  /\ Registered' = Registered \ gone
         /\ \A i \in Registered' : watchers'[i] = watchers[i]
         /\ watchers' \in [Registered' -> Watcher]
         /\ by_type' \in [EventType -> SUBSET Id]
         /\ IndexAgrees'
  <1>1. Registered' = Registered \ gone /\ \A i \in Registered' : watchers'[i] = watchers[i]
    BY DEF RemoveAll, Registered
  <1>2. watchers' \in [Registered' -> Watcher]
    BY <1>1 DEF RemoveAll, IInv, TypeOK, Registered
  <1>3. by_type' \in [EventType -> SUBSET Id] /\ \A t \in EventType : by_type'[t] = by_type[t] \ gone
    BY DEF RemoveAll, IInv, TypeOK
  <1>4. IndexAgrees'
    BY <1>1, <1>3 DEF IInv, IndexAgrees
  <1> QED
    BY <1>1, <1>2, <1>3, <1>4

\* Whoever is removed, the walk and the ids stay in order.
LEMMA RemoveKeeps ==
  ASSUME IInv, NEW gone, gone \subseteq Registered, RemoveAll(gone),
         UNCHANGED <<pending, next_id, battleVars, drainVars, historyVars>>
  PROVE  IInv'
  <1>0. UNCHANGED <<pending, next_id, watcher_valid_id, roundCount, wave, waves, ids, running, pc,
                    spent, present, called>>
    BY DEF battleVars, drainVars, historyVars
  <1>1. /\ Registered' = Registered \ gone
        /\ \A i \in Registered' : watchers'[i] = watchers[i]
        /\ watchers' \in [Registered' -> Watcher]
        /\ by_type' \in [EventType -> SUBSET Id]
        /\ IndexAgrees'
    BY RemoveKeepsMaps
  <1>2. TypeOK'
    BY <1>0, <1>1 DEF IInv, TypeOK
  <1>3. IdsAreFresh' /\ WalkGoesUp'
    BY <1>0, <1>1 DEF IInv, IdsAreFresh, WalkGoesUp, Expired
  <1>4. (WaveIsDepth /\ CalledAtMostOnce /\ Places)'
    BY <1>0 DEF IInv, WaveIsDepth, CalledAtMostOnce, Places
  <1> QED
    BY <1>1, <1>2, <1>3, <1>4 DEF IInv

-----------------------------------------------------------------------------
\* The steps of the handlers: versions and rounds are read only while a list is walked.
LEMMA HandlerKeeps ==
  ASSUME IInv, Handler
  PROVE  IInv'
  <1>1. ASSUME NEW s \in Side, Switch(s) PROVE IInv'
    <2>1. TypeOK'
      <3>1. watcher_valid_id' \in [Side -> 0 .. MaxSwitches]
        BY <1>1 DEF Switch, IInv, TypeOK
      <3> QED
        BY <1>1, <3>1 DEF Switch, drainVars, historyVars, IInv, TypeOK, Registered
    <2>2. (IndexAgrees /\ WaveIsDepth /\ CalledAtMostOnce /\ IdsAreFresh /\ Places /\ WalkGoesUp)'
      BY <1>1 DEF Switch, drainVars, historyVars, IInv, IndexAgrees, WaveIsDepth, CalledAtMostOnce,
                  IdsAreFresh, Places, WalkGoesUp, Registered
    <2> QED
      BY <2>1, <2>2 DEF IInv
  <1>2. ASSUME cleanup PROVE IInv'
    <2> DEFINE gone == {i \in Registered : Expired(watchers[i]) \/ Stale(watchers[i])}
    <2>1. gone \subseteq Registered /\ RemoveAll(gone)
          /\ UNCHANGED <<pending, next_id, battleVars, drainVars, historyVars>>
      BY <1>2 DEF cleanup
    <2> HIDE DEF gone
    <2> QED
      BY <2>1, RemoveKeeps
  <1>3. ASSUME advanceRound PROVE IInv'
    <2>1. TypeOK'
      BY <1>3 DEF advanceRound, drainVars, historyVars, IInv, TypeOK, Registered
    <2>2. (IndexAgrees /\ WaveIsDepth /\ CalledAtMostOnce /\ IdsAreFresh /\ Places /\ WalkGoesUp)'
      BY <1>3 DEF advanceRound, drainVars, historyVars, IInv, IndexAgrees, WaveIsDepth,
                  CalledAtMostOnce, IdsAreFresh, Places, WalkGoesUp, Registered
    <2> QED
      BY <2>1, <2>2 DEF IInv
  <1> QED
    BY <1>1, <1>2, <1>3 DEF Handler

\* The steps that handlers and watchers share.
LEMMA ActKeeps ==
  ASSUME IInv, Act
  PROVE  IInv'
  <1>1. ASSUME NEW p \in Plugin, register_watcher(p) PROVE IInv'
    <2> DEFINE w == [type |-> p.type, owner |-> p.owner, round |-> roundCount,
                     duration |-> p.duration, once |-> p.once, scope |-> p.scope,
                     valid |-> watcher_valid_id[p.owner], own |-> FALSE]
    <2>1. /\ p.type \in EventType /\ p.owner \in Side /\ p.duration \in Nat
          /\ p.once \in BOOLEAN /\ p.scope \in Scope
      BY Zenon, PluginAssumption DEF Side, Scope
    <2>2. roundCount \in 0 .. MaxRound /\ watcher_valid_id[p.owner] \in 0 .. MaxSwitches
      BY <2>1 DEF IInv, TypeOK
    <2>3. w \in Watcher
      BY <2>1, <2>2 DEF Watcher
    <2>4. AddWatcher(w)
      BY <1>1 DEF register_watcher
    <2> HIDE DEF w
    <2> QED
      BY <2>3, <2>4, AddKeeps
  <1>2. ASSUME NEW s \in Side, NEW d \in Duration, register_break_callback(s, d) PROVE IInv'
    <2> DEFINE w == [type |-> "BREAK", owner |-> s, round |-> roundCount, duration |-> d,
                     once |-> TRUE, scope |-> "ON_STAGE", valid |-> watcher_valid_id[s],
                     own |-> TRUE]
    <2>1. d \in Nat /\ "ON_STAGE" \in Scope
      BY DEF Scope
    <2>2. roundCount \in 0 .. MaxRound /\ watcher_valid_id[s] \in 0 .. MaxSwitches
      BY DEF IInv, TypeOK
    <2>3. w \in Watcher
      BY <2>1, <2>2 DEF Watcher
    <2>4. AddWatcher(w)
      BY <1>2 DEF register_break_callback
    <2> HIDE DEF w
    <2> QED
      BY <2>3, <2>4, AddKeeps
  <1>3. ASSUME NEW i \in Id, remove_watcher(i) PROVE IInv'
    <2>1. {i} \subseteq Registered /\ RemoveAll({i})
          /\ UNCHANGED <<pending, next_id, battleVars, drainVars, historyVars>>
      BY <1>3 DEF remove_watcher
    <2> QED
      BY <2>1, RemoveKeeps
  <1> QED
    BY <1>1, <1>2, <1>3, EmitKeeps DEF Act

-----------------------------------------------------------------------------
\* The waves of a drain.
LEMMA WavesKeep ==
  ASSUME IInv, StartDrain \/ TakeWave \/ EndWave \/ EndDrain
  PROVE  IInv'
  <1>0. UNCHANGED <<watchers, by_type, next_id, watcher_valid_id, roundCount, ids, running, spent,
                    present, called>> /\ pc # "call" /\ pc' # "call"
    BY DEF StartDrain, TakeWave, EndWave, EndDrain, battleVars, historyVars
  <1>1. (IndexAgrees /\ IdsAreFresh /\ CalledAtMostOnce /\ WalkGoesUp)'
    BY <1>0 DEF IInv, IndexAgrees, IdsAreFresh, CalledAtMostOnce, WalkGoesUp, Registered
  <1>2. TypeOK' /\ Places' /\ WaveIsDepth'
    <2>1. CASE StartDrain
      <3>1. UNCHANGED <<pending, wave, waves>> /\ pc = "handler" /\ pc' = "drain"
        BY <2>1 DEF StartDrain
      <3>3. TypeOK'
        BY <1>0, <3>1 DEF IInv, TypeOK, Registered
      <3>4. Places' /\ WaveIsDepth'
        BY <1>0, <3>1 DEF IInv, Places, WaveIsDepth
      <3> QED
        BY <3>3, <3>4
    <2>2. CASE TakeWave
      <3>1. wave' = pending /\ pending' = <<>> /\ waves' = waves + 1 /\ waves < MaxWaves
            /\ pc = "drain" /\ pc' = "wave"
        BY <2>2 DEF TakeWave
      <3>2. TypeOK'
        BY <1>0, <3>1 DEF IInv, TypeOK, Registered
      <3>3. Places' /\ WaveIsDepth'
        BY <1>0, <3>1 DEF IInv, Places, WaveIsDepth
      <3> QED
        BY <3>2, <3>3
    <2>3. CASE EndWave
      <3>1. UNCHANGED <<pending, wave, waves>> /\ wave = <<>> /\ pc = "wave" /\ pc' = "drain"
        BY <2>3 DEF EndWave
      <3>2. TypeOK' /\ Places' /\ WaveIsDepth'
        BY <1>0, <3>1 DEF IInv, TypeOK, Registered, Places, WaveIsDepth
      <3> QED
        BY <3>2
    <2>4. CASE EndDrain
      <3>1. pending' = <<>> /\ waves' = 0 /\ wave' = wave /\ pc = "drain" /\ pc' = "handler"
        BY <2>4 DEF EndDrain
      <3>2. TypeOK' /\ Places' /\ WaveIsDepth'
        BY <1>0, <3>1 DEF IInv, TypeOK, Registered, Places, WaveIsDepth
      <3> QED
        BY <3>2
    <2> QED
      BY <2>1, <2>2, <2>3, <2>4
  <1> QED
    BY <1>1, <1>2 DEF IInv

\* The list an event finds is of those who are there, and names nobody twice.
LEMMA DeliverKeeps ==
  ASSUME IInv, DeliverEvent
  PROVE  IInv'
  <1>0. UNCHANGED <<watchers, by_type, pending, next_id, watcher_valid_id, roundCount, wave, waves,
                    running, spent>>
        /\ ids' = by_type[Head(wave).type] /\ present' = Registered /\ called' = <<>>
        /\ pc = "wave" /\ pc' = "call" /\ wave # <<>>
    BY DEF DeliverEvent, battleVars
  <1>1. Head(wave) \in Event /\ Head(wave).type \in EventType
    <2>1. Head(wave) \in Event
      BY <1>0 DEF IInv, TypeOK
    <2> QED
      BY <2>1 DEF Event
  <1>2. ids' = {i \in Registered : watchers[i].type = Head(wave).type} /\ ids' \in SUBSET Id
    BY <1>0, <1>1 DEF IInv, IndexAgrees, TypeOK
  <1>3. TypeOK'
    BY <1>0, <1>2 DEF IInv, TypeOK, Registered
  <1>4. IndexAgrees' /\ WaveIsDepth' /\ CalledAtMostOnce' /\ Places'
    BY <1>0 DEF IInv, IndexAgrees, WaveIsDepth, CalledAtMostOnce, Places, Registered
  <1>5. IdsAreFresh'
    BY <1>0 DEF IInv, IdsAreFresh, Registered, Places
  <1>6. WalkGoesUp'
    BY <1>0, <1>2 DEF WalkGoesUp, Registered
  <1> QED
    BY <1>3, <1>4, <1>5, <1>6 DEF IInv

\* Only who is gone or past the window is skipped.
LEMMA SkipKeeps ==
  ASSUME IInv, SkipWatcher
  PROVE  IInv'
  <1>0. UNCHANGED <<watchers, by_type, pending, next_id, watcher_valid_id, roundCount, wave, waves,
                    running, spent, present, called, pc>> /\ pc = "call"
    BY DEF SkipWatcher, battleVars, historyVars
  <1>1. PICK i \in Id : NextId(i) /\ Skipped(i) /\ ids' = ids \ {i}
    BY DEF SkipWatcher
  <1>2. TypeOK'
    BY <1>0, <1>1 DEF IInv, TypeOK, Registered
  <1>3. IndexAgrees' /\ WaveIsDepth' /\ CalledAtMostOnce' /\ IdsAreFresh'
    BY <1>0 DEF IInv, IndexAgrees, WaveIsDepth, CalledAtMostOnce, IdsAreFresh, Registered
  <1>4. Places'
    BY <1>0 DEF IInv, Places
  <1>5. WalkGoesUp'
    BY <1>0, <1>1 DEF IInv, WalkGoesUp, Registered, Skipped, Expired
  <1> QED
    BY <1>2, <1>3, <1>4, <1>5 DEF IInv

\* A call takes the smallest id; who fires once is gone when the call is over.
LEMMA CallKeeps ==
  ASSUME IInv, CallWatcher
  PROVE  IInv'
  <1>0. UNCHANGED <<pending, next_id, watcher_valid_id, roundCount, wave, waves, present, pc>>
        /\ pc = "call" /\ running = NoId
    BY DEF CallWatcher, battleVars
  <1>1. PICK i \in Id :
          /\ NextId(i) /\ ~Skipped(i)
          /\ spent' = IF watchers[i].once THEN spent \cup {i} ELSE spent
          /\ called' = Append(called, i)
          /\ IF Triggered(watchers[i], Head(wave))
               THEN running' = i /\ UNCHANGED <<watchers, by_type>>
               ELSE Finish(i, watchers[i]) /\ UNCHANGED running
          /\ ids' = ids \ {i}
    BY DEF CallWatcher
  <1>2. i \in ids /\ i \in Registered /\ i \in present /\ ~Expired(watchers[i])
        /\ (\A j \in ids : i <= j) /\ \A k \in DOMAIN called : called[k] < i
    BY <1>0, <1>1 DEF NextId, Skipped, IInv, WalkGoesUp
  <1>3. /\ \A j \in Registered' : j \in Registered /\ watchers'[j] = watchers[j]
        /\ watchers' \in [Registered' -> Watcher] /\ Registered' \subseteq Registered
        /\ by_type' \in [EventType -> SUBSET Id]
        /\ IndexAgrees'
        /\ i \in Registered' /\ watchers[i].once => running' = i
        /\ running' \in {i, NoId}
    <2>1. CASE watchers' = watchers /\ by_type' = by_type
      <3>1. watchers[i].once => running' = i
        <4>1. ASSUME watchers[i].once, ~Triggered(watchers[i], Head(wave)) PROVE FALSE
          <5>1. RemoveAll({i})
            BY <1>1, <4>1 DEF Finish
          <5>2. i \notin Registered'
            BY <5>1 DEF RemoveAll, Registered
          <5> QED
            BY <2>1, <5>2, <1>2 DEF Registered
        <4> QED
          BY <4>1, <1>1
      <3>2. running' \in {i, NoId}
        BY <1>0, <1>1
      <3> QED
        BY <2>1, <3>1, <3>2 DEF IInv, TypeOK, IndexAgrees, Registered
    <2>2. CASE RemoveAll({i}) /\ running' = running
      <3>1. {i} \subseteq Registered
        BY <1>2
      <3>2. i \notin Registered'
        BY <2>2 DEF RemoveAll, Registered
      <3> QED
        BY <1>0, <2>2, <3>1, <3>2, RemoveKeepsMaps
    <2> QED
      BY <1>1, <2>1, <2>2 DEF Finish
  <1>4. called' \in Seq(Id) /\ Len(called') = Len(called) + 1 /\ called'[Len(called) + 1] = i
        /\ \A k \in 1 .. Len(called) : called'[k] = called[k]
    BY <1>1 DEF IInv, TypeOK
  <1>5. TypeOK'
    <2>1. spent' \in SUBSET Id /\ ids' \in SUBSET Id /\ running' \in Id \cup {NoId}
          /\ Registered' \subseteq Id
      BY <1>1, <1>3 DEF IInv, TypeOK
    <2> QED
      BY <1>0, <1>3, <1>4, <2>1 DEF IInv, TypeOK
  <1>6. WaveIsDepth' /\ Places'
    BY <1>0 DEF IInv, WaveIsDepth, Places
  <1>7. CalledAtMostOnce'
    <2>1. \A k \in DOMAIN called' : called'[k] \in present
      BY <1>0, <1>2, <1>4 DEF IInv, TypeOK, CalledAtMostOnce
    <2>2. \A k, j \in DOMAIN called' : k < j => called'[k] < called'[j]
      <3> SUFFICES ASSUME NEW k \in DOMAIN called', NEW j \in DOMAIN called', k < j
                   PROVE  called'[k] < called'[j]
        OBVIOUS
      <3>1. DOMAIN called' = 1 .. Len(called) + 1 /\ DOMAIN called = 1 .. Len(called)
            /\ Len(called) \in Nat
        BY <1>4 DEF IInv, TypeOK
      <3>2. CASE j = Len(called) + 1
        BY <1>2, <1>4, <3>1, <3>2
      <3>3. CASE j \in DOMAIN called
        BY <1>0, <1>4, <3>1, <3>3 DEF IInv, CalledAtMostOnce
      <3> QED
        BY <3>1, <3>2, <3>3
    <2> QED
      BY <1>0, <2>1, <2>2 DEF CalledAtMostOnce
  <1>8. IdsAreFresh'
    <2>1. i < next_id /\ \A j \in Registered \cap spent : FALSE
      <3>1. i \in Registered \cup present \cup spent /\ NoId \notin Id
        BY <1>2 DEF NoId, Id
      <3> QED
        BY <1>0, <3>1 DEF IInv, IdsAreFresh, TypeOK
    <2> QED
      BY <1>0, <1>1, <1>3, <2>1 DEF IInv, IdsAreFresh
  <1>9. WalkGoesUp'
    <2>1. ids' \subseteq present /\ \A j \in ids' : i < j
      BY <1>0, <1>1, <1>2 DEF IInv, WalkGoesUp, TypeOK, Id
    <2>2. \A k \in DOMAIN called', j \in ids' : called'[k] < j
      <3>1. DOMAIN called' = 1 .. Len(called) + 1 /\ DOMAIN called = 1 .. Len(called)
            /\ Len(called) \in Nat
        BY <1>4 DEF IInv, TypeOK
      <3> QED
        BY <1>0, <1>1, <1>4, <2>1, <3>1 DEF IInv, WalkGoesUp
    <2>3. \A j \in present \cap Registered' :
            watchers[j].type = Head(wave).type =>
              j \in ids' \/ Expired(watchers[j]) \/ \E k \in DOMAIN called' : called'[k] = j
      <3>0. DOMAIN called' = 1 .. Len(called) + 1 /\ DOMAIN called = 1 .. Len(called)
            /\ Len(called) \in Nat
        BY <1>4 DEF IInv, TypeOK
      <3>1. \A k \in DOMAIN called : k \in DOMAIN called' /\ called'[k] = called[k]
        BY <1>4, <3>0
      <3>2. \E k \in DOMAIN called' : called'[k] = i
        BY <1>4, <3>0
      <3> SUFFICES ASSUME NEW j \in present \cap Registered',
                          watchers[j].type = Head(wave).type, j \notin ids'
                   PROVE  Expired(watchers[j]) \/ \E k \in DOMAIN called' : called'[k] = j
        OBVIOUS
      <3>3. CASE j = i
        BY <3>2, <3>3
      <3>4. CASE j # i
        <4>1. j \notin ids /\ j \in present \cap Registered
          BY <1>1, <1>3, <3>4
        <4> QED
          BY <1>0, <3>1, <4>1 DEF IInv, WalkGoesUp
      <3> QED
        BY <3>3, <3>4
    <2> QED
      BY <1>0, <1>3, <2>1, <2>2, <2>3 DEF WalkGoesUp, Expired
  <1> QED
    BY <1>3, <1>5, <1>6, <1>7, <1>8, <1>9 DEF IInv

\* A watcher that fires once is erased, unless it erased itself.
LEMMA ReturnKeeps ==
  ASSUME IInv, Return
  PROVE  IInv'
  <1>0. UNCHANGED <<pending, next_id, watcher_valid_id, roundCount, wave, waves, ids, pc, spent,
                    present, called>> /\ running # NoId /\ running' = NoId /\ pc = "call"
    BY DEF Return, battleVars, historyVars, IInv, Places, TypeOK
  <1>1. /\ Registered' \subseteq Registered /\ \A j \in Registered' : watchers'[j] = watchers[j]
        /\ watchers' \in [Registered' -> Watcher]
        /\ by_type' \in [EventType -> SUBSET Id]
        /\ IndexAgrees'
        /\ running \in Registered' => ~watchers[running].once
    <2>1. CASE running \in Registered /\ watchers[running].once
      <3>1. RemoveAll({running}) /\ {running} \subseteq Registered
        BY <2>1 DEF Return, Finish
      <3>2. running \notin Registered'
        BY <3>1 DEF RemoveAll, Registered
      <3> QED
        BY <3>1, <3>2, RemoveKeepsMaps
    <2>2. CASE ~(running \in Registered /\ watchers[running].once)
      <3>1. UNCHANGED <<watchers, by_type>>
        BY <2>2 DEF Return, Finish
      <3> QED
        BY <2>2, <3>1 DEF IInv, TypeOK, IndexAgrees, Registered
    <2> QED
      BY <2>1, <2>2
  <1>2. TypeOK'
    BY <1>0, <1>1 DEF IInv, TypeOK
  <1>3. IdsAreFresh' /\ WalkGoesUp'
    BY <1>0, <1>1 DEF IInv, IdsAreFresh, WalkGoesUp, Expired
  <1>4. (WaveIsDepth /\ CalledAtMostOnce /\ Places)'
    BY <1>0 DEF IInv, WaveIsDepth, CalledAtMostOnce, Places
  <1> QED
    BY <1>1, <1>2, <1>3, <1>4 DEF IInv

\* The rest of a wave is as deep as the wave.
LEMMA NextEventKeeps ==
  ASSUME IInv, NextEvent
  PROVE  IInv'
  <1>0. UNCHANGED <<watchers, by_type, pending, next_id, watcher_valid_id, roundCount, waves, ids,
                    running, spent>> /\ pc = "call" /\ pc' = "wave" /\ running = NoId /\ ids = {}
        /\ wave' = Tail(wave) /\ present' = {} /\ called' = <<>> /\ wave # <<>>
    BY DEF NextEvent, battleVars, IInv, Places
  <1>1. wave' \in Seq(Event) /\ \A i \in DOMAIN wave' : i + 1 \in DOMAIN wave /\ wave'[i] = wave[i + 1]
    BY <1>0 DEF IInv, TypeOK
  <1>2. TypeOK'
    BY <1>0, <1>1 DEF IInv, TypeOK, Registered
  <1>3. WaveIsDepth'
    BY <1>0, <1>1 DEF IInv, WaveIsDepth
  <1>4. (IndexAgrees /\ CalledAtMostOnce /\ IdsAreFresh /\ Places /\ WalkGoesUp)'
    BY <1>0 DEF IInv, IndexAgrees, CalledAtMostOnce, IdsAreFresh, Places, WalkGoesUp, Registered
  <1> QED
    BY <1>2, <1>3, <1>4 DEF IInv

-----------------------------------------------------------------------------
\* Every step keeps the invariant.
LEMMA NextKeeps == IInv /\ [Next]_vars => IInv'
  <1> SUFFICES ASSUME IInv, [Next]_vars PROVE IInv'
    OBVIOUS
  <1>1. CASE UNCHANGED vars
    BY <1>1 DEF vars, battleVars, drainVars, historyVars, IInv, TypeOK, IndexAgrees, WaveIsDepth,
                CalledAtMostOnce, IdsAreFresh, Places, WalkGoesUp, Registered, Expired
  <1>2. CASE Next
    BY <1>2, ActKeeps, HandlerKeeps, WavesKeep, DeliverKeeps, SkipKeeps, CallKeeps, ReturnKeeps,
       NextEventKeeps DEF Next, Drain
  <1> QED
    BY <1>1, <1>2

\* The invariant holds always.
THEOREM Invariance == Spec => []IInv
  BY InitHolds, NextKeeps, PTL DEF Spec

\* Watchers, lists, events and versions keep their types (EventCenter's members).
THEOREM TypeCorrect == Spec => []TypeOK
  <1>1. IInv => TypeOK
    BY DEF IInv
  <1> QED
    BY <1>1, Invariance, PTL

\* The lists by type and the map of watchers tell the same (register_watcher,
\* remove_watcher, cleanup).
THEOREM MapsAgree == Spec => []IndexAgrees
  <1>1. IInv => IndexAgrees
    BY DEF IInv
  <1> QED
    BY <1>1, Invariance, PTL

\* What a watcher emits is in the next wave (drain).
THEOREM WavesAreDepths == Spec => []WaveIsDepth
  <1>1. IInv => WaveIsDepth
    BY DEF IInv
  <1> QED
    BY <1>1, Invariance, PTL

\* An event calls nobody twice, nobody who came later, and in order (deliver).
THEOREM CallsAreOrdered == Spec => []CalledAtMostOnce
  <1>1. IInv => CalledAtMostOnce
    BY DEF IInv
  <1> QED
    BY <1>1, Invariance, PTL

\* Who fires once is called once in a battle (deliver erases it after the call).
THEOREM OnceIsCalledOnce == Spec => OnceIsOnce
  <1>1. ASSUME IInv, [Next]_vars PROVE \A i \in Id : called' = Append(called, i) => i \notin spent
    <2> SUFFICES ASSUME NEW i \in Id, called' = Append(called, i) PROVE i \notin spent
      OBVIOUS
    <2>0. called' # called /\ called' # <<>>
      BY DEF IInv, TypeOK
    <2>1. CallWatcher
      BY <1>1, <2>0 DEF vars, battleVars, drainVars, historyVars, Next, Act, emit, register_watcher,
        register_break_callback, AddWatcher, remove_watcher, Handler, Switch, cleanup, advanceRound,
        StartDrain, Drain, TakeWave, DeliverEvent, SkipWatcher, Return, NextEvent, EndWave, EndDrain
    <2>2. PICK j \in Id : NextId(j) /\ ~Skipped(j) /\ called' = Append(called, j)
      BY <2>1 DEF CallWatcher
    <2>3. i = j
      <3>1. Append(called, i)[Len(called) + 1] = i /\ Append(called, j)[Len(called) + 1] = j
        BY DEF IInv, TypeOK
      <3> QED
        BY <2>2, <3>1
    <2>4. i \in Registered /\ running = NoId /\ NoId \notin Id
      BY <2>1, <2>2, <2>3 DEF Skipped, CallWatcher, NoId, Id
    <2> QED
      BY <2>4, <1>1 DEF IInv, IdsAreFresh
  <1> QED
    BY <1>1, Invariance, PTL DEF Spec, OnceIsOnce

\* Nobody who was there, still is, is within the window and was not made void by a
\* switch misses an event (deliver).
THEOREM NobodyIsMissed == Spec => NobodyMissed
  <1>1. ASSUME IInv, [Next]_vars
        PROVE  pc = "call" /\ pc' = "wave" =>
                 \A i \in present \cap Registered :
                   watchers[i].type = Head(wave).type /\ ~Expired(watchers[i]) /\ ~Stale(watchers[i])
                     => \E k \in DOMAIN called : called[k] = i
    <2> SUFFICES ASSUME pc = "call", pc' = "wave"
                 PROVE  \A i \in present \cap Registered :
                          watchers[i].type = Head(wave).type /\ ~Expired(watchers[i]) /\ ~Stale(watchers[i])
                            => \E k \in DOMAIN called : called[k] = i
      OBVIOUS
    <2>1. ids = {}
      BY <1>1 DEF vars, battleVars, drainVars, historyVars, Next, Act, emit, register_watcher,
        register_break_callback, AddWatcher, remove_watcher, Handler, Switch, cleanup, advanceRound,
        StartDrain, Drain, TakeWave, DeliverEvent, SkipWatcher, CallWatcher, Return, NextEvent,
        EndWave, EndDrain
    <2> QED
      BY <1>1, <2>1 DEF IInv, WalkGoesUp
  <1> QED
    BY <1>1, Invariance, PTL DEF Spec, NobodyMissed

\* Nobody who stays and counts is left out, and nobody is called beyond what he asked for.
THEOREM CalledAsRegistered == Spec => CallsAsRegistered
  <1> QED
    BY NobodyIsMissed, OnceIsCalledOnce DEF CallsAsRegistered

\* Events are discarded only after a chain of MaxWaves (drain).
THEOREM OnlyLongChainsAreCut == Spec => OnlyLoopsAreCut
  <1>1. ASSUME IInv, [Next]_vars
        PROVE  pc = "drain" /\ pc' = "handler" =>
                 \A i \in DOMAIN pending : pending[i].depth > MaxWaves
    <2> SUFFICES ASSUME pc = "drain", pc' = "handler"
                 PROVE  \A i \in DOMAIN pending : pending[i].depth > MaxWaves
      OBVIOUS
    <2>1. pending = <<>> \/ waves >= MaxWaves
      BY <1>1 DEF vars, battleVars, drainVars, historyVars, Next, Act, emit, register_watcher,
        register_break_callback, AddWatcher, remove_watcher, Handler, Switch, cleanup, advanceRound,
        StartDrain, Drain, TakeWave, DeliverEvent, SkipWatcher, CallWatcher, Return, NextEvent,
        EndWave, EndDrain
    <2>2. CASE pending = <<>>
      BY <2>2
    <2>3. CASE waves >= MaxWaves
      BY <1>1, <2>3 DEF IInv, WaveIsDepth, TypeOK
    <2> QED
      BY <2>1, <2>2, <2>3
  <1> QED
    BY <1>1, Invariance, PTL DEF Spec, OnlyLoopsAreCut

-----------------------------------------------------------------------------
(* Why a drain ends.  That it does is a liveness property, for the runs; what *)
(* it rests on is safety: each step of a drain leaves less to be done, nothing *)
(* else that happens meanwhile leaves more, and until it is over there is a    *)
(* step to take.                                                               *)

\* How far a delivery has come: an event that is not begun has its list to walk.
Rank == CASE pc = "wave" -> 3 [] pc = "call" -> 2 [] pc = "drain" -> 1 [] OTHER -> 0

\* What a drain has left: waves, events of this one, the delivery of the first of
\* them, watchers to call, and the return of the one that runs.
Left ==
  <<MaxWaves - waves, Len(wave), Rank, Cardinality(ids), IF running = NoId THEN 0 ELSE 1>>

\* Five numbers, the earlier of more weight.
Five == [1 .. 5 -> Nat]
Fewer == LexProductOrdering(OpToRel(<, Nat), Nat, 5)

\* Every step of a drain leaves less to be done or ends it, and what watchers emit,
\* register and remove meanwhile leaves as much.  (drain, deliver.)
DrainShrinks ==
  [][/\ Drain => pc' = "handler" \/ <<Left', Left>> \in Fewer
     /\ pc # "handler" /\ ~Drain => UNCHANGED Left]_vars

\* In a drain a step of it may be taken: one of its guards holds.
DrainMayStep ==
  pc # "handler" =>
    \/ pc = "drain" /\ (pending = <<>> \/ waves >= MaxWaves)
    \/ pc = "drain" /\ pending # <<>> /\ waves < MaxWaves
    \/ pc = "wave"
    \/ running # NoId
    \/ pc = "call" /\ running = NoId /\ ids = {}
    \/ pc = "call" /\ running = NoId /\ \E i \in Id : NextId(i)

\* Five numbers cannot go down in this order for ever.
THEOREM FewerEnds == IsWellFoundedOn(Fewer, Five)
  <1>1. IsWellFoundedOn(OpToRel(<, Nat), Nat)
    BY NatLessThanWellFounded
  <1> DEFINE R == OpToRel(<, Nat)
  <1>2. IsWellFoundedOn(R, Nat)
    BY <1>1
  <1> HIDE DEF R
  <1>3. IsWellFoundedOn(LexProductOrdering(R, Nat, 5), [1 .. 5 -> Nat])
    BY <1>2, WFLexProductOrdering
  <1> QED
    BY <1>3 DEF R, Fewer, Five

\* Fewer of one number, and as much of those of more weight, is less.
LEMMA FewerOfOne ==
  ASSUME NEW x \in Five, NEW y \in Five, NEW j \in 1 .. 5,
         \A i \in 1 .. j - 1 : x[i] = y[i], x[j] < y[j]
  PROVE  <<x, y>> \in Fewer
  <1>1. x[j] \in Nat /\ y[j] \in Nat
    BY DEF Five
  <1>2. <<x[j], y[j]>> \in OpToRel(<, Nat)
    BY <1>1 DEF OpToRel
  <1> QED
    BY <1>2 DEF Fewer, Five, LexProductOrdering

\* The ids of a list are finitely many.
LEMMA IdsFinite ==
  ASSUME TypeOK PROVE IsFiniteSet(ids) /\ Cardinality(ids) \in Nat
  <1>1. IsFiniteSet(Id)
    BY FS_Interval DEF Id
  <1>2. ids \subseteq Id
    BY DEF TypeOK
  <1>3. IsFiniteSet(ids)
    BY <1>1, <1>2, FS_Subset
  <1> QED
    BY <1>3, FS_CardinalityType

\* The five, each by itself.
LeftIs ==
  /\ Left \in Five
  /\ Left[1] = MaxWaves - waves /\ Left[2] = Len(wave) /\ Left[3] = Rank
  /\ Left[4] = Cardinality(ids) /\ Left[5] = IF running = NoId THEN 0 ELSE 1

LEMMA LeftType == TypeOK => LeftIs
  <1> SUFFICES ASSUME TypeOK PROVE LeftIs
    OBVIOUS
  <1>1. MaxWaves - waves \in Nat /\ Len(wave) \in Nat /\ Rank \in Nat /\ Cardinality(ids) \in Nat
    BY IdsFinite DEF TypeOK, Rank
  <1> QED
    BY <1>1 DEF LeftIs, Left, Five

\* One lemma on the steps of a drain, each of which takes from one of the five.
LEMMA DrainLowers ==
  ASSUME IInv, IInv', Drain, pc' # "handler"
  PROVE  <<Left', Left>> \in Fewer
  <1>0. /\ Left \in Five /\ Left' \in Five /\ TypeOK /\ TypeOK'
        /\ Left[1] = MaxWaves - waves /\ Left'[1] = MaxWaves - waves'
        /\ Left[2] = Len(wave) /\ Left'[2] = Len(wave')
        /\ Left[3] = Rank /\ Left'[3] = Rank'
        /\ Left[4] = Cardinality(ids) /\ Left'[4] = Cardinality(ids')
        /\ Left[5] = (IF running = NoId THEN 0 ELSE 1)
        /\ Left'[5] = (IF running' = NoId THEN 0 ELSE 1)
    <2>1. TypeOK /\ TypeOK'
      BY DEF IInv
    <2>2. LeftIs /\ LeftIs'
      BY <2>1, LeftType, PTL
    <2> QED
      BY <2>1, <2>2 DEF LeftIs
  <1> HIDE DEF IInv
  <1>1. CASE TakeWave
    <2>1. MaxWaves - waves' < MaxWaves - waves
      BY <1>0, <1>1 DEF TakeWave, TypeOK
    <2> QED
      BY <1>0, <2>1, FewerOfOne
  <1>2. CASE DeliverEvent
    <2>1. Rank' < Rank /\ waves' = waves /\ wave' = wave
      BY <1>0, <1>2 DEF DeliverEvent, Rank
    <2> QED
      BY <1>0, <2>1, FewerOfOne, \A i \in 1 .. 2 : i = 1 \/ i = 2
  <1>3. ASSUME NEW i \in ids, ids' = ids \ {i}, pc' = pc, UNCHANGED <<wave, waves>>
        PROVE  <<Left', Left>> \in Fewer
    <2>1. Cardinality(ids') < Cardinality(ids)
      <3>1. IsFiniteSet(ids) /\ Cardinality(ids) \in Nat
        BY <1>0, IdsFinite
      <3>2. Cardinality(ids \ {i}) = Cardinality(ids) - 1
        BY <1>3, <3>1, FS_RemoveElement
      <3> QED
        BY <1>3, <3>1, <3>2
    <2>2. Rank' = Rank /\ waves' = waves /\ wave' = wave
      BY <1>3 DEF Rank
    <2> QED
      BY <1>0, <2>1, <2>2, FewerOfOne, \A k \in 1 .. 3 : k = 1 \/ k = 2 \/ k = 3
  <1>4. CASE SkipWatcher
    <2>1. \E i \in ids : ids' = ids \ {i}
      BY <1>4 DEF SkipWatcher, NextId
    <2> QED
      BY <1>3, <1>4, <2>1 DEF SkipWatcher
  <1>5. CASE CallWatcher
    <2>1. \E i \in ids : ids' = ids \ {i}
      BY <1>5 DEF CallWatcher, NextId
    <2> QED
      BY <1>3, <1>5, <2>1 DEF CallWatcher
  <1>6. CASE Return
    <2>1. /\ running # NoId /\ running' = NoId
          /\ waves' = waves /\ wave' = wave /\ ids' = ids /\ pc' = pc
      BY <1>6 DEF Return
    <2>2. Rank' = Rank
      BY <2>1 DEF Rank
    <2> QED
      BY <1>0, <2>1, <2>2, FewerOfOne, \A k \in 1 .. 4 : k = 1 \/ k = 2 \/ k = 3 \/ k = 4
  <1>7. CASE NextEvent
    <2>1. wave # <<>> /\ wave' = Tail(wave) /\ waves' = waves
      BY <1>7 DEF NextEvent, IInv, Places
    <2>2. Len(wave') < Len(wave)
      BY <1>0, <2>1 DEF TypeOK
    <2> QED
      BY <1>0, <2>1, <2>2, FewerOfOne, \A k \in 1 .. 1 : k = 1
  <1>8. CASE EndWave
    <2>1. Rank' < Rank /\ waves' = waves /\ wave' = wave
      BY <1>0, <1>8 DEF EndWave, Rank
    <2> QED
      BY <1>0, <2>1, FewerOfOne, \A i \in 1 .. 2 : i = 1 \/ i = 2
  <1>9. CASE EndDrain
    BY <1>9 DEF EndDrain
  <1> QED
    BY <1>1, <1>2, <1>4, <1>5, <1>6, <1>7, <1>8, <1>9 DEF Drain

\* A drain shrinks with every step of its own and grows with none (drain, deliver).
THEOREM DrainGoesDown == Spec => DrainShrinks
  <1>1. ASSUME IInv, IInv', [Next]_vars
        PROVE  /\ Drain => pc' = "handler" \/ <<Left', Left>> \in Fewer
               /\ pc # "handler" /\ ~Drain => UNCHANGED Left
    <2>1. Drain => pc' = "handler" \/ <<Left', Left>> \in Fewer
      BY <1>1, DrainLowers
    <2>2. ASSUME pc # "handler", ~Drain PROVE UNCHANGED drainVars
      BY <1>1, <2>2 DEF Next, Act, Handler, StartDrain, emit, register_watcher,
         register_break_callback, AddWatcher, remove_watcher, Switch, cleanup, advanceRound, vars
    <2>3. UNCHANGED drainVars => UNCHANGED Left
      BY DEF drainVars, Left, Rank
    <2> QED
      BY <2>1, <2>2, <2>3
  <1> QED
    BY <1>1, Invariance, PTL DEF Spec, DrainShrinks

\* Nothing keeps a drain from going on: the list of an event has a next watcher
\* until it is empty (deliver).
THEOREM DrainIsNotStuck == Spec => []DrainMayStep
  <1>1. ASSUME IInv, ids # {} PROVE \E i \in Id : NextId(i)
    <2>1. ids \in SUBSET Id
      BY <1>1 DEF IInv, TypeOK
    <2>2. ids \in SUBSET Nat
      BY <2>1 DEF Id
    <2>3. \E i \in ids : \A j \in ids : i <= j
      <3> DEFINE R == OpToRel(<, Nat)
      <3>1. IsWellFoundedOn(R, Nat)
        BY NatLessThanWellFounded
      <3>2. \A x, y \in Nat : y < x => <<y, x>> \in R
        BY DEF OpToRel
      <3> HIDE DEF R
      <3>3. PICK x \in ids : \A y \in ids : ~(<<y, x>> \in R)
        BY <1>1, <2>2, <3>1, WFMin
      <3>4. \A y \in ids : ~(y < x)
        BY <2>2, <3>2, <3>3
      <3> QED
        BY <2>2, <3>3, <3>4
    <2> QED
      BY <2>1, <2>3 DEF NextId
  <1>2. IInv => DrainMayStep
    <2> SUFFICES ASSUME IInv, pc # "handler" PROVE DrainMayStep
      BY DEF DrainMayStep
    <2>1. pc \in {"drain", "wave", "call"} /\ waves \in Nat /\ MaxWaves \in Nat
      BY DEF IInv, TypeOK
    <2> QED
      BY <1>1, <2>1 DEF DrainMayStep
  <1> QED
    BY <1>2, Invariance, PTL
=============================================================================
