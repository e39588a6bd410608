# Verification of the Seer PVP battle simulation

The system plays turn-based battles between two robots, each with a team of up
to six pets. `BattleFsm` (`src/src/fsm/battleFsm.cpp`) is a state machine of
forty-two states that a control block (`src/src/fsm/iControlBlock.cpp`) runs on
a pool thread whenever a player's message has arrived. A `BattleContext` holds
everything a battle knows: the teams, the workspace of the round, the buckets
of registered effects, the event center, the rules in force.

This directory holds TLA+ models of that code, the configurations TLC checks
them with, and theorems about them that TLAPS proves.

## 1. Inventory

| Component | State | Operations | Hard behaviour | Correct when |
|---|---|---|---|---|
| Battle state machine (`battleFsm.cpp`, `battleFsm.h`, `state.h`) | `currentState`, the pets on stage, choices and collected operations, prompts, resolutions, paid skills, death marks | one handler per state, `operation`, `perform_switch`, `run`/`runInternal` | resubmitted, refused and half-stored operations; deaths and revivals in any state; states skipped after a death; events drained after the transition | each round is fought with what both sides chose, by the right pets, in the right order, and comes back to the players |
| Battle context (`battleContext.*`, `battleWorkspace.h`) | the fields above, buckets, rule center, event center | `need_input`, `generateState`, effect registration and execution, `init_battle` | per-round reset against per-battle state | a round starts clean of the last one |
| Timed effect buckets (`timed_bucket.*`, `continuousEffect.h`) | effects by timing point and side, a version per pet, a count of round effects per pet | register, execute, clean up, break, switch out | effects overwritten, expired, invalidated and counted by different paths | no effect outlives its rounds or its pet, and the count agrees with the bucket |
| Event center (`event_center.h`) | pending events, watchers with windows and versions, lists by type | emit, drain in at most eight waves, register, remove, clean up | watchers that emit, register and remove watchers, themselves included, while a list is walked | a watcher that is there sees an event once, in order, and only a chain of events without end is cut |
| Rule center (`rule_center.h`) | one vector of tickets (immunities, seals on skills, rules on hits, reflections), a count of round rules per source, the next handle | grant, revoke, ask and consume, tick, clean up, break, clear with a pet | refreshing by handle and by key; rules ended by counts, rounds, breaks and switches, each with its own expiry | a rule ends when its text says, a handle and a key name one rule, a break is decided by the right count |
| Control blocks (`iControlBlock.*`) | the battle that waits, the input buffer, a queue of inputs, step mode and breakpoints | `initialize_battle`, `wait_for_input`, `handle_message`, `route_and_run`, `async_write` | one reader thread against the runs of a pool; flags read under a lock and used after it | a message reaches the battle that waits for it, once, and no battle waits with its input queued |
| Primitives (`battle_primitives.*`, `shield_bank.h`, `damage_pipeline.*`) | hp, banks of shields and hoods, levels, resistances, elements and their views in the workspace | damage, heal, drain, kill, shields, changes of levels | shields that break, damage converted on immunity; every change of a level is made twice, on the pet and in the view | no damage is lost or counted twice, what the formula reads is the pet on stage's, each loss is announced |
| Skills (`skills.*`) | power points, locks | `skill_usable`, `query_selectable`, `execute`, `on_selected` | three places decide whether a skill may be used | they agree |
| Soul marks (`soul_mark_manager.*`, `soul_mark.h`) | programs and hooks by mark, effects in the bucket, signals, updaters | load, activate and deactivate with entering and leaving, refresh at the end of the round | marks of the bench, shared marks, breaks that silence a mark until it is refreshed | a mark works exactly while its scope says |
| Abnormal states and resistance (`abnormal-system/`, `apply_anomaly`) | the round in which each state of a side is over, conversions | apply, bounce, resist, convert, cure, leave behind | wards asked in an order, a bounce that calls the application again, states stored by side | states are the pet's own, the longer one stands, watchers and effects are told the truth |
| Thread pools (`thread_pool/`) | task queues | post, run, stop | posting during stop | no task lost or run twice |
| Server (`server.*`) | acceptor | accept, hand over | | I/O, not modelled |
| Data loading (`db/`, `pet_factory`, `effect_unit_*`) | catalogues | parse, query | | input of a battle, not modelled |
| Plugins (`plugin/`, `core_api`, `dynamic_library`) | function tables | load, resolve | | linkage, not modelled |
| `tools/training_cli.cpp` | | a client | | not modelled |

How they interact. A control block fills `m_buffer` and runs the machine; the
machine's handlers execute the buckets of their timing point; effects call
primitives; primitives change hp and emit events; the event center delivers
the events to watchers after each handler; watchers call primitives again.
When `need_input` holds the machine returns and the control block waits for a
message. One mutex per battle (`run_mutex`) serialises all of this.

## 2. Plan

Done, in this order, the core of the system first:

1. `BattleFsm` with its abstract specification `BattleRound` and its proofs.
2. `TimedBucket` and `RoundEffects`: effects, versions and counts, with proofs.
3. `RuleCenter`: the rules skills and effects ask, with proofs.
4. `EventCenter`: watchers during a drain, liveness of the drain, with proofs.
5. `ControlBlock`: both control blocks with the reader and the pool, liveness
   of the queue, with proofs.
6. `SoulMarks` over `TimedBucket`, with proofs.
7. `Strikes` and `Levels`: damage, banks, healing; levels and views; both with
   proofs.
8. `Anomalies`: abnormal states, with proofs.

Left, in the order of what they would add: counts of power points, the
selection effects of a skill composed with the choices of `BattleFsm`, and the
transformation of skills; a composition of `ControlBlock` with `BattleFsm` in
place of its three phases; growing and stopping a thread pool.

## 3. Modules

### BattleFsm

One step is one iteration of `runInternal`: the handler of `currentState`, its
bucket, all it changes and its transition. `Drain` is the delivery of the
events the handler left, which nothing can come before. `Submit` is the control
block filling the buffer of a battle that waits.

| TLA+ | Code |
|---|---|
| `currentState`, `Successor` | `BattleContext::currentState`, `kLinearStateOrder` |
| `onStage`, `hp` | `on_stage`, `elfPets[..].hp` |
| `roundChoice`, `operation_collected`, `current_player_id` | the fields of the same names |
| `m_buffer`, `is_empty` | one decoded message; its kind and argument are integers of the client: `NO_CHOICE` is (-1, -1), what an empty `roundChoice` holds, `UNKNOWN` any other kind that is no `ActionType`; `Short` is any buffer of at most twelve bytes |
| `preemptive_right`, `resolution`, `pp_consumed` | the workspace's right to move first, the result of `Skills::execute`, `skill_pp_cost_consumed` |
| `death_notified`, `events` | the fields; events carry the state they were emitted in |
| `agreed`, `chosenBy`, `notices` | history: the operation the battle last accepted, the pet on stage when a choice was stored, the deaths announced since the pet came on stage |

Abstractions. A bucket may have effects at the timing points of `EffectStates`,
and watchers react to the events of `WatchedEvents`; what they do is any new hp
of the two pets on stage, healing and reviving included. The damage of an
attack, poison, control, whether a skill has power points and whether it hits
are choices of the step that reads them. Pets are not locked: nothing in the
sources locks one.

### BattleRound

What a battle promises about a round: nobody acts before both have answered, a
side acts at most once and the first mover never after the other, a side that
chose no skill does not act, replacements come after the actions, and a round
starts with no choice. `BattleFsm` implements it (`ImplementsRound`) under the
mapping at its end, which is checked by `FsmRound` and proved.

### TimedBucket and RoundEffects

`TimedBucket` holds the operations of a bucket and of an effect as operators.
`RoundEffects` is the life of one side's effects: the sides share nothing but
the break, which comes from the other one (`break_round_effects`).

| TLA+ | Code |
|---|---|
| `buckets` | `soul_mark_effects`, `skills_effects`: a set of effects in which trigger and key are unique, and `active_round_count_` |
| `pending_effects` | the `FutureTrigger`s that registered a branch for later |
| `round_effect_valid_id`, `roundCount`, `second` | the version of the side, the round, `is_second_mover` |
| `stage`, `cursor`, `once_keys`, `began` | how far `execute_registered_actions` and `TimedBucket::execute_at` are |
| `counter` | the static counter of `timed_effect_key`, which all battles share |
| `on_selected`, `register_branch`, `grant_guaranteed_first`, `PluginRegister` | the ways effects are registered |
| `break_round_effects`, `invalidate_on_stage_effects`, `cleanup_expired_effects` | the ways they end |
| `uid`, `serial`, `doomed`, `ranNow`, `spent` | history: tells registrations apart, which were invalidated, ran in this round, ran once and for all |

A walk calls one effect per step (`Visit`), because the function of an effect
registers and breaks effects while the walk goes on; every registering action
may therefore fall between two visits. A round is cut to five timing points,
the fewest that separate selection, the settling of who moves first, the moves,
the reduction of rounds and what follows it. `Race` is another battle's use of
the shared counter between its read and its write. Registering over the effect
that is being called is left out (`Replaceable`): its function would be
destroyed while it runs, and what happens then the build decides.

### RuleCenter

| TLA+ | Code |
|---|---|
| `all_` | the vector of tickets; `place` orders it |
| `round_count_`, `next_source_id_` | the fields of the same names |
| `round_effect_valid_id`, `on_stage`, `roundCount`, `currentState` | what the rules read of the battle; `FIGHT` and `END` are before and after the reduction of rounds |
| `grant_immune`, `grant_seal`, `grant_hit_invalid`, `grant_reflect`, `revoke_immunity` | the grants with the primitives that call them |
| `UseSkill`, `query_usage` | the gate of a skill: a miss, what pierces, `notify`, then the rule on the hit |
| `block_damage`, `apply_anomaly` | immunities that answer and lose a count |
| `break_round_effects`, `perform_switch`, `Reduce`, `advanceRound` | what ends rules |
| `emitted` | the handles of the armour events of the step |
| `handles`, `grants`, `ends`, `benched` | history: handles returned, number of grants, the reduction that ends a rule, whether its pet was away when it was granted |

What an immunity covers (bits of timing points, mask of statuses) is a set of
threats. A condition of a seal may hold or fail at each question. The contract
that a seal has counts or rounds and not both (`battleContext.h:338`) is
`SealsAssumption`; `CountInStep` needs it. Questions that change nothing are
operators of the actions that ask them.

### EventCenter

| TLA+ | Code |
|---|---|
| `watchers`, `by_type`, `pending`, `next_id` | the map of watchers, the lists of ids by type, `pending_`, `next_id_` |
| `watcher_valid_id`, `roundCount` | the version a switch raises, the round |
| `wave`, `waves`, `ids`, `running`, `pc` | where `drain` is: the rest of the wave, the waves taken, the rest of the copied list, the watcher whose function runs |
| `emit`, `register_watcher`, `register_break_callback`, `remove_watcher` | what a handler or a watcher does (`Act`) |
| `StartDrain`, `TakeWave`, `DeliverEvent`, `SkipWatcher`, `CallWatcher`, `Return` | `drain`, cut at each call of a watcher |
| `Switch`, `cleanup`, `advanceRound` | what else changes watchers |
| `depth` of an event, `spent`, `present`, `called` | history: length of the chain an event ends, once watchers called, who was there when a delivery began, who was called |

A list of ids is the set of them: ids grow, and erasing keeps the order. What
an event carries beside its type and its target is left out.

### ControlBlock

One model has both blocks; `training` says which. A step is what one thread
does before the other can see or change anything it depends on: the reader
handles a message (`Receive`, `Route`), and in `route_and_run` looks at the
waiting flag under the lock (`CheckWaiting`), writes the buffer (`WriteInput`)
and clears the flag (`ClearWaiting`) in three steps; a run of the pool takes the
run mutex (`StartRun`), asks (`AskForInput`), waits or takes from the queue
(`WaitForInput`), fills the buffer (`Dispatch`), or works on (`Decode`,
`Advance`).

| TLA+ | Code |
|---|---|
| `pending`, `waiting`, `m_buffer`, `is_empty` | `pending_inputs_`, `waiting_uuid_`, the fields of the context |
| `short` | inputs of at most twelve bytes: any input that comes into the buffer may be one, as nothing on the way looks at its size (`FillBuffer`) |
| `posted`, `runner`, `single`, `held` | runs in the pool, where the one that holds `run_mutex` is, its `single_shot`, an input taken from the queue |
| `phase`, `current`, `collected` | the battle: it asks for an operation, for a replacement, or for nothing |
| `stepMode`, `breakpoints` | the debugger of the training block |
| `queued`, `consumed`, `halted` | history: inputs put in the queue and decoded, a run left after one state |

A block holds one battle, as `INIT_BATTLE` refuses a second. The battle is cut
to when it asks and whom it prompts. The text of messages, the commands that
only show or load, and the sockets are left out; a read error ends a loop.

### SoulMarks

| TLA+ | Code |
|---|---|
| `pending_libs`, `program_cache`, `hooks_cache` | `SoulMarkManager`'s libraries and caches; a library may register hooks without a program |
| `soul_mark_effects`, `updater_effects`, `round_effect_valid_id` | the bucket of marks, the updaters, the version of the side |
| `signals` | the signals early nodes set |
| `currentState`, `executed` | seven timing points of a round and whether the bucket of this one has run |
| `LoadLibrary`, `StartBattle`, `perform_switch`, `Execute`, `Break`, `Die`, `CompleteRound` | loading, `activate_soul_mark` for all pets, switches and replacements, the walk, a broken round, a death, the updaters |
| `entered`, `unmatched`, `broken` | history: marks whose `on_enter` ran and `on_exit` did not, exits without entry, whether this round was broken |

The sides share nothing of this, so a model is one side. A walk is one step
here: what a walk does when its effects change the bucket is `RoundEffects`.

### Strikes

| TLA+ | Code |
|---|---|
| `hp`, `bank`, `blocks` | hp, the banks of shields and hoods, counted immunities against attacks |
| `standing` | what effects have set: pink immunity and conversion, resistances, immunity against attacks for a window or for ever, reductions, blocks of recovery, suppressed categories, boosts |
| `Attack` | `DamagePipeline` from the raw damage to hp: boosts, reductions, immunities, shields; its `kind` and `red` are `isFixed`, `isTrueDamage` and `isRed`, which effects may set |
| `Arriving` | what of an attack reaches banks and hp: all of it, unless it is fixed damage, which resistance answers |
| `deal_pink_damage`, `drain_hp`, `drain_hp_amount`, `heal`, `heal_amount`, `kill`, `use_medicine`, `SettleAbnormalDamage` | the primitives and the two other writers of hp |
| `Absorb`, `Ticked`, `Total` | the loops of `ShieldBank` over the slots of a bank, as functions on the number of passes made or of slots visited |
| `last` | history: the operation, its target, its amount and the events it left; no state of the run is told apart by it |

The two sides are those of `Sides`, which `Levels` shares.

### Levels

| TLA+ | Code |
|---|---|
| `levels` | `ElfPet::levels` of every pet |
| `view_levels`, `resist_view`, `element_view`, `bound_slot` | the views of the pet on stage the formula reads, and `elf_element_view_bound_slot` |
| `Sync`, `RoundStart`, `perform_switch` | `sync_workspace_from_on_stage` and its three callers |
| `stat_change` ... `stat_boost_reversal` | the eight primitives |
| `medicine_clears_drops`, `BuffResistance`, `ChangeElements`, `ChangeImmunity` | what else writes levels and views |

Its specification is `LevelsSpec`, its types `LevelsTypeOK`: `Primitives_proofs`
extends `Strikes` too.

### Anomalies

| TLA+ | Code |
|---|---|
| `abnormal_status_end_round`, `anomaly_conversion` | the fields of the same names; a conversion that is not set leads to the state itself |
| `Defeated`, `Stopped`, `Bounced`, `Resisted`, `Applied` | the five ways `apply_anomaly` ends; the bounce is its second call, at depth 1 |
| `Take`, `Longer`, `Result`, `Told` | its steps 6 to 8, the answer and `emit_anomaly_events` |
| `perform_switch`, `use_medicine`, `Falls`, `advanceRound` | what clears states or lets them end |
| `afflicted`, `converting`, `last` | history: for which pets entries were written, what the last step answered, told and spent |

Whether a ward holds and whether its bearer reflects are choices of the step:
they are the answers of `RuleCenter`, at any timing point. Resistance is a
throw.

## 4. Runs

| Run | Question | Instance |
|---|---|---|
| `FsmRound` | the agreed operation is fought with, prompts, payments, refinement of `BattleRound`, and that the machine comes back to the players, spins excepted that are named | one pet per robot, two hp, seven timing points with effects, three watched events, fairness of `run()`: 375 thousand states |
| `FsmSwitch` | choices against pets on stage, one notice per death, selection sends no dead pet | two pets per robot each dead or alive, one hp, one skill of unlimited power points: 524 thousand states |
| `FsmAgreed` | refuted: a refused operation leaves no trace | one pet, one skill of unlimited power points |
| `EffectRounds` | nothing expired is left over, the count against the bucket | two effects of one or two rounds or for ever, triggers that wait two rounds, granted first moves, two breaks, four rounds, two of the timing points: 4.5 million states |
| `EffectWalks` | a walk skips nothing, repeats nothing and sees a break at once | three effects of skills and plugins, one pending trigger, one break, two rounds, races for the counter: 2.6 million states |
| `RuleGrants` | counts, handles and keys, ends, versions and departures of rules | two grants out of two immunities, two seals, one rule on hits and one reflection, by either side, on or off stage; one break or switch per side; two rounds: 154 thousand states |
| `Events` | who is called and how often, who is missed, what is cut, and that a drain ends | two types, two watchers, two events in the queue, a limit of two waves, one switch a side: 1.4 million states |
| `ControlRuns` | no lost wake-up, no deaf battle, no lost, overwritten or reordered input, and that queues drain and inputs are decoded | both blocks, eight kinds of message, four messages, one write and two posted runs, any input short: 255 thousand states |
| `SoulMarks` | who acts and whose signals are set, what is ready when the players choose, exits after entries | four pets, two with one mark and one with a hooked mark of the old kind; four libraries in any order; three rounds, four breaks and switches: 732 thousand states |
| `Strikes` | types, attacks are accounted for and banks spent before hp, losses are announced, blocks of recovery and of attacks hold | two hp, four standings that between them set everything, attacks of all three kinds, red or not, two shields on one side: 35 thousand states |
| `Levels` | views, resistances and elements are the staged pet's own; levels of the bench and of immune sides | two pets per side, one level up or down of one stat, drops of two: 177 thousand states |
| `Anomalies` | states are the pet's own, the longer stands, answers are true of wards, bounces and conversions, watchers hear of what begins or grows longer | fear and the immunity of a resistance, lengths of one round and thrown ones, a conversion, two pets per side, two rounds: 86 thousand states |

Bounds. Two sides are the code's own bound. Two hp tell a wound from a death;
two slots make every case of switching (to itself, to a living, to a dead pet);
`Index` holds one integer more than there are skills so that an argument can be
out of range. A side's choices do not depend on more slots: each operation
looks at one slot and at the one on stage. Three rounds let an effect of two
rounds that starts a round late expire, and the fourth tells one that a trigger
registered late from one that was forgotten; two breaks are enough for a
registration between them. Two rules are the most a property of `RuleCenter`
relates, and its theorems hold for any number of grants. Two waves instead of
eight reach the limit with two watchers; four messages let two inputs be queued
while a third is decoded; one level is as good as six for what is copied, capped
or reversed, and a drop of two passes the cap. Two states suffice in `Anomalies`:
an application looks at one state and at what it becomes. Four slots are what
`SoulMarks` needs for a mark that is shared, one that is not and one of the old
kind with somebody else on stage.

Fairness. `FairSpec` of the machine assumes that it keeps stepping while it does
not wait: `run()` is a loop on one thread that returns only when `need_input`
holds or the battle is finished. `EventCenter` assumes that a drain goes on and
a watcher's function returns (`WF_vars(Drain)`): it is one loop on that thread;
nothing is assumed of what watchers do, and `DrainEnds` holds because the code
counts waves. `ControlBlock` assumes that the pool runs what is posted
(`WF_vars(RunStep)`) and that the reader finishes a message it has begun
(`WF_vars(RouteStep)`): neither waits for anything outside the process between
its steps. No player is assumed ever to send anything. The other specifications
state no fairness: their properties are safety properties.

Deadlock is checked but in two runs, `ControlRuns` and `SoulMarks`, whose bounds
on messages and on rounds end every behaviour. `VIEW` in `Strikes` and
`Anomalies` leaves the history variable `last` out of what tells states apart,
`SwitchView` in `FsmSwitch` `agreed`, `pp_consumed` and `current_player_id`, which
no guard reads and none of the properties of `FsmSwitch`, and the first mover and
the resolved skills where no action reads them before they are set anew: the first
mover is read from `BATTLE_FIRST_ACTION_START` to the end of the second action, a
resolved skill up to the payment of its mover.

## 5. Proofs

Every listed theorem is of the form `Spec => []Inv` or `Spec => [][A]_vars`, or says that
a specification implements another (`ImplementsRoundCorrect`), for every value of
the constants the assumptions of the modules allow.

`BattleFsm_proofs` proves `TypeCorrect == Spec => []TypeOK`, one lemma per
action, and then, for every team, number of skills and hp, any effects and any
watchers:

* `BothSidesAnsweredCorrect`, `ChoiceMatchesStageCorrect`,
  `PromptsAPendingSideCorrect` from `SelectionInv`: a collected operation is
  one, with no choice only if the request accepted was the empty one (-1, -1); a
  fight has two; the prompted side of a selection has none; from the selection to
  the end of the fight a choice belongs to the pet on stage. The properties alone
  are not inductive: the second acceptance relies on what was stored with the
  first.
* `FightsAsAgreedCorrect`, under `UnlimitedPP = {}`, from `AgreedInv`. The run
  `FsmAgreed` shows that the assumption is needed.
* `DeathNoticeOnceCorrect` from `NoticeInv`: the notices of a side are counted
  by its mark.
* `ResolvedSkillsArePaidCorrect` from `PayInv`: a mover is paying from the
  resolution of its skill to the end of its action, and has chosen a skill; every
  other side is settled, whichever states a death or a control skips.
* `SelectionSwitchesToTheLivingCorrect` from `SelectionInv`: a request that
  passes for accepted equals a choice that was stored for the pet on stage, and
  a stored choice of a pet is of the one that came on stage with it.
* `ImplementsRoundCorrect`, the refinement of `BattleRound`: the initial states
  map to one another, and each kind of step maps to a step of the round or to a
  stutter. It uses `SelectionInv` (who acts has chosen), `PayInv` (with a skill)
  and `ActedInv`: no skill of this round is resolved before the first mover's
  turn, and the second mover's not before its own.

The argument is the same throughout: `QuietSteps` shows that all but five kinds
of step leave choices, places and collections alone and enter neither the
selection nor the fight; each invariant then concerns those five. `CalmSteps` and `AsideSteps` do the same
for what is resolved and paid.

`RoundEffects_proofs` proves, for any sources, rounds, plugins, triggers and
races, from `IInv`: registrations are numbered, trigger and key are unique, no
effect carries a version that is still to come, what an effect has run in this
round lies behind the cursor, a once effect that has run is marked for erasure,
and everything behind the cursor that was registered before the walk and lives
has run. `WalkSkipsNothing`, `BrokenNeverRuns`, `OncePerRound` and
`OnceRunsOnce` follow. Three theorems add to it: `LeftoversHold` (a trigger
registers effects with the start it had, so an effect may be over when it comes,
and `Brief` bounds by how much: whoever is past its rounds has a trigger that
may still be waiting), `CountCoversBucket` and `CountWithinBucket` by counting both sides of
each registration, clean-up and erasure, and `UnsourcedStayHolds` under
`Races = FALSE`: with another battle in the process a key of the static counter
may come twice.

`RuleCenter_proofs` proves all that `RuleGrants` checks for any teams,
effects, grants and bounds, from one `IInv`: tickets are finite; each is well by
itself (`Well`: rounds left and reductions so far add up to its end, an
immunity in its last round is gone after the reduction, slot and version are
those of its source); a handle is of an immunity that was given one or of a
seal that was not (`Handled`); handles and keys are unique; the counts agree.
Most steps change tickets in one of four ways, a lemma each: some go
(`SubsetKeeps`), some lose a count (`SpendKeeps`), each is mapped to the same
rule (`MappedKeeps`), one is added or refreshed (`AddKeeps`, `RefreshKeeps`).
The counts survive the steps that do not count again because what they take is
an immunity or has counts and hence no rounds.

`EventCenter_proofs` proves everything `Events` checks but `DrainEnds`, and besides
that the lists and the map of watchers agree (`MapsAgree`) and that what a
watcher emits is delivered in the next wave (`WavesAreDepths`), for any number of
watchers, events and waves, from `IInv`: types; the lists agree with
the map; ids are given once (`IdsAreFresh`); what a drain holds it holds only in
its places (`Places`); the rest of the copied list lies above whoever was called
and below the next id (`WalkGoesUp`). That the list was copied is what makes
`NobodyMissed` inductive: registrations and removals change `by_type` and never
`ids`.

`ControlBlock_proofs` proves everything `ControlRuns` checks but `InputGetsThrough`, for any
kinds and numbers of messages, writes and runs. The type invariant, `NoLostWakeup`,
`AskingBattleListens` and `InputNotOverwritten` follow from `AwakeInv`: a run that has begun ends in a
place from which another one comes or the battle waits (`RunsEnd`), and a full
buffer has been seen by a run or will be (`FullIsSeen`). Each step of one thread
is shown not to spoil what the other has read. `QueuedIntact` follows from
`IntactInv`: along the way from the queue through a worker's hand and the buffer
to what was decoded, whoever is ahead was queued earlier (`OrderInv`), and nothing
queued has left that way before an input that was not queued is decoded or lies
in the buffer (`KeptInv`).

`SoulMarks_proofs` proves types and everything `SoulMarks` checks, for any team,
libraries and programs. `SoulInv` adds that a
node has one place in the bucket (`OnePlace`) and that no effect carries a
version still to come (`Stamped`); `ReadyInv` adds that the updaters of all
living marks are there (`Updated`) and that, while the players choose, what is
owed is live (`Owed`). `ExitsMatched` follows from `EntersInv`: nobody dies or
leaves before the marks are activated, and from then on the mark of the pet on
stage has entered if it has a program and hooks, so whoever is told to leave
without that has no program. It assumes nothing of the libraries.

`Primitives_proofs` proves everything `Levels` checks, for any caps, stats, pets
and steps. The primitives are reduced to one lemma on `Write` and one on the
transfer; both views are changed by the same function as the levels, and a
step that bases the views anew establishes what it cannot preserve.

It proves everything `Strikes` checks too, for any banks, amounts, shields and
standing. `TypeOK` is inductive: hp stay within the maximum, no shield is empty
and none exceeds its capacity. Each action property follows from it, because a
step strikes one side (`StruckBy`) or none (`StepStrikesOrNot`). What is hard is
what a loop has done: the functions `Absorb`, `Ticked` and `Total` are defined
by recursion on a number, and what they compute for every bank is shown by
induction on it. The library's induction theorems cannot be used here, as they take an
operator; `LeastNatural` and `CountingUp` state over sets what is needed of them
(a non-empty set of naturals has a least member; a set that holds 0 and is
closed under successors up to n holds all to n), and `RecursionOnIndices` gives
such a function its equations. From there: one pass takes from the best
slot what it can (`AbsorbOnceFacts`), changing or removing a slot changes the
total by as much (`TotalOfChanged`, `TotalOfRemoved`), and so the
loop takes from the bank what it takes off the damage and leaves damage only
with an empty bank (`AbsorbFacts`). `LandedFacts` adds up the banks and hp for
damage of any kind, `DealFacts` what resistance takes before, and the pipeline
hands it on (`PipelineFacts`).

`Anomalies_proofs` proves all that `Anomalies` checks, and `DeadStayClean`. Every application is shown to be one write at most, on a
living pet, that shortens nothing but what a resistance sets (`OneWrite`), the
bounce included; `Own` says that entries other than 0 were written for the pet
on stage. `AnswersAreTrue` goes by the five ways an application ends (`Ends`), and
adds that it concerns one side (`OneSide`); `ToldOfChanges`, which is about states
that begin or grow longer and not about those a medicine or a switch ends, by
what is told at each of them (`ToldTruly`).

Of the three liveness properties, the part that is safety is proved: a measure that
goes down with every step of the fair action, in a lexicographic order of naturals
that is shown well-founded (`FewerEnds` in each module), and that the
action is not stuck before it should be.

* `DrainEnds`: `DrainGoesDown` (waves still allowed, events of this wave, the
  place in the delivery, watchers to call, the call under way; what watchers do
  meanwhile leaves all five alone) and `DrainIsNotStuck`.
* `ComesBackToThePlayers`: `TurnShrinksCorrect` (a full buffer, handlers from here to
  the selection, events to deliver), `TurnMayStepCorrect`, and for the exception:
  `SpinsForAReasonCorrect` says when the machine spins with an empty buffer
  and `SpinsForEverCorrect` that it then does nothing else. From
  `InputInvariance`: an input is only where it is read.
* `InputGetsThrough`: `InputsGoDown` (a message the reader carries, the queue, the
  worker's hand, the buffer, the phase to pass, the runs to begin, the run that has
  begun) and `NothingLeftAtRest`. Its exception is the run over an input too short,
  which repeats itself.

That such a measure and such guards make the property true needs the fairness of
`Spec` and `ENABLED`, and the guards are written out instead of `ENABLED`: this last
step is out of the prover's reach and is what the runs check.

Checked by a run and not proved: these three, `ComesBackToThePlayers`, `DrainEnds`
and `InputGetsThrough`. Every safety property a passing run
checks is proved. Two theorems have a hypothesis on the constants, and need it:
`FightsAsAgreedCorrect` (`UnlimitedPP = {}`) and `UnsourcedStayHolds`
(`Races = FALSE`).

Proved and checked by no run: the type invariants of all modules but `Strikes`,
`BothSidesAnswered`, `UnsourcedStay`, `IndexAgrees`, `WaveIsDepth`,
`DeadStayClean`, and `DrainShrinks`, `DrainMayStep`, `TurnShrinks`, `TurnMayStep`,
`SpinsForAReason`, `SpinsForEver`, `InputsShrink` and `RestIsThrough`. Several of the checked properties are conjunctions of parts
that are proved each by itself (`CountFitsBucket`, `NeverRunsTwice`,
`TicketsUnique`, `RulesFollowPet`, `CallsAsRegistered`, `BenchIsSilent`,
`ViewsAreOwn`, `LevelsAreGuarded`).

## 6. What the sources say and the code does not do

Checked: `FsmAgreed` (see `findings` in `PROJECT.json`). A skill that
`query_selectable` refuses is already stored, and replaces the operation the
side had agreed to, if the player does not choose again.

Met while modelling. The models do what the code does, and no property demands
otherwise:

The state machine
* Events are drained after the handler has advanced `currentState`, although
  `battleFsm.cpp:735` says they are delivered before the next state.
* An announced dead pet stays on stage if the message for its replacement names
  its own slot or the other side, or if two died (`battleFsm.cpp:1449`), although
  line 1405 says it is forcibly replaced.
* A buffer of at most twelve bytes is neither answered nor cleared
  (`battleFsm.cpp:887`), although line 888 says an error is sent at once: `run()`
  spins. `ComesBackToThePlayers` names this as its exception, `InputGetsThrough`
  too. Both blocks take inputs of any size (`iControlBlock.cpp:391`, `:429`,
  `:697`; the battle block even `SYNC_STATE`, for which it has no case, at
  `:678`), and in the training block the rest of the queue stays behind such an
  input.
* The request (-1, -1) equals the choice of a side that has made none. It is
  stored by no case of `operation()` (`battleFsm.cpp:784`), passes for accepted
  (`:913-915`) and is collected (`:944`): the side goes into the fight without a
  choice. `BothSidesAnswered` names it as its exception.
* No transition leads to `FINISHED`.
* A switch or a replacement of one side bases the views of both
  (`battleFsm.cpp:271`) and so wipes a temporary resistance of the other.

Effects
* The count of a bucket leaves the number of its round effects after an
  invalidation and a once effect (`timed_bucket.h:94`, `:123`), which can make a
  break do nothing or find something that is not there. `CountFitsBucket` says
  how far it may be trusted.
* An effect that is to start next round (`battleContext.h:384`) runs in this one:
  `isExpired` (`continuousEffect.h:76`) does not look at a start in the future.
* A trigger keeps the start of an effect it may register rounds later
  (`skills.cpp:816`), so the effect may be over when it comes.
* A side that changes its selection leaves the selection effects of the skill it
  no longer uses registered (`skills.cpp:424`).
* A first move granted before the point of the right to move works in the same
  round (`battle_primitives.cpp:630`).

Rules
* A miss spends armours that respond and tells nobody (`skills.cpp:489`, against
  line 522).
* `consume_immune` skips the window entry `is_immune` answered with and takes a
  count of the next; its comment says this is meant, `docs/` says the opposite
  elsewhere.
* A reflection of 0 rounds is no round rule and ends with a switch only;
  `clear_round_type` ends the rules of the team too.

Events
* A watcher bound to the pet on stage is called between its pet's switch and the
  clean-up at the end of the round (`event_center.h:83` says it is void): the drain
  is given no versions (`battleFsm.cpp:737`). `NobodyMissed` neither asks for that
  call nor forbids it.
* A compensation for a break is used up by a break of the other side, which its
  own filter rejects (`battleContext.cpp:348`).

Control blocks
* Step mode and breakpoints are read once per run: one set later does not stop
  the run under way (`battleFsm.cpp:694`).
* The time limit of the battle block (`iControlBlock.h:179`) does not exist.

Soul marks
* A mark without a program that has hooks (`plugin_interface.h:92` lets a library
  register them alone) is told to leave and never to enter: `activate_soul_mark`
  calls `on_enter` for programs only (`soul_mark_manager.cpp:360`), though
  `plugin_interface.h:55` promises it at every entry. `ExitsFollowEnters` asks its
  order of marks with a program.
* A mark of the old kind has no updater: a broken round silences it until its
  pet enters again. Entries of the roster that are not once stay live when the
  last pet with the mark dies (`soul_mark_manager.cpp:298`).
* `on_enter` runs for marks of the bench at the start and again at their entry.

Damage
* `drain_hp` takes its maximum from `numericalProperties[HP]`, to which `hp` is a
  reference (`battle_primitives.cpp:694`, `elf-pet.h:182`): it is the current hp,
  so each drain takes a share of what the one before left.
* A drain restores its amount although hoods or resistance took the damage.
* No code of the battle calls `ShieldBank::tick_duration`.

Abnormal states
* The condition `TargetHasAnomaly` counts states that are over
  (`effect_unit.cpp:75` compares the end with 0, and nothing sweeps ends).
* Nothing asks whether the immunity of a resistance (21) stands. The
  replacement of one control by another that `battle_primitives.cpp:44`
  announces is not there, and `REPLACED_EXISTING` is never answered.
* A resistance that works sets the immunity to two rounds even if more were
  left: the one way a state becomes shorter, and excepted in `LongerStands`.
* `anomaly_result_to_branch` takes a conversion for an invalid call, where
  `try_apply_anomaly` takes it for a success.

## 7. Not modelled

Data loading, the linkage of plugins, the server's accept loop and the training
client are input, linkage and I/O: nothing in them interleaves with a battle.
The damage formula, hit and critical rolls and the contents of effects are
choices of the steps that use them. Of skills, whether one may be used is a
choice: counts of power points, replacements of skills and the effects
registered at the selection are not modelled. Of the thread pools, only that a
posted task runs once, on any thread, is used.

The modules share no state: each has the switches, breaks, deaths and rounds of
`BattleFsm` as actions of its own, in every order the machine may produce and
more. So their safety properties hold in the machine; that the machine produces
every such order is not claimed.
