# Forge 2.0: TLA+ models, checks and proofs

Forge 2.0 is a rules engine for Magic: The Gathering in Rust. `forge-core` keeps
the whole game in one `GameState` and changes it only through `apply(state,
action)`; `forge-cards` interprets compiled card programs into such actions;
`forge-game-runner` drives a game, asking AI or human players for their choices;
`forge-ai` picks among legal choices from a player's redacted view. A game is
sequential and deterministic from a seed; only the AI's search runs threads.
What is hard is mostly *protocol*: some forty handlers share a handful of fields
(priority holder, pass count, deferred grant, pending triggers, combat, outcome),
every handler must leave them in step with one another, and the driver, which
keeps tables of its own beside the kernel's state, must call the handlers in an
order and with arguments the kernel accepts, for every interleaving of players'
choices.

The models cover the turn, step and priority machine and the driver loop
composed with it; zones, hidden knowledge and the opening; spells, triggers and
the event log; continuous effects, replacement effects and combat damage; mana
and payment; and the AI's parallel search.

## 1. Inventory

### Components

| Component | State it keeps | Operations | What makes it correct |
| --- | --- | --- | --- |
| Turn, step and priority machine (`forge-core/src/lib.rs`) | turn, active player, step, `priority_player`, `priority_pass_count`, `deferred_priority_player`, cleanup flags, stack entries | `start_turn`, `advance_step`, `pass_priority`, cast, activate, play a land, counter, copy | one holder at a time; the stack resolves only after everybody passed in succession; somebody can always act; turns end settled |
| Triggered-ability queue (`forge-core`) | subscriptions, pending instances | register, unregister, queue on an event, put on the stack | nothing lost or doubled; APNAP order; delayed-once triggers fire once |
| Combat (`forge-core`) | attackers, blockers, who declared, damage sub-step, first-strike participants | declare attackers and blockers, divide and assign damage, remove from combat | blocks before damage; only battlefield creatures fight; nobody strikes twice; the driver offers exactly the divisions the kernel accepts |
| State-based actions and outcome (`forge-core`) | lost players, outcome, empty-library draws | perform to fixpoint, concede, recompute outcome | performed before anybody gets priority; a finished game stops |
| Replacement and prevention effects (`forge-core`) | registered effects, choice orders | register, order, apply to an event | each at most once per event, in the order the affected player chose |
| Continuous effects and layers (`forge-core`) | effects with timestamps and dependencies, counters | register, expire, `object_characteristics` | layer, dependency and timestamp order; effects and damage wear off together |
| Zones and hidden information (`forge-core`) | ordered zones, `known_objects` | move, draw, shuffle, reveal, scry, surveil, discard, token creation, `player_view` | objects conserved; a view shows what its player may know, no more and no less |
| Opening (`forge-core`, runner, `forge-ai` mulligan policy) | starting player, hands drawn, kept, mulligans | decide order, draw, mulligan, keep and bottom, first turn | mulligans are paid; nothing leaks; the opening ends |
| Event log and cursors (`forge-core`) | a ring of 1024 events of the turn, sequence numbers | append, reset, read from a cursor | a reader gets every event in order or is told of the gap |
| Targets and resolution (`forge-core`) | stack entries with target snapshots | capture, check, resolve, counter | card and entry move together; legal targets and no others are affected |
| Card runtime (`forge-cards`, runner) | programs, registered triggers per object, conditional triggers, the player a trigger is about | bind, register, resolve, retire | subscriptions are what the casts call for; the looked-up event is the right one |
| Mana, costs and payment (`forge-core`, runner) | pools, cost modifiers, commander tax | enumerate plans, search X, pay | what is offered is what is accepted; costs follow the board |
| Game driver (`forge-game-runner`) | owed choices, declared attacks, once-per-turn sets | `run_controlled` and what it dispatches | never asks what the kernel refuses; serves every combat step once; returns |
| Search engine (`forge-ai/src/search.rs`) | one tree per determinization, a deadline shared by the worker threads | search, grow, aggregate | evidence adds up; a fixed search is independent of its threads; there is always an answer |
| Commander rules, decision contexts and hash, AI players, arena, card compiler, porting tools, test kit, CLI, shells | | | see "What is not modelled" |

### How they interact

The runner calls `apply` and reads the `Outcome`; it never writes the state. A
handler that lets a player act ends in `grant_priority_to`, which performs
state-based actions, queues the triggers of all events emitted so far, and then
either gives priority or, while triggers wait, stores the player in
`deferred_priority_player`. The runner drains the queue with
`put_pending_triggered_abilities_on_stack`, and that grants priority to the
deferred player. When an entry resolves, the kernel gives priority at once, and
the runner then runs the entry's effects, immediately or, if choices are owed,
at the top of a later iteration of its loop. Card programs are bound to actions
by the runtime and dispatched one by one, so what happens between two of them
(state-based actions, the end of the game) matters. For a cast the runner
computes costs and payment plans, and for combat the divisions of damage, and the
kernel computes them again from its own state when it is asked to act. A policy
that searches hands a redacted view, determinized several times, to
`SearchEngine::search`, which starts worker threads and joins them.

### Hard behaviours

`PROJECT.json` lists each hazard at its line. In short: fields that must be
reset together (pass count and holder), grants put off and remembered, triggers
queued by the very step that drains them, events of one batch, removal from
combat by four different paths, two combat damage steps with one name, a cleanup
step that repeats, driver copies of kernel state, deferred resolutions, targets
that left before their effect, subscriptions that outlive their source, an event
looked up after the ring may have dropped it, replacement effects that change
each other's event, numbers that driver and kernel compute separately,
knowledge that must be dropped by a shuffle and kept by everything else,
mulligans interleaved, loops that must end, and threads that share a deadline.
There is no network and no persistence in this program, hence no crash, loss or
reordering of messages to model.

## 2. Modules

| Module | Role |
| --- | --- |
| `PriorityRound` | abstract specification: rounds of passes, a stack, steps |
| `Kernel` | the priority machine of `GameState`, one action per handler |
| `KernelProperties` | its invariants, action properties, refinement, fairness |
| `KernelProofs` | type correctness, then safety, for TLAPS |
| `PriorityRoundProofs` | the refinement of `PriorityRound`, for TLAPS |
| `KernelTriggerProofs` | what happens to triggers, for TLAPS |
| `GameRunner`, `GameRunnerProperties` | `run_controlled` over `Kernel`, and its properties |
| `GameRunnerProofs` | the driver as an implementation of `Kernel`, for TLAPS |
| `Zones`, `ZonesProperties` | zones, knowledge, opening, searches of libraries |
| `ZonesProofs` | conservation of objects, and that views show what was shown, for TLAPS |
| `Onlooker` | what a player at the table can really still name |
| `Selection`, `SelectionProofs` | the members of a sequence that are in a set, and facts about sequences |
| `EventLog` | the ring of events, cursors and their errors |
| `SpellStack` | the kernel's helpers for casting, targets, resolution and triggers |
| `CardRuntime`, `CardRuntimeProperties` | the driver's tables of triggers over `SpellStack` |
| `CardRuntimeProofs` | the log, the stack and the tables of triggers, for TLAPS |
| `Layers` | `object_characteristics` through the layers |
| `Damage` | damage, its replacement, and state-based actions |
| `CombatDamage`, `DamageProperties` | one combat, from the blocks to the cleanup step |
| `Payment`, `PaymentProperties` | pools, costs, plans and casts |
| `PaymentProofs` | costs, the largest X and the offers, for TLAPS |
| `Search`, `SearchProperties` | one decision of the search engine |
| `MCKernel`, `MCGameRunner`, `MCZones`, `MCOnlooker`, `MCCardRuntime`, `MCCombatDamage`, `MCPayment`, `MCSearch` | the constants of the runs |

`GameRunner` EXTENDS `Kernel`: each dispatch is a `Kernel` action conjoined with
what the driver changes. `KernelProperties` instantiates `PriorityRound` with a refinement
mapping. `GameRunner`, `Zones`, `EventLog` and `Payment` choose from sequences with `Selection`. `CardRuntime` EXTENDS `SpellStack` EXTENDS `EventLog`;
`CombatDamage` EXTENDS `Damage` EXTENDS `Layers`: in both chains the state is one
record that the kernel's helpers, pure operators, pass on in the order the code
calls them, and the last module turns them into steps. These chains, `Zones`,
`Payment` and `Search` share no variable with `Kernel`: they open up what `Kernel`
leaves to a free choice (which creature takes lethal damage, whether a cast is
paid, what a resolution does), and leave to `Kernel` who may act when.

### Kernel

Players are seats of the turn order. The variables follow the fields:

| TLA+ | `GameState` |
| --- | --- |
| `turn`, `active`, `step` | `turn_number`, `active_player`, `current_step` |
| `priority`, `passes`, `deferred` | `priority_player`, `priority_pass_count`, `deferred_priority_player` |
| `outcome`, `lost` | `outcome`, `PlayerState::lost` |
| `doomed`, `emptyDraw`, `dying` | life ≤ 0 or poison ≥ 10; `empty_library_draws_since_sba`; creatures that a state-based action will remove |
| `combat`, `attackersDeclared` | `CombatState`, `attackers_declared_this_combat` |
| `cleanupRequested`, `cleanupRepeat` | `cleanup_priority_requested`, `cleanup_repeat_pending` |
| `stack`, `subs`, `pending` | `stack_entries`, trigger subscriptions, pending triggers |

Life totals, costs and power are abstracted to the choices they lead to: which
players reach zero, which creatures take lethal damage, which one is sacrificed.
An event is its kind and its subject, a handler's events are a set, and a trigger
is subscribed to one kind. Every handler is an action with everything it calls:
`GrantPriorityTo` is state-based actions, queueing and the grant in one
(15223-15247 of the core), `AdvanceStepAfterEmptyStack` is the next step with
its turn-based actions. `RejectedPass` is the one handler that fails after it
changed state. `ResolveTop`, `LifeEffect` and their kin are what a resolution
and the effects that follow it do. Effects are allowed only between
resolutions (`EffectWindow`: no pass is counted), because the driver runs them
there; `GameRunner` checks that it does (`RunIsAKernelBehaviour`).

### GameRunner

`at` is the program point: the loop, the main-phase loops, the fixed baseline's
land, mana and cast, trigger registration after a cast, running effects, or
asking for blocks. `result` is what `run_controlled` returns, with the errors
told apart. `owed` stands for the `pending_*_resolution` fields, `attacks` for
`current_attacks`, `mainDone` to `damageDone` for the once-per-turn sets; `dealt`
is a history variable. A policy is a free choice, so what is checked holds of
heuristic, search, random and human players alike; the fixed baseline, which
does not ask what is legal, is the second policy.

### Zones

`zones` maps a zone to its sequence of objects, the top of a library last;
`known` is `known_objects`; `PlayerView(p)` is the set of identities that
`player_view` shows. Moves of cards by casting, resolving, paying and effects
are all `move_object`, hence `MoveObject`. The four search programs of compiled
cards run instruction by instruction (`todo`, `found`), as the runner dispatches
them. `events` keeps the reveal and shuffle events of the last action. In
`ZonesProperties` two history variables keep what each player has been shown, in
public zones, in their own hand or by a reveal: `seen` until the next shuffle of a
library that holds the card, `shown` until the next shuffle that could have hidden
it. They differ for a revealed card that is put on top of the shuffled rest, which the code
forgets and need not. Neither reads `known`, so holding the views between them checks the code's
bookkeeping per move against a rule. That rule, which is also the code's test's, unlearns
nothing without a shuffle; whether a player could still tell the card is another
question, and `Onlooker` asks it: `followed` also loses the
cards of a library from which somebody else takes one unseen. The run `PeekedTutor`
shows a view that names such a card. `followed` errs towards the
code elsewhere: moves by an effect count as in the open, and a scry as followed.

### EventLog, SpellStack and CardRuntime

A log is a record of the turn, the next sequence number and the ring;
`AppendEvent` drops the oldest record of a full ring, `CursorError` gives the
three errors of `events_since` in the code's order. `SpellStack` keeps in `game`
the zone of each card, the stack, the subscriptions, the pending triggers and the
log: `Cast` captures snapshots of the targets, `Resolution` checks them again,
`ResolveTop` pops the entry and moves its card, `Emit` appends an event and queues
what hears it. `CardRuntime` has the driver's tables: `registered` is
`triggers_registered_for`, `runtimes` the programs of registered triggers,
`conditional` is `conditional_cast_triggers`, `contexts` is
`triggering_players_by_stack_entry`. `CastProgram` is a cast with the
registrations that follow it, `ResolveEntry` a resolution with what
`handle_resolution` does (conditional triggers first, effects one action after
the other, each refused where it no longer fits), and `PutTriggersOnStack` the
drain with the look-up of the event each trigger is about.

`Programs` is what the card compiler accepts of the programs modelled. All moves of an
effect are bound before the first is dispatched (`Bound`), so a target that cannot
be moved fails the resolution with nothing moved. `ContextError` is what the look-up
returns: the ring no longer holds the event, or the event is not a draw. State-based
actions bury the dead one after the other, in any order.

Abstracted: events no modelled trigger or reader cares about; costs; libraries
(a draw is an event); the answer of an unless-paid choice, given at once;
deaths by state-based actions, a free choice among `Mortal` cards.
The history variable `strayed` in `CardRuntimeProperties` has the targets that left
the zone they were announced in; the rules make a card that comes back a new
object, the code does not (section 5), so `OnlyLegalTargetsAreAffected` demands an
effect on the targets that stayed and says nothing of those that came back. Copies,
flashback, regeneration and split second do not occur.

### Layers, Damage and CombatDamage

`Characteristics(g, o)` computes a permanent from its stored record, layer by
layer, each layer's effects chosen by what the object was before it
(`OrderedEffects`), counters after the modifying layer. `Damage` applies
replacement effects to one event (`ApplyReplacements`, with the chooser's order,
self-replacement first, one-shot effects spent), deals what is left with lifelink
and deathtouch as the code does, and repeats state-based actions at most
`SbaLimit` times. `CombatDamage` is one combat with one defender:
`BeginCombatDamageStep` picks the first-strike participants, `Profile` gives a
source's targets and total, `DriverDivisions` is what the driver's
step-by-step question can reach and `IsValid` the kernel's own check;
`AssignCombatDamage` is the handler with everything it calls. Between the damage
steps spells may register effects (`Charms`), replacement effects (`Wards`), deal
damage (`Burns`) or reorder a player's choices; each is the grant of priority
with its state-based actions and then the effect, in that order, as in the code.
`dealt` mirrors the damage events of the log. Planeswalkers, colours, text and
attack restrictions are left out; blocks are declared in one step.

### Payment

One player's pool, lands, spells and permanents that reduce costs. `Checked`
models `checked_add` and `checked_mul`: a set that is empty on overflow.
`EffectiveSpellCost` is tax and then each registered modifier whose source is in
play, `EnumeratePaymentPlans` the nested loops with their limit (`Earlier` is the
order in which the loops reach the payments, `FirstPayments` takes them up to the limit),
`MaximumAffordableX` the binary search, `CastAccepts` the kernel's recomputation
at the cast. Permanents enter and leave, and the commander returns, when they
like.

### Search

`search` is the configuration and the game searched, a record of tables;
`at`, `next`, `tree` and `trees` belong to the worker threads, `expired` is the clock.
A worker takes up a determinization (`TakeUp`, or `StopBatch` when the time is over),
gives it a tree (`BeginTree`), enters a simulation if its limit is not reached
(`EnterSimulation`), runs it (`RunSimulation`) and hands the tree in
(`FinishTree`). A simulation (`Walk`: descent, expansion with transpositions, playout,
back-up) touches only its thread's tree, and the clock that it reads is one value
for all threads. So between the entry, where the loop looks at the clock, and the run
other threads move and the deadline may pass; if it has passed by then, any
of the simulation's own checks may be the first to see it, or none (`ClockChecks`). A
deadline may find every thread inside a simulation. `JoinWorkers` is the join with the errors it finds and
the aggregation. The UCT score is taken in the limit of a large exploration
constant (fewest visits first, then mean and prior); the entropy threshold,
telemetry, CPU and memory figures and panicking workers are left out.

## 3. What the runs check

Deadlock is checked in the runs of `Kernel`, `GameRunner`, `Zones` and
`CardRuntime`: the ends of a game, a run and an instance's budget are explicit
stuttering actions. It is not in `DamageGame`, `PaymentGame` and `SearchGame`,
where a combat is over, mana and budget are spent, or the search has answered.

| Run | Instance | Shows |
| --- | --- | --- |
| `KernelPod` | 3 players, a first striker and another attacker of one seat, a blocker of the next, two watchers of deaths and one of the stack, two of them delayed-once; 2 voluntary actions | types; priority accounted for (somebody can always act while the game is on, and a finished game gives nobody priority); combat on the battlefield; refinement of `PriorityRound`; state-based actions before priority; placements are heard; no trigger lost, APNAP order, delayed-once; blocks of two defenders before damage; turns end settled |
| `KernelLive` | 2 players, triggers in untap, in cleanup and on life loss, the last with a target; 2 actions; fairness | the stack is never stranded; deferred players are served; triggers are drained; turns keep coming |
| `RunnerDuel` | 2 players, both policies, 2 turns, a first striker, draw and attack triggers; fairness | the driver stays inside `Kernel`; nothing it asks blind is refused; every step's damage once; every turn's attack asked for; the run returns |
| `ZonesGame` | decks of 3 and 2 cards, a token, 1-card hands, 1 mulligan, 2 moves; fairness of the opening | conservation, views show what was shown and nothing else, the opening ends |
| `CardGame` | seven cards: an upkeep trigger, an evoked creature, a tax on draws, removal with two targets, return, counter, reanimation; 3 turns, a ring of 3 | cards and entries in step; exact subscriptions; triggers know their player; readers miss nothing; targets that stayed are affected, other cards are not |
| `DamageGame` | four creatures with first strike, double strike, trample, lifelink, deathtouch; three effects, three replacements, two burns | offered divisions are the valid ones; replacements take turns; nobody strikes twice; dependency order; damage and pumps wear off together |
| `PaymentGame` | five lands of two colours and none, a spell with X, one with two X, a commander, two reducers | offers are the accepted plans; the largest X is found; costs follow tax and board |
| `SearchGame` | six small games: converging lines, colliding keys, a cycle, a solved one, failing and disagreeing determinizations; fixed ones on 1 to 3 threads, timed ones on 1 or 2; fairness | evidence adds up; a fixed search is independent of its threads; every search answers |

Each `violation` run states a sentence of the repository, or of the rules text it
ships and settles questions by, that the code does not keep; the quotations are
in `PROJECT.json`.

| Run | What it finds |
| --- | --- |
| `StaleAttack` | `current_attacks` is not updated when attackers leave, so the driver asks for blocks the kernel refuses and the run ends in an error |
| `UnsettledPriority` | the effects of a resolved spell run after the kernel granted priority, and no state-based action is performed before the next player acts |
| `GraveUpkeep` | a permanent's upkeep trigger is registered at the cast and never dropped, so it goes off from the stack, the hand and the graveyard |
| `PeekedTutor` | the view of an opponent still names a card of a library after its owner took it into hand unseen |

### Bounds, and why they are enough

* In `Kernel` and `GameRunner` `Fuel` counts voluntary actions (casts,
  activations, lands, effects, attacks, damage, concessions). Turn structure,
  passes, drains and blocks cost none, so the two of `KernelPod` and `KernelLive`
  combine any two of them at any two moments: an effect between a cast and
  its resolution, a death in combat that sets off a trigger, whose placement sets
  off another. A combat that deals damage in both of its damage steps takes three and is
  part of `RunnerDuel`. Every property's mutant is found within these bounds, and all safety
  properties of `Kernel` are proved without them.
* `MaxTurn` saturates `turn` at 2 or 3 (the code reads the number only to tell
  the first turn from later ones), so behaviours go on for ever; `MaxTurns` is the driver's
  own turn cap. `Reserve` and `MayChoose` keep three units of `Fuel` per turn
  for combat, so the budget of free choices never starves what the driver
  always does.
* Two seats show alternation; three are needed for APNAP order to differ from
  seat order, for a pass to leave two more to come, and for two defenders.
* In `ZonesGame` a library of two cards or more has an order, and two moves after
  the opening allow a search (reveal, move, shuffle) before or after any other
  move; `Destinations` leaves out the other public zones, which differ in name only.
* `PeekedTutor`: three moves put a card from the battlefield into a library of two and
  search it.
* `CardGame`: `Capacity` 3 stands for 1024, so that the ring overflows within a
  turn; `Fuel` 4 is a permanent, a spell that answers it, another in answer to
  that, and a draw; `MaxTurn` 3 has an upkeep of the same player twice.
* `DamageGame`: `SbaLimit` 7 stands for 64; every round that is not the last
  removes one of four creatures or two players, so the limit is never met. `Fuel`
  3 is two replacement effects and a choice of their order before they meet one
  event, or two continuous effects and a burn around a first-strike step. `Life`
  3 lets a player die of one combat or survive it.
* `PaymentGame`: `MaxMana` 15 stands for the largest `u32`, so that X spells with
  two X overflow within the search; `PlanLimit` 4 for 64, so that some
  enumerations are cut and others not; `Fuel` 4 lets a reducer enter, leave and
  return and the commander be cast again.
* `SearchGame`: five or six simulations go through shared nodes more than once
  and reach three checkpoints of adaptive stopping. Before a deadline a tree has
  at most `SimLimit` 4 simulations and a path `PathLimit` 6 nodes, after which the
  clock is taken to have passed it. `ValueLimit` 3 stands for 10^9 and clamps some of
  the games' values.

### Fairness

`KernelProperties!Fairness` is weak fairness of the actions that
`run_controlled` takes without anybody's wish: start the turn, drain triggers,
collect blocks, pass, advance a step in which nobody can act. The loop
(2728-2953 of the runner) does one of them in each iteration in which the players
choose nothing. No fairness is assumed of any voluntary action; that they run out
is the bound `Fuel`, so `TurnsKeepComing` says that the turn structure by itself
never stops, not that players cannot stretch a window. The runner itself is one
sequential loop, so `FairRunner` is weak fairness of its whole next-state
relation, and `FairSeen` the same of the setup code (2286-2345). `MaxMulligans`
stands for the floors of the mulligan policies (three for the heuristic, six for
the random policy); the kernel has none, and a human who goes below zero cards
makes the setup return an error. `Search!Fairness` is weak fairness of each worker
thread, of the main thread and of the clock: the operating system runs every
thread, and time passes.

## 4. What is proved

Everything below holds for every value of the constants. For `Kernel` these are any
number of players (`NAssumption`: at least one), any finite set of creatures and of
triggers, whatever they watch (`CreaturesAssumption`, `TriggersAssumption`; the value that
marks a stack entry which is no trigger is not one, `NoTriggerAssumption`), and
any bounds (`BoundsAssumption`: the saturation is at 2 or more). `GameRunner` adds the
driver's policies and its own turn cap (`RunnerAssumption`), and that triggers watch what
compiled cards can (`CompiledAssumption`, from `TriggeredAbilityProgram::bind`: upkeeps,
draws, attacks, casts and copies, permanents that enter, combat damage. None hears a land
enter: a land card compiles without triggers, and only a creature's entering is watched
for from elsewhere. None hears a mana ability, the start of a main phase or a
state-based action). Only `DriverIsAccepted`
uses it. `Zones` has any decks,
tokens, hand size and budgets (`PlayersAssumption`, `ObjectsAssumption`,
`OpeningAssumption`, `ZonesBoundsAssumption`). `CardRuntime` has any players, owners and
finite set of cards (`SpellStackAssumption`: the value that marks "no card" is not one), a
ring that holds at least one event (`CapacityAssumption`), any mortal creatures and
budgets (`RuntimeAssumption`), and any card programs that `ProgramAssumption` allows:

* a counter's targets are stack entries and every other effect's are objects, since
  each instruction is compiled against one `TargetClass` (`runtime.rs` 5815-5854);
* a spell without an effect announces no targets;
* the one ability that depends on an alternate cost is the sacrifice of an evoked
  permanent when it enters, the only one the compiler binds to such a cost
  (`runtime.rs` 1966-1976).

`Payment` has any sequence of distinct colours, any width of the integers and any limit on
plans that is not zero, any lands and reducers, and any spells whose printed cost has no X
announced yet (`PaymentAssumption`).

| Theorem | Statement |
| --- | --- |
| `TypeCorrect` | `[]TypeOK` |
| `FinishedGameStops` | `[]GameOverStopsPlay` |
| `OutcomeIsFinal` | a decided outcome never becomes `InProgress` again |
| `SomebodyActs` | `[]PriorityAccountedFor` |
| `StackIsNeverStranded` | `[]NobodyWaitsOnTheStack` |
| `TurnsEndSettled` | `TurnEndsWhenSettled` |
| `LossComesFirst` | `LossBeforePriority` |
| `FightersAreOnBattlefield` | `[]CombatIsOnBattlefield` |
| `BlocksComeFirst` | `[]BlocksBeforeDamage` |
| `KernelImplementsPriorityRound` | `PriorityRounds`: `Kernel` implements `PriorityRound` |
| `PlacementsAreHeard` | `PlacementIsHeard` |
| `TriggersReachTheStack` | `NoTriggerIsLost` |
| `DelayedTriggersFireOnce` | `[]DelayedFiresOnce` |
| `TriggersLieInApnapOrder` | `ApnapOrderOnStack` |
| `DeferredGrantIsMade` | `DeferredPlayerIsServed` |
| `DriverImplementsKernel` | `RunIsAKernelBehaviour`: `GameRunner` implements `Kernel` |
| `RunsKeepTheRules` | every run has the invariants and action properties of `Kernel` above |
| `NoAttackIsForgotten` | `EveryTurnAttacks` |
| `DamageIsDealtOnce` | `DamageOnceEachStep` |
| `DriverIsAccepted` | `[]DriverIsNeverRefused` |
| `ObjectsAreConserved` | `[]EveryObjectInOnePlace` |
| `ViewsShowWhatWasShown` | `[]ViewsShowOnlyWhatWasShown` |
| `ViewsNeverForget` | `[]SightIsRemembered` |
| `RuntimeInvariant` | `[]RuntimeFits`, the inductive invariant of the card runtime |
| `ReaderLosesNothing` | `[]ReaderMissesNothing` |
| `CardsAndEntries` | `[]CardsMatchEntries` |
| `TriggersKnow` | `[]TriggersKnowTheirPlayer` |
| `SubscriptionsExact` | `[]SubscriptionsAreExact` |
| `LegalTargetsOnly` | `OnlyLegalTargetsAreAffected` |
| `PaymentInvariant` | `[]PaymentFits`, the inductive invariant of pools and modifiers |
| `CostIsFromTheBoard` | `[]CostsFollowTheBoard` |
| `SearchFindsLargestX` | `[]LargestXIsFound` |
| `OffersAreAccepted` | `[]OffersAreTheAcceptedPlans` |

The argument goes in layers, each invariant proved from those before it.

### Kernel

1. `Typed == TypeOK /\ Started`. `TypeOK` alone is not inductive: a grant of
   priority to `active` has the type of a player only if there is one, so
   `Started` adds that before the first turn there is neither an active player nor
   a holder of priority, and afterwards always an active player. The lemmas follow the code's helpers: what `QueueOnto`,
   `PerformStateBasedActions`, `AssignPriority` and `GrantPriorityTo` return,
   then the step handlers, then one lemma per action.
2. `GameOverStopsPlay` is inductive by itself:
   every handler ends by assigning priority from the outcome it computed, or
   leaves both alone.
3. `OutcomeMatches == outcome = OutcomeOf(lost)`, from `Typed`. The losers only
   grow, and a game that is over for some losers is over for more of them (a
   cardinality argument over the finite set of players); hence `OutcomeIsFinal`.
4. `SomebodyMayAct`, the half of `PriorityAccountedFor` about a game that is still on
   (the other half is `GameOverStopsPlay`), from `Typed` and `OutcomeMatches`: a grant either gives
   priority or remembers the player behind a queue that is not empty; the handlers
   that only emit events make that queue longer; and an outcome that is still open
   after a step was open before it.
5. `NobodyWaitsOnTheStack`, from the same two: what puts an object on an
   empty stack grants priority to a player (a copy needs an entry to copy, and a drain
   grants to the deferred or the active player), and every other handler lets the
   queue grow and keeps the holder.
6. `TurnEndsWhenSettled` from `Typed` and 5; `LossBeforePriority` and
   `CombatIsOnBattlefield` from `Typed`, the last one over every removal path;
   `BlocksBeforeDamage` is inductive by itself, once each action is one of
   a few combat moves (no change, removals, blocks declared by one player, a new
   step, a new combat).
7. The refinement needs `RoundInv`: a damage sub-step is named only in the combat
   damage step and the end of combat, so that an abstract step, which is a step with
   its sub-step, changes only when the code starts one; and no object is on the stack
   before the first turn. With 5 a step that ends without anybody's
   pass has an empty stack, and otherwise the pass that completes the round is the only way
   an entry resolves or a step ends. The set of players who passed is the mapping's arithmetic image of
   the pass count and its holder, so the proof carries the modular arithmetic of
   `NextSeat`: counting `passes` back from the holder names `passes`
   different seats, and the last pass of `N` names them all.
8. Triggers. A drain takes the queue as it is, places all instances that need no
   target and clears the queue *before* it announces the placements; the lemmas
   count instances per trigger through `Drained` (how many places of the placed sequence
   hold a trigger), which gives `NoTriggerIsLost` and `ApnapOrderOnStack` (the placed
   sequence is sorted by distance from the active seat). `DelayedFiresOnce` is
   inductive as "subscription, pending instances and entries of a delayed trigger are
   at most one together" (`Existences`), because firing removes the subscription and a copied entry
   is no trigger. `DeferredPlayerIsServed` needs `DeferredWaits`: a player is
   remembered only while triggers wait, nobody holds priority and the game goes on.

### GameRunner

1. `Placed`: the program points at which the driver stands agree with the kernel (in
   setup exactly before the first turn, main-phase points only in a main phase,
   no pass counted while choices are owed or effects run). With `Typed` each driver
   action is then a `Kernel` step or leaves it alone, so `DriverImplementsKernel`,
   and every theorem on `Kernel` carries over (`RunsKeepTheRules`).
2. `EveryTurnAttacks` needs `AskedBeforePassing`: the loop dispatches the turn's
   attack, blocks and damage at the first iteration in which the active player holds
   priority in the step, hence in a step whose dispatch is still to come, the active
   player is not among those who passed in succession. When the last pass ends the step, everybody passed, by 7 above,
   the active player too.
3. `DamageOnceEachStep` needs `DamageBooked`: what was dealt in this turn is
   what the driver's set says was done, and only in the sub-steps up to the
   current one. The driver's key names a sub-step of a turn, so the proof shows that
   no turn comes back to one.
4. `DriverIsNeverRefused` needs what the driver knows when it asks blindly
   (`DriverKnows`). A pass is refused only while an attacked player has not declared
   blocks. The driver asks those in its own `attacks`, so `AttacksKnown` says that these
   include the kernel's until blocks are declared (removals only shrink the kernel's),
   `BlocksBooked` that this turn's blocks are not marked as asked before the
   step begins, and `BlocksAsked` that from then on an attacked player has declared or
   is in the queue. The step's last pass comes from a loop with an empty queue.
   `MainIsOpen`: in a main phase in which players choose no trigger waits behind
   the holder. `BaselineReady`: the fixed policy plays a land, taps for
   mana and casts without asking, so until its main phase starts nothing is pending and the
   active player holds priority, it has played no land this turn, and no land or mana ability takes
   priority away. This is where `CompiledAssumption` is needed: a trigger on a land that
   enters would take it, and the run would end with an error.

### Zones

Every action is one of six shapes: moving a set of objects between two zones,
shuffling, a mulligan, a reveal, making a token, or nothing
(`MoveStep`, `ShuffleStep`, ...); a lemma per action puts it into its shape, with
`SelectionProofs` for what choosing, removing and appending do to a sequence without
repetitions, and each invariant is then proved once per shape.

1. `Placed`: no zone repeats an object and no object is in two zones (`InPlace`), every
   card of the decks is somewhere, everybody has kept once the game begins, and
   what a search in progress found exists. `EveryObjectInOnePlace` follows.
2. `ViewsShowOnlyWhatWasShown` is not inductive: it says nothing of the events of this
   step, which `seen` is computed from. `Told` relates them to `known` (what a
   reveal event names is known to all, a shuffled library is known to nobody) and
   `Earned` is the inductive form.
3. `SightIsRemembered` needs `OpeningSight` (before the game begins players have
   seen their own hands and libraries only, so a mulligan may drop it all) and
   `Sighted`: of everything seen, the object is where its player can see it, or in
   `known`.

### CardRuntime

None of the five properties is inductive alone, and they do not separate into layers: a
resolution moves cards, which emits events, which queues triggers, and its
effects do the same again. So there is one invariant, `RuntimeFits`, and everything about
the kernel's state in it is a predicate of a record, stated for any state on the way.

1. `Core`: types; the log holds the last events of this turn, as many as the ring keeps
   (`LogFits`, whence `ReaderLosesNothing`); a pending trigger names an event of this turn,
   and if that is a draw still recorded, another player's draw (`PendingFits`);
   triggers and programs are in step, and one that fires once is subscribed or waits but
   not both (`RowsFit`, `SubsFit`, `WaitingFits`).
2. `CardFits`: entries have distinct identities and cards, a card is in the stack zone
   exactly while an entry is about it, and its targets are those of its program.
3. `ContextFits` and `LookupFits`: the player of every unless-paid ability on the stack is
   known, and the look-up has failed only for an event the ring dropped.
   `TriggersKnow` follows. It needs `PendingFits`, because the drain copies into `contexts`
   what the log says at that moment.
4. `TableFits` and, while nothing has failed, `Exact`: which triggers are
   subscribed, by card and ability. A card that left the stack still has its
   conditional triggers until `handle_resolution` retires them, so `Exact` has the set
   `moving` of such cards as a parameter, empty between dispatches.

`Sound` is these parts for any record and any tables. Lemmas say that moving a card, a draw,
an emission, a burial, removing an entry and retiring a trigger keep it (`MoveSound`,
`DrawSound`, `EmitSound`, `BurySound`, `LeaveSound`, `RetireSound`). A resolution is a
chain of these, and there is one lemma per dispatch (`CastStep`, `ResolveStep`,
`PutStep`, `DrawStep`, `TurnStep`). For `LegalTargetsOnly`
the chain of a spell's effects also carries `Settled`: after `k` targets exactly the legal
ones among them are where the effect puts them and the rest are where they were.
`AffectedAsChecked` is that for a whole spell, of every target the kernel counts as
legal; the theorem says it of those that never left.

A dispatch repeats its helpers in folds. These are recursive functions, and the library's
induction theorems take a predicate as a parameter and cannot be used here; so
`SelectionProofs` takes the least place at which a fact fails and finds a
smaller one (`Recursion` for what such a function is, `RecursionStays` for what its
steps preserve, and the lemmas on `Keep` used for `Zones` too).

### Payment

The inductive invariant `PaymentFits` is small: pools are in range, and `modifiers` lists
each registered permanent exactly once, which is what `MustRegister` is for. The work is in
the operators, whose results are proved for every state of that invariant.

1. Sums over finite sets are folds that choose a member each time. `SumIsAdds` and
   `AddsOrder` show that the sum does not depend on that choice; `SumFacts`, `SumInsert`
   and `SumGrows` are what everything else uses.
2. `CostFacts`: the effective cost is one cost or, on overflow, none; it owes
   the printed generic cost, the tax and the value of X together, less the sum of what the
   permanents in play take off, and it exists exactly if that full price is a
   `u32`. Reducing one modifier after another is reducing by the sum (`LessTwice`).
   `CostsFollowTheBoard` is the case of an X of zero.
3. `EarlierIsTotal` and `EarlierIsTransitive`: among payments of one total the order of the
   nested loops is strict and total, because the colourless part follows from the coloured
   one. So every finite set of them has a first, and `EnumerationFacts` says that the plans
   are distinct payments in that order, all of them below the limit.
4. `AffordableFacts`: there is a plan for X exactly if the full price does not overflow, the
   pool covers the coloured symbols and what is left covers what is owed. Hence `CanPayLess`:
   who can pay for X can pay for less. The search keeps a payable lower end and nothing
   payable above its upper end while the span shrinks (`SearchFacts`). Without
   overflow counting as unaffordable the search would not be monotone.
5. `ValidFacts` and `PaidFacts`: what the kernel accepts for a cost are the coloured symbols
   and one payment of what is owed, which the subtraction finds again; with 3 these
   are the offers. The invariant's step for `CastSpell` uses it too: a pool pays
   what it was offered without going below zero.

### Only model-checked

* Liveness (`TurnsKeepComing`, `TriggersAreDrained`, `RunReturns`,
  `GameStarts`, `SearchAnswers`), which is out of the prover's reach.
* `CombatDamage`: the fixpoints of its layers and replacements and its divisions are folds
  with operator arguments over data, which these provers cannot unfold, and what they
  compute for every input is an induction over data.
* `Search` describes its descents with RECURSIVE operators, which keeps it out of
  the prover's reach; every other module uses folds and recursive functions only.

## 5. What is not modelled, and why

* Several targets chosen by several players, modes, copies of spells, additional
  and alternate costs, kicker, costs of activated abilities, the auto-tap
  planner: data of single actions over state that is modelled.
* Draw and enter replacements, attachments, tokens ceasing to exist, counter
  pairs, colour identity and commander damage: further rows of tables whose
  control (order, fixpoint, once per event) is in `Damage` and `Kernel`.
* The 64-round limit of state-based actions is in `Damage` but is never met; no
  kind the code has can keep a fixpoint going for 64 rounds. The fallback for a cycle of
  continuous effects is in `Layers` but is never met either: an effect depends on
  effects registered before it.
* Totals of mana near 2^32: `ManaPool::total` adds without a check, `Payment`
  over the naturals.
* `determinized_clone` and object characteristics in `Zones`; team seating and
  human prompts in the opening. `scry` and a library search teach the code's
  `known_objects` nothing, and nothing in the model.
* The heuristics and evaluation of AI players: a policy is a free choice. The domains
  that the runner gives the search engine (main phase and combat) are replaced by
  small tables. The decision contexts' canonical bytes and the state hash are about
  encodings, which abstract data cannot tell apart.
* Card compiler, porting tools, arena, test kit, CLI and app shells: text
  transformations, tallies and front ends without game state; the network crate
  is a placeholder. The porting tools and the test kit are a large part of the repository's
  lines; what `PROJECT.json` maps lies in the kernel, the driver, the card runtime
  and the search.

### Divergences met while modelling that have no run of their own

The models follow the code in each; references are to `forge-core/src/lib.rs`
(C), `forge-game-runner/src/lib.rs` (G) and `forge-ai/src/search.rs` (S), rules
to `docs/vendor/comprehensive-rules.txt`.

* Priority. A pass whose step advance fails has already reset the pass count
  (C:11943, against `docs/specs/T2.1.md:22-23`). Triggers queued in untap or
  cleanup hand out priority there (C:12556). A player who keeps priority while
  triggers wait may cast first (C:15199, against `docs/specs/T2.2.md:33`).
* Driver. A land play that ends the game leaves the main-phase loop to offer
  another choice, and a won game is reported as an error (G:3903).
* Knowledge. A card revealed, shuffled around and put on top is known to nobody
  (C:16658, against `FORGE_REBUILD_MASTER_PLAN.md:694`, "revealed cards stay known";
  `ViewsShowOnlyWhatWasShown` allows that it is known).
* Combat. First-strike participants are computed before the state-based actions of
  the same grant (C:14376; 702.7b). Combat lifelink and the chooser of a
  replacement order go by the stored controller (C:14785, 13132), other lifelink
  by the effective one. Damage to a permanent that is a creature only by an effect
  fails in the middle of a batch. An attacker that changes controller stays in combat
  (506.4). Damage must be divided in blocker order (`docs/adr/0021`, 510.1c).
* Costs. Modifiers apply in the order of registration (601.2f); the runner
  registers reductions only, which commute up to saturation.
* Triggers. An evoked creature that dies to the state-based actions of its own resolution
  while its evoke trigger is pending ends the run, because that trigger cannot be
  unregistered (G:9611). A sacrifice of a source that has left is an error (101.3).
  Permanents put onto the battlefield without being cast get no triggers
  (G:7021, 603.2). An object that leaves and returns before the resolution is still a
  legal target, because only its zone is compared, and gets the effect aimed at what
  it was (C:16216, 400.7). Copies of spells resolve without effect (G:9697).
* Search. A simulation that the deadline cuts at the root counts as a simulation and
  visits no root edge, in each worker thread that was inside one, so the root edges'
  visits may fall short by one for each thread (S:1072, against `docs/adr/0016`:59, "root
  edge visits sum to completed simulations"; `EvidenceAddsUp` is exact for each thread).
  If that was the only simulation, the answer is the lowest action instead of
  the prior's, which is kept for no simulations at all. A cycle of shared nodes would
  make a fixed search descend for ever (S:1106). Which of several failing
  determinizations is named depends on how many workers there are.

## 6. Plan

Done: `PriorityRound` and `Kernel` with its proofs, `GameRunner`, `Zones`,
`EventLog` to `CardRuntime`, these four with proofs, `Payment` with proofs, `Layers` to
`CombatDamage`, and `Search`.
Next, in this order:

1. `DivisionsAreTheValidOnes` as a theorem; the folds of `Damage` need the form of
   recursive functions first, as those of `Payment` have.
2. `DecisionEpisode`: contexts proposed, selected and applied by the hierarchical
   choices of the runner (G:5489-6420); a stale selection is refused.
3. The runner's search domains (G:12246-12860) as the game of `Search`, with
   `determinized_clone` over `Zones`.
4. Commander damage and attachments among the state-based actions of `Damage`.
5. A driver run with three seats, whose state space needs a coarser budget than
   `Fuel`.
