---- MODULE Kernel ----
(***************************************************************************)
(* The turn, step and priority machine of forge-core's GameState: the     *)
(* turn-based actions, priority passing, the stack, state-based actions,   *)
(* triggered abilities from the event that queues them to the stack entry  *)
(* that carries them, the combat declarations and the cleanup exception.   *)
(*                                                                         *)
(* Players are named by their seat in turn_order, so 0 is the starting     *)
(* player.  Objects keep only what this machine reads of them: whether a   *)
(* creature is on the battlefield and whether a state-based action will    *)
(* remove it; a life total is above zero or not (doomed).                  *)
(***************************************************************************)
EXTENDS Integers, Sequences, FiniteSets, Functions

CONSTANTS N,             \* number of players
          Creatures,     \* creatures that start on the battlefield
          Owner,         \* their controllers
          FirstStrikers, \* those with first or double strike
          Waning,        \* those an until-end-of-turn effect keeps alive
          Triggers,      \* trigger subscriptions (TriggerId)
          Controller,    \* TriggerDefinition::controller
          Watches,       \* the event kind each is subscribed to
          Delayed,       \* those with TriggerDuration::DelayedOnce
          Targeted,      \* those whose abilities need a target
          Fuel,          \* bound: voluntary actions in one behaviour
          MaxTurn        \* bound: the turn number saturates here

Players == 0 .. N - 1
NoPlayer == -1

Steps == {"Untap", "Upkeep", "Draw", "PrecombatMain", "BeginningOfCombat",
          "DeclareAttackers", "DeclareBlockers", "CombatDamage", "EndOfCombat",
          "PostcombatMain", "End", "Cleanup"}

\* Event kinds; StepBegan{s} is named s, ObjectMoved by what the move means.
EventKinds == Steps \cup
  {"TurnStarted", "Untapped", "CardDrawn", "EmptyLibraryDraw", "Discarded",
   "CleanupPerformed", "CleanupPriorityRequested", "StackEntryAdded",
   "StackEntryResolved", "StackEntryCopied", "SpellMoved", "LandEntered",
   "AbilityActivated", "LifeLost", "LifeGained", "DamageMarked", "Dies",
   "PlayerLost", "PlayerConceded", "OutcomeChanged", "AttackersDeclared",
   "AttackDeclared", "BlockersDeclared", "BlockDeclared", "CombatDamageDealt"}

ASSUME NAssumption == N \in Nat \ {0}
ASSUME CreaturesAssumption ==
  /\ IsFiniteSet(Creatures) /\ Owner \in [Creatures -> Players]
  /\ FirstStrikers \subseteq Creatures /\ Waning \subseteq Creatures
ASSUME TriggersAssumption ==
  /\ IsFiniteSet(Triggers) /\ Controller \in [Triggers -> Players]
  /\ Watches \in [Triggers -> EventKinds] /\ Delayed \subseteq Triggers
  /\ Targeted \subseteq Triggers
ASSUME BoundsAssumption == Fuel \in Nat /\ MaxTurn \in Nat /\ MaxTurn >= 2

VARIABLES
  turn, active, step,          \* turn_number, active_player, current_step
  priority, passes, deferred,  \* priority_player, priority_pass_count, deferred_...
  outcome, lost,               \* GameOutcome and PlayerState::lost
  doomed, emptyDraw,           \* life <= 0 or poison >= 10; empty_library_draws_since_sba
  creatures, dying,            \* on the battlefield; those with lethal damage marked
  combat, attackersDeclared,   \* CombatState; attackers_declared_this_combat
  cleanupRequested, cleanupRepeat, \* cleanup_priority_requested, cleanup_repeat_pending
  landPlayed,                  \* players with lands_played_this_turn = 1
  stack,                       \* stack_entries, bottom first
  subs, pending,               \* live subscriptions; pending instances per trigger
  fuel                         \* voluntary actions left

turnVars == <<turn, active, step>>
priorityVars == <<priority, passes, deferred>>
fateVars == <<outcome, lost, doomed, emptyDraw>>
boardVars == <<creatures, dying>>
combatVars == <<combat, attackersDeclared>>
cleanupVars == <<cleanupRequested, cleanupRepeat>>
triggerVars == <<subs, pending>>
vars == <<turnVars, priorityVars, fateVars, boardVars, combatVars, cleanupVars,
          landPlayed, stack, triggerVars, fuel>>

----------------------------------------------------------------------------
(* Seats, steps and combat *)

\* Mutant: the last seat is not followed by the first.
NextPlayerAfter_NoWrap(p) == p + 1

NextPlayerAfter(p) == (p + 1) % N
\* Mutant: player order instead of turn order from the active player.
ApnapPlace_FromSeatZero(p) == p

\* The place of player p in APNAP order, the active player first.
ApnapPlace(p) == (p + N - active) % N

ReceivesPriorityNormally(s) == s \notin {"Untap", "Cleanup"}

NextNormalStep ==
  [s \in Steps |->
    CASE s = "Untap" -> "Upkeep"
      [] s = "Upkeep" -> "Draw"
      [] s = "Draw" -> "PrecombatMain"
      [] s = "PrecombatMain" -> "BeginningOfCombat"
      [] s = "BeginningOfCombat" -> "DeclareAttackers"
      [] s = "DeclareAttackers" -> "DeclareBlockers"
      [] s = "DeclareBlockers" -> "CombatDamage"
      [] s = "CombatDamage" -> "EndOfCombat"
      [] s = "EndOfCombat" -> "PostcombatMain"
      [] s = "PostcombatMain" -> "End"
      [] s = "End" -> "Cleanup"
      [] s = "Cleanup" -> "Untap"]

DamageSteps == {"None", "FirstStrike", "Regular", "Normal"}
NoCombat == [attackers |-> {}, blockers |-> {}, declaredBy |-> {}, damageStep |-> "None"]

\* An attacker is a pair <<creature, defending player>>.
AttackedPlayers(cb) == {a[2] : a \in cb.attackers}
AttackingCreatures(cb) == {a[1] : a \in cb.attackers}
\* Mutant: one declaration settles the blocks of every attacked player.
AllBlocksDeclared_AnyOne(cb) == cb.attackers = {} \/ cb.declaredBy # {}

\* Mutant: the declarations are counted, so one whose attackers left is one too many.
AllBlocksDeclared_Counted(cb) == Cardinality(cb.declaredBy) = Cardinality(AttackedPlayers(cb))

AllBlocksDeclared(cb) == AttackedPlayers(cb) \subseteq cb.declaredBy
\* Mutant: a blocker that left the battlefield stays in combat.
RemoveFromCombat_KeepsBlockers(cb, gone) ==
  [cb EXCEPT !.attackers = {a \in @ : a[1] \notin gone}]

RemoveFromCombat(cb, gone) ==
  [cb EXCEPT !.attackers = {a \in @ : a[1] \notin gone}, !.blockers = @ \ gone]

BlocksPending == step = "DeclareBlockers" /\ ~AllBlocksDeclared(combat)

BeginCombatDamageStep(cb) ==
  [cb EXCEPT !.damageStep =
     IF @ = "FirstStrike" THEN "Regular"
     ELSE IF (AttackingCreatures(cb) \cup cb.blockers) \cap FirstStrikers = {}
          THEN "Normal" ELSE "FirstStrike"]

----------------------------------------------------------------------------
(* Events and the triggers they queue.  An event is <<kind, subject>>; the  *)
(* events of one handler are a set, as their subjects tell them apart.      *)

Each(kind, S) == {kind} \X S   \* one event of the kind per subject
CountOf(E, kind) == Cardinality({e \in E : e[1] = kind})

\* Instances of t that the events E queue: a delayed-once trigger leaves the
\* subscriptions with its first event.
Fired(t, E) ==
  IF t \notin subs THEN 0
  ELSE IF t \in Delayed /\ CountOf(E, Watches[t]) > 1 THEN 1
  ELSE CountOf(E, Watches[t])

\* Mutant: a delayed-once subscription survives its event.
QueueOnto_KeepsDelayed(base, E) ==
  /\ pending' = [t \in Triggers |-> base[t] + Fired(t, E)]
  /\ subs' = subs

QueueOnto(base, E) ==
  /\ pending' = [t \in Triggers |-> base[t] + Fired(t, E)]
  /\ subs' = {t \in subs : t \notin Delayed \/ Fired(t, E) = 0}
Emit(E) == QueueOnto(pending, E)

NonePending(q) == \A t \in Triggers : q[t] = 0

----------------------------------------------------------------------------
(* State-based actions and the grant of priority.  "now" is what the        *)
(* state-based actions look at, as the handler left it.                     *)

OutcomeOf(l) ==
  IF l = {} THEN "InProgress"
  ELSE IF Cardinality(Players \ l) > 1 THEN "InProgress"
  ELSE IF Cardinality(Players \ l) = 1 THEN "Won" ELSE "Draw"

Now == [doomed |-> doomed, emptyDraw |-> emptyDraw, dying |-> dying, combat |-> combat]

Losers(now) == (now.doomed \cup now.emptyDraw) \ lost

SbaEvents(now) ==
  Each("PlayerLost", Losers(now))
    \cup Each("Dies", now.dying)
    \cup Each("OutcomeChanged", {OutcomeOf(lost \cup Losers(now))} \ {outcome})

PerformStateBasedActions(now) ==
  /\ lost' = lost \cup Losers(now)
  /\ doomed' = {} /\ emptyDraw' = {}
  /\ creatures' = creatures \ now.dying /\ dying' = {}
  /\ combat' = RemoveFromCombat(now.combat, now.dying)
  /\ outcome' = OutcomeOf(lost')

\* The part of refresh_game_outcome that touches priority.
DropPriorityIfOver ==
  /\ priority' = IF outcome' = "InProgress" THEN priority ELSE NoPlayer
  /\ passes' = IF outcome' = "InProgress" THEN passes ELSE 0
  /\ UNCHANGED deferred

\* Mutant: a grant does not start the count of passes again.
AssignPriority_KeepsPasses(p) ==
  /\ passes' = passes
  /\ IF outcome' # "InProgress"
     THEN priority' = NoPlayer /\ deferred' = NoPlayer
     ELSE IF NonePending(pending')
          THEN priority' = p /\ deferred' = NoPlayer
          ELSE priority' = NoPlayer /\ deferred' = p

\* Mutant: the grant goes by the outcome from before the state-based actions.
AssignPriority_OldOutcome(p) ==
  /\ passes' = 0
  /\ IF outcome # "InProgress"
     THEN priority' = NoPlayer /\ deferred' = NoPlayer
     ELSE IF NonePending(pending')
          THEN priority' = p /\ deferred' = NoPlayer
          ELSE priority' = NoPlayer /\ deferred' = p

\* Mutant: pending triggers hold the grant back and nobody remembers it.
AssignPriority_Forgets(p) ==
  /\ passes' = 0 /\ deferred' = NoPlayer
  /\ priority' = IF outcome' = "InProgress" /\ NonePending(pending') THEN p ELSE NoPlayer

AssignPriority(p) ==
  /\ passes' = 0
  /\ IF outcome' # "InProgress"
     THEN priority' = NoPlayer /\ deferred' = NoPlayer
     ELSE IF NonePending(pending')
          THEN priority' = p /\ deferred' = NoPlayer
          ELSE priority' = NoPlayer /\ deferred' = p

\* Mutant: state-based actions are performed only over an empty stack.
GrantPriorityTo_SbaWaits(p, now, E) ==
  /\ IF stack = <<>>
     THEN PerformStateBasedActions(now) /\ Emit(E \cup SbaEvents(now))
     ELSE /\ Emit(E) /\ doomed' = now.doomed /\ emptyDraw' = now.emptyDraw
          /\ dying' = now.dying /\ combat' = now.combat
          /\ UNCHANGED <<creatures, lost, outcome>>
  /\ AssignPriority(p)

\* grant_priority_to(p), at the end of a handler that emitted the events E.
GrantPriorityTo(p, now, E) ==
  /\ PerformStateBasedActions(now)
  /\ Emit(E \cup SbaEvents(now))
  /\ AssignPriority(p)

AfterPriorityAction(p, E) == GrantPriorityTo(p, Now, E)

----------------------------------------------------------------------------
(* Steps and turns *)

\* begin_step for the steps that end in a normal grant of priority; cb is
\* the combat the step starts with and E what its turn-based actions emit.
BeginPriorityStep(s, empty, cb, E) ==
  /\ step' = s
  /\ GrantPriorityTo(active, [Now EXCEPT !.emptyDraw = empty, !.combat = cb],
                     E \cup {<<s, 0>>})
  /\ UNCHANGED <<turn, active, cleanupVars, landPlayed, stack, fuel>>

ShouldSkipFirstTurnDraw == turn = 1 /\ N > 1 /\ active = 0

BeginDraw ==
  /\ UNCHANGED attackersDeclared
  /\ \/ ShouldSkipFirstTurnDraw /\ BeginPriorityStep("Draw", emptyDraw, combat, {})
     \/ /\ ~ShouldSkipFirstTurnDraw
        /\ \/ BeginPriorityStep("Draw", emptyDraw, combat, {<<"CardDrawn", active>>})
           \/ BeginPriorityStep("Draw", emptyDraw \cup {active}, combat,
                                {<<"EmptyLibraryDraw", active>>})

\* Damage wears off before state-based actions look; a creature that only an
\* expiring effect kept alive dies to them.  The discard to hand size may be
\* empty, and the exception that gives priority is a request or a performed
\* state-based action.
BeginCleanup ==
  \E fading \in SUBSET (Waning \cap creatures), discards \in SUBSET {<<"Discarded", 0>>} :
    LET now == [Now EXCEPT !.dying = fading]
        needsPriority == cleanupRequested \/ Losers(now) # {} \/ fading # {}
    IN /\ step' = "Cleanup"
       /\ PerformStateBasedActions(now)
       /\ Emit({<<"Cleanup", 0>>, <<"CleanupPerformed", 0>>} \cup discards \cup SbaEvents(now))
       /\ cleanupRequested' = FALSE
       /\ cleanupRepeat' = (needsPriority /\ outcome' = "InProgress")
       /\ priority' = IF cleanupRepeat' THEN active ELSE NoPlayer
       /\ passes' = 0
       /\ UNCHANGED <<turn, active, deferred, attackersDeclared, landPlayed, stack, fuel>>

\* start_turn and begin_next_turn, with the untap step they enter.
BeginTurn(p) ==
  /\ active' = p /\ step' = "Untap"
  /\ turn' = IF turn < MaxTurn THEN turn + 1 ELSE turn
  /\ priority' = NoPlayer /\ passes' = 0 /\ UNCHANGED deferred
  /\ attackersDeclared' = FALSE /\ combat' = NoCombat /\ landPlayed' = {}
  /\ \E untapped \in SUBSET {c \in creatures : Owner[c] = p} :
       Emit({<<"TurnStarted", 0>>, <<"Untap", 0>>} \cup Each("Untapped", untapped))
  /\ UNCHANGED <<fateVars, boardVars, cleanupVars, stack, fuel>>

\* Mutant: the cleanup exception does not repeat the cleanup step.
NextStep_NoRepeat ==
  IF step = "DeclareAttackers" /\ ~attackersDeclared THEN "EndOfCombat"
  ELSE IF step = "CombatDamage" /\ combat.damageStep = "FirstStrike" THEN "CombatDamage"
  ELSE NextNormalStep[step]

NextStep ==
  IF step = "Cleanup" /\ cleanupRepeat THEN "Cleanup"
  ELSE IF step = "DeclareAttackers" /\ ~attackersDeclared THEN "EndOfCombat"
  ELSE IF step = "CombatDamage" /\ combat.damageStep = "FirstStrike" THEN "CombatDamage"
  ELSE NextNormalStep[step]

AdvanceStepAfterEmptyStack ==
  /\ ~BlocksPending
  /\ CASE NextStep = "Untap" -> BeginTurn(NextPlayerAfter(active))
       [] NextStep = "Cleanup" -> BeginCleanup
       [] NextStep = "Draw" -> BeginDraw
       [] NextStep = "BeginningOfCombat" ->
            attackersDeclared' = FALSE /\ BeginPriorityStep(NextStep, emptyDraw, NoCombat, {})
       [] NextStep = "CombatDamage" ->
            /\ UNCHANGED attackersDeclared
            /\ BeginPriorityStep(NextStep, emptyDraw, BeginCombatDamageStep(combat), {})
       [] NextStep = "PostcombatMain" ->
            UNCHANGED attackersDeclared /\ BeginPriorityStep(NextStep, emptyDraw, NoCombat, {})
       [] OTHER ->
            UNCHANGED attackersDeclared /\ BeginPriorityStep(NextStep, emptyDraw, combat, {})

StartTurn == step = "NotStarted" /\ BeginTurn(0)

\* The driver advances a step itself only when nobody can act in it.
AdvanceStep ==
  /\ step \in Steps /\ outcome = "InProgress"
  /\ priority = NoPlayer /\ NonePending(pending)
  /\ AdvanceStepAfterEmptyStack

----------------------------------------------------------------------------
(* Passing priority and resolving *)

MayPass(p) == NonePending(pending) /\ priority = p

PassTo(p) ==
  /\ MayPass(p) /\ passes + 1 < N
  /\ passes' = passes + 1 /\ priority' = NextPlayerAfter(p)
  /\ UNCHANGED <<turnVars, deferred, fateVars, boardVars, combatVars, cleanupVars,
                 landPlayed, stack, triggerVars, fuel>>

\* What a life effect may do: the players then at zero or less, and its event.
LifeChanges ==
  {<<doomed, {}>>} \cup
  UNION {{<<doomed, {<<"LifeLost", q>>}>>,
          <<doomed \cup ({q} \ lost), {<<"LifeLost", q>>}>>,
          <<doomed \ {q}, {<<"LifeGained", q>>}>>} : q \in Players}

\* Every player passed in succession: the top of the stack resolves, with
\* its built-in effect when it is an activated ability, and the active
\* player receives priority.
ResolveTop(p) ==
  /\ MayPass(p) /\ passes + 1 >= N /\ stack # <<>>
  /\ stack' = SubSeq(stack, 1, Len(stack) - 1)
  /\ \E change \in LifeChanges :
       /\ stack[Len(stack)].kind # "Ability" => change = <<doomed, {}>>
       /\ GrantPriorityTo(active, [Now EXCEPT !.doomed = change[1]],
                          {<<"StackEntryResolved", Len(stack)>>} \cup change[2])
  /\ UNCHANGED <<turnVars, attackersDeclared, cleanupVars, landPlayed, fuel>>

CompleteStep(p) ==
  /\ MayPass(p) /\ passes + 1 >= N /\ stack = <<>>
  /\ AdvanceStepAfterEmptyStack

\* The last pass of a declare-blockers step that still waits for blocks
\* fails, after the pass count was reset.
RejectedPass(p) ==
  /\ MayPass(p) /\ passes + 1 >= N /\ stack = <<>> /\ BlocksPending
  /\ passes' = 0
  /\ UNCHANGED <<turnVars, priority, deferred, fateVars, boardVars, combatVars,
                 cleanupVars, landPlayed, stack, triggerVars, fuel>>

----------------------------------------------------------------------------
(* Putting triggered abilities on the stack *)

\* The stack entry of a spell or an activated ability carries no trigger.
NoTrigger == "NoTrigger"
ASSUME NoTriggerAssumption == NoTrigger \notin Triggers
Entry(p, kind, t) == [by |-> p, kind |-> kind, trigger |-> t, copied |-> FALSE]

\* Mutant: instances of one trigger are merged.
PendingInstances_Merged == {<<t, 1>> : t \in {t \in Triggers : pending[t] > 0}}

PendingInstances == UNION {{t} \X (1 .. pending[t]) : t \in Triggers}

InApnapOrder(order) ==
  \A i, j \in DOMAIN order :
    i < j => ApnapPlace(Controller[order[i][1]]) <= ApnapPlace(Controller[order[j][1]])

\* Mutant: only a grant that was deferred makes the queue drain.
CanDrain_NeedsDeferred == active # NoPlayer /\ deferred # NoPlayer /\ ~NonePending(pending)

CanDrain == active # NoPlayer /\ ~NonePending(pending)

\* Mutant: the active player is not the fallback.
DrainGoesTo_OnlyDeferred == deferred

\* Mutant: the deferred grant is ignored.
DrainGoesTo_Active == active

\* Who the drained queue hands priority to.
DrainGoesTo == IF deferred # NoPlayer THEN deferred ELSE active

\* Mutant: the queue is cleared after the entries are announced.
ClearAndEmit_ClearsLast(E) ==
  /\ pending' = [t \in Triggers |-> 0]
  /\ subs' = {t \in subs : t \notin Delayed \/ Fired(t, E) = 0}

\* The queue is cleared before the placed entries are announced.
ClearAndEmit(E) == QueueOnto([t \in Triggers |-> 0], E)

\* Every pending instance is drained; one whose ability has no legal target
\* is removed instead of placed.
PutPendingTriggeredAbilitiesOnStack ==
  /\ CanDrain
  /\ \E kept \in SUBSET PendingInstances :
       /\ \A x \in PendingInstances \ kept : x[1] \in Targeted
       /\ \E order \in Injection(1 .. Cardinality(kept), kept) :
            LET added == Each("StackEntryAdded", Len(stack) + 1 .. Len(stack) + Cardinality(kept))
                placed == [i \in DOMAIN order |->
                             Entry(Controller[order[i][1]], "Trigger", order[i][1])]
            IN /\ InApnapOrder(order)
               /\ stack' = stack \o placed
               /\ PerformStateBasedActions(Now)
               /\ ClearAndEmit(added \cup SbaEvents(Now))
               /\ AssignPriority(DrainGoesTo)
  /\ UNCHANGED <<turnVars, attackersDeclared, cleanupVars, landPlayed, fuel>>

----------------------------------------------------------------------------
(* Voluntary actions: what a player or a resolving card may ask of the      *)
(* kernel.  Each spends one unit of the instance's budget.                  *)

Spend == fuel > 0 /\ fuel' = fuel - 1

SplitSecondOnStack == \E i \in DOMAIN stack : stack[i].kind = "SplitSecond"

SorceryTiming(p) ==
  active = p /\ step \in {"PrecombatMain", "PostcombatMain"} /\ stack = <<>>

Push(entry) == stack' = Append(stack, entry)
PushEvent == <<"StackEntryAdded", Len(stack) + 1>>

\* A creature may be sacrificed as an additional cost.
CastSpell(p, kind, timing) ==
  /\ Spend /\ ~SplitSecondOnStack /\ priority = p
  /\ timing = "Sorcery" => SorceryTiming(p)
  /\ Push(Entry(p, kind, NoTrigger))
  /\ \E cost \in {{}} \cup {{c} : c \in {c \in creatures : Owner[c] = p}} :
       GrantPriorityTo(p, [Now EXCEPT !.dying = @ \cup cost],
                       {<<"SpellMoved", 0>>, PushEvent})
  /\ UNCHANGED <<turnVars, attackersDeclared, cleanupVars, landPlayed>>

ActivateAbility(p, timing) ==
  /\ Spend /\ ~SplitSecondOnStack /\ priority = p
  /\ timing = "Sorcery" => SorceryTiming(p)
  /\ Push(Entry(p, "Ability", NoTrigger))
  /\ AfterPriorityAction(p, {<<"AbilityActivated", p>>, PushEvent})
  /\ UNCHANGED <<turnVars, attackersDeclared, cleanupVars, landPlayed>>

\* A mana ability needs no priority, does not use the stack and is not
\* followed by state-based actions; one that also deals damage is a life effect.
ActivateManaAbility(p) ==
  /\ Spend
  /\ \E change \in LifeChanges :
       /\ doomed' = change[1]
       /\ Emit({<<"AbilityActivated", p>>} \cup change[2])
  /\ UNCHANGED <<turnVars, priorityVars, outcome, lost, emptyDraw, boardVars, combatVars,
                 cleanupVars, landPlayed, stack>>

PlayLand(p) ==
  /\ Spend /\ priority = p /\ SorceryTiming(p) /\ p \notin landPlayed
  /\ landPlayed' = landPlayed \cup {p}
  /\ AfterPriorityAction(p, {<<"LandEntered", p>>})
  /\ UNCHANGED <<turnVars, attackersDeclared, cleanupVars, stack>>

\* The copy keeps the kind and the trigger of the entry that was copied.
CopyStackEntry(p, i) ==
  /\ Spend /\ Push([stack[i] EXCEPT !.by = p, !.copied = TRUE])
  /\ Emit({PushEvent, <<"StackEntryCopied", Len(stack) + 1>>})
  /\ UNCHANGED <<turnVars, priorityVars, fateVars, boardVars, combatVars, cleanupVars,
                 landPlayed>>

CounterStackEntry(i) ==
  /\ Spend /\ stack' = SubSeq(stack, 1, i - 1) \o SubSeq(stack, i + 1, Len(stack))
  /\ Emit({<<"StackEntryResolved", i>>})
  /\ UNCHANGED <<turnVars, priorityVars, fateVars, boardVars, combatVars, cleanupVars,
                 landPlayed>>

\* lose_life, gain_life, set_player_life and poison, as resolving cards use them.
LifeEffect ==
  /\ Spend
  /\ \E change \in LifeChanges : doomed' = change[1] /\ Emit(change[2])
  /\ UNCHANGED <<turnVars, priorityVars, outcome, lost, emptyDraw, boardVars, combatVars,
                 cleanupVars, landPlayed, stack>>

DrawFromEmptyLibrary(p) ==
  /\ Spend /\ emptyDraw' = emptyDraw \cup {p}
  /\ Emit({<<"EmptyLibraryDraw", p>>})
  /\ UNCHANGED <<turnVars, priorityVars, outcome, lost, doomed, boardVars, combatVars,
                 cleanupVars, landPlayed, stack>>

\* deal_noncombat_damage to a creature, lethal or not.
DamageCreature(c) ==
  /\ Spend /\ \E lethal \in {{}, {c}} : dying' = dying \cup lethal
  /\ Emit({<<"DamageMarked", c>>})
  /\ UNCHANGED <<turnVars, priorityVars, fateVars, creatures, combatVars, cleanupVars,
                 landPlayed, stack>>

DestroyPermanent(c) ==
  /\ Spend /\ creatures' = creatures \ {c} /\ dying' = dying \ {c}
  /\ combat' = RemoveFromCombat(combat, {c})
  /\ Emit({<<"Dies", c>>})
  /\ UNCHANGED <<turnVars, priorityVars, fateVars, attackersDeclared, cleanupVars,
                 landPlayed, stack>>

CheckStateBasedActions ==
  /\ Spend /\ PerformStateBasedActions(Now) /\ Emit(SbaEvents(Now)) /\ DropPriorityIfOver
  /\ UNCHANGED <<turnVars, attackersDeclared, cleanupVars, landPlayed, stack>>

Concede(p) ==
  /\ Spend /\ p \notin lost
  /\ lost' = lost \cup {p} /\ doomed' = doomed \ {p} /\ outcome' = OutcomeOf(lost')
  /\ DropPriorityIfOver
  /\ Emit({<<"PlayerConceded", p>>} \cup Each("OutcomeChanged", {outcome'} \ {outcome}))
  /\ UNCHANGED <<turnVars, emptyDraw, boardVars, combatVars, cleanupVars, landPlayed, stack>>

RequestCleanupPriority ==
  /\ Spend /\ cleanupRequested' = TRUE
  /\ Emit({<<"CleanupPriorityRequested", 0>>})
  /\ UNCHANGED <<turnVars, priorityVars, fateVars, boardVars, combatVars, cleanupRepeat,
                 landPlayed, stack>>

\* A registration takes a fresh TriggerId: a name that nothing carries.
RegisterTriggeredAbility(t) ==
  /\ Spend /\ t \notin subs /\ pending[t] = 0
  /\ \A i \in DOMAIN stack : stack[i].trigger # t
  /\ subs' = subs \cup {t}
  /\ UNCHANGED <<turnVars, priorityVars, fateVars, boardVars, combatVars, cleanupVars,
                 landPlayed, stack, pending>>

UnregisterTriggeredAbility(t) ==
  /\ Spend /\ t \in subs /\ pending[t] = 0 /\ subs' = subs \ {t}
  /\ UNCHANGED <<turnVars, priorityVars, fateVars, boardVars, combatVars, cleanupVars,
                 landPlayed, stack, pending>>

----------------------------------------------------------------------------
(* Combat declarations *)

\* The attacks open to p: some of p's creatures, each at one opponent.
AttackChoices(p) ==
  UNION {{{<<c, defender[c]>> : c \in attacking} : defender \in [attacking -> Players \ {p}]} :
         attacking \in SUBSET {c \in creatures : Owner[c] = p}}

DeclareAttackers(p, attacks) ==
  /\ Spend /\ step = "DeclareAttackers" /\ active = p /\ priority = p
  /\ GrantPriorityTo(p, [Now EXCEPT !.combat = [NoCombat EXCEPT !.attackers = attacks]],
                     {<<"AttackersDeclared", p>>} \cup Each("AttackDeclared", {a[1] : a \in attacks}))
  /\ attackersDeclared' = (attacks # {})
  /\ UNCHANGED <<turnVars, cleanupVars, landPlayed, stack>>

\* The last attacked player to declare hands priority to the active player.
DeclareBlockers(d) ==
  /\ step = "DeclareBlockers" /\ active # d
  /\ d \in AttackedPlayers(combat) /\ d \notin combat.declaredBy
  /\ \E blocking \in SUBSET {c \in creatures : Owner[c] = d} :
       LET cb == [combat EXCEPT !.blockers = @ \cup blocking, !.declaredBy = @ \cup {d}]
           E == {<<"BlockersDeclared", d>>} \cup Each("BlockDeclared", blocking)
       IN IF AllBlocksDeclared(cb)
          THEN GrantPriorityTo(active, [Now EXCEPT !.combat = cb], E)
          ELSE /\ combat' = cb /\ Emit(E)
               /\ UNCHANGED <<priorityVars, fateVars, boardVars>>
  /\ UNCHANGED <<turnVars, attackersDeclared, cleanupVars, landPlayed, stack, fuel>>

\* Damage is dealt and state-based actions run, with no grant of priority.
AssignCombatDamage ==
  /\ Spend /\ step = "CombatDamage" /\ combat.damageStep # "None"
  /\ \E hits \in SUBSET combat.attackers,
        damaged \in SUBSET (AttackingCreatures(combat) \cup combat.blockers) :
     \E slain \in SUBSET {a[2] : a \in hits}, killed \in SUBSET damaged :
       LET now == [Now EXCEPT !.doomed = @ \cup (slain \ lost), !.dying = @ \cup killed]
       IN /\ PerformStateBasedActions(now)
          /\ Emit(Each("LifeLost", hits) \cup Each("DamageMarked", damaged)
                  \cup Each("CombatDamageDealt", AttackingCreatures([attackers |-> hits])
                                                             \cup damaged)
                  \cup SbaEvents(now))
          /\ DropPriorityIfOver
  /\ UNCHANGED <<turnVars, attackersDeclared, cleanupVars, landPlayed, stack>>

----------------------------------------------------------------------------
Init ==
  /\ turn = 0 /\ active = NoPlayer /\ step = "NotStarted"
  /\ priority = NoPlayer /\ passes = 0 /\ deferred = NoPlayer
  /\ outcome = "InProgress" /\ lost = {} /\ doomed = {} /\ emptyDraw = {}
  /\ creatures = Creatures /\ dying = {}
  /\ combat = NoCombat /\ attackersDeclared = FALSE
  /\ cleanupRequested = FALSE /\ cleanupRepeat = FALSE
  /\ landPlayed = {} /\ stack = <<>>
  /\ subs = Triggers /\ pending = [t \in Triggers |-> 0]
  /\ fuel = Fuel

SpellKinds == {"Spell", "SplitSecond"}
Timings == {"Instant", "Sorcery"}

\* What a player may do on their own account.
PlayerAction(p) ==
  \/ \E kind \in SpellKinds, timing \in Timings : CastSpell(p, kind, timing)
  \/ \E timing \in Timings : ActivateAbility(p, timing)
  \/ ActivateManaAbility(p)
  \/ PlayLand(p)
  \/ \E attacks \in AttackChoices(p) : DeclareAttackers(p, attacks)
  \/ Concede(p)

\* Effects come from resolving cards, and a resolution leaves no pass behind.
EffectWindow == step # "NotStarted" /\ passes = 0

Effect ==
  /\ EffectWindow
  /\ \/ LifeEffect
     \/ \E p \in Players : DrawFromEmptyLibrary(p)
     \/ \E c \in creatures : DamageCreature(c) \/ DestroyPermanent(c)
     \/ \E i \in DOMAIN stack : CounterStackEntry(i) \/ \E p \in Players : CopyStackEntry(p, i)
     \/ CheckStateBasedActions
     \/ RequestCleanupPriority
     \/ \E t \in Triggers : RegisterTriggeredAbility(t) \/ UnregisterTriggeredAbility(t)

Pass == \E p \in Players : PassTo(p) \/ ResolveTop(p) \/ CompleteStep(p) \/ RejectedPass(p)

\* The game has ended and nothing more is asked of the kernel.
GameOver == outcome # "InProgress" /\ UNCHANGED vars

Next ==
  \/ StartTurn
  \/ AdvanceStep
  \/ Pass
  \/ PutPendingTriggeredAbilitiesOnStack
  \/ \E d \in Players : DeclareBlockers(d)
  \/ AssignCombatDamage
  \/ \E p \in Players : PlayerAction(p)
  \/ Effect
  \/ GameOver

Spec == Init /\ [][Next]_vars
====
