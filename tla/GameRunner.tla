---- MODULE GameRunner ----
(***************************************************************************)
(* The driver loop of forge-game-runner (GameDriver::run_controlled)       *)
(* composed with the kernel: every dispatch is an action of Kernel, and    *)
(* the variables below are what the driver remembers between dispatches.   *)
(* The driver is sequential; "at" is where it stands.  A dispatch that the *)
(* kernel rejects ends the whole run with an error, named by "result".     *)
(*                                                                         *)
(* Left out: which card, target or payment is chosen, the decision and     *)
(* search layers above a choice, commander zone moves and runtime          *)
(* registration (they change nothing the kernel model keeps), metrics.     *)
(***************************************************************************)
EXTENDS Kernel, Selection

CONSTANTS MaxTurns,  \* max_turns: the turn cap of the run
          Policies   \* who may play: choosing players (an AI, a live human) or
                     \* the fixed baseline policy

\* What Fuel keeps back for combat: a declaration and two damage steps a turn.
Reserve == 3 * MaxTurns

ASSUME RunnerAssumption ==
  /\ MaxTurns \in Nat /\ MaxTurns < MaxTurn /\ Fuel >= Reserve
  /\ Policies \subseteq {"Choosing", "Baseline"}

\* What the triggers of compiled cards watch (TriggeredAbilityProgram::bind).  The
\* permanent that enters is a resolving spell: only permanents compile with
\* triggers, and an enter trigger for other permanents requires a creature.
CompiledKinds ==
  {"Upkeep", "CardDrawn", "AttackDeclared", "StackEntryAdded", "StackEntryCopied",
   "SpellMoved", "CombatDamageDealt"}

ASSUME CompiledAssumption == \A t \in Triggers : Watches[t] \in CompiledKinds

VARIABLES
  policy,        \* which of the policies plays this run
  at,            \* where the driver stands
  result,        \* "Running", or what run_controlled returns
  owed,          \* a pending_*_resolution waits for its choices
  attacks,       \* current_attacks
  blockQueue,    \* defenders still to be asked for blocks
  mainDone, attackersDone, blockersDone, damageDone, \* once-per-turn sets
  dealt          \* history: damage assignments in this combat damage step

\* repeat_main_actions
Repeat == policy = "Choosing"

doneVars == <<mainDone, attackersDone, blockersDone, damageDone>>
runnerVars == <<policy, at, result, owed, attacks, blockQueue, doneVars, dealt>>
allVars == <<vars, runnerVars>>

Results == {"Running", "Won", "NoWinner", "TurnLimit", "BlocksRejected", "PassRejected",
            "PassedWithoutPriority", "LandRejected", "CastRejected", "Overlap"}
Places == {"Setup", "Loop", "Main", "FixedLand", "FixedMana", "FixedCast", "Register",
           "Effects", "Blocks"}

\* The driver moves to place l after a dispatch that may begin a damage step.
GoTo(l) ==
  /\ at' = l /\ UNCHANGED <<policy, result, owed, attacks, blockQueue, doneVars>>
  /\ dealt' = IF <<step', combat'.damageStep>> = <<step, combat.damageStep>> THEN dealt ELSE 0

\* The run returns, in the middle of whatever it was doing.
EndWith(r) == result' = r /\ UNCHANGED <<policy, at, owed, attacks, blockQueue, doneVars, dealt>>

\* Bound: choices beyond combat's own dispatches, made and to come.
MayChoose == fuel + Cardinality(attackersDone) + Cardinality(damageDone) > Reserve

----------------------------------------------------------------------------
(* The top of the loop *)

Running == result = "Running"
AtLoop == Running /\ at = "Loop" /\ outcome = "InProgress"

\* Mutant: choices owed by a resolution do not come before everything else.
Ready_IgnoresOwed == AtLoop /\ turn <= MaxTurns

\* Past the checks that come first: owed choices, then the turn cap.
Ready == AtLoop /\ ~owed /\ turn <= MaxTurns

\* A player with priority may be asked: no trigger waits to be placed.
Asked(p) == Ready /\ NonePending(pending) /\ priority = p

\* Mutant: the turn is not part of the once-per-turn key.
Key_Constant == 1

Key == turn
\* Mutant: the baseline plays its main phase at every chance.
MainTurn_EachTime == step = "PrecombatMain" /\ priority = active

MainTurn == step = "PrecombatMain" /\ priority = active /\ (Repeat \/ Key \notin mainDone)
AttackTurn == step = "DeclareAttackers" /\ priority = active /\ Key \notin attackersDone
BlockTurn == step = "DeclareBlockers" /\ priority = active /\ Key \notin blockersDone

\* Mutant: damage is assigned once a turn, not once a damage step.
DamageKey_TurnOnly == <<turn, "Damage">>

DamageKey == <<turn, combat.damageStep>>
DamageTurn == step = "CombatDamage" /\ priority = active /\ DamageKey \notin damageDone

Setup == Running /\ at = "Setup" /\ StartTurn /\ GoTo("Loop")

\* Mutant: the owed choices are read and stay owed.
TakeOwed_Clones == UNCHANGED owed

TakeOwed == owed' = FALSE

CompletePendingResolution ==
  /\ AtLoop /\ owed /\ TakeOwed /\ at' = "Effects"
  /\ UNCHANGED <<vars, policy, result, attacks, blockQueue, doneVars, dealt>>

TurnLimit == AtLoop /\ ~owed /\ turn > MaxTurns /\ EndWith("TurnLimit") /\ UNCHANGED vars

PlaceTriggers == Ready /\ PutPendingTriggeredAbilitiesOnStack /\ GoTo("Loop")

AdvanceUnattendedStep == Ready /\ AdvanceStep /\ GoTo("Loop")

Finish ==
  /\ Running /\ at = "Loop" /\ outcome # "InProgress"
  /\ EndWith(IF outcome = "Won" THEN "Won" ELSE "NoWinner")
  /\ UNCHANGED vars

----------------------------------------------------------------------------
(* Passing, resolving, casting *)

\* handle_resolution: the effects of what resolved run now, or wait at the
\* top of the loop for the choices they need; what fizzled has none.
AfterResolution ==
  \/ GoTo("Loop")
  \/ GoTo("Effects")
  \/ /\ ~owed /\ owed' = TRUE /\ at' = "Loop"
     /\ UNCHANGED <<policy, result, attacks, blockQueue, doneVars, dealt>>
  \/ owed /\ EndWith("Overlap")

\* pass_priority: whoever holds priority passes.
PassPriority ==
  \/ /\ priority # NoPlayer
     /\ \/ (PassTo(priority) \/ CompleteStep(priority)) /\ GoTo("Loop")
        \/ ResolveTop(priority) /\ AfterResolution
        \/ RejectedPass(priority) /\ EndWith("PassRejected")
        \/ ~NonePending(pending) /\ EndWith("PassRejected") /\ UNCHANGED vars
  \/ priority = NoPlayer /\ EndWith("PassedWithoutPriority") /\ UNCHANGED vars

\* cast_program_with_choices goes on to register_triggers.
Cast(p) ==
  /\ MayChoose
  /\ \E kind \in SpellKinds, timing \in Timings : CastSpell(p, kind, timing)
  /\ GoTo("Register")

RegisterTriggers ==
  /\ Running /\ at = "Register"
  /\ \/ UNCHANGED vars /\ GoTo("Loop")
     \/ MayChoose /\ (\E t \in Triggers : RegisterTriggeredAbility(t)) /\ GoTo("Register")

ActivateProgram(p) ==
  MayChoose /\ (\E timing \in Timings : ActivateAbility(p, timing)) /\ GoTo("Loop")

\* Compiled mana abilities hurt nobody but their controller.
TapForMana(p) ==
  MayChoose /\ ActivateManaAbility(p) /\ doomed' \in {doomed, doomed \cup {p}}

ConcedeGame(p) == MayChoose /\ Concede(p) /\ GoTo("Loop")

\* The actions an effect program binds; compiled cards copy no stack entry.
\* A conditional trigger of a spell that did not enter is unregistered here.
RunEffects ==
  /\ Running /\ at = "Effects"
  /\ \/ UNCHANGED vars /\ GoTo("Loop")
     \/ /\ MayChoose
        /\ \/ LifeEffect
           \/ \E p \in Players : DrawFromEmptyLibrary(p)
           \/ \E c \in creatures : DamageCreature(c) \/ DestroyPermanent(c)
           \/ \E i \in DOMAIN stack : CounterStackEntry(i)
           \/ \E t \in Triggers : UnregisterTriggeredAbility(t)
        /\ GoTo("Effects")

----------------------------------------------------------------------------
(* The main phase *)

EnterMain ==
  /\ Asked(active) /\ MainTurn
  /\ at' = IF Repeat THEN "Main" ELSE "FixedLand"
  /\ mainDone' = IF Repeat THEN mainDone ELSE mainDone \cup {Key}
  /\ UNCHANGED <<vars, policy, result, owed, attacks, blockQueue, attackersDone, blockersDone,
                 damageDone, dealt>>

\* One turn of the loop of take_ai_ and take_human_main_phase_actions: it asks
\* again after a land or a mana ability, without looking at the outcome.
MainAction ==
  /\ Running /\ at = "Main"
  /\ \/ MayChoose /\ PlayLand(active) /\ GoTo("Main")
     \/ /\ TapForMana(active)
        /\ GoTo(IF stack # <<>> \/ priority # active THEN "Loop" ELSE "Main")
     \/ Cast(active)
     \/ ActivateProgram(active)
     \/ ConcedeGame(active)
     \/ PassPriority

\* take_main_phase_actions: a land, every mana source, one permanent spell.
FixedLand ==
  /\ Running /\ at = "FixedLand"
  /\ \/ UNCHANGED vars /\ GoTo("FixedMana")
     \/ MayChoose /\ PlayLand(active) /\ GoTo("FixedMana")
     \/ /\ MayChoose /\ ~(priority = active /\ SorceryTiming(active) /\ active \notin landPlayed)
        /\ UNCHANGED vars /\ EndWith("LandRejected")

FixedMana ==
  /\ Running /\ at = "FixedMana"
  /\ \/ UNCHANGED vars /\ GoTo("FixedCast")
     \/ TapForMana(active) /\ GoTo("FixedMana")

FixedCast ==
  /\ Running /\ at = "FixedCast"
  /\ \/ UNCHANGED vars /\ GoTo("Loop")
     \/ MayChoose /\ CastSpell(active, "Spell", "Sorcery") /\ GoTo("Register")
     \/ /\ MayChoose /\ ~(priority = active /\ SorceryTiming(active) /\ ~SplitSecondOnStack)
        /\ UNCHANGED vars /\ EndWith("CastRejected")

----------------------------------------------------------------------------
(* Combat and the other priority windows *)

\* The fixed policy sends every attacker at one opponent.
DeclareTurnAttackers ==
  /\ Asked(active) /\ AttackTurn
  /\ \E chosen \in AttackChoices(active) :
       /\ ~Repeat => Cardinality({a[2] : a \in chosen}) <= 1
       /\ DeclareAttackers(active, chosen)
       /\ attacks' = chosen
  /\ attackersDone' = attackersDone \cup {Key}
  /\ UNCHANGED <<policy, at, result, owed, blockQueue, mainDone, blockersDone, damageDone,
                 dealt>>

\* The players attacked by current_attacks, in turn order.
CurrentDefendingPlayers ==
  Keep([k \in 1 .. N - 1 |-> (active + k) % N], {a[2] : a \in attacks})

EnterBlocks ==
  /\ Asked(active) /\ BlockTurn
  /\ at' = "Blocks" /\ blockQueue' = CurrentDefendingPlayers
  /\ blockersDone' = blockersDone \cup {Key}
  /\ UNCHANGED <<vars, policy, result, owed, attacks, mainDone, attackersDone, damageDone, dealt>>

\* The next defender's blocks, or the kernel's refusal of a player whom no
\* creature attacks any more.
AskForBlocks ==
  /\ Running /\ at = "Blocks"
  /\ \/ /\ blockQueue = <<>> /\ UNCHANGED vars /\ GoTo("Loop")
     \/ /\ blockQueue # <<>> /\ DeclareBlockers(Head(blockQueue))
        /\ blockQueue' = Tail(blockQueue)
        /\ UNCHANGED <<policy, at, result, owed, attacks, doneVars, dealt>>
     \/ /\ blockQueue # <<>> /\ Head(blockQueue) \notin AttackedPlayers(combat)
        /\ UNCHANGED vars /\ EndWith("BlocksRejected")

AssignTurnDamage ==
  /\ Asked(active) /\ DamageTurn /\ AssignCombatDamage
  /\ damageDone' = damageDone \cup {DamageKey} /\ dealt' = dealt + 1
  /\ UNCHANGED <<policy, at, result, owed, attacks, blockQueue, mainDone, attackersDone, blockersDone>>

\* take_controlled_priority_action: the fixed policy only passes.
PriorityAction(p) ==
  /\ Asked(p) /\ ~MainTurn /\ ~AttackTurn /\ ~BlockTurn /\ ~DamageTurn
  /\ \/ PassPriority
     \/ Repeat /\ Cast(p)
     \/ Repeat /\ ActivateProgram(p)
     \/ Repeat /\ TapForMana(p) /\ GoTo("Loop")
     \/ Repeat /\ ConcedeGame(p)

----------------------------------------------------------------------------
RunnerInit ==
  /\ Init
  /\ policy \in Policies /\ at = "Setup" /\ result = "Running" /\ owed = FALSE
  /\ attacks = {} /\ blockQueue = <<>>
  /\ mainDone = {} /\ attackersDone = {} /\ blockersDone = {} /\ damageDone = {}
  /\ dealt = 0

Returned == ~Running /\ UNCHANGED allVars

RunnerNext ==
  \/ Setup
  \/ CompletePendingResolution
  \/ TurnLimit
  \/ PlaceTriggers
  \/ AdvanceUnattendedStep
  \/ Finish
  \/ RegisterTriggers
  \/ RunEffects
  \/ EnterMain
  \/ MainAction
  \/ FixedLand
  \/ FixedMana
  \/ FixedCast
  \/ DeclareTurnAttackers
  \/ EnterBlocks
  \/ AskForBlocks
  \/ AssignTurnDamage
  \/ \E p \in Players : PriorityAction(p)
  \/ Returned

RunnerSpec == RunnerInit /\ [][RunnerNext]_allVars
====
