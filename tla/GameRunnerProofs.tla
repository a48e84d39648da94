---- MODULE GameRunnerProofs ----
(***************************************************************************)
(* The driver loop implements the kernel: every dispatch it makes is one   *)
(* the kernel's next-state relation allows, so whatever is proved of       *)
(* Kernel holds of every run.                                              *)
(***************************************************************************)
EXTENDS GameRunnerProperties, PriorityRoundProofs, SelectionProofs

----------------------------------------------------------------------------
(* Where the driver stands and what the kernel's state is there *)

MainPlaces == {"Main", "FixedLand", "FixedMana", "FixedCast"}

\* Setup comes before the first turn and never again; effects and trigger
\* registrations run before anybody has passed; owed choices are taken at the
\* top of the loop; a main phase is played in the precombat main phase.
Placed ==
  /\ at = "Setup" <=> step = "NotStarted"
  /\ owed => at = "Loop"
  /\ owed \/ at \in {"Effects", "Register"} => passes = 0
  /\ at \in MainPlaces => step = "PrecombatMain"

LEMMA ActiveSits ==
  ASSUME Typed, Placed, at # "Setup"
  PROVE  active \in Players /\ step \in Steps
BY DEF Typed, TypeOK, Started, Placed

LEMMA PassIsAKernelStep ==
  ASSUME TypeOK, PassPriority
  PROVE  [Next]_vars
<1>1. CASE priority = NoPlayer
  BY <1>1 DEF PassPriority
<1>2. CASE priority # NoPlayer
  <2>1. priority \in Players
    BY <1>2 DEF TypeOK
  <2> QED BY <2>1 DEF PassPriority, Next, Pass
<1> QED BY <1>1, <1>2

LEMMA MainIsAKernelStep ==
  ASSUME Typed, Placed, EnterMain \/ MainAction \/ FixedLand \/ FixedMana \/ FixedCast
  PROVE  [Next]_vars
<1>1. CASE EnterMain
  BY <1>1 DEF EnterMain
<1>2. CASE MainAction \/ FixedLand \/ FixedMana \/ FixedCast
  <2>1. active \in Players
    BY <1>2, ActiveSits DEF MainAction, FixedLand, FixedMana, FixedCast
  <2>2. \/ UNCHANGED vars \/ PassPriority
        \/ PlayerAction(active)
    BY <1>2
    DEF MainAction, FixedLand, FixedMana, FixedCast, TapForMana, Cast, ActivateProgram,
        ConcedeGame, PlayerAction, SpellKinds, Timings
  <2> QED BY <2>1, <2>2, PassIsAKernelStep DEF Next, Typed
<1> QED BY <1>1, <1>2

LEMMA RunnerStepIsAKernelStep ==
  ASSUME Typed, Placed, [RunnerNext]_allVars
  PROVE  [Next]_vars
<1>1. TypeOK
  BY DEF Typed
<1>2. CASE Setup \/ PlaceTriggers \/ AdvanceUnattendedStep
  BY <1>2 DEF Setup, PlaceTriggers, AdvanceUnattendedStep, Next
<1>3. CASE CompletePendingResolution \/ TurnLimit \/ Finish \/ EnterBlocks \/ Returned
           \/ UNCHANGED allVars
  BY <1>3 DEF CompletePendingResolution, TurnLimit, Finish, EnterBlocks, Returned, allVars
<1>4. CASE RegisterTriggers \/ RunEffects
  <2>1. EffectWindow
    BY <1>4 DEF RegisterTriggers, RunEffects, Placed, EffectWindow
  <2>2. UNCHANGED vars \/ Effect
    BY <1>4, <2>1 DEF RegisterTriggers, RunEffects, Effect
  <2> QED BY <2>2 DEF Next
<1>5. CASE EnterMain \/ MainAction \/ FixedLand \/ FixedMana \/ FixedCast
  BY <1>5, MainIsAKernelStep
<1>6. CASE DeclareTurnAttackers
  <2>1. active \in Players
    BY <1>6, ActiveSits DEF DeclareTurnAttackers, Asked, Ready, AtLoop
  <2> QED BY <1>6, <2>1 DEF DeclareTurnAttackers, PlayerAction, Next
<1>7. CASE AskForBlocks
  <2>1. ASSUME NEW d, DeclareBlockers(d)
        PROVE  d \in Players
    BY <1>1, <2>1, CombatType DEF DeclareBlockers, TypeOK
  <2> QED BY <1>7, <2>1 DEF AskForBlocks, Next
<1>8. CASE AssignTurnDamage
  BY <1>8 DEF AssignTurnDamage, Next
<1>9. ASSUME NEW p \in Players, PriorityAction(p)
      PROVE  [Next]_vars
  <2>1. PassPriority \/ PlayerAction(p)
    BY <1>9
    DEF PriorityAction, TapForMana, Cast, ActivateProgram, ConcedeGame, PlayerAction,
        SpellKinds, Timings
  <2> QED BY <1>1, <2>1, PassIsAKernelStep DEF Next
<1> QED BY <1>2, <1>3, <1>4, <1>5, <1>6, <1>7, <1>8, <1>9 DEF RunnerNext

----------------------------------------------------------------------------
(* The driver keeps its places *)

\* What a resolution or a grant of priority leaves behind for what follows it.
LEMMA GrantStartsRound ==
  /\ \A p : ResolveTop(p) => passes' = 0 /\ UNCHANGED turnVars
  /\ \A p, kind, timing : CastSpell(p, kind, timing) => passes' = 0 /\ UNCHANGED turnVars
BY DEF ResolveTop, CastSpell, GrantPriorityTo, AssignPriority

\* A dispatch that changes neither the step nor what is owed keeps the place.
LEMMA KeptPlace ==
  ASSUME Placed, UNCHANGED <<step, owed>>, at # "Setup", at' # "Setup",
         owed' \/ at' \in {"Effects", "Register"} => passes' = 0,
         owed' => at' = "Loop", at' \in MainPlaces => step = "PrecombatMain"
  PROVE  Placed'
BY DEF Placed

LEMMA PassKeepsPlace ==
  ASSUME Typed, Placed, PassPriority, at \in {"Loop", "Main"}, ~owed
  PROVE  Placed'
<1>1. step # "NotStarted" /\ step \in Steps /\ active \in Players
  BY ActiveSits DEF Placed
<1>2. CASE PassTo(priority) /\ GoTo("Loop")
  BY <1>1, <1>2 DEF PassTo, turnVars, GoTo, Placed, MainPlaces
<1>3. CASE CompleteStep(priority) /\ GoTo("Loop")
  <2>1. step' # "NotStarted"
    BY <1>1, <1>3, AdvanceStarts DEF CompleteStep, Steps
  <2> QED BY <1>3, <2>1 DEF GoTo, Placed, MainPlaces
<1>4. CASE ResolveTop(priority) /\ AfterResolution
  <2>1. passes' = 0 /\ step' = step
    BY <1>4, GrantStartsRound DEF turnVars
  <2> QED BY <1>1, <1>4, <2>1 DEF AfterResolution, GoTo, Placed, MainPlaces
<1>5. CASE \E r : EndWith(r) /\ UNCHANGED step
  BY <1>1, <1>5 DEF EndWith, Placed
<1> QED BY <1>2, <1>3, <1>4, <1>5 DEF PassPriority, RejectedPass, turnVars, vars

\* The player whose turn it is, in the main phase and in a priority window.
LEMMA CastKeepsPlace ==
  ASSUME Placed, NEW p, Cast(p) \/ ActivateProgram(p) \/ ConcedeGame(p), ~owed, at # "Setup"
  PROVE  Placed'
<1>1. CASE Cast(p)
  BY <1>1, GrantStartsRound DEF Cast, GoTo, turnVars, Placed, MainPlaces
<1>2. CASE ActivateProgram(p) \/ ConcedeGame(p)
  BY <1>2 DEF ActivateProgram, ActivateAbility, ConcedeGame, Concede, GoTo, turnVars, Placed,
     MainPlaces
<1> QED BY <1>1, <1>2

LEMMA MainKeepsPlace ==
  ASSUME Typed, Placed, EnterMain \/ MainAction \/ FixedLand \/ FixedMana \/ FixedCast
  PROVE  Placed'
<1>1. CASE EnterMain
  BY <1>1 DEF EnterMain, Asked, Ready, AtLoop, MainTurn, Placed, MainPlaces, vars, turnVars,
     priorityVars
<1>2. ASSUME NEW l \in MainPlaces \cup {"Loop"}, at \in MainPlaces, GoTo(l),
             PlayLand(active) \/ TapForMana(active) \/ UNCHANGED vars
      PROVE  Placed'
  BY <1>2 DEF PlayLand, TapForMana, ActivateManaAbility, GoTo, Placed, MainPlaces, vars, turnVars
<1>3. CASE MainAction
  <2>1. at = "Main" /\ ~owed
    BY <1>3 DEF MainAction, Placed
  <2>2. \/ PlayLand(active) /\ GoTo("Main")
        \/ TapForMana(active) /\ (GoTo("Loop") \/ GoTo("Main"))
        \/ Cast(active) \/ ActivateProgram(active) \/ ConcedeGame(active)
        \/ PassPriority
    BY <1>3 DEF MainAction
  <2> QED BY <1>2, <2>1, <2>2, CastKeepsPlace, PassKeepsPlace DEF MainPlaces
<1>4. CASE FixedLand
  <2>1. at = "FixedLand"
    BY <1>4 DEF FixedLand
  <2>2. \/ (PlayLand(active) \/ UNCHANGED vars) /\ GoTo("FixedMana")
        \/ UNCHANGED vars /\ EndWith("LandRejected")
    BY <1>4 DEF FixedLand
  <2>3. CASE UNCHANGED vars /\ EndWith("LandRejected")
    BY <2>3 DEF EndWith, Placed, vars, turnVars, priorityVars
  <2> QED BY <1>2, <2>1, <2>2, <2>3 DEF MainPlaces
<1>5. CASE FixedMana
  BY <1>2, <1>5 DEF FixedMana, MainPlaces
<1>6. CASE FixedCast
  <2>1. at = "FixedCast" /\ ~owed /\ step = "PrecombatMain"
    BY <1>6 DEF FixedCast, Placed, MainPlaces
  <2>2. CASE CastSpell(active, "Spell", "Sorcery") /\ GoTo("Register")
    BY <2>1, <2>2, GrantStartsRound DEF GoTo, turnVars, Placed, MainPlaces
  <2>3. CASE UNCHANGED vars /\ GoTo("Loop")
    BY <1>2, <2>1, <2>3 DEF MainPlaces
  <2>4. CASE UNCHANGED vars /\ EndWith("CastRejected")
    BY <2>4 DEF EndWith, Placed, vars, turnVars, priorityVars
  <2> QED BY <1>6, <2>2, <2>3, <2>4 DEF FixedCast
<1> QED BY <1>1, <1>3, <1>4, <1>5, <1>6

LEMMA PlacedNext ==
  ASSUME Typed, Placed, [RunnerNext]_allVars
  PROVE  Placed'
<1>1. CASE Setup
  BY <1>1 DEF Setup, StartTurn, BeginTurn, GoTo, Placed, MainPlaces
<1>2. CASE CompletePendingResolution
  BY <1>2 DEF CompletePendingResolution, AtLoop, TakeOwed, Placed, MainPlaces, vars, turnVars,
     priorityVars
<1>3. CASE TurnLimit \/ Finish \/ Returned \/ UNCHANGED allVars
  BY <1>3 DEF TurnLimit, Finish, Returned, EndWith, allVars, runnerVars, Placed, vars, turnVars,
     priorityVars
<1>4. CASE PlaceTriggers
  BY <1>4 DEF PlaceTriggers, Ready, AtLoop, PutPendingTriggeredAbilitiesOnStack, turnVars, GoTo,
     Placed, MainPlaces
<1>5. CASE AdvanceUnattendedStep
  <2>1. at # "Setup" /\ ~owed
    BY <1>5 DEF AdvanceUnattendedStep, Ready, AtLoop
  <2>2. step' # "NotStarted"
    BY <1>5, <2>1, ActiveSits, AdvanceStarts DEF AdvanceUnattendedStep, AdvanceStep, Steps
  <2> QED BY <1>5, <2>1, <2>2 DEF AdvanceUnattendedStep, GoTo, Placed, MainPlaces
<1>6. CASE RegisterTriggers
  BY <1>6 DEF RegisterTriggers, RegisterTriggeredAbility, GoTo, Placed, MainPlaces, vars,
     turnVars, priorityVars
<1>7. CASE RunEffects
  <2>1. UNCHANGED <<turnVars, priorityVars>>
    BY <1>7 DEF RunEffects, LifeEffect, DrawFromEmptyLibrary, DamageCreature, DestroyPermanent,
       CounterStackEntry, UnregisterTriggeredAbility, vars
  <2> QED BY <1>7, <2>1 DEF RunEffects, GoTo, Placed, MainPlaces, turnVars, priorityVars
<1>8. CASE EnterMain \/ MainAction \/ FixedLand \/ FixedMana \/ FixedCast
  BY <1>8, MainKeepsPlace
<1>9. CASE DeclareTurnAttackers
  BY <1>9 DEF DeclareTurnAttackers, Asked, Ready, AtLoop, DeclareAttackers, turnVars, Placed,
     MainPlaces
<1>10. CASE EnterBlocks
  BY <1>10 DEF EnterBlocks, Asked, Ready, AtLoop, vars, turnVars, Placed, MainPlaces
<1>11. CASE AskForBlocks
  <2>1. at = "Blocks" /\ ~owed /\ step' = step
    BY <1>11 DEF AskForBlocks, Placed, DeclareBlockers, vars, turnVars
  <2> QED BY <1>11, <2>1 DEF AskForBlocks, GoTo, EndWith, Placed, MainPlaces
<1>12. CASE AssignTurnDamage
  BY <1>12 DEF AssignTurnDamage, Asked, Ready, AtLoop, AssignCombatDamage, turnVars, Placed,
     MainPlaces
<1>13. ASSUME NEW p \in Players, PriorityAction(p)
       PROVE  Placed'
  <2>1. at = "Loop" /\ ~owed
    BY <1>13 DEF PriorityAction, Asked, Ready, AtLoop
  <2>2. CASE TapForMana(p) /\ GoTo("Loop")
    BY <2>1, <2>2 DEF TapForMana, ActivateManaAbility, GoTo, Placed, MainPlaces, turnVars
  <2> QED BY <1>13, <2>1, <2>2, PassKeepsPlace, CastKeepsPlace DEF PriorityAction
<1> QED
  BY <1>1, <1>2, <1>3, <1>4, <1>5, <1>6, <1>7, <1>8, <1>9, <1>10, <1>11, <1>12, <1>13
  DEF RunnerNext

LEMMA PlacedAlways == RunnerSpec => [](Typed /\ Placed)
<1>1. RunnerInit => Typed /\ Placed
  BY InitType DEF RunnerInit, Typed, Init, Placed, MainPlaces
<1>2. Typed /\ Placed /\ [RunnerNext]_allVars => (Typed /\ Placed)'
  BY RunnerStepIsAKernelStep, PlacedNext, NextType, StartedNext DEF Typed
<1> QED BY <1>1, <1>2, PTL DEF RunnerSpec

\* The driver only ever asks of the kernel what the kernel's next-state
\* relation allows: effects run before anybody passes again, a step is advanced
\* by the driver only when nobody can act, the first turn starts once.
THEOREM DriverImplementsKernel == RunnerSpec => RunIsAKernelBehaviour
<1>1. RunnerInit => Init
  BY DEF RunnerInit
<1>2. Typed /\ Placed /\ [RunnerNext]_allVars => [Next]_vars
  BY RunnerStepIsAKernelStep
<1> QED BY <1>1, <1>2, PlacedAlways, PTL DEF RunnerSpec, RunIsAKernelBehaviour

\* So the kernel's promises are the promises of every run.
THEOREM RunsKeepTheRules ==
  RunnerSpec =>
    /\ [](TypeOK /\ PriorityAccountedFor /\ NobodyWaitsOnTheStack
          /\ CombatIsOnBattlefield)
    /\ PriorityRounds /\ TurnEndsWhenSettled /\ LossBeforePriority
<1>1. RunnerSpec => Spec
  BY DriverImplementsKernel DEF RunIsAKernelBehaviour, Spec
<1> QED
  BY <1>1, TypeCorrect, SomebodyActs, StackIsNeverStranded,
     FightersAreOnBattlefield, KernelImplementsPriorityRound, TurnsEndSettled, LossComesFirst,
     PTL

----------------------------------------------------------------------------
(* What a step of the driver does to the round and to the turn *)

\* A dispatch that starts no step, and neither counts nor forgets a pass
\* except by starting the round again.
Within == SameWhere /\ (passes' = 0 \/ UNCHANGED <<priority, passes>>)

\* A player who was asked what to do passed.
AskedAndPassed(p) ==
  /\ PassTo(p) \/ CompleteStep(p)
  /\ \/ step = "PrecombatMain"
     \/ turn <= MaxTurns /\ ~owed /\ priority = p /\ ~AttackTurn /\ ~BlockTurn /\ ~DamageTurn

LEMMA SbaIsWithin ==
  ASSUME TypeOK, PerformStateBasedActions(Now), UNCHANGED turnVars
  PROVE  SameWhere
<1>1. Now.combat = combat /\ combat \in CombatStates
  BY DEF Now, TypeOK
<1> QED BY <1>1, SbaKeepsDamageStep DEF SameWhere, turnVars

LEMMA PlayerActionIsWithin ==
  ASSUME TypeOK, RoundInv, NEW p \in Players, PlayerAction(p)
  PROVE  Within
<1>1. SameWhere
  BY PlayerActionStep DEF RoundInv
<1>2. passes' = 0 \/ UNCHANGED <<priority, passes>>
  BY DEF PlayerAction, CastSpell, ActivateAbility, AfterPriorityAction, ActivateManaAbility,
     PlayLand, DeclareAttackers, Concede, GrantPriorityTo, AssignPriority, DropPriorityIfOver,
     priorityVars
<1> QED BY <1>1, <1>2 DEF Within

LEMMA EffectIsWithin ==
  ASSUME TypeOK, Effect
  PROVE  Within
<1>1. passes' = 0
  BY DEF Effect, EffectWindow, LifeEffect, DrawFromEmptyLibrary, DamageCreature,
     DestroyPermanent, CounterStackEntry, CopyStackEntry, CheckStateBasedActions,
     RequestCleanupPriority, RegisterTriggeredAbility, UnregisterTriggeredAbility,
     DropPriorityIfOver, priorityVars
<1> QED BY <1>1, EffectStep DEF Within

LEMMA ResolveIsWithin ==
  ASSUME TypeOK, NEW p \in Players, ResolveTop(p)
  PROVE  Within
<1>1. PICK change, E : GrantPriorityTo(active, [Now EXCEPT !.doomed = change[1]], E)
  BY DEF ResolveTop
<1>2. [Now EXCEPT !.doomed = change[1]].combat = combat /\ combat \in CombatStates
  BY DEF Now, TypeOK
<1> QED BY <1>1, <1>2, GrantKeepsDamageStep DEF ResolveTop, Within, SameWhere, turnVars

\* What passing priority comes to.
LEMMA PassPriorityMoves ==
  ASSUME TypeOK, PassPriority
  PROVE  \/ Within
         \/ priority \in Players /\ (PassTo(priority) \/ CompleteStep(priority)) /\ GoTo("Loop")
<1>1. CASE UNCHANGED vars
  BY <1>1 DEF Within, SameWhere, vars, turnVars, combatVars, priorityVars
<1>2. CASE ~(UNCHANGED vars)
  <2>1. priority \in Players
    BY <1>2 DEF PassPriority, TypeOK
  <2>2. CASE ResolveTop(priority)
    BY <2>1, <2>2, ResolveIsWithin
  <2>3. CASE RejectedPass(priority)
    BY <2>3 DEF RejectedPass, Within, SameWhere, turnVars, combatVars
  <2> QED BY <1>2, <2>1, <2>2, <2>3 DEF PassPriority
<1> QED BY <1>1, <1>2

LEMMA RunnerMoves ==
  ASSUME Typed, Placed, RoundInv, [RunnerNext]_allVars
  PROVE  \/ Within
         \/ Setup \/ AdvanceUnattendedStep
         \/ \E p \in Players : AskedAndPassed(p) /\ GoTo("Loop")
<1>1. TypeOK /\ (UNCHANGED vars => Within)
  BY DEF Typed, Within, SameWhere, vars, turnVars, combatVars, priorityVars
<1>2. CASE UNCHANGED vars
  BY <1>1, <1>2
<1>3. CASE PlaceTriggers
  <2>1. SameWhere
    BY <1>1, <1>3, SbaIsWithin DEF PlaceTriggers, PutPendingTriggeredAbilitiesOnStack
  <2>2. passes' = 0
    BY <1>3 DEF PlaceTriggers, PutPendingTriggeredAbilitiesOnStack, AssignPriority
  <2> QED BY <2>1, <2>2 DEF Within
<1>4. CASE RegisterTriggers \/ RunEffects
  <2>1. EffectWindow
    BY <1>4 DEF RegisterTriggers, RunEffects, Placed, EffectWindow
  <2>2. UNCHANGED vars \/ Effect
    BY <1>4, <2>1 DEF RegisterTriggers, RunEffects, Effect
  <2> QED BY <1>1, <2>2, EffectIsWithin
<1>5. CASE MainAction \/ FixedLand \/ FixedMana \/ FixedCast
  <2>1. active \in Players /\ step = "PrecombatMain"
    BY <1>5, ActiveSits DEF MainAction, FixedLand, FixedMana, FixedCast, Placed, MainPlaces
  <2>2. PassPriority \/ UNCHANGED vars \/ PlayerAction(active)
    BY <1>5
    DEF MainAction, FixedLand, FixedMana, FixedCast, TapForMana, Cast, ActivateProgram,
        ConcedeGame, PlayerAction, SpellKinds, Timings
  <2>3. CASE PassPriority
    BY <1>1, <2>1, <2>3, PassPriorityMoves DEF AskedAndPassed
  <2>4. CASE PlayerAction(active)
    BY <1>1, <2>1, <2>4, PlayerActionIsWithin
  <2> QED BY <1>1, <2>2, <2>3, <2>4
<1>6. CASE DeclareTurnAttackers
  <2>1. active \in Players
    BY <1>6, ActiveSits DEF DeclareTurnAttackers, Asked, Ready, AtLoop
  <2>2. PlayerAction(active)
    BY <1>6 DEF DeclareTurnAttackers, PlayerAction
  <2> QED BY <1>1, <2>1, <2>2, PlayerActionIsWithin
<1>7. CASE AskForBlocks
  <2>1. ASSUME NEW d, DeclareBlockers(d)
        PROVE  Within
    <3>1. d \in Players
      BY <1>1, <2>1, CombatType DEF DeclareBlockers, TypeOK
    <3>2. passes' = 0 \/ UNCHANGED <<priority, passes>>
      BY <2>1 DEF DeclareBlockers, GrantPriorityTo, AssignPriority, priorityVars
    <3> QED BY <1>1, <2>1, <3>1, <3>2, DeclareBlockersStep DEF Within
  <2> QED BY <1>1, <1>7, <2>1 DEF AskForBlocks
<1>8. CASE AssignTurnDamage
  <2>1. SameWhere
    BY <1>1, <1>8, AssignCombatDamageStep DEF AssignTurnDamage
  <2> QED BY <1>8, <2>1 DEF AssignTurnDamage, AssignCombatDamage, DropPriorityIfOver, Within
<1>9. ASSUME NEW p \in Players, PriorityAction(p)
      PROVE  Within \/ (AskedAndPassed(p) /\ GoTo("Loop"))
  <2>1. at = "Loop" /\ turn <= MaxTurns /\ ~owed /\ priority = p
        /\ ~AttackTurn /\ ~BlockTurn /\ ~DamageTurn
    BY <1>9 DEF PriorityAction, Asked, Ready, AtLoop
  <2>2. CASE PassPriority
    BY <1>1, <2>1, <2>2, PassPriorityMoves DEF AskedAndPassed
  <2>3. CASE PlayerAction(p)
    BY <1>1, <2>3, PlayerActionIsWithin
  <2>4. PassPriority \/ PlayerAction(p)
    BY <1>9
    DEF PriorityAction, TapForMana, Cast, ActivateProgram, ConcedeGame, PlayerAction,
        SpellKinds, Timings
  <2> QED BY <2>2, <2>3, <2>4
<1> QED
  BY <1>2, <1>3, <1>4, <1>5, <1>6, <1>7, <1>8, <1>9
  DEF RunnerNext, CompletePendingResolution, TurnLimit, Finish, EnterMain, EnterBlocks, Returned,
      allVars

----------------------------------------------------------------------------
(* Nobody's turn to declare is passed over *)

\* The kernel invariants a run rests on.
KernelInv ==
  /\ Typed /\ OutcomeMatches /\ SomebodyMayAct
  /\ NobodyWaitsOnTheStack /\ RoundInv

LEMMA KernelInvNext ==
  ASSUME KernelInv, [Next]_vars
  PROVE  KernelInv'
BY NextType, StartedNext, OutcomeNext, AccountsNext, NothingWaitsNext, RoundNext
DEF KernelInv, Typed

\* The active player does not pass before being asked for the turn's attack, its
\* blocks and the damage of its combat damage step.
AskedBeforePassing ==
  active \in PassedInSuccession =>
    /\ step = "DeclareAttackers" => Key \in attackersDone
    /\ step = "DeclareBlockers" => Key \in blockersDone
    /\ step = "CombatDamage" => DamageKey \in damageDone

RunnerInv == KernelInv /\ Placed /\ AskedBeforePassing

LEMMA DoneGrows ==
  ASSUME [RunnerNext]_allVars
  PROVE  /\ attackersDone \subseteq attackersDone' /\ blockersDone \subseteq blockersDone'
         /\ damageDone \subseteq damageDone'
<1>1. PassPriority => UNCHANGED doneVars
  BY DEF PassPriority, AfterResolution, GoTo, EndWith
<1>2. CASE Setup \/ CompletePendingResolution \/ TurnLimit \/ PlaceTriggers
           \/ AdvanceUnattendedStep \/ Finish \/ RegisterTriggers \/ RunEffects \/ AskForBlocks
           \/ Returned \/ UNCHANGED allVars
  BY <1>2
  DEF Setup, CompletePendingResolution, TurnLimit, PlaceTriggers, AdvanceUnattendedStep, Finish,
      RegisterTriggers, RunEffects, AskForBlocks, Returned, GoTo, EndWith, doneVars, allVars,
      runnerVars
<1>3. CASE MainAction \/ FixedLand \/ FixedMana \/ FixedCast
  BY <1>1, <1>3
  DEF MainAction, FixedLand, FixedMana, FixedCast, Cast, ActivateProgram, ConcedeGame, GoTo,
      EndWith, doneVars
<1>4. CASE EnterMain \/ DeclareTurnAttackers \/ EnterBlocks \/ AssignTurnDamage
  BY <1>4 DEF EnterMain, DeclareTurnAttackers, EnterBlocks, AssignTurnDamage
<1>5. ASSUME NEW p \in Players, PriorityAction(p)
      PROVE  UNCHANGED doneVars
  BY <1>1, <1>5 DEF PriorityAction, Cast, ActivateProgram, ConcedeGame, GoTo
<1> QED BY <1>2, <1>3, <1>4, <1>5 DEF RunnerNext, doneVars

LEMMA AskedNext ==
  ASSUME RunnerInv, [RunnerNext]_allVars
  PROVE  AskedBeforePassing'
<1>1. Typed /\ TypeOK /\ Placed /\ RoundInv
  BY DEF RunnerInv, KernelInv, Typed
<1>2. CASE passes' = 0
  BY <1>2, NoPassesNobody DEF AskedBeforePassing
<1>3. CASE SameWhere /\ UNCHANGED <<priority, passes>>
  <2>1. PassedInSuccession' = PassedInSuccession
    BY <1>3, PassedBefore
  <2> QED
    BY <1>3, <2>1, DoneGrows DEF AskedBeforePassing, RunnerInv, SameWhere, Key, DamageKey
<1>4. ASSUME NEW p \in Players, AskedAndPassed(p), PassTo(p)
      PROVE  AskedBeforePassing'
  <2>1. combat' = combat /\ UNCHANGED <<turn, active, step>> /\ priority = p
    BY <1>4 DEF PassTo, MayPass, turnVars, combatVars
  <2>2. active = p => /\ step = "DeclareAttackers" => Key \in attackersDone
                      /\ step = "DeclareBlockers" => Key \in blockersDone
                      /\ step = "CombatDamage" => DamageKey \in damageDone
    BY <1>4 DEF AskedAndPassed, AttackTurn, BlockTurn, DamageTurn
  <2>3. active \in PassedInSuccession' => active = p \/ active \in PassedInSuccession
    BY <1>1, <1>4, <2>1, PassToStep DEF Round!Pass
  <2> QED
    BY <2>1, <2>2, <2>3, DoneGrows DEF AskedBeforePassing, RunnerInv, Key, DamageKey
<1>5. CASE Setup \/ AdvanceUnattendedStep
  <2>1. passes' = 0
    BY <1>1, <1>5, AdvanceGoes DEF Setup, StartTurn, BeginTurn, AdvanceUnattendedStep, AdvanceStep
  <2> QED BY <1>2, <2>1
<1>6. ASSUME NEW p \in Players, CompleteStep(p)
      PROVE  AskedBeforePassing'
  <2>1. passes' = 0
    BY <1>1, <1>6, AdvanceGoes DEF CompleteStep
  <2> QED BY <1>2, <2>1
<1> QED BY <1>1, <1>2, <1>3, <1>4, <1>5, <1>6, RunnerMoves DEF Within, AskedAndPassed

LEMMA RunnerInvAlways == RunnerSpec => []RunnerInv
<1>1. RunnerInit => RunnerInv
  BY InitType
  DEF RunnerInit, Init, RunnerInv, KernelInv, Typed, OutcomeMatches, OutcomeOf,
      SomebodyMayAct, NobodyWaitsOnTheStack, RoundInv, DamageStepHeld, NoCombat, Placed,
      MainPlaces, AskedBeforePassing, PassedInSuccession, Steps
<1>2. RunnerInv /\ [RunnerNext]_allVars => RunnerInv'
  BY RunnerStepIsAKernelStep, KernelInvNext, PlacedNext, AskedNext DEF RunnerInv, KernelInv
<1> QED BY <1>1, <1>2, PTL DEF RunnerSpec

\* A step in which the active player declares something ends only when the last
\* of the players passes, nobody being asked for a declaration any more.
LEMMA StepEndsByPasses ==
  ASSUME RunnerInv, [RunnerNext]_allVars, ~SameWhere,
         step \in {"DeclareAttackers", "DeclareBlockers", "CombatDamage"}
  PROVE  /\ step = "DeclareAttackers" => Key \in attackersDone
         /\ step = "DeclareBlockers" => Key \in blockersDone
         /\ step = "CombatDamage" => DamageKey \in damageDone
<1>1. Typed /\ TypeOK /\ Placed /\ RoundInv /\ SomebodyMayAct
  BY DEF RunnerInv, KernelInv, Typed
<1>2. ~Setup
  BY DEF Setup, StartTurn
<1>3. ~AdvanceUnattendedStep
  <2>1. step \in Steps \ {"Untap", "Cleanup"}
    BY DEF Steps
  <2> QED BY <1>1, <2>1, SeatsArePlayers
          DEF AdvanceUnattendedStep, AdvanceStep, SomebodyMayAct
<1>4. PICK p \in Players : AskedAndPassed(p)
  BY <1>1, <1>2, <1>3, RunnerMoves DEF Within
<1>5. ~PassTo(p)
  BY DEF PassTo, turnVars, combatVars, SameWhere
<1>6. CompleteStep(p) /\ priority = p /\ ~AttackTurn /\ ~BlockTurn /\ ~DamageTurn
  BY <1>4, <1>5 DEF AskedAndPassed
<1>7. PassedInSuccession \cup {p} = Players /\ active \in Players
  BY <1>1, <1>6, LastPass, HolderMeansStarted DEF CompleteStep, Typed
<1>8. CASE active = p
  BY <1>6, <1>8 DEF AttackTurn, BlockTurn, DamageTurn
<1>9. CASE active \in PassedInSuccession
  BY <1>9 DEF RunnerInv, AskedBeforePassing
<1> QED BY <1>7, <1>8, <1>9

\* No turn's attack is forgotten: however priority goes round, the
\* declare-attackers step of a run ends only after its active player was asked.
THEOREM NoAttackIsForgotten == RunnerSpec => EveryTurnAttacks
<1>1. RunnerInv /\ [RunnerNext]_allVars
        => [step = "DeclareAttackers" /\ step' # step => turn \in attackersDone]_allVars
  BY StepEndsByPasses DEF SameWhere, Key
<1> QED BY <1>1, RunnerInvAlways, PTL DEF RunnerSpec, EveryTurnAttacks

----------------------------------------------------------------------------
(* Combat damage is dealt once in each combat damage step *)

\* The combat damage sub-step ds of this turn has been reached.
Reached(ds) ==
  \/ step \in {"EndOfCombat", "PostcombatMain", "End", "Cleanup"}
  \/ /\ step = "CombatDamage"
     /\ ds = combat.damageStep \/ (ds = "FirstStrike" /\ combat.damageStep = "Regular")

\* Damage is booked for sub-steps that were reached, and the count of dispatches
\* in the sub-step being played agrees with the books.
DamageBooked ==
  /\ damageDone \subseteq Nat \X DamageSteps
  /\ \A k \in damageDone : k[1] < turn \/ (k[1] = turn /\ Reached(k[2]))
  /\ dealt = IF step = "CombatDamage" /\ DamageKey \in damageDone THEN 1 ELSE 0

\* The count starts again exactly when a step or a sub-step does.
CountMoves ==
  /\ damageDone' = damageDone
  /\ dealt' = IF <<step', combat'.damageStep>> = <<step, combat.damageStep>> THEN dealt ELSE 0

LEMMA GoToCounts == ASSUME NEW l, GoTo(l) PROVE CountMoves
BY DEF GoTo, CountMoves, doneVars

LEMMA SameCounts ==
  ASSUME SameWhere, UNCHANGED <<damageDone, dealt>>
  PROVE  CountMoves
BY DEF SameWhere, CountMoves

LEMMA PassPriorityCounts ==
  ASSUME TypeOK, PassPriority
  PROVE  CountMoves
<1>1. ASSUME UNCHANGED vars, NEW r, EndWith(r)
      PROVE  CountMoves
  BY <1>1, SameCounts DEF EndWith, doneVars, SameWhere, vars, turnVars, combatVars
<1>2. ASSUME priority \in Players, ResolveTop(priority), AfterResolution
      PROVE  CountMoves
  <2>1. SameWhere
    BY <1>2, ResolveIsWithin DEF Within
  <2> QED BY <1>2, <2>1, GoToCounts, SameCounts DEF AfterResolution, EndWith, doneVars
<1>3. ASSUME RejectedPass(priority), NEW r, EndWith(r)
      PROVE  CountMoves
  BY <1>3, SameCounts DEF RejectedPass, EndWith, doneVars, SameWhere, turnVars, combatVars
<1> QED BY <1>1, <1>2, <1>3, GoToCounts DEF PassPriority, TypeOK

LEMMA RunnerCounts ==
  ASSUME Typed, Placed, RoundInv, [RunnerNext]_allVars
  PROVE  AssignTurnDamage \/ CountMoves
<1>1. TypeOK
  BY DEF Typed
<1>2. ASSUME UNCHANGED <<vars, damageDone, dealt>>
      PROVE  CountMoves
  BY <1>2, SameCounts DEF SameWhere, vars, turnVars, combatVars
<1>3. CASE Setup \/ PlaceTriggers \/ AdvanceUnattendedStep \/ RegisterTriggers \/ RunEffects
  BY <1>3, GoToCounts
  DEF Setup, PlaceTriggers, AdvanceUnattendedStep, RegisterTriggers, RunEffects
<1>4. CASE CompletePendingResolution \/ TurnLimit \/ Finish \/ EnterMain \/ EnterBlocks
           \/ Returned \/ UNCHANGED allVars
  BY <1>2, <1>4
  DEF CompletePendingResolution, TurnLimit, Finish, EnterMain, EnterBlocks, Returned, EndWith,
      doneVars, allVars, runnerVars
<1>5. CASE MainAction
  BY <1>1, <1>5, GoToCounts, PassPriorityCounts
  DEF MainAction, Cast, ActivateProgram, ConcedeGame
<1>6. CASE FixedLand \/ FixedMana \/ FixedCast
  <2>1. CountMoves \/ \E r : UNCHANGED vars /\ EndWith(r)
    BY <1>6, GoToCounts DEF FixedLand, FixedMana, FixedCast
  <2> QED BY <1>2, <2>1 DEF EndWith, doneVars
<1>7. CASE DeclareTurnAttackers
  <2>1. active \in Players /\ PlayerAction(active)
    BY <1>7, ActiveSits DEF DeclareTurnAttackers, Asked, Ready, AtLoop, PlayerAction
  <2>2. SameWhere
    BY <1>1, <2>1, PlayerActionIsWithin DEF Within
  <2> QED BY <1>7, <2>2, SameCounts DEF DeclareTurnAttackers
<1>8. CASE AskForBlocks
  <2>1. ASSUME NEW d, DeclareBlockers(d)
        PROVE  SameWhere
    <3>1. d \in Players
      BY <1>1, <2>1, CombatType DEF DeclareBlockers, TypeOK
    <3> QED BY <1>1, <2>1, <3>1, DeclareBlockersStep
  <2>2. \/ \E l : GoTo(l)
        \/ SameWhere /\ UNCHANGED <<damageDone, dealt>>
        \/ UNCHANGED vars /\ \E r : EndWith(r)
    BY <1>8, <2>1 DEF AskForBlocks, doneVars
  <2> QED BY <1>2, <2>2, GoToCounts, SameCounts DEF EndWith, doneVars
<1>9. ASSUME NEW p \in Players, PriorityAction(p)
      PROVE  CountMoves
  BY <1>1, <1>9, GoToCounts, PassPriorityCounts
  DEF PriorityAction, Cast, ActivateProgram, ConcedeGame
<1> QED BY <1>3, <1>4, <1>5, <1>6, <1>7, <1>8, <1>9 DEF RunnerNext

\* An advance reaches a damage sub-step that was not booked, or none.
LEMMA AdvanceBooks ==
  ASSUME TypeOK, DamageStepHeld, DamageBooked, CountMoves, AdvanceStepAfterEmptyStack,
         step \in Steps, NextStep = "Untap" => turn < MaxTurn
  PROVE  DamageBooked'
<1>1. /\ step' = NextStep /\ combat'.damageStep = DamageStepAfter /\ turn \in Nat
      /\ turn' = IF NextStep = "Untap" THEN turn + 1 ELSE turn
  BY AdvanceGoes, BoundsAssumption DEF TypeOK
<1>2. combat.damageStep \in DamageSteps
      /\ BeginCombatDamageStep(combat).damageStep \in
           (IF combat.damageStep = "FirstStrike" THEN {"Regular"} ELSE {"Normal", "FirstStrike"})
  BY DEF TypeOK, CombatStates, BeginCombatDamageStep
<1>3. ASSUME NEW k \in damageDone
      PROVE  k[1] < turn' \/ (k[1] = turn' /\ Reached(k[2])')
  <2>1. k[1] \in Nat
    BY DEF DamageBooked
  <2>2. CASE NextStep = "Untap"
    BY <1>1, <2>1, <2>2 DEF DamageBooked
  <2>3. CASE NextStep # "Untap" /\ k[1] = turn
    <3>1. Reached(k[2])
      BY <2>3, <1>1 DEF DamageBooked
    <3>2. CASE step = "CombatDamage"
      BY <1>1, <1>2, <2>3, <3>1, <3>2
      DEF Reached, DamageStepAfter, NextStep, NextNormalStep, Steps
    <3>3. CASE step # "CombatDamage"
      BY <1>1, <2>3, <3>1, <3>3 DEF Reached, NextStep, NextNormalStep, Steps
    <3> QED BY <3>2, <3>3
  <2> QED BY <1>1, <2>1, <2>2, <2>3 DEF DamageBooked
<1>4. dealt' = IF step' = "CombatDamage" /\ DamageKey' \in damageDone' THEN 1 ELSE 0
  <2>1. CASE NextStep = "CombatDamage"
    <3>1. step \in {"DeclareBlockers", "CombatDamage"} /\ turn' = turn
          /\ (step = "CombatDamage" => combat.damageStep = "FirstStrike")
      BY <1>1, <2>1 DEF NextStep, NextNormalStep, Steps
    <3>2. DamageKey' = <<turn, DamageStepAfter>>
      BY <1>1, <3>1 DEF DamageKey
    <3>3. <<turn, DamageStepAfter>> \notin damageDone
      <4>1. ~Reached(DamageStepAfter)
        BY <1>2, <2>1, <3>1 DEF Reached, DamageStepAfter
      <4> QED BY <1>1, <4>1 DEF DamageBooked
    <3>4. dealt' = 0
      <4>1. <<step', combat'.damageStep>> # <<step, combat.damageStep>>
        BY <1>1, <1>2, <2>1, <3>1 DEF DamageStepAfter
      <4> QED BY <4>1 DEF CountMoves
    <3> QED BY <3>2, <3>3, <3>4 DEF CountMoves
  <2>2. CASE NextStep # "CombatDamage"
    <3>1. dealt' = 0
      BY <1>1, <2>2 DEF CountMoves, DamageBooked
    <3> QED BY <1>1, <2>2, <3>1
  <2> QED BY <2>1, <2>2
<1> QED BY <1>3, <1>4 DEF DamageBooked, CountMoves

LEMMA BookedNext ==
  ASSUME RunnerInv, DamageBooked, [RunnerNext]_allVars
  PROVE  DamageBooked'
<1>1. Typed /\ TypeOK /\ Placed /\ RoundInv /\ DamageStepHeld
  BY DEF RunnerInv, KernelInv, Typed, RoundInv
<1>2. turn \in Nat /\ combat.damageStep \in DamageSteps
  BY <1>1, BoundsAssumption DEF TypeOK, CombatStates
<1>3. CASE AssignTurnDamage
  <2>1. SameWhere
    BY <1>1, <1>3, AssignCombatDamageStep DEF AssignTurnDamage
  <2>2. /\ step = "CombatDamage" /\ DamageKey \notin damageDone /\ dealt' = dealt + 1
        /\ damageDone' = damageDone \cup {DamageKey}
    BY <1>3 DEF AssignTurnDamage, DamageTurn
  <2>3. DamageKey' = DamageKey /\ UNCHANGED <<turn, step, combat.damageStep>>
    BY <2>1 DEF SameWhere, DamageKey
  <2>4. \A ds : Reached(ds)' <=> Reached(ds)
    BY <2>3 DEF Reached
  <2>5. DamageKey \in Nat \X DamageSteps /\ DamageKey[1] = turn /\ Reached(DamageKey[2])
    BY <1>2, <2>2 DEF DamageKey, Reached
  <2>6. dealt' = 1
    BY <2>2 DEF DamageBooked
  <2>7. \A k \in damageDone' : k[1] < turn' \/ (k[1] = turn' /\ Reached(k[2])')
    BY <2>2, <2>3, <2>4, <2>5 DEF DamageBooked
  <2>8. damageDone' \subseteq Nat \X DamageSteps
    BY <2>2, <2>5 DEF DamageBooked
  <2>9. step' = "CombatDamage" /\ DamageKey' \in damageDone'
    BY <2>2, <2>3
  <2> QED BY <2>6, <2>7, <2>8, <2>9 DEF DamageBooked
<1>4. CASE CountMoves /\ SameWhere
  <2>1. DamageKey' = DamageKey /\ UNCHANGED <<turn, step, combat.damageStep, damageDone, dealt>>
    BY <1>4 DEF SameWhere, DamageKey, CountMoves
  <2>2. \A ds : Reached(ds)' <=> Reached(ds)
    BY <2>1 DEF Reached
  <2> QED BY <2>1, <2>2 DEF DamageBooked
<1>5. CASE CountMoves /\ Setup
  <2>1. step = "NotStarted" /\ step' = "Untap" /\ combat' = NoCombat
        /\ turn' = IF turn < MaxTurn THEN turn + 1 ELSE turn
    BY <1>5 DEF Setup, StartTurn, BeginTurn
  <2>2. dealt' = 0 /\ damageDone' = damageDone
    BY <1>5, <2>1 DEF CountMoves
  <2>3. \A k \in damageDone : k[1] \in Nat /\ k[1] < turn
    BY <2>1 DEF DamageBooked, Reached
  <2>4. \A k \in damageDone : k[1] < turn'
    BY <1>2, <2>1, <2>3, BoundsAssumption
  <2> QED BY <2>1, <2>2, <2>4 DEF DamageBooked
<1>6. ASSUME NEW p \in Players, AskedAndPassed(p), ~PassTo(p), CountMoves
      PROVE  DamageBooked'
  <2>1. CompleteStep(p) /\ step \in Steps
    BY <1>1, <1>6, HolderMeansStarted DEF AskedAndPassed, CompleteStep, MayPass, Typed
  <2>2. NextStep = "Untap" => turn < MaxTurn
    BY <1>2, <1>6, <2>1, RunnerAssumption, BoundsAssumption
    DEF AskedAndPassed, NextStep, NextNormalStep, Steps
  <2> QED BY <1>1, <1>6, <2>1, <2>2, AdvanceBooks DEF CompleteStep
<1>7. CASE CountMoves /\ AdvanceUnattendedStep
  <2>1. turn < MaxTurn /\ step \in Steps /\ AdvanceStepAfterEmptyStack
    BY <1>2, <1>7, RunnerAssumption, BoundsAssumption DEF AdvanceUnattendedStep, Ready, AdvanceStep
  <2> QED BY <1>1, <1>7, <2>1, AdvanceBooks
<1>8. ASSUME NEW p \in Players, PassTo(p)
      PROVE  SameWhere
  BY <1>8 DEF PassTo, turnVars, combatVars, SameWhere
<1> QED
  BY <1>1, <1>3, <1>4, <1>5, <1>6, <1>7, <1>8, RunnerMoves, RunnerCounts DEF Within

LEMMA BookedAlways == RunnerSpec => []DamageBooked
<1>1. RunnerInit => DamageBooked
  BY DEF RunnerInit, Init, DamageBooked
<1>2. RunnerInv /\ DamageBooked /\ [RunnerNext]_allVars => DamageBooked'
  BY BookedNext
<1> QED BY <1>1, <1>2, RunnerInvAlways, PTL DEF RunnerSpec

\* Every combat damage step a run goes through has its damage dealt exactly
\* once, the first-strike, the regular and the normal one alike, though the
\* driver's key for it is only the turn and the sub-step.
THEOREM DamageIsDealtOnce == RunnerSpec => DamageOnceEachStep
<1>1. RunnerInv /\ DamageBooked /\ DamageBooked' /\ [RunnerNext]_allVars
        => [/\ dealt' <= 1
            /\ step = "CombatDamage" /\ outcome = "InProgress"
               /\ <<step', combat'.damageStep>> # <<step, combat.damageStep>> => dealt = 1]_allVars
  <2> SUFFICES ASSUME RunnerInv, DamageBooked, DamageBooked', [RunnerNext]_allVars
               PROVE  /\ dealt' <= 1
                      /\ step = "CombatDamage" /\ outcome = "InProgress"
                         /\ <<step', combat'.damageStep>> # <<step, combat.damageStep>>
                         => dealt = 1
    OBVIOUS
  <2>1. dealt' <= 1
    BY DEF DamageBooked
  <2>2. ASSUME step = "CombatDamage", <<step', combat'.damageStep>> # <<step, combat.damageStep>>
        PROVE  dealt = 1
    <3>1. DamageKey \in damageDone
      BY <2>2, StepEndsByPasses DEF SameWhere
    <3> QED BY <2>2, <3>1 DEF DamageBooked
  <2> QED BY <2>1, <2>2
<1> QED BY <1>1, RunnerInvAlways, BookedAlways, PTL DEF RunnerSpec, DamageOnceEachStep

----------------------------------------------------------------------------
(* What nobody listens to *)

LEMMA NobodyHears ==
  ASSUME TypeOK, NEW E, \A e \in E : e[1] \notin CompiledKinds, Emit(E)
  PROVE  pending' = pending
<1>1. ASSUME NEW t \in Triggers
      PROVE  CountOf(E, Watches[t]) = 0
  <2>1. {e \in E : e[1] = Watches[t]} = {}
    BY CompiledAssumption
  <2> QED BY <2>1, FS_EmptySet DEF CountOf
<1>2. \A t \in Triggers : Fired(t, E) = 0
  BY <1>1 DEF Fired
<1>3. pending \in [Triggers -> Nat]
  BY DEF TypeOK
<1> QED BY <1>2, <1>3 DEF Emit, QueueOnto

LEMMA SbaUnheard ==
  ASSUME NEW now, NEW E, \A e \in E : e[1] \notin CompiledKinds
  PROVE  \A e \in E \cup SbaEvents(now) : e[1] \notin CompiledKinds
BY DEF SbaEvents, Each, CompiledKinds

\* The beginning of the precombat main phase: nothing can delay the grant.
LEMMA MainStepOpens ==
  ASSUME TypeOK, AdvanceStepAfterEmptyStack, NextStep = "PrecombatMain", NonePending(pending)
  PROVE  /\ UNCHANGED <<turn, active, stack, landPlayed>> /\ step' = "PrecombatMain"
         /\ NonePending(pending') /\ doomed' = {} /\ emptyDraw' = {}
         /\ outcome' = "InProgress" => priority' = active
<1> DEFINE now == [Now EXCEPT !.emptyDraw = emptyDraw, !.combat = combat]
<1>1. BeginPriorityStep("PrecombatMain", emptyDraw, combat, {})
  BY DEF AdvanceStepAfterEmptyStack
<1>2. /\ PerformStateBasedActions(now) /\ AssignPriority(active)
      /\ Emit({} \cup {<<"PrecombatMain", 0>>} \cup SbaEvents(now))
  BY <1>1 DEF BeginPriorityStep, GrantPriorityTo
<1> HIDE DEF now
<1>3. pending' = pending
  <2>1. \A e \in {} \cup {<<"PrecombatMain", 0>>} : e[1] \notin CompiledKinds
    BY DEF CompiledKinds
  <2> QED BY <1>2, <2>1, SbaUnheard, NobodyHears
<1>4. doomed' = {} /\ emptyDraw' = {}
  BY <1>2 DEF PerformStateBasedActions
<1>5. UNCHANGED <<turn, active, stack, landPlayed>> /\ step' = "PrecombatMain"
  BY <1>1 DEF BeginPriorityStep
<1> QED BY <1>2, <1>3, <1>4, <1>5 DEF AssignPriority, NonePending

\* Playing a land with nothing pending and nobody about to lose costs nobody
\* priority.
LEMMA LandLeavesPriority ==
  ASSUME TypeOK, OutcomeMatches, outcome = "InProgress", NonePending(pending),
         doomed = {}, emptyDraw = {}, NEW p \in Players, PlayLand(p)
  PROVE  priority' = p /\ stack' = stack
<1>1. /\ PerformStateBasedActions(Now) /\ AssignPriority(p) /\ stack' = stack
      /\ Emit({<<"LandEntered", p>>} \cup SbaEvents(Now))
  BY DEF PlayLand, AfterPriorityAction, GrantPriorityTo
<1>2. outcome' = "InProgress"
  <2>1. Losers(Now) = {}
    BY DEF Losers, Now
  <2> QED BY <1>1, <2>1 DEF PerformStateBasedActions, OutcomeMatches
<1>3. pending' = pending
  <2>1. \A e \in {<<"LandEntered", p>>} : e[1] \notin CompiledKinds
    BY DEF CompiledKinds
  <2> QED BY <1>1, <2>1, SbaUnheard, NobodyHears
<1> QED BY <1>1, <1>2, <1>3 DEF AssignPriority, NonePending

LEMMA ManaLeavesPriority ==
  ASSUME TypeOK, NEW p, ActivateManaAbility(p)
  PROVE  UNCHANGED <<turnVars, priority, stack, landPlayed, pending>>
<1>1. PICK change \in LifeChanges : Emit({<<"AbilityActivated", p>>} \cup change[2])
  BY DEF ActivateManaAbility
<1>2. \A e \in change[2] : e[1] \in {"LifeLost", "LifeGained"}
  BY DEF LifeChanges
<1>3. \A e \in {<<"AbilityActivated", p>>} \cup change[2] : e[1] \notin CompiledKinds
  BY <1>2 DEF CompiledKinds
<1>4. pending' = pending
  BY <1>1, <1>3, NobodyHears
<1> QED BY <1>4 DEF ActivateManaAbility, priorityVars

----------------------------------------------------------------------------
(* The kernel refuses the driver nothing: what the driver knows *)

\* A main phase in which players choose is played on with no trigger waiting
\* behind whoever holds priority.
MainIsOpen ==
  at = "Main" => Repeat /\ (priority # NoPlayer => NonePending(pending))

LEMMA GrantLeavesOpen ==
  ASSUME NEW p, AssignPriority(p)
  PROVE  priority' # NoPlayer => NonePending(pending')
BY DEF AssignPriority, NonePending

LEMMA SamePolicy ==
  ASSUME [RunnerNext]_allVars
  PROVE  policy' = policy
<1>1. PassPriority => policy' = policy
  BY DEF PassPriority, AfterResolution, GoTo, EndWith
<1>2. CASE Setup \/ CompletePendingResolution \/ TurnLimit \/ PlaceTriggers
           \/ AdvanceUnattendedStep \/ Finish \/ RegisterTriggers \/ RunEffects \/ AskForBlocks
           \/ Returned \/ UNCHANGED allVars
  BY <1>2
  DEF Setup, CompletePendingResolution, TurnLimit, PlaceTriggers, AdvanceUnattendedStep, Finish,
      RegisterTriggers, RunEffects, AskForBlocks, Returned, GoTo, EndWith, allVars, runnerVars
<1>3. CASE EnterMain \/ DeclareTurnAttackers \/ EnterBlocks \/ AssignTurnDamage
  BY <1>3 DEF EnterMain, DeclareTurnAttackers, EnterBlocks, AssignTurnDamage
<1>4. CASE MainAction \/ FixedLand \/ FixedMana \/ FixedCast
  BY <1>1, <1>4
  DEF MainAction, FixedLand, FixedMana, FixedCast, Cast, ActivateProgram, ConcedeGame, GoTo,
      EndWith
<1>5. ASSUME NEW p \in Players, PriorityAction(p)
      PROVE  policy' = policy
  BY <1>1, <1>5 DEF PriorityAction, Cast, ActivateProgram, ConcedeGame, GoTo
<1> QED BY <1>2, <1>3, <1>4, <1>5 DEF RunnerNext

\* Passing takes the driver to the loop or to effects, or ends the run.
LEMMA PassGoes ==
  ASSUME PassPriority
  PROVE  \/ at' \in {"Loop", "Effects"}
         \/ at' = at /\ (UNCHANGED vars \/ UNCHANGED <<priority, pending>>
                         \/ ResolveTop(priority))
BY DEF PassPriority, AfterResolution, GoTo, EndWith, RejectedPass, triggerVars

LEMMA OpenNext ==
  ASSUME TypeOK, MainIsOpen, [RunnerNext]_allVars
  PROVE  MainIsOpen'
<1> SUFFICES ASSUME at' = "Main"
             PROVE  Repeat' /\ (priority' # NoPlayer => NonePending(pending'))
  BY DEF MainIsOpen
<1>1. Repeat' <=> Repeat
  BY SamePolicy DEF Repeat
<1>2. CASE at = "Main" /\ UNCHANGED <<priority, pending>>
  BY <1>1, <1>2 DEF MainIsOpen, NonePending
<1>3. CASE EnterMain
  BY <1>1, <1>3
  DEF EnterMain, Asked, NonePending, vars, priorityVars, triggerVars
<1>4. CASE MainAction
  <2>1. at = "Main"
    BY <1>4 DEF MainAction
  <2>2. CASE PlayLand(active)
    BY <1>1, <2>1, <2>2, GrantLeavesOpen
    DEF PlayLand, AfterPriorityAction, GrantPriorityTo, MainIsOpen
  <2>3. CASE ActivateManaAbility(active)
    BY <1>2, <2>1, <2>3, ManaLeavesPriority
  <2>4. CASE PassPriority
    <3>1. CASE ResolveTop(priority)
      BY <1>1, <2>1, <3>1, GrantLeavesOpen DEF ResolveTop, GrantPriorityTo, MainIsOpen
    <3>2. CASE UNCHANGED vars \/ UNCHANGED <<priority, pending>>
      BY <1>2, <2>1, <3>2 DEF vars, priorityVars, triggerVars
    <3> QED BY <2>4, <3>1, <3>2, PassGoes
  <2>5. CASE Cast(active) \/ ActivateProgram(active) \/ ConcedeGame(active)
    BY <2>5 DEF Cast, ActivateProgram, ConcedeGame, GoTo
  <2> QED BY <1>4, <2>2, <2>3, <2>4, <2>5 DEF MainAction, TapForMana
<1>5. CASE UNCHANGED allVars
  BY <1>2, <1>5 DEF allVars, runnerVars, vars, priorityVars, triggerVars
<1>6. CASE Finish \/ TurnLimit \/ Returned
  BY <1>2, <1>6
  DEF Finish, TurnLimit, Returned, EndWith, allVars, runnerVars, vars, priorityVars, triggerVars
<1>7. CASE FixedLand \/ FixedMana \/ FixedCast
  BY <1>7 DEF FixedLand, FixedMana, FixedCast, GoTo, EndWith
<1>8. CASE \/ Setup \/ CompletePendingResolution \/ PlaceTriggers \/ AdvanceUnattendedStep
           \/ RegisterTriggers \/ RunEffects \/ DeclareTurnAttackers \/ EnterBlocks
           \/ AskForBlocks \/ AssignTurnDamage
  BY <1>8
  DEF Setup, CompletePendingResolution, PlaceTriggers, AdvanceUnattendedStep, RegisterTriggers,
      RunEffects, DeclareTurnAttackers, EnterBlocks, AskForBlocks, AssignTurnDamage, GoTo,
      EndWith, Asked, Ready, AtLoop
<1>9. ASSUME NEW p \in Players, PriorityAction(p)
      PROVE  at' # "Main"
  <2>1. at = "Loop"
    BY <1>9 DEF PriorityAction, Asked, Ready, AtLoop
  <2> QED BY <1>9, <2>1, PassGoes DEF PriorityAction, Cast, ActivateProgram, ConcedeGame, GoTo
<1> QED BY <1>3, <1>4, <1>5, <1>6, <1>7, <1>8, <1>9 DEF RunnerNext

\* Blocks were asked for in turns that are over, or in this one after its
\* declare-attackers step.
BeforeBlocks == {"NotStarted", "Untap", "Upkeep", "Draw", "PrecombatMain", "BeginningOfCombat",
                 "DeclareAttackers"}
BlocksBooked ==
  \A k \in blockersDone :
    k \in Nat /\ k <= MaxTurns /\ (k < turn \/ (k = turn /\ step \notin BeforeBlocks))

LEMMA DoneMoves ==
  ASSUME [RunnerNext]_allVars
  PROVE  /\ EnterBlocks \/ blockersDone' = blockersDone
         /\ EnterMain \/ mainDone' = mainDone
<1>1. PassPriority => UNCHANGED doneVars
  BY DEF PassPriority, AfterResolution, GoTo, EndWith
<1>2. CASE Setup \/ CompletePendingResolution \/ TurnLimit \/ PlaceTriggers
           \/ AdvanceUnattendedStep \/ Finish \/ RegisterTriggers \/ RunEffects \/ AskForBlocks
           \/ Returned \/ UNCHANGED allVars
  BY <1>2
  DEF Setup, CompletePendingResolution, TurnLimit, PlaceTriggers, AdvanceUnattendedStep, Finish,
      RegisterTriggers, RunEffects, AskForBlocks, Returned, GoTo, EndWith, doneVars, allVars,
      runnerVars
<1>3. CASE EnterMain \/ EnterBlocks \/ DeclareTurnAttackers \/ AssignTurnDamage
  BY <1>3 DEF EnterMain, EnterBlocks, DeclareTurnAttackers, AssignTurnDamage
<1>4. CASE MainAction \/ FixedLand \/ FixedMana \/ FixedCast
  BY <1>1, <1>4
  DEF MainAction, FixedLand, FixedMana, FixedCast, Cast, ActivateProgram, ConcedeGame, GoTo,
      EndWith, doneVars
<1>5. ASSUME NEW p \in Players, PriorityAction(p)
      PROVE  UNCHANGED doneVars
  BY <1>1, <1>5 DEF PriorityAction, Cast, ActivateProgram, ConcedeGame, GoTo, doneVars
<1> QED BY <1>2, <1>3, <1>4, <1>5 DEF RunnerNext, doneVars

LEMMA AdvanceKeepsBooked ==
  ASSUME TypeOK, BlocksBooked, blockersDone' = blockersDone, AdvanceStepAfterEmptyStack,
         step \in Steps
  PROVE  BlocksBooked'
<1>1. /\ turn \in 0 .. MaxTurn /\ step' = NextStep
      /\ turn' = IF NextStep = "Untap" /\ turn < MaxTurn THEN turn + 1 ELSE turn
  BY AdvanceGoes DEF TypeOK
<1>2. ASSUME NEW k \in blockersDone
      PROVE  k < turn' \/ (k = turn' /\ step' \notin BeforeBlocks)
  <2>1. k \in Nat /\ k <= MaxTurns /\ (k < turn \/ (k = turn /\ step \notin BeforeBlocks))
    BY DEF BlocksBooked
  <2>2. CASE NextStep = "Untap"
    BY <1>1, <2>1, <2>2, RunnerAssumption, BoundsAssumption
  <2>3. CASE NextStep # "Untap" /\ k < turn
    BY <1>1, <2>3
  <2>4. CASE NextStep # "Untap" /\ k = turn /\ step \notin BeforeBlocks
    BY <1>1, <2>4 DEF BeforeBlocks, NextStep, NextNormalStep, Steps
  <2> QED BY <2>1, <2>2, <2>3, <2>4
<1> QED BY <1>2 DEF BlocksBooked

LEMMA BlocksBookedNext ==
  ASSUME RunnerInv, BlocksBooked, [RunnerNext]_allVars
  PROVE  BlocksBooked'
<1>1. Typed /\ TypeOK /\ Placed /\ RoundInv /\ turn \in 0 .. MaxTurn
  BY DEF RunnerInv, KernelInv, Typed, TypeOK
<1>2. CASE EnterBlocks
  <2>1. /\ blockersDone' = blockersDone \cup {turn} /\ turn <= MaxTurns
        /\ step = "DeclareBlockers" /\ UNCHANGED <<turn, step>>
    BY <1>2 DEF EnterBlocks, Key, Asked, Ready, BlockTurn, vars, turnVars
  <2> QED BY <1>1, <2>1, BoundsAssumption DEF BlocksBooked, BeforeBlocks
<1>3. CASE blockersDone' = blockersDone /\ UNCHANGED <<turn, step>>
  BY <1>3 DEF BlocksBooked
<1>4. CASE blockersDone' = blockersDone /\ Setup
  <2>1. /\ step = "NotStarted"
        /\ turn' = IF turn < MaxTurn THEN turn + 1 ELSE turn
    BY <1>4 DEF Setup, StartTurn, BeginTurn
  <2>2. \A k \in blockersDone : k \in Nat /\ k <= MaxTurns /\ k < turn
    BY <2>1 DEF BlocksBooked, BeforeBlocks
  <2>3. turn <= turn'
    BY <1>1, <2>1, BoundsAssumption
  <2>4. turn' \in Nat
    BY <1>1, <2>1, BoundsAssumption
  <2>5. \A k \in blockersDone : k < turn'
    BY <1>1, <2>2, <2>3, <2>4
  <2> QED BY <1>4, <2>2, <2>5 DEF BlocksBooked
<1>5. CASE blockersDone' = blockersDone /\ AdvanceUnattendedStep
  BY <1>1, <1>5, AdvanceKeepsBooked DEF AdvanceUnattendedStep, AdvanceStep
<1>6. ASSUME blockersDone' = blockersDone, NEW p \in Players, CompleteStep(p)
      PROVE  BlocksBooked'
  BY <1>1, <1>6, AdvanceKeepsBooked, HolderMeansStarted DEF CompleteStep, MayPass, Typed
<1>7. ASSUME NEW p \in Players, PassTo(p)
      PROVE  UNCHANGED <<turn, step>>
  BY <1>7 DEF PassTo, turnVars
<1> QED
  BY <1>1, <1>2, <1>3, <1>4, <1>5, <1>6, <1>7, DoneMoves, RunnerMoves
  DEF Within, SameWhere, AskedAndPassed

----------------------------------------------------------------------------
(* The attacks the driver remembers *)

\* Until blocks are declared, the driver's attacks include the kernel's.
AttacksKnown ==
  step \in {"BeginningOfCombat", "DeclareAttackers", "DeclareBlockers"} =>
    \A a \in combat.attackers : a \in attacks /\ a[2] \in Players \ {active}

\* What a step of the run does to the combat.
RunCombatMove ==
  \/ Calm /\ UNCHANGED attacks
  \/ AdvanceStepAfterEmptyStack /\ step \in Steps /\ active \in Players /\ UNCHANGED attacks
  \/ Setup
  \/ DeclareTurnAttackers
  \/ AskForBlocks /\ DeclareBlockers(Head(blockQueue)) /\ UNCHANGED attacks

LEMMA PassCombat ==
  ASSUME Typed, PassPriority
  PROVE  \/ Calm /\ UNCHANGED attacks
         \/ AdvanceStepAfterEmptyStack /\ step \in Steps /\ active \in Players /\ UNCHANGED attacks
<1>1. TypeOK /\ Started
  BY DEF Typed
<1>2. UNCHANGED attacks
  BY DEF PassPriority, AfterResolution, GoTo, EndWith
<1>3. CASE UNCHANGED vars
  BY <1>2, <1>3, QuietIsCalm DEF vars
<1>4. CASE priority \in Players
  <2>1. CASE PassTo(priority) \/ RejectedPass(priority)
    BY <1>2, <2>1, QuietIsCalm DEF PassTo, RejectedPass
  <2>2. CASE ResolveTop(priority)
    BY <1>1, <1>2, <2>2, ResolveIsCalm
  <2>3. CASE CompleteStep(priority)
    BY <1>1, <1>2, <1>4, <2>3, HolderMeansStarted DEF CompleteStep, MayPass
  <2> QED BY <1>3, <2>1, <2>2, <2>3 DEF PassPriority
<1> QED BY <1>1, <1>3, <1>4 DEF PassPriority, TypeOK

LEMMA RunCombatMoves ==
  ASSUME Typed, Placed, [RunnerNext]_allVars
  PROVE  RunCombatMove
<1>1. TypeOK /\ Started
  BY DEF Typed
<1>2. ASSUME UNCHANGED <<vars, attacks>>
      PROVE  RunCombatMove
  BY <1>2, QuietIsCalm DEF vars, RunCombatMove
<1>3. CASE Setup \/ DeclareTurnAttackers
  BY <1>3 DEF RunCombatMove
<1>4. CASE CompletePendingResolution \/ TurnLimit \/ Finish \/ EnterMain \/ EnterBlocks
           \/ Returned \/ UNCHANGED allVars
  BY <1>2, <1>4
  DEF CompletePendingResolution, TurnLimit, Finish, EnterMain, EnterBlocks, Returned, EndWith,
      allVars, runnerVars
<1>5. CASE PlaceTriggers
  BY <1>1, <1>5, DrainIsCalm DEF PlaceTriggers, GoTo, RunCombatMove
<1>6. CASE AdvanceUnattendedStep
  BY <1>1, <1>6 DEF AdvanceUnattendedStep, AdvanceStep, GoTo, RunCombatMove, Started, Steps
<1>7. CASE RegisterTriggers \/ RunEffects
  <2>1. UNCHANGED attacks
    BY <1>7 DEF RegisterTriggers, RunEffects, GoTo
  <2>2. EffectWindow
    BY <1>7 DEF RegisterTriggers, RunEffects, Placed, EffectWindow
  <2>3. UNCHANGED vars \/ Effect
    BY <1>7, <2>2 DEF RegisterTriggers, RunEffects, Effect
  <2> QED BY <1>1, <1>2, <2>1, <2>3, EffectIsCalm DEF RunCombatMove
<1>8. ASSUME NEW p, Cast(p) \/ ActivateProgram(p) \/ TapForMana(p) \/ ConcedeGame(p) \/ PlayLand(p),
             UNCHANGED attacks
      PROVE  RunCombatMove
  BY <1>1, <1>8, SpellIsCalm, OtherActionIsCalm
  DEF Cast, ActivateProgram, TapForMana, ConcedeGame, RunCombatMove
<1>9. CASE MainAction \/ FixedLand \/ FixedMana \/ FixedCast
  <2>1. CASE PassPriority
    BY <2>1, PassCombat DEF RunCombatMove
  <2>2. CASE \/ Cast(active) \/ ActivateProgram(active) \/ TapForMana(active)
             \/ ConcedeGame(active) \/ PlayLand(active)
    <3>1. PassPriority \/ UNCHANGED attacks
      BY <1>9
      DEF MainAction, FixedLand, FixedMana, FixedCast, Cast, ActivateProgram, ConcedeGame, GoTo,
          EndWith
    <3> QED BY <1>8, <2>1, <2>2, <3>1
  <2>3. CASE CastSpell(active, "Spell", "Sorcery") /\ GoTo("Register")
    BY <1>1, <2>3, SpellIsCalm DEF GoTo, RunCombatMove
  <2>4. CASE UNCHANGED vars /\ ~PassPriority
    <3>1. UNCHANGED attacks
      BY <1>9, <2>4
      DEF MainAction, FixedLand, FixedMana, FixedCast, Cast, ActivateProgram, ConcedeGame, GoTo,
          EndWith
    <3> QED BY <1>2, <2>4, <3>1
  <2> QED BY <1>9, <2>1, <2>2, <2>3, <2>4 DEF MainAction, FixedLand, FixedMana, FixedCast
<1>10. CASE AskForBlocks
  <2>1. UNCHANGED attacks
    BY <1>10 DEF AskForBlocks, GoTo, EndWith
  <2> QED BY <1>2, <1>10, <2>1 DEF AskForBlocks, RunCombatMove
<1>11. CASE AssignTurnDamage
  BY <1>1, <1>11, DamageIsCalm DEF AssignTurnDamage, RunCombatMove
<1>12. ASSUME NEW p \in Players, PriorityAction(p)
       PROVE  RunCombatMove
  <2>1. CASE PassPriority
    BY <2>1, PassCombat DEF RunCombatMove
  <2>2. CASE ~PassPriority
    <3>1. UNCHANGED attacks
      BY <1>12, <2>2 DEF PriorityAction, Cast, ActivateProgram, ConcedeGame, GoTo
    <3> QED BY <1>8, <1>12, <2>2, <3>1 DEF PriorityAction
  <2> QED BY <2>1, <2>2
<1> QED
  BY <1>3, <1>4, <1>5, <1>6, <1>7, <1>9, <1>10, <1>11, <1>12 DEF RunnerNext

LEMMA AttacksKnownNext ==
  ASSUME Typed, Placed, AttacksKnown, [RunnerNext]_allVars
  PROVE  AttacksKnown'
<1>1. TypeOK
  BY DEF Typed
<1>2. CASE Calm /\ UNCHANGED attacks
  BY <1>2 DEF AttacksKnown, Calm, Shrinks, turnVars
<1>3. CASE AdvanceStepAfterEmptyStack /\ step \in Steps /\ UNCHANGED attacks
  <2>1. /\ step' = NextStep /\ combat'.attackers \subseteq combat.attackers
        /\ NextStep = "BeginningOfCombat" => combat'.attackers = {}
    BY <1>1, <1>3, AdvanceGoes, AdvanceShrinks
  <2>2. NextStep # "Untap" => active' = active
    <3>1. CASE NextStep \in {"Cleanup", "Draw"}
      BY <1>3, <3>1 DEF AdvanceStepAfterEmptyStack, BeginCleanup, BeginDraw, BeginPriorityStep
    <3>2. CASE NextStep \notin {"Untap", "Cleanup", "Draw"}
      BY <1>3, <3>2 DEF AdvanceStepAfterEmptyStack, BeginPriorityStep
    <3> QED BY <3>1, <3>2
  <2>3. NextStep \in {"DeclareAttackers", "DeclareBlockers"}
          => step \in {"BeginningOfCombat", "DeclareAttackers"}
    BY <1>3 DEF NextStep, NextNormalStep, Steps
  <2> QED BY <1>3, <2>1, <2>2, <2>3 DEF AttacksKnown
<1>4. CASE Setup
  BY <1>4 DEF Setup, StartTurn, BeginTurn, AttacksKnown
<1>5. CASE DeclareTurnAttackers
  <2>1. active \in Players
    BY <1>5, ActiveSits DEF DeclareTurnAttackers, Asked, Ready, AtLoop
  <2>2. PICK chosen \in AttackChoices(active) :
          DeclareAttackers(active, chosen) /\ attacks' = chosen
    BY <1>5 DEF DeclareTurnAttackers
  <2>3. combat'.attackers \subseteq chosen /\ active' = active
    BY <1>1, <2>1, <2>2, DeclareAttackersCombat DEF DeclareAttackers, turnVars
  <2>4. \A a \in chosen : a[2] \in Players \ {active}
    BY DEF AttackChoices
  <2> QED BY <2>2, <2>3, <2>4 DEF AttacksKnown
<1>6. CASE AskForBlocks /\ DeclareBlockers(Head(blockQueue)) /\ UNCHANGED attacks
  <2>1. Head(blockQueue) \in Players
    BY <1>1, <1>6, CombatType DEF DeclareBlockers, TypeOK
  <2>2. combat'.attackers \subseteq combat.attackers /\ UNCHANGED <<step, active>>
    BY <1>1, <1>6, <2>1, DeclareBlockersCombat DEF DeclareBlockers, turnVars
  <2> QED BY <1>6, <2>2 DEF AttacksKnown
<1> QED BY <1>2, <1>3, <1>4, <1>5, <1>6, RunCombatMoves DEF RunCombatMove

----------------------------------------------------------------------------
(* Every attacked player is asked for blocks *)

\* Every opponent has a place in the turn order after the active player.
LEMMA OpponentsFollow ==
  ASSUME active \in Players, NEW d \in Players \ {active}
  PROVE  \E k \in 1 .. N - 1 : (active + k) % N = d
<1>1. active \in 0 .. N - 1 /\ d \in 0 .. N - 1 /\ N \in Nat \ {0} /\ d # active
  BY NAssumption DEF Players
<1>2. CASE d > active
  <2>1. d - active \in 1 .. N - 1 /\ active + (d - active) = d
    BY <1>1, <1>2
  <2>2. d % N = d
    BY <1>1, ModSmall
  <2> QED BY <2>1, <2>2
<1>3. CASE d < active
  <2>1. d + N - active \in 1 .. N - 1 /\ active + (d + N - active) = d + N
    BY <1>1, <1>3
  <2>2. d + N \in N .. 2 * N - 1
    BY <1>1
  <2>3. (d + N) % N = d
    BY <1>1, <2>2, ModWrap
  <2> QED BY <2>1, <2>3
<1> QED BY <1>1, <1>2, <1>3

LEMMA DefendersQueued ==
  ASSUME active \in Players
  PROVE  /\ CurrentDefendingPlayers \in Seq(Players)
         /\ \A d \in Players \ {active} :
              d \in {a[2] : a \in attacks} => d \in Range(CurrentDefendingPlayers)
<1> DEFINE round == [k \in 1 .. N - 1 |-> (active + k) % N]
<1>1. \A k \in 1 .. N - 1 : (active + k) % N \in Players
  BY NAssumption DEF Players
<1>2. round \in Seq(Players) /\ DOMAIN round = 1 .. N - 1
  BY <1>1, NAssumption
<1>3. \A k \in 1 .. N - 1 : round[k] = (active + k) % N
  OBVIOUS
<1> HIDE DEF round
<1>4. \A d \in Players \ {active} : d \in Range(round)
  BY <1>2, <1>3, OpponentsFollow DEF Range
<1>5. CurrentDefendingPlayers = Keep(round, {a[2] : a \in attacks})
  BY DEF CurrentDefendingPlayers, round
<1> QED BY <1>2, <1>4, <1>5, KeepFacts

\* Once this turn's blocks are asked for, an attacked player has declared or
\* is in the queue.
BlocksAsked ==
  /\ blockQueue \in Seq(Players)
  /\ step = "DeclareBlockers" /\ Key \in blockersDone =>
       \A d \in AttackedPlayers(combat) :
         d \in combat.declaredBy \/ (at = "Blocks" /\ d \in Range(blockQueue))

LEMMA QueueMovesOn ==
  ASSUME NEW s \in Seq(Players), s # <<>>
  PROVE  Tail(s) \in Seq(Players) /\ \A d \in Range(s) : d = Head(s) \/ d \in Range(Tail(s))
<1>1. ASSUME NEW d \in Range(s), d # Head(s)
      PROVE  d \in Range(Tail(s))
  <2>1. PICK i \in 1 .. Len(s) : s[i] = d
    BY DEF Range
  <2>2. i # 1 /\ i - 1 \in 1 .. Len(s) - 1
    BY <1>1, <2>1
  <2>3. DOMAIN Tail(s) = 1 .. Len(s) - 1 /\ Tail(s)[i - 1] = s[i]
    <3>1. Tail(s) \in Seq(Players) /\ Len(Tail(s)) = Len(s) - 1
      OBVIOUS
    <3>2. Tail(s)[i - 1] = s[i - 1 + 1]
      BY <2>2, <3>1
    <3> QED BY <2>2, <3>1, <3>2
  <2>4. i - 1 \in DOMAIN Tail(s) /\ Tail(s)[i - 1] = d
    BY <2>1, <2>2, <2>3
  <2> QED BY <2>4 DEF Range
<1> QED BY <1>1

LEMMA QueueNext ==
  ASSUME Typed, Placed, blockQueue \in Seq(Players), [RunnerNext]_allVars
  PROVE  blockQueue' \in Seq(Players)
<1>1. CASE EnterBlocks
  BY <1>1, ActiveSits, DefendersQueued DEF EnterBlocks, Asked, Ready, AtLoop
<1>2. CASE AskForBlocks
  BY <1>2, QueueMovesOn DEF AskForBlocks, GoTo, EndWith
<1>3. PassPriority => UNCHANGED blockQueue
  BY DEF PassPriority, AfterResolution, GoTo, EndWith
<1>4. CASE Setup \/ CompletePendingResolution \/ TurnLimit \/ PlaceTriggers
           \/ AdvanceUnattendedStep \/ Finish \/ RegisterTriggers \/ RunEffects
           \/ Returned \/ UNCHANGED allVars
  BY <1>4
  DEF Setup, CompletePendingResolution, TurnLimit, PlaceTriggers, AdvanceUnattendedStep, Finish,
      RegisterTriggers, RunEffects, Returned, GoTo, EndWith, allVars, runnerVars
<1>5. CASE EnterMain \/ DeclareTurnAttackers \/ AssignTurnDamage
  BY <1>5 DEF EnterMain, DeclareTurnAttackers, AssignTurnDamage
<1>6. CASE MainAction \/ FixedLand \/ FixedMana \/ FixedCast
  BY <1>3, <1>6
  DEF MainAction, FixedLand, FixedMana, FixedCast, Cast, ActivateProgram, ConcedeGame, GoTo,
      EndWith
<1>7. ASSUME NEW p \in Players, PriorityAction(p)
      PROVE  UNCHANGED blockQueue
  BY <1>3, <1>7 DEF PriorityAction, Cast, ActivateProgram, ConcedeGame, GoTo
<1> QED BY <1>1, <1>2, <1>4, <1>5, <1>6, <1>7 DEF RunnerNext

LEMMA BlocksAskedNext ==
  ASSUME RunnerInv, BlocksBooked, AttacksKnown, BlocksAsked, [RunnerNext]_allVars
  PROVE  BlocksAsked'
<1>1. Typed /\ TypeOK /\ Placed
  BY DEF RunnerInv, KernelInv, Typed
<1>2. blockQueue \in Seq(Players) /\ blockQueue' \in Seq(Players)
  BY <1>1, QueueNext DEF BlocksAsked
<1> SUFFICES ASSUME step' = "DeclareBlockers", Key' \in blockersDone',
                    NEW d \in AttackedPlayers(combat')
             PROVE  d \in combat'.declaredBy \/ (at' = "Blocks" /\ d \in Range(blockQueue'))
  BY <1>2 DEF BlocksAsked
<1>3. CASE EnterBlocks
  <2>1. /\ combat' = combat /\ step = "DeclareBlockers" /\ at' = "Blocks"
        /\ blockQueue' = CurrentDefendingPlayers
    BY <1>3 DEF EnterBlocks, BlockTurn, vars, combatVars
  <2>2. PICK a \in combat.attackers : a[2] = d
    BY <2>1 DEF AttackedPlayers
  <2>3. a \in attacks /\ d \in Players \ {active}
    BY <2>1, <2>2 DEF AttacksKnown
  <2>4. active \in Players
    BY <1>1, <1>3, ActiveSits DEF EnterBlocks, Asked, Ready, AtLoop
  <2> QED BY <2>1, <2>2, <2>3, <2>4, DefendersQueued
<1>4. CASE UNCHANGED <<step, turn, combat, blockersDone, at, blockQueue>>
  BY <1>4 DEF BlocksAsked, Key
<1>5. CASE AskForBlocks /\ ~(UNCHANGED <<vars, at, blockQueue>>)
  <2>1. at = "Blocks" /\ blockersDone' = blockersDone
    BY <1>5 DEF AskForBlocks, GoTo, EndWith, doneVars
  <2>2. CASE blockQueue = <<>> /\ UNCHANGED vars
    <3>1. /\ step = "DeclareBlockers" /\ Key \in blockersDone /\ d \in AttackedPlayers(combat)
          /\ combat' = combat
      BY <2>1, <2>2 DEF vars, turnVars, combatVars, Key
    <3>2. Range(blockQueue) = {}
      BY <2>2 DEF Range
    <3> QED BY <3>1, <3>2 DEF BlocksAsked
  <2>3. CASE blockQueue # <<>> /\ DeclareBlockers(Head(blockQueue))
    <3>1. /\ step = "DeclareBlockers" /\ turn' = turn /\ at' = at /\ blockQueue' = Tail(blockQueue)
      BY <1>5, <2>3 DEF AskForBlocks, DeclareBlockers, turnVars
    <3>2. Head(blockQueue) \in Players
      BY <1>2, <2>3
    <3>3. /\ combat'.attackers \subseteq combat.attackers
          /\ combat'.declaredBy = combat.declaredBy \cup {Head(blockQueue)}
      BY <1>1, <2>3, <3>2, DeclareBlockersCombat
    <3>4. d \in combat.declaredBy \/ d \in Range(blockQueue)
      BY <2>1, <3>1, <3>3 DEF BlocksAsked, AttackedPlayers, Key
    <3> QED BY <1>2, <2>1, <2>3, <3>1, <3>3, <3>4, QueueMovesOn
  <2> QED BY <1>5, <2>2, <2>3 DEF AskForBlocks, EndWith
<1>6. CASE at # "Blocks" /\ blockersDone' = blockersDone
  <2>1. CASE Calm
    <3>1. /\ step = "DeclareBlockers" /\ turn' = turn /\ d \in AttackedPlayers(combat)
          /\ combat'.declaredBy = combat.declaredBy
      BY <2>1 DEF Calm, Shrinks, turnVars, AttackedPlayers
    <3> QED BY <1>6, <3>1 DEF BlocksAsked, Key
  <2>2. CASE AdvanceStepAfterEmptyStack /\ step \in Steps
    <3>1. /\ step' = NextStep
          /\ turn' = IF NextStep = "Untap" /\ turn < MaxTurn THEN turn + 1 ELSE turn
      BY <1>1, <2>2, AdvanceGoes
    <3>2. step = "DeclareAttackers" /\ turn' = turn
      BY <2>2, <3>1 DEF NextStep, NextNormalStep, Steps
    <3>3. turn \in blockersDone /\ turn \in Nat
      BY <1>1, <1>6, <3>2, BoundsAssumption DEF Key, TypeOK
    <3> QED BY <3>2, <3>3 DEF BlocksBooked, BeforeBlocks
  <2>3. CASE Setup
    BY <2>3 DEF Setup, StartTurn, BeginTurn
  <2>4. CASE DeclareTurnAttackers
    BY <2>4 DEF DeclareTurnAttackers, DeclareAttackers, turnVars
  <2>5. ~AskForBlocks
    BY <1>6 DEF AskForBlocks
  <2> QED BY <1>1, <2>1, <2>2, <2>3, <2>4, <2>5, RunCombatMoves DEF RunCombatMove
<1>7. CASE at = "Blocks" /\ ~AskForBlocks
  <2>1. UNCHANGED allVars
    <3>1. \A p \in Players : ~PriorityAction(p)
      BY <1>7 DEF PriorityAction, Asked, Ready, AtLoop
    <3> QED
      BY <1>7, <3>1
      DEF RunnerNext, Setup, CompletePendingResolution, TurnLimit, PlaceTriggers,
          AdvanceUnattendedStep, Finish, RegisterTriggers, RunEffects, EnterMain, MainAction,
          FixedLand, FixedMana, FixedCast, DeclareTurnAttackers, EnterBlocks, AssignTurnDamage,
          Returned, Asked, Ready, AtLoop
  <2> QED BY <1>4, <2>1 DEF allVars, runnerVars, vars, turnVars, combatVars, doneVars
<1>8. CASE AskForBlocks /\ UNCHANGED <<vars, at, blockQueue>>
  <2>1. blockersDone' = blockersDone
    BY <1>8 DEF AskForBlocks, GoTo, EndWith, doneVars
  <2> QED BY <1>4, <1>8, <2>1 DEF vars, turnVars, combatVars
<1> QED BY <1>3, <1>5, <1>6, <1>7, <1>8, DoneMoves

----------------------------------------------------------------------------
(* The main phase of the baseline, which asks blindly *)

\* A land was played only in a main phase that was begun, and while the main
\* phase of the turn is still to come nothing is pending and the active player
\* holds priority; so it is for the land, and for the mana and the cast after it.
LandsBooked == landPlayed # {} => Key \in mainDone
MainAhead == step = "PrecombatMain" /\ Key \notin mainDone /\ turn <= MaxTurns
MainIsReady ==
  MainAhead => /\ at = "Loop" /\ ~owed /\ stack = <<>> /\ NonePending(pending)
               /\ doomed = {} /\ emptyDraw = {} /\ (outcome = "InProgress" => priority = active)
LandIsReady ==
  at = "FixedLand" => /\ priority = active /\ stack = <<>> /\ NonePending(pending)
                      /\ doomed = {} /\ emptyDraw = {} /\ outcome = "InProgress"
                      /\ active \notin landPlayed /\ Key \in mainDone
CastIsReady == at \in {"FixedMana", "FixedCast"} => priority = active /\ stack = <<>>
BaselineReady == ~Repeat => LandsBooked /\ MainIsReady /\ LandIsReady /\ CastIsReady

LEMMA AdvanceKeepsLands ==
  ASSUME AdvanceStepAfterEmptyStack
  PROVE  UNCHANGED <<turn, landPlayed>> \/ landPlayed' = {}
<1>1. CASE NextStep = "Untap"
  BY <1>1 DEF AdvanceStepAfterEmptyStack, BeginTurn
<1>2. CASE NextStep \in {"Cleanup", "Draw"}
  BY <1>2 DEF AdvanceStepAfterEmptyStack, BeginCleanup, BeginDraw, BeginPriorityStep
<1>3. CASE NextStep \notin {"Untap", "Cleanup", "Draw"}
  BY <1>3 DEF AdvanceStepAfterEmptyStack, BeginPriorityStep
<1> QED BY <1>1, <1>2, <1>3

LEMMA PassKeepsLands ==
  ASSUME PassPriority
  PROVE  UNCHANGED <<turn, landPlayed>> \/ landPlayed' = {}
<1>1. CASE CompleteStep(priority)
  BY <1>1, AdvanceKeepsLands DEF CompleteStep
<1>2. CASE PassTo(priority) \/ ResolveTop(priority) \/ RejectedPass(priority) \/ UNCHANGED vars
  BY <1>2 DEF PassTo, ResolveTop, RejectedPass, vars, turnVars
<1> QED BY <1>1, <1>2 DEF PassPriority

LEMMA LandMoves ==
  ASSUME [RunnerNext]_allVars
  PROVE  \/ UNCHANGED <<turn, landPlayed>>
         \/ landPlayed' = {}
         \/ PlayLand(active) /\ (at = "Main" \/ at = "FixedLand")
<1>1. ASSUME NEW p, Cast(p) \/ ActivateProgram(p) \/ TapForMana(p) \/ ConcedeGame(p)
      PROVE  UNCHANGED <<turn, landPlayed>>
  BY <1>1
  DEF Cast, ActivateProgram, TapForMana, ConcedeGame, CastSpell, ActivateAbility,
      ActivateManaAbility, Concede, turnVars
<1>2. CASE CompletePendingResolution \/ TurnLimit \/ Finish \/ EnterMain \/ EnterBlocks \/ Returned
           \/ UNCHANGED allVars
  BY <1>2
  DEF CompletePendingResolution, TurnLimit, Finish, EnterMain, EnterBlocks, Returned, allVars,
      vars, turnVars
<1>3. CASE Setup \/ AdvanceUnattendedStep
  BY <1>3, AdvanceKeepsLands
  DEF Setup, StartTurn, BeginTurn, AdvanceUnattendedStep, AdvanceStep
<1>4. CASE PlaceTriggers
  BY <1>4 DEF PlaceTriggers, PutPendingTriggeredAbilitiesOnStack, turnVars
<1>5. CASE RegisterTriggers \/ RunEffects
  BY <1>5
  DEF RegisterTriggers, RunEffects, RegisterTriggeredAbility, UnregisterTriggeredAbility,
      LifeEffect, DrawFromEmptyLibrary, DamageCreature, DestroyPermanent, CounterStackEntry,
      turnVars, vars
<1>6. CASE MainAction \/ FixedLand
  BY <1>1, <1>6, PassKeepsLands DEF MainAction, FixedLand, vars, turnVars
<1>7. CASE FixedMana \/ FixedCast
  BY <1>1, <1>7 DEF FixedMana, FixedCast, CastSpell, vars, turnVars
<1>8. CASE DeclareTurnAttackers \/ AskForBlocks \/ AssignTurnDamage
  BY <1>8
  DEF DeclareTurnAttackers, DeclareAttackers, AskForBlocks, DeclareBlockers, AssignTurnDamage,
      AssignCombatDamage, turnVars, vars
<1>9. ASSUME NEW p \in Players, PriorityAction(p)
      PROVE  UNCHANGED <<turn, landPlayed>> \/ landPlayed' = {}
  BY <1>1, <1>9, PassKeepsLands DEF PriorityAction
<1> QED BY <1>2, <1>3, <1>4, <1>5, <1>6, <1>7, <1>8, <1>9 DEF RunnerNext

LEMMA LandsBookedNext ==
  ASSUME ~Repeat, MainIsOpen, BaselineReady, [RunnerNext]_allVars
  PROVE  LandsBooked'
<1>1. mainDone \subseteq mainDone'
  BY DoneMoves DEF EnterMain
<1>2. CASE PlayLand(active) /\ (at = "Main" \/ at = "FixedLand")
  <2>1. at = "FixedLand"
    BY <1>2 DEF MainIsOpen
  <2>2. Key \in mainDone /\ turn' = turn
    BY <1>2, <2>1 DEF BaselineReady, LandIsReady, PlayLand, turnVars
  <2> QED BY <1>1, <2>2 DEF LandsBooked, Key
<1>3. CASE UNCHANGED <<turn, landPlayed>>
  BY <1>1, <1>3 DEF BaselineReady, LandsBooked, Key
<1>4. CASE landPlayed' = {}
  BY <1>4 DEF LandsBooked
<1> QED BY <1>2, <1>3, <1>4, LandMoves

\* Once in the main phase with the turn's actions still to come, the baseline
\* does nothing before them.
LEMMA MainStaysAhead ==
  ASSUME ~Repeat, RunnerInv, MainIsReady, MainAhead, [RunnerNext]_allVars,
         Key \notin mainDone', UNCHANGED <<turn, step>>
  PROVE  UNCHANGED <<vars, at, owed>>
<1>1. /\ at = "Loop" /\ ~owed /\ NonePending(pending) /\ step = "PrecombatMain"
      /\ turn <= MaxTurns /\ Key \notin mainDone
      /\ outcome = "InProgress" => priority = active
  BY DEF MainIsReady, MainAhead
<1>2. turn \in Nat
  BY BoundsAssumption DEF RunnerInv, KernelInv, Typed, TypeOK
<1>3. active \in Players
  BY <1>1, ActiveSits DEF RunnerInv, KernelInv
<1>4. \A p \in Players : ~PriorityAction(p)
  BY <1>1 DEF PriorityAction, Asked, Ready, AtLoop, MainTurn
<1>5. CASE Finish \/ Returned \/ UNCHANGED allVars
  BY <1>5 DEF Finish, Returned, EndWith, allVars, runnerVars
<1>6. ~PlaceTriggers /\ ~EnterMain
  BY <1>1 DEF PlaceTriggers, PutPendingTriggeredAbilitiesOnStack, CanDrain, EnterMain
<1>7. ~AdvanceUnattendedStep
  BY <1>1, <1>3, SeatsArePlayers DEF AdvanceUnattendedStep, AdvanceStep, NoPlayer
<1>8. ~TurnLimit
  BY <1>1, <1>2, RunnerAssumption DEF TurnLimit
<1> QED
  BY <1>1, <1>4, <1>5, <1>6, <1>7, <1>8
  DEF RunnerNext, Setup, CompletePendingResolution, RegisterTriggers, RunEffects, MainAction,
      FixedLand, FixedMana, FixedCast, DeclareTurnAttackers, EnterBlocks, AskForBlocks,
      AssignTurnDamage, AttackTurn, BlockTurn, DamageTurn

LEMMA MainOpensReady ==
  ASSUME TypeOK, AdvanceStepAfterEmptyStack, GoTo("Loop"), ~owed, stack = <<>>,
         NonePending(pending), step \in Steps, MainAhead', step # "PrecombatMain"
  PROVE  MainIsReady'
<1>1. step' = NextStep /\ step' = "PrecombatMain"
  BY AdvanceGoes DEF MainAhead
<1>2. /\ UNCHANGED <<active, stack>> /\ NonePending(pending') /\ doomed' = {} /\ emptyDraw' = {}
      /\ outcome' = "InProgress" => priority' = active
  BY <1>1, MainStepOpens
<1>3. at' = "Loop" /\ owed' = owed
  BY DEF GoTo
<1> QED BY <1>2, <1>3 DEF MainIsReady

LEMMA MainReadyNext ==
  ASSUME ~Repeat, RunnerInv, MainIsOpen, BaselineReady, [RunnerNext]_allVars
  PROVE  MainIsReady'
<1> SUFFICES ASSUME MainAhead'
             PROVE  MainIsReady'
  BY DEF MainIsReady
<1>1. Typed /\ TypeOK /\ Started /\ Placed /\ RoundInv /\ NobodyWaitsOnTheStack /\ MainIsReady
  BY DEF RunnerInv, KernelInv, Typed, BaselineReady
<1>2. CASE UNCHANGED <<turn, step>>
  <2>1. Key \notin mainDone' /\ MainAhead
    BY <1>2, DoneMoves DEF MainAhead, Key, EnterMain
  <2>2. UNCHANGED <<vars, at, owed>>
    BY <1>1, <1>2, <2>1, MainStaysAhead
  <2> QED
    BY <1>1, <2>1, <2>2
    DEF MainIsReady, NonePending, vars, turnVars, priorityVars, fateVars, triggerVars
<1>3. CASE Setup
  BY <1>3 DEF Setup, StartTurn, BeginTurn, MainAhead
<1>4. CASE AdvanceUnattendedStep /\ step # "PrecombatMain"
  <2>1. /\ ~owed /\ NonePending(pending) /\ priority = NoPlayer /\ step \in Steps
        /\ outcome = "InProgress" /\ AdvanceStepAfterEmptyStack /\ GoTo("Loop")
    BY <1>4 DEF AdvanceUnattendedStep, AdvanceStep, Ready
  <2>2. stack = <<>>
    BY <1>1, <2>1 DEF NobodyWaitsOnTheStack
  <2> QED BY <1>1, <1>4, <2>1, <2>2, MainOpensReady
<1>5. ASSUME NEW p \in Players, AskedAndPassed(p), CompleteStep(p), GoTo("Loop"),
             step # "PrecombatMain"
      PROVE  MainIsReady'
  <2>1. /\ ~owed /\ NonePending(pending) /\ stack = <<>> /\ step \in Steps
        /\ AdvanceStepAfterEmptyStack
    BY <1>1, <1>5, HolderMeansStarted DEF AskedAndPassed, CompleteStep, MayPass
  <2> QED BY <1>1, <1>5, <2>1, MainOpensReady
<1>6. ASSUME AdvanceStepAfterEmptyStack, step = "PrecombatMain"
      PROVE  FALSE
  BY <1>1, <1>6, AdvanceGoes DEF MainAhead, NextStep, NextNormalStep, Steps
<1>7. ASSUME NEW p \in Players, PassTo(p)
      PROVE  UNCHANGED <<turn, step>>
  BY <1>7 DEF PassTo, turnVars
<1>8. AdvanceUnattendedStep => AdvanceStepAfterEmptyStack
  BY DEF AdvanceUnattendedStep, AdvanceStep
<1>9. \A p : CompleteStep(p) => AdvanceStepAfterEmptyStack
  BY DEF CompleteStep
<1> QED
  BY <1>1, <1>2, <1>3, <1>4, <1>5, <1>6, <1>7, <1>8, <1>9, RunnerMoves
  DEF Within, SameWhere, AskedAndPassed

\* Only the baseline's own actions lead to its program points.
LEMMA FixedMoves ==
  ASSUME [RunnerNext]_allVars, ~Repeat, MainIsOpen,
         at' \in {"FixedLand", "FixedMana", "FixedCast"}
  PROVE  EnterMain \/ FixedLand \/ FixedMana \/ FixedCast \/ UNCHANGED <<vars, at, mainDone>>
<1>1. CASE UNCHANGED allVars \/ Finish \/ TurnLimit \/ Returned
  BY <1>1 DEF Finish, TurnLimit, Returned, EndWith, allVars, runnerVars, doneVars
<1>2. ~MainAction
  BY DEF MainAction, MainIsOpen
<1>3. CASE \/ Setup \/ CompletePendingResolution \/ PlaceTriggers \/ AdvanceUnattendedStep
           \/ RegisterTriggers \/ RunEffects \/ DeclareTurnAttackers \/ EnterBlocks
           \/ AskForBlocks \/ AssignTurnDamage
  BY <1>3
  DEF Setup, CompletePendingResolution, PlaceTriggers, AdvanceUnattendedStep, RegisterTriggers,
      RunEffects, DeclareTurnAttackers, EnterBlocks, AskForBlocks, AssignTurnDamage, GoTo,
      EndWith, Asked, Ready, AtLoop
<1>4. ASSUME NEW p \in Players, PriorityAction(p)
      PROVE  FALSE
  <2>1. at = "Loop"
    BY <1>4 DEF PriorityAction, Asked, Ready, AtLoop
  <2> QED BY <1>4, <2>1, PassGoes DEF PriorityAction, Cast, ActivateProgram, ConcedeGame, GoTo
<1> QED BY <1>1, <1>2, <1>3, <1>4 DEF RunnerNext

LEMMA BaselineNext ==
  ASSUME RunnerInv, MainIsOpen, BaselineReady, [RunnerNext]_allVars
  PROVE  BaselineReady'
<1> SUFFICES ASSUME ~Repeat
             PROVE  LandIsReady' /\ CastIsReady'
  BY SamePolicy, LandsBookedNext, MainReadyNext DEF BaselineReady, Repeat
<1>1. TypeOK /\ OutcomeMatches /\ LandsBooked /\ MainIsReady /\ LandIsReady /\ CastIsReady
  BY DEF RunnerInv, KernelInv, Typed, BaselineReady
<1>2. ASSUME UNCHANGED <<vars, at, mainDone>>
      PROVE  LandIsReady' /\ CastIsReady'
  BY <1>1, <1>2
  DEF LandIsReady, CastIsReady, NonePending, Key, vars, turnVars, priorityVars, fateVars,
      triggerVars
<1>3. CASE EnterMain
  <2>1. /\ UNCHANGED vars /\ at' = "FixedLand" /\ mainDone' = mainDone \cup {Key}
        /\ priority = active /\ NonePending(pending) /\ outcome = "InProgress"
        /\ MainAhead
    BY <1>3 DEF EnterMain, Asked, Ready, AtLoop, MainTurn, MainAhead
  <2>2. /\ stack = <<>> /\ doomed = {} /\ emptyDraw = {} /\ landPlayed = {}
    BY <1>1, <2>1 DEF MainIsReady, LandsBooked, MainAhead
  <2> QED
    BY <2>1, <2>2
    DEF LandIsReady, CastIsReady, NonePending, Key, vars, turnVars, priorityVars, fateVars,
        triggerVars
<1>4. CASE FixedLand
  <2>1. at = "FixedLand" /\ active \in Players
    BY <1>4, ActiveSits DEF FixedLand, RunnerInv, KernelInv
  <2>2. CASE PlayLand(active) /\ GoTo("FixedMana")
    <3>1. priority' = active /\ stack' = stack /\ active' = active
      BY <1>1, <2>1, <2>2, LandLeavesPriority DEF LandIsReady, PlayLand, turnVars
    <3> QED BY <1>1, <2>1, <2>2, <3>1 DEF LandIsReady, CastIsReady, GoTo
  <2>3. CASE UNCHANGED vars /\ GoTo("FixedMana")
    BY <1>1, <2>1, <2>3 DEF LandIsReady, CastIsReady, GoTo, vars, turnVars, priorityVars
  <2>4. CASE UNCHANGED vars /\ EndWith("LandRejected")
    BY <1>2, <2>4 DEF EndWith, doneVars
  <2> QED BY <1>4, <2>2, <2>3, <2>4 DEF FixedLand
<1>5. CASE FixedMana \/ FixedCast
  <2>1. priority = active /\ stack = <<>> /\ at \in {"FixedMana", "FixedCast"}
    BY <1>1, <1>5 DEF FixedMana, FixedCast, CastIsReady
  <2>2. CASE at' \in {"FixedMana", "FixedCast"}
    <3>1. UNCHANGED <<active, priority, stack>>
      <4>1. UNCHANGED vars \/ ActivateManaAbility(active)
        BY <1>5, <2>2 DEF FixedMana, FixedCast, TapForMana, GoTo
      <4> QED BY <1>1, <4>1, ManaLeavesPriority DEF vars, turnVars, priorityVars
    <3> QED BY <2>1, <2>2, <3>1 DEF LandIsReady, CastIsReady
  <2>3. CASE at' \notin {"FixedMana", "FixedCast"}
    <3>1. at' # "FixedLand"
      BY <1>5 DEF FixedMana, FixedCast, GoTo, EndWith
    <3> QED BY <2>3, <3>1 DEF LandIsReady, CastIsReady
  <2> QED BY <2>2, <2>3
<1>6. CASE at' \notin {"FixedLand", "FixedMana", "FixedCast"}
  BY <1>6 DEF LandIsReady, CastIsReady
<1> QED BY <1>2, <1>3, <1>4, <1>5, <1>6, FixedMoves

----------------------------------------------------------------------------
(* The kernel refuses the driver nothing *)

DriverKnows == MainIsOpen /\ BlocksBooked /\ AttacksKnown /\ BlocksAsked /\ BaselineReady

\* The last pass of a declare-blockers step finds every block declared.
LEMMA PassIsAccepted ==
  ASSUME RunnerInv, DriverKnows, NEW p \in Players, Asked(p), ~BlockTurn, RejectedPass(p)
  PROVE  FALSE
<1>1. /\ MayPass(p) /\ passes + 1 >= N /\ step = "DeclareBlockers"
      /\ ~(AttackedPlayers(combat) \subseteq combat.declaredBy) /\ at = "Loop"
  BY DEF RejectedPass, BlocksPending, AllBlocksDeclared, Asked, Ready, AtLoop
<1>2. Typed /\ TypeOK /\ Started
  BY DEF RunnerInv, KernelInv, Typed
<1>3. PassedInSuccession \cup {p} = Players /\ active \in Players /\ priority = p
  BY <1>1, <1>2, LastPass, HolderMeansStarted DEF MayPass
<1>4. Key \in blockersDone
  <2>1. CASE active = p
    BY <1>1, <1>3, <2>1 DEF BlockTurn
  <2>2. CASE active \in PassedInSuccession
    BY <1>1, <2>2 DEF RunnerInv, AskedBeforePassing
  <2> QED BY <1>3, <2>1, <2>2
<1> QED BY <1>1, <1>4 DEF DriverKnows, BlocksAsked

LEMMA RefusedNext ==
  ASSUME RunnerInv, DriverKnows, DriverIsNeverRefused, [RunnerNext]_allVars
  PROVE  DriverIsNeverRefused'
<1>1. policy' = policy /\ Placed /\ TypeOK
  BY SamePolicy DEF RunnerInv, KernelInv, Typed
<1>2. CASE result' = result
  BY <1>1, <1>2 DEF DriverIsNeverRefused
<1>3. CASE result' \in {"TurnLimit", "Won", "NoWinner", "BlocksRejected"}
  BY <1>3 DEF DriverIsNeverRefused
<1>4. CASE FixedLand /\ result' # result
  <2>1. /\ at = "FixedLand" /\ result' = "LandRejected" /\ step = "PrecombatMain"
        /\ ~(priority = active /\ SorceryTiming(active) /\ active \notin landPlayed)
    BY <1>1, <1>4 DEF FixedLand, GoTo, EndWith, Placed, MainPlaces
  <2>2. Repeat
    BY <2>1 DEF DriverKnows, BaselineReady, LandIsReady, SorceryTiming
  <2> QED BY <1>1, <2>1, <2>2 DEF DriverIsNeverRefused, Repeat
<1>5. CASE FixedCast /\ result' # result
  <2>1. /\ at = "FixedCast" /\ result' = "CastRejected" /\ step = "PrecombatMain"
        /\ ~(priority = active /\ SorceryTiming(active) /\ ~SplitSecondOnStack)
    BY <1>1, <1>5 DEF FixedCast, GoTo, EndWith, Placed, MainPlaces
  <2>2. Repeat
    <3>1. stack = <<>> => ~SplitSecondOnStack
      BY DEF SplitSecondOnStack
    <3> QED BY <2>1, <3>1 DEF DriverKnows, BaselineReady, CastIsReady, SorceryTiming
  <2> QED BY <1>1, <2>1, <2>2 DEF DriverIsNeverRefused, Repeat
<1>6. CASE MainAction /\ result' # result
  <2>1. at = "Main" /\ PassPriority /\ ~owed /\ step = "PrecombatMain" /\ Repeat
        /\ (priority # NoPlayer => NonePending(pending))
    BY <1>1, <1>6
    DEF MainAction, Cast, ActivateProgram, ConcedeGame, GoTo, Placed, MainPlaces, DriverKnows,
        MainIsOpen
  <2>2. \A p : ~RejectedPass(p)
    BY <2>1 DEF RejectedPass, BlocksPending
  <2>3. result' = "PassedWithoutPriority"
    BY <1>6, <2>1, <2>2 DEF PassPriority, AfterResolution, GoTo, EndWith
  <2> QED BY <1>1, <2>1, <2>3 DEF DriverIsNeverRefused, Repeat
<1>7. ASSUME NEW p \in Players, PriorityAction(p), result' # result
      PROVE  FALSE
  <2>1. PassPriority /\ Asked(p) /\ ~BlockTurn
    BY <1>7 DEF PriorityAction, Cast, ActivateProgram, ConcedeGame, GoTo
  <2>2. ~owed /\ NonePending(pending) /\ priority = p /\ priority # NoPlayer
    BY <2>1, SeatsArePlayers DEF Asked, Ready
  <2>3. ~RejectedPass(priority)
    BY <2>1, <2>2, PassIsAccepted
  <2> QED BY <1>7, <2>1, <2>2, <2>3 DEF PassPriority, AfterResolution, GoTo, EndWith
<1>8. CASE \/ Setup \/ CompletePendingResolution \/ TurnLimit \/ PlaceTriggers
           \/ AdvanceUnattendedStep \/ Finish \/ RegisterTriggers \/ RunEffects \/ EnterMain
           \/ FixedMana \/ DeclareTurnAttackers \/ EnterBlocks \/ AskForBlocks
           \/ AssignTurnDamage \/ Returned \/ UNCHANGED allVars
  BY <1>2, <1>3, <1>8
  DEF Setup, CompletePendingResolution, TurnLimit, PlaceTriggers, AdvanceUnattendedStep, Finish,
      RegisterTriggers, RunEffects, EnterMain, FixedMana, DeclareTurnAttackers, EnterBlocks,
      AskForBlocks, AssignTurnDamage, Returned, GoTo, EndWith, allVars, runnerVars
<1> QED BY <1>2, <1>4, <1>5, <1>6, <1>7, <1>8 DEF RunnerNext

\* No pass, land, cast or resolution of a run is refused by the kernel, though
\* some are asked for blind: the blocks of every attacked player are asked for
\* before the step is passed, and nothing takes priority from a main phase of
\* the baseline.
THEOREM DriverIsAccepted == RunnerSpec => []DriverIsNeverRefused
<1>1. RunnerInit => DriverKnows /\ DriverIsNeverRefused
  BY DEF RunnerInit, Init, DriverKnows, MainIsOpen, BlocksBooked, AttacksKnown, BlocksAsked,
         BaselineReady, LandsBooked, MainIsReady, MainAhead, LandIsReady, CastIsReady,
         DriverIsNeverRefused
<1>2. RunnerInv /\ DriverKnows /\ DriverIsNeverRefused /\ [RunnerNext]_allVars
        => DriverKnows' /\ DriverIsNeverRefused'
  BY OpenNext, BlocksBookedNext, AttacksKnownNext, BlocksAskedNext, BaselineNext, RefusedNext
  DEF DriverKnows, RunnerInv, KernelInv, Typed
<1> QED BY <1>1, <1>2, RunnerInvAlways, PTL DEF RunnerSpec
====
