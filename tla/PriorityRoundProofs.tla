---- MODULE PriorityRoundProofs ----
(***************************************************************************)
(* Kernel implements PriorityRound, for every number of players: the pass  *)
(* count and the holder's seat, which is all that GameState keeps, stand   *)
(* for the set of players who passed, and every handler is one step of the *)
(* abstract round or none.                                                 *)
(***************************************************************************)
EXTENDS KernelProofs

----------------------------------------------------------------------------
(* Arithmetic of seats *)

LEMMA ModSmall ==
  ASSUME NEW n \in Nat \ {0}, NEW x \in 0 .. n - 1
  PROVE  x % n = x
OBVIOUS

LEMMA ModWrap ==
  ASSUME NEW n \in Nat \ {0}, NEW x \in n .. 2 * n - 1
  PROVE  x % n = x - n
OBVIOUS

\* The seat k places before seat p.
LEMMA SeatsBack ==
  ASSUME NEW p \in Players, NEW k \in 1 .. N
  PROVE  (p + N - k) % N = IF k <= p THEN p - k ELSE p + N - k
<1>1. CASE k <= p
  <2>1. p + N - k \in N .. 2 * N - 1
    BY <1>1, NAssumption DEF Players
  <2>2. (p + N - k) % N = (p + N - k) - N
    BY <2>1, NAssumption, ModWrap
  <2> QED BY <1>1, <2>2, NAssumption DEF Players
<1>2. CASE ~(k <= p)
  <2>1. p + N - k \in 0 .. N - 1
    BY <1>2, NAssumption DEF Players
  <2> QED BY <1>2, <2>1, NAssumption, ModSmall
<1> QED BY <1>1, <1>2

LEMMA SeatAfter ==
  ASSUME NEW p \in Players
  PROVE  NextPlayerAfter(p) = IF p = N - 1 THEN 0 ELSE p + 1
<1>1. CASE p = N - 1
  <2>1. (p + 1) % N = (p + 1) - N
    BY <1>1, NAssumption, ModWrap
  <2> QED BY <1>1, <2>1, NAssumption DEF NextPlayerAfter
<1>2. CASE p # N - 1
  <2>1. p + 1 \in 0 .. N - 1
    BY <1>2, NAssumption DEF Players
  <2> QED BY <1>2, <2>1, NAssumption, ModSmall DEF NextPlayerAfter
<1> QED BY <1>1, <1>2

----------------------------------------------------------------------------
(* What the pass count stands for *)

\* The seats that the m players before p hold.
Before(p, m) == {(p + N - k) % N : k \in 1 .. m}

LEMMA NobodyPassed == Before(priority, 0) = {}
BY DEF Before

\* When p passes to the next seat p joins those who passed.
LEMMA OneMorePassed ==
  ASSUME NEW p \in Players, NEW m \in Nat, m + 1 < N
  PROVE  /\ Before(NextPlayerAfter(p), m + 1) = Before(p, m) \cup {p}
         /\ NextPlayerAfter(p) \in Players \ (Before(p, m) \cup {p})
<1> DEFINE q == NextPlayerAfter(p)
<1>1. q \in Players /\ q = (IF p = N - 1 THEN 0 ELSE p + 1)
  BY SeatsArePlayers, SeatAfter
<1>2. \A k \in 1 .. m : (p + N - k) % N = (IF k <= p THEN p - k ELSE p + N - k)
  BY SeatsBack, NAssumption
<1> HIDE DEF q
<1>3. \A k \in 1 .. m + 1 : (q + N - k) % N = (IF k <= q THEN q - k ELSE q + N - k)
  <2> SUFFICES ASSUME NEW k \in 1 .. m + 1
               PROVE  (q + N - k) % N = (IF k <= q THEN q - k ELSE q + N - k)
    OBVIOUS
  <2>1. k \in 1 .. N
    BY NAssumption
  <2> QED BY <1>1, <2>1, SeatsBack
<1>4. (q + N - 1) % N = p
  <2>1. 1 \in 1 .. m + 1
    OBVIOUS
  <2>2. (q + N - 1) % N = (IF 1 <= q THEN q - 1 ELSE q + N - 1)
    BY <1>3, <2>1
  <2> QED BY <1>1, <2>2, NAssumption DEF Players
<1>5. ASSUME NEW k \in 1 .. m
      PROVE  (q + N - (k + 1)) % N = (p + N - k) % N
  <2>1. k + 1 \in 1 .. m + 1
    OBVIOUS
  <2>2. (q + N - (k + 1)) % N = (IF k + 1 <= q THEN q - (k + 1) ELSE q + N - (k + 1))
    BY <1>3, <2>1
  <2>3. (p + N - k) % N = (IF k <= p THEN p - k ELSE p + N - k)
    BY <1>2
  <2> QED BY <1>1, <2>2, <2>3, NAssumption DEF Players
<1>6. Before(p, m) \cup {p} \subseteq Before(q, m + 1)
  <2>1. p \in Before(q, m + 1)
    BY <1>4, NAssumption DEF Before
  <2>2. ASSUME NEW k \in 1 .. m
        PROVE  (p + N - k) % N \in Before(q, m + 1)
    BY <1>5, <2>2 DEF Before
  <2> QED BY <2>1, <2>2 DEF Before
<1>7. Before(q, m + 1) \subseteq Before(p, m) \cup {p}
  <2>1. ASSUME NEW k \in 1 .. m + 1
        PROVE  (q + N - k) % N \in Before(p, m) \cup {p}
    <3>1. CASE k = 1
      BY <1>4, <3>1
    <3>2. CASE k # 1
      <4>1. k - 1 \in 1 .. m /\ (k - 1) + 1 = k
        BY <3>2
      <4> QED BY <1>5, <4>1 DEF Before
    <3> QED BY <3>1, <3>2
  <2> QED BY <2>1 DEF Before
<1>8. q # p
  BY <1>1, NAssumption DEF Players
<1>9. q \notin Before(p, m)
  <2>1. ASSUME NEW k \in 1 .. m
        PROVE  (p + N - k) % N # q
    <3>1. (p + N - k) % N = (IF k <= p THEN p - k ELSE p + N - k)
      BY <1>2
    <3> QED BY <1>1, <3>1, NAssumption DEF Players
  <2> QED BY <2>1 DEF Before
<1> QED BY <1>1, <1>6, <1>7, <1>8, <1>9 DEF q

\* After N - 1 passes everybody but the holder has passed.
LEMMA EverybodyPassed ==
  ASSUME NEW p \in Players
  PROVE  Before(p, N - 1) \cup {p} = Players
<1>1. \A k \in 1 .. N - 1 : (p + N - k) % N = (IF k <= p THEN p - k ELSE p + N - k)
  BY SeatsBack, NAssumption
<1>2. Before(p, N - 1) \subseteq Players
  BY <1>1, NAssumption DEF Before, Players
<1>3. ASSUME NEW q \in Players, q # p
      PROVE  q \in Before(p, N - 1)
  <2> DEFINE k == IF q < p THEN p - q ELSE p + N - q
  <2>1. k \in 1 .. N - 1
    BY <1>3, NAssumption DEF Players
  <2>2. (p + N - k) % N = (IF k <= p THEN p - k ELSE p + N - k)
    BY <1>1, <2>1
  <2>3. (p + N - k) % N = q
    BY <1>3, <2>2, NAssumption DEF Players
  <2> HIDE DEF k
  <2> QED BY <2>1, <2>3 DEF Before
<1> QED BY <1>2, <1>3

LEMMA PassedBefore ==
  /\ PassedInSuccession = (IF priority = NoPlayer THEN {} ELSE Before(priority, passes))
  /\ PassedInSuccession' = (IF priority' = NoPlayer THEN {} ELSE Before(priority', passes'))
BY DEF PassedInSuccession, Before

LEMMA NoPassesNobody ==
  /\ passes = 0 => PassedInSuccession = {}
  /\ passes' = 0 => PassedInSuccession' = {}
BY DEF PassedInSuccession

----------------------------------------------------------------------------
(* The combat damage sub-step is set in the combat damage step only *)

DamageStepHeld == combat.damageStep # "None" => step \in {"CombatDamage", "EndOfCombat"}

LEMMA SbaKeepsDamageStep ==
  ASSUME NEW now, now.combat \in CombatStates, PerformStateBasedActions(now)
  PROVE  combat'.damageStep = now.combat.damageStep
BY DEF PerformStateBasedActions, RemoveFromCombat, CombatStates

LEMMA GrantKeepsDamageStep ==
  ASSUME NEW p, NEW now, NEW E, now.combat \in CombatStates, GrantPriorityTo(p, now, E)
  PROVE  passes' = 0 /\ combat'.damageStep = now.combat.damageStep
BY SbaKeepsDamageStep DEF GrantPriorityTo, AssignPriority

\* Where an advance goes: the next step, with its combat damage sub-step, and
\* the next turn out of the last cleanup step.
DamageStepAfter ==
  IF NextStep = "CombatDamage" THEN BeginCombatDamageStep(combat).damageStep
  ELSE IF NextStep \in {"Untap", "BeginningOfCombat", "PostcombatMain"} THEN "None"
  ELSE combat.damageStep

LEMMA AdvanceGoes ==
  ASSUME TypeOK, AdvanceStepAfterEmptyStack
  PROVE  /\ passes' = 0 /\ step' = NextStep /\ combat'.damageStep = DamageStepAfter
         /\ turn' = IF NextStep = "Untap" /\ turn < MaxTurn THEN turn + 1 ELSE turn
<1>1. combat \in CombatStates /\ NoCombat \in CombatStates
      /\ BeginCombatDamageStep(combat) \in CombatStates /\ NoCombat.damageStep = "None"
  BY CombatType DEF TypeOK, NoCombat
<1>2. ASSUME NEW s, NEW empty, NEW cb \in CombatStates, NEW E, BeginPriorityStep(s, empty, cb, E)
      PROVE  /\ passes' = 0 /\ step' = s /\ turn' = turn
             /\ combat'.damageStep = cb.damageStep
  <2>1. [Now EXCEPT !.emptyDraw = empty, !.combat = cb].combat = cb
    BY DEF Now
  <2>2. GrantPriorityTo(active, [Now EXCEPT !.emptyDraw = empty, !.combat = cb], E \cup {<<s, 0>>})
    BY <1>2 DEF BeginPriorityStep
  <2> QED BY <1>2, <2>1, <2>2, GrantKeepsDamageStep DEF BeginPriorityStep
<1>3. CASE NextStep = "Untap"
  BY <1>1, <1>3 DEF AdvanceStepAfterEmptyStack, BeginTurn, DamageStepAfter
<1>4. CASE NextStep = "Cleanup"
  <2>1. PICK fading \in SUBSET (Waning \cap creatures) :
          PerformStateBasedActions([Now EXCEPT !.dying = fading])
    BY <1>4 DEF AdvanceStepAfterEmptyStack, BeginCleanup
  <2>2. [Now EXCEPT !.dying = fading].combat = combat
    BY DEF Now
  <2>3. combat'.damageStep = combat.damageStep
    BY <1>1, <2>1, <2>2, SbaKeepsDamageStep
  <2>4. passes' = 0 /\ step' = NextStep /\ turn' = turn
    BY <1>4 DEF AdvanceStepAfterEmptyStack, BeginCleanup
  <2> QED BY <1>4, <2>3, <2>4 DEF DamageStepAfter
<1>5. CASE NextStep = "CombatDamage"
  <2>1. BeginPriorityStep(NextStep, emptyDraw, BeginCombatDamageStep(combat), {})
    BY <1>5 DEF AdvanceStepAfterEmptyStack
  <2> QED BY <1>1, <1>2, <1>5, <2>1 DEF DamageStepAfter
<1>6. CASE NextStep = "Draw"
  <2>1. PICK empty, E : BeginPriorityStep("Draw", empty, combat, E)
    BY <1>6 DEF AdvanceStepAfterEmptyStack, BeginDraw
  <2> QED BY <1>1, <1>2, <1>6, <2>1 DEF DamageStepAfter
<1>7. CASE NextStep \in {"BeginningOfCombat", "PostcombatMain"}
  <2>1. BeginPriorityStep(NextStep, emptyDraw, NoCombat, {})
    BY <1>7 DEF AdvanceStepAfterEmptyStack
  <2> QED BY <1>1, <1>2, <1>7, <2>1 DEF DamageStepAfter
<1>8. CASE NextStep \notin {"Untap", "Cleanup", "CombatDamage", "Draw", "BeginningOfCombat",
                            "PostcombatMain"}
  <2>1. BeginPriorityStep(NextStep, emptyDraw, combat, {})
    BY <1>8 DEF AdvanceStepAfterEmptyStack
  <2> QED BY <1>1, <1>2, <1>8, <2>1 DEF DamageStepAfter
<1> QED BY <1>3, <1>4, <1>5, <1>6, <1>7, <1>8

LEMMA AdvanceHoldsDamageStep ==
  ASSUME TypeOK, DamageStepHeld, AdvanceStepAfterEmptyStack, step \in Steps
  PROVE  DamageStepHeld' /\ passes' = 0
BY AdvanceGoes DEF DamageStepHeld, DamageStepAfter, NextStep, NextNormalStep, Steps

----------------------------------------------------------------------------
(* Every handler is a step of the round *)

\* What the round sees of a handler that starts no step and no turn.
SameWhere == UNCHANGED <<turn, active, step>> /\ combat'.damageStep = combat.damageStep

LEMMA ActStep ==
  ASSUME passes' = 0, SameWhere, Round!Extends(stack', stack)
  PROVE  Round!Next
BY NoPassesNobody DEF Round!Next, Round!Act, SameWhere

LEMMA InterludeStep ==
  ASSUME passes = 0, passes' = 0, SameWhere
  PROVE  Round!Next
BY NoPassesNobody DEF Round!Next, Round!Interlude, SameWhere

LEMMA StutterStep ==
  ASSUME UNCHANGED <<priority, passes, stack>>, SameWhere
  PROVE  UNCHANGED Round!vars
BY PassedBefore DEF Round!vars, SameWhere

LEMMA SameStackExtends ==
  ASSUME TypeOK, stack' = stack
  PROVE  Round!Extends(stack', stack)
BY DEF TypeOK, Round!Extends

LEMMA PushedExtends ==
  ASSUME TypeOK, NEW entry, stack' = Append(stack, entry)
  PROVE  Round!Extends(stack', stack)
BY DEF TypeOK, Round!Extends

LEMMA PlacedExtends ==
  ASSUME TypeOK, NEW S, NEW placed \in Seq(S), stack' = stack \o placed
  PROVE  Round!Extends(stack', stack)
BY DEF TypeOK, Round!Extends

\* The turn moves on: nobody could act any more and the stack is empty.
LEMMA TurnoverStep ==
  ASSUME priority = NoPlayer, stack = <<>>, stack' = stack, passes' = 0
  PROVE  Round!Next
BY NoPassesNobody, PassedBefore DEF Round!Next, Round!Turnover, Round!NoPlayer, NoPlayer

LEMMA AdvanceKeepsStack ==
  ASSUME AdvanceStepAfterEmptyStack
  PROVE  stack' = stack
<1>1. CASE NextStep = "Untap"
  BY <1>1 DEF AdvanceStepAfterEmptyStack, BeginTurn
<1>2. CASE NextStep = "Cleanup"
  BY <1>2 DEF AdvanceStepAfterEmptyStack, BeginCleanup
<1>3. CASE NextStep \notin {"Untap", "Cleanup"}
  <2>1. \E s, empty, cb, E : BeginPriorityStep(s, empty, cb, E)
    BY <1>3 DEF AdvanceStepAfterEmptyStack, BeginDraw
  <2> QED BY <2>1 DEF BeginPriorityStep
<1> QED BY <1>1, <1>2, <1>3

LEMMA StartStep ==
  ASSUME Started, stack = <<>>, StartTurn
  PROVE  Round!Next
BY TurnoverStep DEF StartTurn, BeginTurn, Started

LEMMA AdvanceStepStep ==
  ASSUME TypeOK, DamageStepHeld, NobodyWaitsOnTheStack, AdvanceStep
  PROVE  Round!Next
BY AdvanceHoldsDamageStep, AdvanceKeepsStack, TurnoverStep DEF AdvanceStep, NobodyWaitsOnTheStack

LEMMA PassToStep ==
  ASSUME TypeOK, NEW p \in Players, PassTo(p), combat' = combat
  PROVE  Round!Pass
<1>1. priority = p /\ passes \in Nat /\ passes + 1 < N /\ priority # NoPlayer
  BY SeatsArePlayers DEF PassTo, MayPass, TypeOK
<1>2. priority' = NextPlayerAfter(p) /\ passes' = passes + 1 /\ priority' # NoPlayer
  BY SeatsArePlayers DEF PassTo
<1>3. PassedInSuccession = Before(p, passes)
      /\ PassedInSuccession' = Before(NextPlayerAfter(p), passes + 1)
  BY <1>1, <1>2, PassedBefore
<1>4. /\ PassedInSuccession' = PassedInSuccession \cup {priority}
      /\ priority' \in Players \ (PassedInSuccession \cup {priority})
  BY <1>1, <1>2, <1>3, OneMorePassed
<1>5. UNCHANGED <<stack, <<turn, active, step, combat.damageStep>>>>
  BY DEF PassTo, turnVars
<1> QED BY <1>1, <1>4, <1>5 DEF Round!Pass, Round!Players, Players

\* The last pass of a round: everybody has passed in succession.
LEMMA LastPass ==
  ASSUME TypeOK, NEW p \in Players, MayPass(p), passes + 1 >= N
  PROVE  priority \in Players /\ PassedInSuccession \cup {priority} = Players
<1>1. priority = p /\ passes = N - 1 /\ priority # NoPlayer
  BY SeatsArePlayers, NAssumption DEF MayPass, TypeOK
<1> QED BY <1>1, PassedBefore, EverybodyPassed

LEMMA ResolveTopStep ==
  ASSUME TypeOK, NEW p \in Players, ResolveTop(p)
  PROVE  Round!Complete
<1>1. priority \in Players /\ PassedInSuccession \cup {priority} = Players
  BY LastPass DEF ResolveTop
<1>2. PICK change \in LifeChanges :
        \E E : GrantPriorityTo(active, [Now EXCEPT !.doomed = change[1]], E)
  BY DEF ResolveTop
<1>3. [Now EXCEPT !.doomed = change[1]].combat = combat /\ combat \in CombatStates
  BY DEF Now, TypeOK
<1>4. passes' = 0 /\ combat'.damageStep = combat.damageStep
  BY <1>2, <1>3, GrantKeepsDamageStep
<1>5. /\ stack # <<>> /\ stack' = SubSeq(stack, 1, Len(stack) - 1)
      /\ UNCHANGED <<turn, active, step>>
  BY DEF ResolveTop, turnVars
<1> QED BY <1>1, <1>4, <1>5, NoPassesNobody DEF Round!Complete, Round!Players, Players

LEMMA EmptyRoundStep ==
  ASSUME TypeOK, DamageStepHeld, NEW p \in Players, CompleteStep(p) \/ RejectedPass(p),
         step \in Steps
  PROVE  Round!Complete
<1>1. priority \in Players /\ PassedInSuccession \cup {priority} = Players /\ stack = <<>>
  BY LastPass DEF CompleteStep, RejectedPass
<1>2. passes' = 0 /\ stack' = stack
  BY AdvanceHoldsDamageStep, AdvanceKeepsStack DEF CompleteStep, RejectedPass
<1> QED BY <1>1, <1>2, NoPassesNobody DEF Round!Complete, Round!Players, Players

LEMMA DrainStep ==
  ASSUME TypeOK, PutPendingTriggeredAbilitiesOnStack
  PROVE  Round!Next
<1>1. PICK kept \in SUBSET PendingInstances :
        \E order \in Injection(1 .. Cardinality(kept), kept) :
          LET placed == [i \in DOMAIN order |->
                           Entry(Controller[order[i][1]], "Trigger", order[i][1])]
          IN /\ stack' = stack \o placed /\ PerformStateBasedActions(Now)
             /\ AssignPriority(DrainGoesTo)
  BY DEF PutPendingTriggeredAbilitiesOnStack
<1>2. PICK order \in Injection(1 .. Cardinality(kept), kept) :
          /\ stack' = stack \o [i \in DOMAIN order |->
                           Entry(Controller[order[i][1]], "Trigger", order[i][1])]
          /\ PerformStateBasedActions(Now) /\ AssignPriority(DrainGoesTo)
  BY <1>1
<1>3. Cardinality(kept) \in Nat /\ DOMAIN order = 1 .. Cardinality(kept)
  <2>1. IsFiniteSet(kept)
    BY PendingInstancesFinite, FS_Subset
  <2> QED BY <2>1, FS_CardinalityType DEF Injection
<1> DEFINE placed == [i \in DOMAIN order |->
                        Entry(Controller[order[i][1]], "Trigger", order[i][1])]
<1>4. placed \in Seq({placed[i] : i \in DOMAIN order})
  BY <1>3
<1>5. Round!Extends(stack', stack)
  <2> HIDE DEF placed
  <2> QED BY <1>2, <1>4, PlacedExtends DEF placed
<1>6. Now.combat = combat /\ combat \in CombatStates
  BY DEF Now, TypeOK
<1>7. passes' = 0 /\ combat'.damageStep = combat.damageStep
  BY <1>2, <1>6, SbaKeepsDamageStep DEF AssignPriority
<1>8. UNCHANGED <<turn, active, step>>
  BY DEF PutPendingTriggeredAbilitiesOnStack, turnVars
<1> QED BY <1>5, <1>7, <1>8, ActStep DEF SameWhere

\* A grant inside a handler that leaves the step and the sub-step alone.
LEMMA GrantStep ==
  ASSUME TypeOK, NEW p, NEW now, NEW E, GrantPriorityTo(p, now, E), now.combat \in CombatStates,
         now.combat.damageStep = combat.damageStep, UNCHANGED turnVars,
         Round!Extends(stack', stack)
  PROVE  SameWhere /\ Round!Next
<1>1. SameWhere /\ passes' = 0
  BY GrantKeepsDamageStep DEF SameWhere, turnVars
<1> QED BY <1>1, ActStep

\* Handlers that end the game give priority back, which starts no round.
LEMMA DropStep ==
  ASSUME TypeOK, DropPriorityIfOver, SameWhere, stack' = stack
  PROVE  [Round!Next]_(Round!vars)
<1>1. CASE outcome' = "InProgress"
  BY <1>1, StutterStep DEF DropPriorityIfOver
<1>2. CASE outcome' # "InProgress"
  <2>1. passes' = 0
    BY <1>2 DEF DropPriorityIfOver
  <2> QED BY <2>1, SameStackExtends, ActStep
<1> QED BY <1>1, <1>2

LEMMA PlayerActionStep ==
  ASSUME TypeOK, DamageStepHeld, NEW p \in Players, PlayerAction(p)
  PROVE  SameWhere /\ [Round!Next]_(Round!vars)
<1>1. Now.combat = combat /\ combat \in CombatStates
  BY DEF Now, TypeOK
<1>2. ASSUME NEW kind, NEW timing, CastSpell(p, kind, timing)
      PROVE  SameWhere /\ [Round!Next]_(Round!vars)
  <2>1. PICK cost, E : GrantPriorityTo(p, [Now EXCEPT !.dying = @ \cup cost], E)
    BY <1>2 DEF CastSpell
  <2>2. [Now EXCEPT !.dying = @ \cup cost].combat = combat
    BY DEF Now
  <2>3. Round!Extends(stack', stack) /\ UNCHANGED turnVars
    BY <1>2, PushedExtends DEF CastSpell, Push
  <2> QED BY <1>1, <2>1, <2>2, <2>3, GrantStep
<1>3. ASSUME NEW timing, ActivateAbility(p, timing)
      PROVE  SameWhere /\ [Round!Next]_(Round!vars)
  <2>1. PICK E : GrantPriorityTo(p, Now, E)
    BY <1>3 DEF ActivateAbility, AfterPriorityAction
  <2>2. Round!Extends(stack', stack) /\ UNCHANGED turnVars
    BY <1>3, PushedExtends DEF ActivateAbility, Push
  <2> QED BY <1>1, <2>1, <2>2, GrantStep
<1>4. CASE PlayLand(p)
  <2>1. PICK E : GrantPriorityTo(p, Now, E)
    BY <1>4 DEF PlayLand, AfterPriorityAction
  <2>2. Round!Extends(stack', stack) /\ UNCHANGED turnVars
    BY <1>4, SameStackExtends DEF PlayLand
  <2> QED BY <1>1, <2>1, <2>2, GrantStep
<1>5. ASSUME NEW attacks \in AttackChoices(p), DeclareAttackers(p, attacks)
      PROVE  SameWhere /\ [Round!Next]_(Round!vars)
  <2> DEFINE cb == [NoCombat EXCEPT !.attackers = attacks]
  <2>1. PICK E : GrantPriorityTo(p, [Now EXCEPT !.combat = cb], E)
    BY <1>5 DEF DeclareAttackers
  <2>2. cb \in CombatStates /\ cb.damageStep = "None"
    BY AttackChoicesType DEF NoCombat, CombatStates, DamageSteps, TypeOK
  <2> HIDE DEF cb
  <2>3. [Now EXCEPT !.combat = cb].combat = cb
    BY DEF Now
  <2>4. combat.damageStep = "None"
    BY <1>5 DEF DeclareAttackers, DamageStepHeld
  <2>5. Round!Extends(stack', stack) /\ UNCHANGED turnVars
    BY <1>5, SameStackExtends DEF DeclareAttackers
  <2> QED BY <2>1, <2>2, <2>3, <2>4, <2>5, GrantStep
<1>6. CASE ActivateManaAbility(p)
  <2>1. UNCHANGED <<priority, passes, stack>> /\ SameWhere
    BY <1>6 DEF ActivateManaAbility, turnVars, priorityVars, combatVars, SameWhere
  <2> QED BY <2>1, StutterStep
<1>7. CASE Concede(p)
  <2>1. DropPriorityIfOver /\ SameWhere /\ stack' = stack
    BY <1>7 DEF Concede, turnVars, combatVars, SameWhere
  <2> QED BY <2>1, DropStep
<1> QED BY <1>2, <1>3, <1>4, <1>5, <1>6, <1>7 DEF PlayerAction

LEMMA DeclareBlockersStep ==
  ASSUME TypeOK, NEW d \in Players, DeclareBlockers(d)
  PROVE  SameWhere /\ [Round!Next]_(Round!vars)
<1> DEFINE declared(blocking) ==
             [combat EXCEPT !.blockers = @ \cup blocking, !.declaredBy = @ \cup {d}]
<1>1. PICK blocking \in SUBSET {c \in creatures : Owner[c] = d} :
        \/ \E E : GrantPriorityTo(active, [Now EXCEPT !.combat = declared(blocking)], E)
        \/ combat' = declared(blocking) /\ UNCHANGED priorityVars
  BY DEF DeclareBlockers
<1>2. declared(blocking) \in CombatStates
      /\ declared(blocking).damageStep = combat.damageStep
  BY DEF TypeOK, CombatStates
<1>3. UNCHANGED turnVars /\ stack' = stack
  BY DEF DeclareBlockers
<1>4. [Now EXCEPT !.combat = declared(blocking)].combat = declared(blocking)
  BY DEF Now
<1> HIDE DEF declared
<1>5. CASE \E E : GrantPriorityTo(active, [Now EXCEPT !.combat = declared(blocking)], E)
  BY <1>2, <1>3, <1>4, <1>5, SameStackExtends, GrantStep
<1>6. CASE combat' = declared(blocking) /\ UNCHANGED priorityVars
  BY <1>2, <1>3, <1>6, StutterStep DEF SameWhere, turnVars, priorityVars
<1> QED BY <1>1, <1>5, <1>6

LEMMA AssignCombatDamageStep ==
  ASSUME TypeOK, AssignCombatDamage
  PROVE  SameWhere /\ [Round!Next]_(Round!vars)
<1>1. PICK d, k : PerformStateBasedActions([Now EXCEPT !.doomed = @ \cup d, !.dying = @ \cup k])
  BY DEF AssignCombatDamage
<1>2. [Now EXCEPT !.doomed = @ \cup d, !.dying = @ \cup k].combat = combat
      /\ combat \in CombatStates
  BY DEF Now, TypeOK
<1>3. SameWhere /\ stack' = stack /\ DropPriorityIfOver
  BY <1>1, <1>2, SbaKeepsDamageStep DEF AssignCombatDamage, SameWhere, turnVars
<1> QED BY <1>3, DropStep

LEMMA EffectStep ==
  ASSUME TypeOK, Effect
  PROVE  SameWhere /\ [Round!Next]_(Round!vars)
<1>1. Now.combat = combat /\ combat \in CombatStates
  BY DEF Now, TypeOK
<1>2. passes = 0 /\ passes' = 0
  BY DEF Effect, EffectWindow, LifeEffect, DrawFromEmptyLibrary, DamageCreature,
         DestroyPermanent, CounterStackEntry, CopyStackEntry, CheckStateBasedActions,
         RequestCleanupPriority, RegisterTriggeredAbility, UnregisterTriggeredAbility,
         DropPriorityIfOver, priorityVars
<1>3. SameWhere
  <2>1. CASE CheckStateBasedActions
    BY <1>1, <2>1, SbaKeepsDamageStep DEF CheckStateBasedActions, SameWhere, turnVars
  <2>2. ASSUME NEW c \in creatures, DestroyPermanent(c)
        PROVE  SameWhere
    <3>1. RemoveFromCombat(combat, {c}).damageStep = combat.damageStep
      BY <1>1 DEF RemoveFromCombat, CombatStates
    <3> QED BY <2>2, <3>1 DEF DestroyPermanent, SameWhere, turnVars
  <2>3. \/ CheckStateBasedActions
        \/ \E c \in creatures : DestroyPermanent(c)
        \/ UNCHANGED <<turnVars, combatVars>>
    BY DEF Effect, LifeEffect, DrawFromEmptyLibrary, DamageCreature, CounterStackEntry,
           CopyStackEntry, RequestCleanupPriority, RegisterTriggeredAbility,
           UnregisterTriggeredAbility
  <2> QED BY <2>1, <2>2, <2>3 DEF SameWhere, turnVars, combatVars
<1> QED BY <1>2, <1>3, InterludeStep

----------------------------------------------------------------------------
(* The refinement *)

\* The state the round is read off: what holds besides the types.
RoundInv ==
  /\ DamageStepHeld
  /\ step = "NotStarted" => stack = <<>>

LEMMA HeldWhileSame ==
  ASSUME RoundInv, SameWhere, step # "NotStarted" \/ stack' = stack
  PROVE  RoundInv'
BY DEF RoundInv, SameWhere, DamageStepHeld

LEMMA RoundNext ==
  ASSUME Typed, RoundInv, NobodyWaitsOnTheStack, [Next]_vars
  PROVE  RoundInv' /\ [Round!Next]_(Round!vars)
<1>1. TypeOK /\ Started /\ DamageStepHeld
  BY DEF Typed, RoundInv
<1>2. CASE StartTurn
  <2>1. stack = <<>> /\ combat' = NoCombat /\ NoCombat.damageStep = "None" /\ step' = "Untap"
    BY <1>2 DEF StartTurn, BeginTurn, RoundInv, NoCombat
  <2>2. RoundInv'
    BY <2>1 DEF RoundInv, DamageStepHeld
  <2> QED BY <1>1, <1>2, <2>1, <2>2, StartStep
<1>3. ASSUME AdvanceStepAfterEmptyStack, step \in Steps, active \in Players
      PROVE  RoundInv'
  <2>1. step' # "NotStarted"
    BY <1>3, AdvanceStarts DEF Steps
  <2> QED BY <1>1, <1>3, <2>1, AdvanceHoldsDamageStep DEF RoundInv
<1>4. CASE AdvanceStep
  <2>1. active \in Players
    BY <1>1, <1>4 DEF AdvanceStep, Started, Steps
  <2> QED BY <1>1, <1>3, <1>4, <2>1, AdvanceStepStep DEF AdvanceStep
<1>5. ASSUME NEW p \in Players, PassTo(p)
      PROVE  RoundInv' /\ [Round!Next]_(Round!vars)
  <2>1. combat' = combat /\ SameWhere /\ stack' = stack
    BY <1>5 DEF PassTo, SameWhere, turnVars, combatVars
  <2> QED BY <1>1, <1>5, <2>1, HeldWhileSame, PassToStep DEF Round!Next
<1>6. ASSUME NEW p \in Players, ResolveTop(p) \/ CompleteStep(p) \/ RejectedPass(p)
      PROVE  RoundInv' /\ [Round!Next]_(Round!vars)
  <2>1. step \in Steps /\ active \in Players /\ step # "NotStarted"
    BY <1>1, <1>6, HolderMeansStarted DEF ResolveTop, CompleteStep, RejectedPass, MayPass, Steps
  <2>2. CASE ResolveTop(p)
    <3>1. PICK change, E : GrantPriorityTo(active, [Now EXCEPT !.doomed = change[1]], E)
      BY <2>2 DEF ResolveTop
    <3>2. [Now EXCEPT !.doomed = change[1]].combat = combat /\ combat \in CombatStates
      BY <1>1 DEF Now, TypeOK
    <3>3. SameWhere
      BY <2>2, <3>1, <3>2, GrantKeepsDamageStep DEF ResolveTop, SameWhere, turnVars
    <3> QED BY <1>1, <2>1, <2>2, <3>3, HeldWhileSame, ResolveTopStep DEF Round!Next
  <2>3. CASE CompleteStep(p)
    <3>1. RoundInv'
      BY <1>3, <2>1, <2>3 DEF CompleteStep
    <3> QED BY <1>1, <2>1, <2>3, <3>1, EmptyRoundStep DEF Round!Next
  <2>4. CASE RejectedPass(p)
    <3>1. SameWhere /\ stack' = stack
      BY <2>4 DEF RejectedPass, SameWhere, turnVars, combatVars
    <3> QED BY <1>1, <2>1, <2>4, <3>1, HeldWhileSame, EmptyRoundStep DEF Round!Next
  <2> QED BY <1>6, <2>2, <2>3, <2>4
<1>7. CASE PutPendingTriggeredAbilitiesOnStack
  <2>1. step # "NotStarted"
    BY <1>1, <1>7 DEF PutPendingTriggeredAbilitiesOnStack, CanDrain, Started
  <2>2. PerformStateBasedActions(Now) /\ UNCHANGED turnVars
    BY <1>7 DEF PutPendingTriggeredAbilitiesOnStack
  <2>3. Now.combat = combat /\ combat \in CombatStates
    BY <1>1 DEF Now, TypeOK
  <2>4. SameWhere
    BY <2>2, <2>3, SbaKeepsDamageStep DEF SameWhere, turnVars
  <2> QED BY <1>1, <1>7, <2>1, <2>4, HeldWhileSame, DrainStep
<1>8. ASSUME NEW d \in Players, DeclareBlockers(d)
      PROVE  RoundInv' /\ [Round!Next]_(Round!vars)
  <2>1. stack' = stack
    BY <1>8 DEF DeclareBlockers
  <2> QED BY <1>1, <1>8, <2>1, HeldWhileSame, DeclareBlockersStep
<1>9. CASE AssignCombatDamage
  <2>1. stack' = stack
    BY <1>9 DEF AssignCombatDamage
  <2> QED BY <1>1, <1>9, <2>1, HeldWhileSame, AssignCombatDamageStep
<1>10. ASSUME NEW p \in Players, PlayerAction(p)
       PROVE  RoundInv' /\ [Round!Next]_(Round!vars)
  <2>1. step # "NotStarted" \/ stack' = stack
    <3>1. (\E kind, timing : CastSpell(p, kind, timing)) \/ (\E timing : ActivateAbility(p, timing))
            => priority = p
      BY DEF CastSpell, ActivateAbility
    <3>2. \/ \E kind, timing : CastSpell(p, kind, timing)
          \/ \E timing : ActivateAbility(p, timing)
          \/ stack' = stack
      BY <1>10 DEF PlayerAction, ActivateManaAbility, PlayLand, DeclareAttackers, Concede
    <3> QED BY <1>1, <3>1, <3>2, HolderMeansStarted DEF Steps
  <2> QED BY <1>1, <1>10, <2>1, HeldWhileSame, PlayerActionStep
<1>11. CASE Effect
  <2>1. step # "NotStarted"
    BY <1>11 DEF Effect, EffectWindow
  <2> QED BY <1>1, <1>11, <2>1, HeldWhileSame, EffectStep
<1>12. CASE UNCHANGED vars
  <2>1. UNCHANGED <<priority, passes, stack>> /\ SameWhere
    BY <1>12 DEF vars, turnVars, priorityVars, combatVars, SameWhere
  <2> QED BY <2>1, HeldWhileSame, StutterStep
<1> QED
  BY <1>2, <1>4, <1>5, <1>6, <1>7, <1>8, <1>9, <1>10, <1>11, <1>12 DEF Next, Pass, GameOver

\* The kernel implements the priority round: whatever the players, the cards
\* and the driver do, the top of the stack resolves and a step with priority
\* ends only after every player has passed since anything was last put on the
\* stack, though GameState counts passes and never names who made them.
THEOREM KernelImplementsPriorityRound == Spec => PriorityRounds
<1>1. Init => RoundInv /\ Round!Init
  BY DEF Init, RoundInv, DamageStepHeld, NoCombat, Round!Init, Round!NoPlayer, NoPlayer,
         PassedInSuccession
<1>2. Typed /\ RoundInv /\ NobodyWaitsOnTheStack /\ [Next]_vars
        => RoundInv' /\ [Round!Next]_(Round!vars)
  BY RoundNext
<1> QED
  BY <1>1, <1>2, TypedAlways, StackIsNeverStranded, PTL DEF Spec, PriorityRounds, Round!Spec
====
