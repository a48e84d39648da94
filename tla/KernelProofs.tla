---- MODULE KernelProofs ----
(***************************************************************************)
(* Theorems about Kernel, for every number of players, every set of        *)
(* creatures and every finite set of trigger subscriptions: first that     *)
(* types are kept, then the safety of priority and combat, each invariant  *)
(* kept by every action from the invariants before it.                     *)
(***************************************************************************)
EXTENDS KernelProperties, FiniteSetTheorems, SequenceTheorems, TLAPS

----------------------------------------------------------------------------
(* The finite sets everything is counted over *)

LEMMA PlayersFinite == IsFiniteSet(Players)
BY FS_Interval, NAssumption DEF Players

LEMMA SeatsArePlayers ==
  /\ NoPlayer \notin Players
  /\ 0 \in Players
  /\ \A p \in Players : NextPlayerAfter(p) \in Players
BY NAssumption DEF Players, NoPlayer, NextPlayerAfter

LEMMA EachFinite ==
  ASSUME NEW kind, NEW S, IsFiniteSet(S)
  PROVE  IsFiniteSet(Each(kind, S))
BY FS_Product, FS_Singleton DEF Each

\* A batch of events fires a trigger a natural number of times.
LEMMA FiredNat ==
  ASSUME NEW t \in Triggers, NEW E, IsFiniteSet(E)
  PROVE  Fired(t, E) \in Nat
<1>1. CountOf(E, Watches[t]) \in Nat
  BY FS_Subset, FS_CardinalityType DEF CountOf
<1> QED BY <1>1 DEF Fired

LEMMA QueueType ==
  ASSUME NEW base \in [Triggers -> Nat], subs \subseteq Triggers,
         NEW E, IsFiniteSet(E), QueueOnto(base, E)
  PROVE  /\ pending' \in [Triggers -> Nat]
         /\ subs' \subseteq subs
         /\ \A t \in Triggers : pending'[t] >= base[t]
<1>1. \A t \in Triggers : Fired(t, E) \in Nat
  BY FiredNat
<1> QED BY <1>1 DEF QueueOnto

----------------------------------------------------------------------------
(* The parts of a handler keep the types of what they assign *)

\* What state-based actions may be asked to look at.
Nows ==
  [doomed : SUBSET Players, emptyDraw : SUBSET Players, dying : SUBSET Creatures,
   combat : CombatStates]

LEMMA NowType == TypeOK => Now \in Nows
BY DEF TypeOK, Now, Nows

LEMMA CombatType ==
  /\ NoCombat \in CombatStates
  /\ \A cb \in CombatStates :
       /\ \A gone : RemoveFromCombat(cb, gone) \in CombatStates
       /\ BeginCombatDamageStep(cb) \in CombatStates
       /\ AttackedPlayers(cb) \subseteq Players
       /\ AttackingCreatures(cb) \subseteq Creatures
BY DEF NoCombat, CombatStates, RemoveFromCombat, BeginCombatDamageStep, DamageSteps,
       AttackedPlayers, AttackingCreatures

LEMMA SbaEventsFinite ==
  ASSUME TypeOK, NEW now \in Nows
  PROVE  IsFiniteSet(SbaEvents(now))
<1>1. IsFiniteSet(Losers(now))
  BY PlayersFinite, FS_Subset DEF Losers, Nows
<1>2. IsFiniteSet(now.dying)
  BY CreaturesAssumption, FS_Subset DEF Nows
<1>3. IsFiniteSet({OutcomeOf(lost \cup Losers(now))} \ {outcome})
  BY FS_Singleton, FS_Difference
<1> QED
  BY <1>1, <1>2, <1>3, EachFinite, FS_Union DEF SbaEvents

LEMMA SbaType ==
  ASSUME TypeOK, NEW now \in Nows, PerformStateBasedActions(now)
  PROVE  /\ lost' \subseteq Players /\ doomed' \subseteq Players /\ emptyDraw' \subseteq Players
         /\ outcome' \in {"InProgress", "Won", "Draw"}
         /\ creatures' \subseteq Creatures /\ dying' \subseteq creatures'
         /\ combat' \in CombatStates
BY CombatType DEF TypeOK, Nows, PerformStateBasedActions, Losers, OutcomeOf

LEMMA AssignType ==
  ASSUME NEW p \in Players \cup {NoPlayer}, AssignPriority(p)
  PROVE  /\ priority' \in Players \cup {NoPlayer} /\ passes' \in 0 .. N - 1
         /\ deferred' \in Players \cup {NoPlayer}
BY NAssumption DEF AssignPriority

LEMMA DropType ==
  ASSUME TypeOK, DropPriorityIfOver
  PROVE  /\ priority' \in Players \cup {NoPlayer} /\ passes' \in 0 .. N - 1
         /\ deferred' \in Players \cup {NoPlayer}
BY NAssumption DEF TypeOK, DropPriorityIfOver

LEMMA EmitType ==
  ASSUME TypeOK, NEW E, IsFiniteSet(E), Emit(E)
  PROVE  subs' \subseteq Triggers /\ pending' \in [Triggers -> Nat]
<1>1. subs \subseteq Triggers /\ pending \in [Triggers -> Nat]
  BY DEF TypeOK
<1> QED BY <1>1, QueueType DEF Emit

LEMMA GrantType ==
  ASSUME TypeOK, NEW p \in Players \cup {NoPlayer}, NEW now \in Nows, NEW E, IsFiniteSet(E),
         GrantPriorityTo(p, now, E)
  PROVE  /\ priority' \in Players \cup {NoPlayer} /\ passes' \in 0 .. N - 1
         /\ deferred' \in Players \cup {NoPlayer}
         /\ lost' \subseteq Players /\ doomed' \subseteq Players /\ emptyDraw' \subseteq Players
         /\ outcome' \in {"InProgress", "Won", "Draw"}
         /\ creatures' \subseteq Creatures /\ dying' \subseteq creatures'
         /\ combat' \in CombatStates
         /\ subs' \subseteq Triggers /\ pending' \in [Triggers -> Nat]
<1>1. PerformStateBasedActions(now) /\ Emit(E \cup SbaEvents(now)) /\ AssignPriority(p)
  BY DEF GrantPriorityTo
<1>2. IsFiniteSet(E \cup SbaEvents(now))
  BY SbaEventsFinite, FS_Union
<1> QED BY <1>1, <1>2, SbaType, EmitType, AssignType

LEMMA LifeChangesType ==
  ASSUME TypeOK, NEW change \in LifeChanges
  PROVE  change[1] \subseteq Players /\ IsFiniteSet(change[2])
<1>1. doomed \subseteq Players
  BY DEF TypeOK
<1>2. CASE change = <<doomed, {}>>
  BY <1>1, <1>2, FS_EmptySet
<1>3. CASE \E q \in Players : change \in {<<doomed, {<<"LifeLost", q>>}>>,
             <<doomed \cup ({q} \ lost), {<<"LifeLost", q>>}>>,
             <<doomed \ {q}, {<<"LifeGained", q>>}>>}
  <2>1. PICK q \in Players : change \in {<<doomed, {<<"LifeLost", q>>}>>,
             <<doomed \cup ({q} \ lost), {<<"LifeLost", q>>}>>,
             <<doomed \ {q}, {<<"LifeGained", q>>}>>}
    BY <1>3
  <2>2. IsFiniteSet({<<"LifeLost", q>>}) /\ IsFiniteSet({<<"LifeGained", q>>})
    BY FS_Singleton
  <2>3. change[2] \in {{<<"LifeLost", q>>}, {<<"LifeGained", q>>}}
    BY <2>1
  <2>4. change[1] \subseteq Players
    BY <2>1, <1>1
  <2> QED BY <2>2, <2>3, <2>4
<1> QED
  <2>1. change = <<doomed, {}>> \/ \E q \in Players : change \in {<<doomed, {<<"LifeLost", q>>}>>,
             <<doomed \cup ({q} \ lost), {<<"LifeLost", q>>}>>,
             <<doomed \ {q}, {<<"LifeGained", q>>}>>}
    BY Zenon DEF LifeChanges
  <2> QED BY <2>1, <1>2, <1>3

----------------------------------------------------------------------------
(* Type correctness, one step per action *)

LEMMA StepType ==
  ASSUME TypeOK, NEW s \in Steps, NEW empty \in SUBSET Players, NEW cb \in CombatStates,
         NEW E, IsFiniteSet(E), BeginPriorityStep(s, empty, cb, E),
         attackersDeclared' \in BOOLEAN
  PROVE  TypeOK'
<1> DEFINE now == [Now EXCEPT !.emptyDraw = empty, !.combat = cb]
<1>1. now \in Nows
  BY NowType DEF Nows
<1>2. active \in Players \cup {NoPlayer}
  BY DEF TypeOK
<1>3. IsFiniteSet(E \cup {<<s, 0>>})
  BY FS_Singleton, FS_Union
<1>4. GrantPriorityTo(active, now, E \cup {<<s, 0>>})
  BY DEF BeginPriorityStep
<1> HIDE DEF now
<1>5. QED
  BY <1>1, <1>2, <1>3, <1>4, GrantType DEF BeginPriorityStep, TypeOK, turnVars, cleanupVars

LEMMA TurnType ==
  ASSUME TypeOK, NEW p \in Players, BeginTurn(p)
  PROVE  TypeOK'
<1>1. PICK untapped \in SUBSET {c \in creatures : Owner[c] = p} :
        Emit({<<"TurnStarted", 0>>, <<"Untap", 0>>} \cup Each("Untapped", untapped))
  BY DEF BeginTurn
<1>2. IsFiniteSet(Each("Untapped", untapped))
  BY CreaturesAssumption, FS_Subset, EachFinite DEF TypeOK
<1>3. IsFiniteSet({<<"TurnStarted", 0>>, <<"Untap", 0>>} \cup Each("Untapped", untapped))
  <2>1. IsFiniteSet({<<"TurnStarted", 0>>} \cup {<<"Untap", 0>>})
    BY FS_Singleton, FS_Union
  <2>2. {<<"TurnStarted", 0>>, <<"Untap", 0>>} = {<<"TurnStarted", 0>>} \cup {<<"Untap", 0>>}
    OBVIOUS
  <2> QED BY <2>1, <2>2, <1>2, FS_Union
<1>4. subs' \subseteq Triggers /\ pending' \in [Triggers -> Nat]
  BY <1>1, <1>3, EmitType
<1>5. UNCHANGED <<fateVars, boardVars, cleanupVars, stack, fuel, deferred>>
      /\ active' = p /\ step' = "Untap" /\ priority' = NoPlayer /\ passes' = 0
      /\ attackersDeclared' = FALSE /\ combat' = NoCombat /\ landPlayed' = {}
  BY DEF BeginTurn
<1>6. turn' \in 0 .. MaxTurn
  BY BoundsAssumption DEF BeginTurn, TypeOK
<1>7. passes' \in 0 .. N - 1
  BY <1>5, NAssumption
<1>8. step' \in Steps
  BY <1>5 DEF Steps
<1> QED
  BY <1>4, <1>5, <1>6, <1>7, <1>8, CombatType DEF TypeOK, fateVars, boardVars, cleanupVars

LEMMA CleanupType ==
  ASSUME TypeOK, BeginCleanup
  PROVE  TypeOK'
<1>1. PICK fading \in SUBSET (Waning \cap creatures), discards \in SUBSET {<<"Discarded", 0>>} :
        /\ step' = "Cleanup"
        /\ PerformStateBasedActions([Now EXCEPT !.dying = fading])
        /\ Emit({<<"Cleanup", 0>>, <<"CleanupPerformed", 0>>} \cup discards
                \cup SbaEvents([Now EXCEPT !.dying = fading]))
        /\ cleanupRequested' = FALSE /\ cleanupRepeat' \in BOOLEAN
        /\ priority' = IF cleanupRepeat' THEN active ELSE NoPlayer
        /\ passes' = 0
        /\ UNCHANGED <<turn, active, deferred, attackersDeclared, landPlayed, stack, fuel>>
  BY DEF BeginCleanup
<1> DEFINE now == [Now EXCEPT !.dying = fading]
<1>2. now \in Nows
  BY NowType DEF Nows, TypeOK
<1>3. IsFiniteSet({<<"Cleanup", 0>>, <<"CleanupPerformed", 0>>} \cup discards \cup SbaEvents(now))
  <2>1. IsFiniteSet({<<"Cleanup", 0>>} \cup {<<"CleanupPerformed", 0>>} \cup discards)
    BY FS_Singleton, FS_Union, FS_Subset
  <2>2. IsFiniteSet(SbaEvents(now))
    BY <1>2, SbaEventsFinite
  <2>3. {<<"Cleanup", 0>>, <<"CleanupPerformed", 0>>} \cup discards
          = {<<"Cleanup", 0>>} \cup {<<"CleanupPerformed", 0>>} \cup discards
    OBVIOUS
  <2> QED BY <2>1, <2>2, <2>3, FS_Union
<1>4. PerformStateBasedActions(now)
      /\ Emit({<<"Cleanup", 0>>, <<"CleanupPerformed", 0>>} \cup discards \cup SbaEvents(now))
  BY <1>1
<1> HIDE DEF now
<1>5. subs' \subseteq Triggers /\ pending' \in [Triggers -> Nat]
  BY <1>3, <1>4, EmitType
<1>6. passes' \in 0 .. N - 1 /\ step' \in Steps
  BY <1>1, NAssumption DEF Steps
<1>7. priority' \in Players \cup {NoPlayer}
  BY <1>1 DEF TypeOK
<1>8. UNCHANGED <<turn, active, deferred, attackersDeclared, landPlayed, stack, fuel>>
      /\ cleanupRequested' \in BOOLEAN /\ cleanupRepeat' \in BOOLEAN
  BY <1>1
<1>9. PerformStateBasedActions(now)
  BY <1>4
<1> QED
  BY <1>2, <1>5, <1>6, <1>7, <1>8, <1>9, SbaType DEF TypeOK

LEMMA AdvanceType ==
  ASSUME TypeOK, step \in Steps, active \in Players, AdvanceStepAfterEmptyStack
  PROVE  TypeOK'
<1> USE FS_EmptySet
<1>1. NextStep \in Steps
  BY DEF NextStep, NextNormalStep, Steps
<1>2. combat \in CombatStates /\ emptyDraw \in SUBSET Players /\ attackersDeclared \in BOOLEAN
  BY DEF TypeOK
<1>3. CASE NextStep = "Untap"
  BY <1>3, TurnType, SeatsArePlayers DEF AdvanceStepAfterEmptyStack
<1>4. CASE NextStep = "Cleanup"
  BY <1>4, CleanupType DEF AdvanceStepAfterEmptyStack
<1>5. CASE NextStep = "Draw"
  <2>1. BeginDraw
    BY <1>5 DEF AdvanceStepAfterEmptyStack
  <2>2. "Draw" \in Steps /\ emptyDraw \cup {active} \in SUBSET Players
    BY <1>2 DEF Steps
  <2>3. \A x : IsFiniteSet({x})
    BY FS_Singleton
  <2> QED BY <2>1, <2>2, <2>3, <1>2, StepType DEF BeginDraw
<1>6. CASE NextStep \notin {"Untap", "Cleanup", "Draw"}
  <2>1. PICK cb \in CombatStates :
          BeginPriorityStep(NextStep, emptyDraw, cb, {}) /\ attackersDeclared' \in BOOLEAN
    BY <1>2, <1>6, CombatType DEF AdvanceStepAfterEmptyStack
  <2> QED BY <2>1, <1>1, <1>2, StepType
<1> QED BY <1>3, <1>4, <1>5, <1>6

----------------------------------------------------------------------------
(* The game has started exactly when there is an active player, and nobody  *)
(* holds priority before that.                                              *)

Started ==
  IF step = "NotStarted" THEN active = NoPlayer /\ priority = NoPlayer ELSE active \in Players

LEMMA NowWithDoomed ==
  ASSUME TypeOK, NEW d \in SUBSET Players
  PROVE  [Now EXCEPT !.doomed = d] \in Nows
BY NowType DEF Nows

LEMMA NowWithDying ==
  ASSUME TypeOK, NEW gone \in SUBSET Creatures
  PROVE  [Now EXCEPT !.dying = @ \cup gone] \in Nows
BY NowType DEF Nows, Now

LEMMA NowWithCombat ==
  ASSUME TypeOK, NEW cb \in CombatStates
  PROVE  [Now EXCEPT !.combat = cb] \in Nows
BY NowType DEF Nows

LEMMA EntryType ==
  ASSUME NEW p \in Players, NEW kind \in EntryKinds, NEW t \in Triggers \cup {NoTrigger}
  PROVE  Entry(p, kind, t) \in StackEntries
BY DEF Entry, StackEntries

LEMMA PushType ==
  ASSUME TypeOK, NEW entry \in StackEntries, Push(entry)
  PROVE  stack' \in Seq(StackEntries)
BY AppendProperties DEF Push, TypeOK

\* A prefix of the stack is a stack.
LEMMA PartOfStackType ==
  ASSUME TypeOK, NEW i \in Int, NEW j \in Int, i >= 1, j <= Len(stack)
  PROVE  SubSeq(stack, i, j) \in Seq(StackEntries)
<1>1. stack \in Seq(StackEntries)
  BY DEF TypeOK
<1>2. \A k \in i .. j : stack[k] \in StackEntries
  BY <1>1
<1> QED BY <1>2, SubSeqProperties

\* What a handler that grants priority leaves to be shown.
LEMMA GrantKeepsType ==
  ASSUME TypeOK, NEW p \in Players \cup {NoPlayer}, NEW now \in Nows, NEW E, IsFiniteSet(E),
         GrantPriorityTo(p, now, E),
         turn' \in 0 .. MaxTurn, active' \in Players \cup {NoPlayer},
         step' \in Steps \cup {"NotStarted"}, attackersDeclared' \in BOOLEAN,
         UNCHANGED cleanupVars, landPlayed' \subseteq Players,
         stack' \in Seq(StackEntries), fuel' \in 0 .. Fuel
  PROVE  TypeOK'
<1>1. /\ priority' \in Players \cup {NoPlayer} /\ passes' \in 0 .. N - 1
      /\ deferred' \in Players \cup {NoPlayer}
      /\ lost' \subseteq Players /\ doomed' \subseteq Players /\ emptyDraw' \subseteq Players
      /\ outcome' \in {"InProgress", "Won", "Draw"}
      /\ creatures' \subseteq Creatures /\ dying' \subseteq creatures'
      /\ combat' \in CombatStates
      /\ subs' \subseteq Triggers /\ pending' \in [Triggers -> Nat]
  BY GrantType
<1>2. cleanupRequested' \in BOOLEAN /\ cleanupRepeat' \in BOOLEAN
  BY DEF TypeOK, cleanupVars
<1> QED BY <1>1, <1>2 DEF TypeOK

LEMMA SpendType == TypeOK /\ Spend => fuel' \in 0 .. Fuel
BY BoundsAssumption DEF TypeOK, Spend

----------------------------------------------------------------------------
(* Priority and resolution keep the types *)

LEMMA PassToType ==
  ASSUME TypeOK, NEW p \in Players, PassTo(p)
  PROVE  TypeOK'
<1>1. passes' \in 0 .. N - 1
  BY NAssumption DEF PassTo, TypeOK
<1>2. priority' \in Players
  BY SeatsArePlayers DEF PassTo
<1> QED
  BY <1>1, <1>2 DEF PassTo, TypeOK, turnVars, fateVars, boardVars, combatVars, cleanupVars,
                    triggerVars

LEMMA ResolveTopType ==
  ASSUME TypeOK, NEW p \in Players, ResolveTop(p)
  PROVE  TypeOK'
<1>1. PICK change \in LifeChanges :
        GrantPriorityTo(active, [Now EXCEPT !.doomed = change[1]],
                        {<<"StackEntryResolved", Len(stack)>>} \cup change[2])
  BY DEF ResolveTop
<1>2. change[1] \in SUBSET Players /\ IsFiniteSet(change[2])
  BY LifeChangesType
<1>3. [Now EXCEPT !.doomed = change[1]] \in Nows
  BY <1>2, NowWithDoomed
<1>4. IsFiniteSet({<<"StackEntryResolved", Len(stack)>>} \cup change[2])
  BY <1>2, FS_Singleton, FS_Union
<1>5. stack' \in Seq(StackEntries)
  <2>1. Len(stack) \in Nat
    BY LenProperties DEF TypeOK
  <2>2. SubSeq(stack, 1, Len(stack) - 1) \in Seq(StackEntries)
    BY <2>1, PartOfStackType
  <2> QED BY <2>2 DEF ResolveTop
<1>6. UNCHANGED <<turnVars, attackersDeclared, cleanupVars, landPlayed, fuel>>
  BY DEF ResolveTop
<1>7. /\ turn' \in 0 .. MaxTurn /\ active \in Players \cup {NoPlayer}
      /\ active' \in Players \cup {NoPlayer}
      /\ step' \in Steps \cup {"NotStarted"} /\ attackersDeclared' \in BOOLEAN
      /\ UNCHANGED cleanupVars /\ landPlayed' \subseteq Players /\ fuel' \in 0 .. Fuel
  BY <1>6 DEF TypeOK, turnVars, cleanupVars
<1> QED BY <1>1, <1>3, <1>4, <1>5, <1>7, GrantKeepsType

LEMMA RejectedPassType ==
  ASSUME TypeOK, NEW p \in Players, RejectedPass(p)
  PROVE  TypeOK'
<1>1. passes' \in 0 .. N - 1
  BY NAssumption DEF RejectedPass
<1> QED
  BY <1>1 DEF RejectedPass, TypeOK, turnVars, fateVars, boardVars, combatVars, cleanupVars,
              triggerVars

\* Priority is held in a started game, and only there.
LEMMA HolderMeansStarted ==
  ASSUME TypeOK, Started, NEW p \in Players, priority = p
  PROVE  step \in Steps /\ active \in Players
BY SeatsArePlayers DEF TypeOK, Started

LEMMA PassType ==
  ASSUME TypeOK, Started, Pass
  PROVE  TypeOK'
<1>1. PICK p \in Players : PassTo(p) \/ ResolveTop(p) \/ CompleteStep(p) \/ RejectedPass(p)
  BY DEF Pass
<1>2. CASE CompleteStep(p)
  BY <1>2, HolderMeansStarted, AdvanceType DEF CompleteStep, MayPass
<1> QED BY <1>1, <1>2, PassToType, ResolveTopType, RejectedPassType

----------------------------------------------------------------------------
(* Draining the trigger queue keeps the types *)

LEMMA PendingInstancesFinite ==
  ASSUME TypeOK
  PROVE  /\ IsFiniteSet(PendingInstances)
         /\ \A x \in PendingInstances : x[1] \in Triggers
<1> DEFINE of(t) == {t} \X (1 .. pending[t])
           all == {of(t) : t \in Triggers}
           f == [t \in Triggers |-> of(t)]
<1>1. \A t \in Triggers : IsFiniteSet(of(t))
  <2> TAKE t \in Triggers
  <2>1. pending[t] \in Nat
    BY DEF TypeOK
  <2>2. IsFiniteSet(1 .. pending[t])
    BY <2>1, FS_Interval
  <2>3. IsFiniteSet({t} \X (1 .. pending[t]))
    BY <2>2, EachFinite DEF Each
  <2> QED BY <2>3
<1>2. f \in Surjection(Triggers, all)
  BY DEF Surjection
<1>3. IsFiniteSet(all)
  BY <1>2, FS_Surjection, TriggersAssumption
<1>4. IsFiniteSet(UNION all)
  BY <1>1, <1>3, FS_UNION
<1>5. PendingInstances = UNION all
  BY DEF PendingInstances
<1>6. \A x \in PendingInstances : x[1] \in Triggers
  BY DEF PendingInstances
<1> QED BY <1>4, <1>5, <1>6

LEMMA DrainType ==
  ASSUME TypeOK, Started, PutPendingTriggeredAbilitiesOnStack
  PROVE  TypeOK'
<1> DEFINE added(kept) == Each("StackEntryAdded", Len(stack) + 1 .. Len(stack) + Cardinality(kept))
           placed(order) == [i \in DOMAIN order |->
                               Entry(Controller[order[i][1]], "Trigger", order[i][1])]
<1>0. PICK kept \in SUBSET PendingInstances :
        \E order \in Injection(1 .. Cardinality(kept), kept) :
          /\ stack' = stack \o placed(order)
          /\ PerformStateBasedActions(Now)
          /\ ClearAndEmit(added(kept) \cup SbaEvents(Now))
          /\ AssignPriority(DrainGoesTo)
  BY DEF PutPendingTriggeredAbilitiesOnStack
<1>1. PICK order \in Injection(1 .. Cardinality(kept), kept) :
        /\ stack' = stack \o placed(order)
        /\ PerformStateBasedActions(Now)
        /\ ClearAndEmit(added(kept) \cup SbaEvents(Now))
        /\ AssignPriority(DrainGoesTo)
  BY <1>0
<1>2. Cardinality(kept) \in Nat
  BY PendingInstancesFinite, FS_Subset, FS_CardinalityType
<1>3. stack' \in Seq(StackEntries)
  <2>1. order \in [1 .. Cardinality(kept) -> kept]
    BY DEF Injection
  <2>2. \A i \in 1 .. Cardinality(kept) : order[i][1] \in Triggers
    BY <2>1, PendingInstancesFinite
  <2>3. \A i \in 1 .. Cardinality(kept) :
          Entry(Controller[order[i][1]], "Trigger", order[i][1]) \in StackEntries
    BY <2>2, EntryType, TriggersAssumption DEF EntryKinds
  <2>4. placed(order) \in [1 .. Cardinality(kept) -> StackEntries]
    BY <2>1, <2>3
  <2>5. placed(order) \in Seq(StackEntries)
    BY <2>4, <1>2
  <2>6. stack \in Seq(StackEntries)
    BY DEF TypeOK
  <2> QED BY <1>1, <2>5, <2>6, ConcatProperties
<1>4. IsFiniteSet(added(kept) \cup SbaEvents(Now))
  <2>1. IsFiniteSet(Len(stack) + 1 .. Len(stack) + Cardinality(kept))
    BY <1>2, FS_Interval, LenProperties DEF TypeOK
  <2>2. IsFiniteSet(SbaEvents(Now))
    BY NowType, SbaEventsFinite
  <2> QED BY <2>1, <2>2, EachFinite, FS_Union
<1>5. subs' \subseteq Triggers /\ pending' \in [Triggers -> Nat]
  <2>1. [t \in Triggers |-> 0] \in [Triggers -> Nat] /\ subs \subseteq Triggers
    BY DEF TypeOK
  <2> HIDE DEF added
  <2> QED BY <1>1, <1>4, <2>1, QueueType DEF ClearAndEmit
<1>6. DrainGoesTo \in Players \cup {NoPlayer}
  BY DEF DrainGoesTo, TypeOK
<1>7. /\ priority' \in Players \cup {NoPlayer} /\ passes' \in 0 .. N - 1
      /\ deferred' \in Players \cup {NoPlayer}
  BY <1>1, <1>6, AssignType
<1>8. /\ lost' \subseteq Players /\ doomed' \subseteq Players /\ emptyDraw' \subseteq Players
      /\ outcome' \in {"InProgress", "Won", "Draw"}
      /\ creatures' \subseteq Creatures /\ dying' \subseteq creatures'
      /\ combat' \in CombatStates
  BY <1>1, NowType, SbaType
<1>9. UNCHANGED <<turnVars, attackersDeclared, cleanupVars, landPlayed, fuel>>
  BY DEF PutPendingTriggeredAbilitiesOnStack
<1> QED
  BY <1>3, <1>5, <1>7, <1>8, <1>9 DEF TypeOK, turnVars, cleanupVars

----------------------------------------------------------------------------
(* Player actions keep the types *)

LEMMA CastSpellType ==
  ASSUME TypeOK, NEW p \in Players, NEW kind \in SpellKinds, NEW timing \in Timings,
         CastSpell(p, kind, timing)
  PROVE  TypeOK'
<1>1. PICK cost \in {{}} \cup {{c} : c \in {c \in creatures : Owner[c] = p}} :
        GrantPriorityTo(p, [Now EXCEPT !.dying = @ \cup cost], {<<"SpellMoved", 0>>, PushEvent})
  BY DEF CastSpell
<1>2. [Now EXCEPT !.dying = @ \cup cost] \in Nows
  BY NowWithDying DEF TypeOK
<1>3. IsFiniteSet({<<"SpellMoved", 0>>, PushEvent})
  <2>1. IsFiniteSet({<<"SpellMoved", 0>>} \cup {PushEvent})
    BY FS_Singleton, FS_Union
  <2>2. {<<"SpellMoved", 0>>, PushEvent} = {<<"SpellMoved", 0>>} \cup {PushEvent}
    OBVIOUS
  <2> QED BY <2>1, <2>2
<1>4. Entry(p, kind, NoTrigger) \in StackEntries
  BY EntryType DEF EntryKinds
<1>5. stack' \in Seq(StackEntries) /\ fuel' \in 0 .. Fuel
  BY <1>4, PushType, SpendType DEF CastSpell
<1>6. UNCHANGED <<turnVars, attackersDeclared, cleanupVars, landPlayed>>
  BY DEF CastSpell
<1>7. /\ turn' \in 0 .. MaxTurn /\ active' \in Players \cup {NoPlayer}
      /\ step' \in Steps \cup {"NotStarted"} /\ attackersDeclared' \in BOOLEAN
      /\ UNCHANGED cleanupVars /\ landPlayed' \subseteq Players
  BY <1>6 DEF TypeOK, turnVars, cleanupVars
<1> QED BY <1>1, <1>2, <1>3, <1>5, <1>7, GrantKeepsType

LEMMA ActivateAbilityType ==
  ASSUME TypeOK, NEW p \in Players, NEW timing \in Timings, ActivateAbility(p, timing)
  PROVE  TypeOK'
<1>1. GrantPriorityTo(p, Now, {<<"AbilityActivated", p>>, PushEvent})
  BY DEF ActivateAbility, AfterPriorityAction
<1>2. Now \in Nows
  BY NowType
<1>3. IsFiniteSet({<<"AbilityActivated", p>>, PushEvent})
  <2>1. IsFiniteSet({<<"AbilityActivated", p>>} \cup {PushEvent})
    BY FS_Singleton, FS_Union
  <2>2. {<<"AbilityActivated", p>>, PushEvent} = {<<"AbilityActivated", p>>} \cup {PushEvent}
    OBVIOUS
  <2> QED BY <2>1, <2>2
<1>4. Entry(p, "Ability", NoTrigger) \in StackEntries
  BY EntryType DEF EntryKinds
<1>5. stack' \in Seq(StackEntries) /\ fuel' \in 0 .. Fuel
  BY <1>4, PushType, SpendType DEF ActivateAbility
<1>6. UNCHANGED <<turnVars, attackersDeclared, cleanupVars, landPlayed>>
  BY DEF ActivateAbility
<1>7. /\ turn' \in 0 .. MaxTurn /\ active' \in Players \cup {NoPlayer}
      /\ step' \in Steps \cup {"NotStarted"} /\ attackersDeclared' \in BOOLEAN
      /\ UNCHANGED cleanupVars /\ landPlayed' \subseteq Players
  BY <1>6 DEF TypeOK, turnVars, cleanupVars
<1> QED BY <1>1, <1>2, <1>3, <1>5, <1>7, GrantKeepsType

\* What an action that only changes life totals and emits leaves to be shown.
LEMMA LifeChangeKeepsType ==
  ASSUME TypeOK, Spend, NEW change \in LifeChanges, NEW E, IsFiniteSet(E),
         doomed' = change[1], Emit(E),
         UNCHANGED <<turnVars, priorityVars, outcome, lost, emptyDraw, boardVars, combatVars,
                     cleanupVars, landPlayed, stack>>
  PROVE  TypeOK'
<1>1. subs' \subseteq Triggers /\ pending' \in [Triggers -> Nat]
  BY EmitType
<1>2. doomed' \subseteq Players
  BY LifeChangesType
<1>3. fuel' \in 0 .. Fuel
  BY SpendType
<1> QED
  BY <1>1, <1>2, <1>3 DEF TypeOK, turnVars, priorityVars, boardVars, combatVars, cleanupVars

LEMMA ActivateManaAbilityType ==
  ASSUME TypeOK, NEW p \in Players, ActivateManaAbility(p)
  PROVE  TypeOK'
<1>1. PICK change \in LifeChanges :
        doomed' = change[1] /\ Emit({<<"AbilityActivated", p>>} \cup change[2])
  BY DEF ActivateManaAbility
<1>2. IsFiniteSet({<<"AbilityActivated", p>>} \cup change[2])
  BY LifeChangesType, FS_Singleton, FS_Union
<1> QED BY <1>1, <1>2, LifeChangeKeepsType DEF ActivateManaAbility

LEMMA PlayLandType ==
  ASSUME TypeOK, NEW p \in Players, PlayLand(p)
  PROVE  TypeOK'
<1>1. GrantPriorityTo(p, Now, {<<"LandEntered", p>>})
  BY DEF PlayLand, AfterPriorityAction
<1>2. IsFiniteSet({<<"LandEntered", p>>})
  BY FS_Singleton
<1>3. fuel' \in 0 .. Fuel /\ landPlayed' \subseteq Players
  BY SpendType DEF PlayLand, TypeOK
<1>4. UNCHANGED <<turnVars, attackersDeclared, cleanupVars, stack>>
  BY DEF PlayLand
<1>5. /\ turn' \in 0 .. MaxTurn /\ active' \in Players \cup {NoPlayer}
      /\ step' \in Steps \cup {"NotStarted"} /\ attackersDeclared' \in BOOLEAN
      /\ UNCHANGED cleanupVars /\ stack' \in Seq(StackEntries)
  BY <1>4 DEF TypeOK, turnVars, cleanupVars
<1> QED BY <1>1, <1>2, <1>3, <1>5, NowType, GrantKeepsType

LEMMA AttackChoicesType ==
  ASSUME TypeOK, NEW p \in Players, NEW attacks \in AttackChoices(p)
  PROVE  attacks \subseteq creatures \X Players
<1>1. PICK attacking \in SUBSET {c \in creatures : Owner[c] = p} :
        attacks \in {{<<c, defender[c]>> : c \in attacking} :
                      defender \in [attacking -> Players \ {p}]}
  BY DEF AttackChoices
<1>2. PICK defender \in [attacking -> Players \ {p}] :
        attacks = {<<c, defender[c]>> : c \in attacking}
  BY <1>1
<1> QED BY <1>1, <1>2

LEMMA DeclareAttackersType ==
  ASSUME TypeOK, NEW p \in Players, NEW attacks \in AttackChoices(p),
         DeclareAttackers(p, attacks)
  PROVE  TypeOK'
<1> DEFINE attackers == {a[1] : a \in attacks}
           cb == [NoCombat EXCEPT !.attackers = attacks]
<1>1. GrantPriorityTo(p, [Now EXCEPT !.combat = cb],
        {<<"AttackersDeclared", p>>} \cup Each("AttackDeclared", attackers))
  BY DEF DeclareAttackers
<1>2. attackersDeclared' \in BOOLEAN
  BY DEF DeclareAttackers
<1>3. attackers \subseteq Creatures
  BY AttackChoicesType DEF TypeOK
<1>4. cb \in CombatStates
  <2>1. attacks \subseteq Creatures \X Players
    BY AttackChoicesType DEF TypeOK
  <2> QED BY <2>1, CombatType DEF CombatStates, NoCombat
<1>5. IsFiniteSet({<<"AttackersDeclared", p>>} \cup Each("AttackDeclared", attackers))
  BY <1>3, CreaturesAssumption, FS_Subset, EachFinite, FS_Singleton, FS_Union
<1>6. fuel' \in 0 .. Fuel
  BY SpendType DEF DeclareAttackers
<1>7. UNCHANGED <<turnVars, cleanupVars, landPlayed, stack>>
  BY DEF DeclareAttackers
<1>8. /\ turn' \in 0 .. MaxTurn /\ active' \in Players \cup {NoPlayer}
      /\ step' \in Steps \cup {"NotStarted"} /\ landPlayed' \subseteq Players
      /\ UNCHANGED cleanupVars /\ stack' \in Seq(StackEntries)
  BY <1>7 DEF TypeOK, turnVars, cleanupVars
<1>9. [Now EXCEPT !.combat = cb] \in Nows
  BY <1>4, NowWithCombat
<1> HIDE DEF cb, attackers
<1> QED BY <1>1, <1>2, <1>5, <1>6, <1>8, <1>9, GrantKeepsType

LEMMA ConcedeType ==
  ASSUME TypeOK, NEW p \in Players, Concede(p)
  PROVE  TypeOK'
<1>1. IsFiniteSet({<<"PlayerConceded", p>>} \cup Each("OutcomeChanged", {outcome'} \ {outcome}))
  BY FS_Singleton, FS_Difference, EachFinite, FS_Union
<1>2. subs' \subseteq Triggers /\ pending' \in [Triggers -> Nat]
  BY <1>1, EmitType DEF Concede
<1>3. /\ priority' \in Players \cup {NoPlayer} /\ passes' \in 0 .. N - 1
      /\ deferred' \in Players \cup {NoPlayer}
  BY DropType DEF Concede
<1>4. fuel' \in 0 .. Fuel
  BY SpendType DEF Concede
<1>5. /\ lost' \subseteq Players /\ doomed' \subseteq Players
      /\ outcome' \in {"InProgress", "Won", "Draw"}
  BY DEF Concede, OutcomeOf, TypeOK
<1>6. UNCHANGED <<turnVars, emptyDraw, boardVars, combatVars, cleanupVars, landPlayed, stack>>
  BY DEF Concede
<1> QED
  BY <1>2, <1>3, <1>4, <1>5, <1>6 DEF TypeOK, turnVars, boardVars, combatVars, cleanupVars

LEMMA PlayerActionType ==
  ASSUME TypeOK, NEW p \in Players, PlayerAction(p)
  PROVE  TypeOK'
BY CastSpellType, ActivateAbilityType, ActivateManaAbilityType, PlayLandType,
   DeclareAttackersType, ConcedeType DEF PlayerAction

----------------------------------------------------------------------------
(* Effects keep the types *)

LEMMA StackEffectType ==
  ASSUME TypeOK, NEW i \in DOMAIN stack,
         CounterStackEntry(i) \/ \E p \in Players : CopyStackEntry(p, i)
  PROVE  TypeOK'
<1>1. stack \in Seq(StackEntries) /\ Len(stack) \in Nat /\ i \in 1 .. Len(stack)
  BY LenProperties DEF TypeOK
<1>2. stack[i] \in StackEntries
  BY <1>1
<1>3. fuel' \in 0 .. Fuel
  BY SpendType DEF CounterStackEntry, CopyStackEntry
<1>4. CASE CounterStackEntry(i)
  <2>1. SubSeq(stack, 1, i - 1) \in Seq(StackEntries)
        /\ SubSeq(stack, i + 1, Len(stack)) \in Seq(StackEntries)
    BY <1>1, PartOfStackType
  <2>2. stack' \in Seq(StackEntries)
    BY <1>4, <2>1, ConcatProperties DEF CounterStackEntry
  <2>3. IsFiniteSet({<<"StackEntryResolved", i>>})
    BY FS_Singleton
  <2>4. subs' \subseteq Triggers /\ pending' \in [Triggers -> Nat]
    BY <1>4, <2>3, EmitType DEF CounterStackEntry
  <2> QED
    BY <1>3, <1>4, <2>2, <2>4
    DEF CounterStackEntry, TypeOK, turnVars, priorityVars, fateVars, boardVars, combatVars,
        cleanupVars
<1>5. ASSUME NEW p \in Players, CopyStackEntry(p, i)
      PROVE  TypeOK'
  <2>1. [stack[i] EXCEPT !.by = p, !.copied = TRUE] \in StackEntries
    BY <1>2 DEF StackEntries
  <2>2. stack' \in Seq(StackEntries)
    BY <1>5, <2>1, PushType DEF CopyStackEntry
  <2>3. IsFiniteSet({PushEvent, <<"StackEntryCopied", Len(stack) + 1>>})
    <3>1. IsFiniteSet({PushEvent} \cup {<<"StackEntryCopied", Len(stack) + 1>>})
      BY FS_Singleton, FS_Union
    <3>2. {PushEvent, <<"StackEntryCopied", Len(stack) + 1>>}
            = {PushEvent} \cup {<<"StackEntryCopied", Len(stack) + 1>>}
      OBVIOUS
    <3> QED BY <3>1, <3>2
  <2>4. subs' \subseteq Triggers /\ pending' \in [Triggers -> Nat]
    BY <1>5, <2>3, EmitType DEF CopyStackEntry
  <2> QED
    BY <1>3, <1>5, <2>2, <2>4
    DEF CopyStackEntry, TypeOK, turnVars, priorityVars, fateVars, boardVars, combatVars,
        cleanupVars
<1> QED BY <1>4, <1>5

LEMMA CreatureEffectType ==
  ASSUME TypeOK, NEW c \in creatures, DamageCreature(c) \/ DestroyPermanent(c)
  PROVE  TypeOK'
<1>1. fuel' \in 0 .. Fuel
  BY SpendType DEF DamageCreature, DestroyPermanent
<1>2. IsFiniteSet({<<"DamageMarked", c>>}) /\ IsFiniteSet({<<"Dies", c>>})
  BY FS_Singleton
<1>3. subs' \subseteq Triggers /\ pending' \in [Triggers -> Nat]
  BY <1>2, EmitType DEF DamageCreature, DestroyPermanent
<1>4. creatures' \subseteq Creatures /\ dying' \subseteq creatures'
  BY DEF DamageCreature, DestroyPermanent, TypeOK
<1>5. combat' \in CombatStates /\ attackersDeclared' \in BOOLEAN
  BY CombatType DEF DamageCreature, DestroyPermanent, TypeOK, combatVars
<1>6. UNCHANGED <<turnVars, priorityVars, fateVars, cleanupVars, landPlayed, stack>>
  BY DEF DamageCreature, DestroyPermanent
<1> QED
  BY <1>1, <1>3, <1>4, <1>5, <1>6
  DEF TypeOK, turnVars, priorityVars, fateVars, cleanupVars

LEMMA CheckStateBasedActionsType ==
  ASSUME TypeOK, CheckStateBasedActions
  PROVE  TypeOK'
<1>1. subs' \subseteq Triggers /\ pending' \in [Triggers -> Nat]
  BY NowType, SbaEventsFinite, EmitType DEF CheckStateBasedActions
<1>2. /\ lost' \subseteq Players /\ doomed' \subseteq Players /\ emptyDraw' \subseteq Players
      /\ outcome' \in {"InProgress", "Won", "Draw"}
      /\ creatures' \subseteq Creatures /\ dying' \subseteq creatures'
      /\ combat' \in CombatStates
  BY NowType, SbaType DEF CheckStateBasedActions
<1>3. /\ priority' \in Players \cup {NoPlayer} /\ passes' \in 0 .. N - 1
      /\ deferred' \in Players \cup {NoPlayer}
  BY DropType DEF CheckStateBasedActions
<1>4. fuel' \in 0 .. Fuel
  BY SpendType DEF CheckStateBasedActions
<1>5. UNCHANGED <<turnVars, attackersDeclared, cleanupVars, landPlayed, stack>>
  BY DEF CheckStateBasedActions
<1> QED
  BY <1>1, <1>2, <1>3, <1>4, <1>5 DEF TypeOK, turnVars, cleanupVars

LEMMA SmallEffectType ==
  ASSUME TypeOK,
         \/ LifeEffect \/ RequestCleanupPriority
         \/ \E p \in Players : DrawFromEmptyLibrary(p)
         \/ \E t \in Triggers : RegisterTriggeredAbility(t) \/ UnregisterTriggeredAbility(t)
  PROVE  TypeOK'
<1>1. CASE LifeEffect
  <2>1. PICK change \in LifeChanges : doomed' = change[1] /\ Emit(change[2])
    BY <1>1 DEF LifeEffect
  <2> QED BY <1>1, <2>1, LifeChangesType, LifeChangeKeepsType DEF LifeEffect
<1>2. CASE RequestCleanupPriority
  <2>1. IsFiniteSet({<<"CleanupPriorityRequested", 0>>})
    BY FS_Singleton
  <2>2. subs' \subseteq Triggers /\ pending' \in [Triggers -> Nat] /\ fuel' \in 0 .. Fuel
    BY <1>2, <2>1, EmitType, SpendType DEF RequestCleanupPriority
  <2> QED
    BY <1>2, <2>2
    DEF RequestCleanupPriority, TypeOK, turnVars, priorityVars, fateVars, boardVars, combatVars
<1>3. ASSUME NEW p \in Players, DrawFromEmptyLibrary(p)
      PROVE  TypeOK'
  <2>1. IsFiniteSet({<<"EmptyLibraryDraw", p>>})
    BY FS_Singleton
  <2>2. subs' \subseteq Triggers /\ pending' \in [Triggers -> Nat] /\ fuel' \in 0 .. Fuel
    BY <1>3, <2>1, EmitType, SpendType DEF DrawFromEmptyLibrary
  <2> QED
    BY <1>3, <2>2
    DEF DrawFromEmptyLibrary, TypeOK, turnVars, priorityVars, boardVars, combatVars,
        cleanupVars
<1>4. ASSUME NEW t \in Triggers, RegisterTriggeredAbility(t) \/ UnregisterTriggeredAbility(t)
      PROVE  TypeOK'
  BY <1>4, SpendType
  DEF RegisterTriggeredAbility, UnregisterTriggeredAbility, TypeOK, turnVars, priorityVars,
      fateVars, boardVars, combatVars, cleanupVars
<1> QED BY <1>1, <1>2, <1>3, <1>4

LEMMA EffectType ==
  ASSUME TypeOK, Effect
  PROVE  TypeOK'
BY StackEffectType, CreatureEffectType, CheckStateBasedActionsType, SmallEffectType DEF Effect

----------------------------------------------------------------------------
(* The block declarations and combat damage keep the types *)

LEMMA DeclareBlockersType ==
  ASSUME TypeOK, NEW d \in Players, DeclareBlockers(d)
  PROVE  TypeOK'
<1> DEFINE declared(blocking) ==
             [combat EXCEPT !.blockers = @ \cup blocking, !.declaredBy = @ \cup {d}]
           E(blocking) == {<<"BlockersDeclared", d>>} \cup Each("BlockDeclared", blocking)
<1>1. PICK blocking \in SUBSET {c \in creatures : Owner[c] = d} :
        IF AllBlocksDeclared(declared(blocking))
        THEN GrantPriorityTo(active, [Now EXCEPT !.combat = declared(blocking)], E(blocking))
        ELSE /\ combat' = declared(blocking) /\ Emit(E(blocking))
             /\ UNCHANGED <<priorityVars, fateVars, boardVars>>
  BY DEF DeclareBlockers
<1>2. declared(blocking) \in CombatStates
  BY DEF TypeOK, CombatStates
<1>3. IsFiniteSet(E(blocking))
  <2>1. blocking \subseteq Creatures
    BY DEF TypeOK
  <2> QED BY <2>1, CreaturesAssumption, FS_Subset, EachFinite, FS_Singleton, FS_Union
<1>4. UNCHANGED <<turnVars, attackersDeclared, cleanupVars, landPlayed, stack, fuel>>
  BY DEF DeclareBlockers
<1>5. [Now EXCEPT !.combat = declared(blocking)] \in Nows
  BY <1>2, NowWithCombat
<1>6. /\ turn' \in 0 .. MaxTurn /\ active \in Players \cup {NoPlayer}
      /\ active' \in Players \cup {NoPlayer}
      /\ step' \in Steps \cup {"NotStarted"} /\ landPlayed' \subseteq Players
      /\ attackersDeclared' \in BOOLEAN
      /\ UNCHANGED cleanupVars /\ stack' \in Seq(StackEntries) /\ fuel' \in 0 .. Fuel
  BY <1>4 DEF TypeOK, turnVars, cleanupVars
<1> HIDE DEF declared, E
<1>7. CASE AllBlocksDeclared(declared(blocking))
  BY <1>1, <1>3, <1>5, <1>6, <1>7, GrantKeepsType
<1>8. CASE ~AllBlocksDeclared(declared(blocking))
  <2>1. combat' = declared(blocking) /\ Emit(E(blocking))
        /\ UNCHANGED <<priorityVars, fateVars, boardVars>>
    BY <1>1, <1>8
  <2>2. subs' \subseteq Triggers /\ pending' \in [Triggers -> Nat]
    BY <2>1, <1>3, EmitType
  <2> QED
    BY <2>1, <2>2, <1>2, <1>6 DEF TypeOK, priorityVars, fateVars, boardVars, cleanupVars
<1> QED BY <1>7, <1>8

\* What a round of combat damage asks of its helpers.
LEMMA AssignCombatDamageEffects ==
  ASSUME TypeOK, AssignCombatDamage
  PROVE  /\ \E now \in Nows : PerformStateBasedActions(now)
         /\ \E batch : Emit(batch) /\ IsFiniteSet(batch)
         /\ DropPriorityIfOver
<1> DEFINE now(slain, killed) == [Now EXCEPT !.doomed = @ \cup (slain \ lost), !.dying = @ \cup killed]
           E(hits, damaged) == Each("LifeLost", hits) \cup Each("DamageMarked", damaged)
             \cup Each("CombatDamageDealt", AttackingCreatures([attackers |-> hits]) \cup damaged)
<1>1. PICK hits \in SUBSET combat.attackers,
           damaged \in SUBSET (AttackingCreatures(combat) \cup combat.blockers) :
        \E slain \in SUBSET {a[2] : a \in hits}, killed \in SUBSET damaged :
          /\ PerformStateBasedActions(now(slain, killed))
          /\ Emit(E(hits, damaged) \cup SbaEvents(now(slain, killed)))
          /\ DropPriorityIfOver
  BY DEF AssignCombatDamage
<1>2. PICK slain \in SUBSET {a[2] : a \in hits}, killed \in SUBSET damaged :
          /\ PerformStateBasedActions(now(slain, killed))
          /\ Emit(E(hits, damaged) \cup SbaEvents(now(slain, killed)))
          /\ DropPriorityIfOver
  BY <1>1
<1>3. hits \subseteq Creatures \X Players
  BY DEF TypeOK, CombatStates
<1>4. damaged \subseteq Creatures
  BY CombatType DEF TypeOK, CombatStates
<1>5. slain \subseteq Players /\ AttackingCreatures([attackers |-> hits]) \subseteq Creatures
  BY <1>3 DEF AttackingCreatures
<1>6. now(slain, killed) \in Nows
  BY <1>4, <1>5, NowType DEF Nows, Now, TypeOK
<1>7. IsFiniteSet(hits) /\ IsFiniteSet(damaged)
      /\ IsFiniteSet(AttackingCreatures([attackers |-> hits]) \cup damaged)
  <2>1. IsFiniteSet(Creatures \X Players)
    BY CreaturesAssumption, PlayersFinite, FS_Product
  <2> QED BY <2>1, <1>3, <1>4, <1>5, CreaturesAssumption, FS_Subset, FS_Union
<1>8. IsFiniteSet(E(hits, damaged))
  BY <1>7, EachFinite, FS_Union
<1> HIDE DEF now, E
<1>9. IsFiniteSet(E(hits, damaged) \cup SbaEvents(now(slain, killed)))
  BY <1>6, <1>8, SbaEventsFinite, FS_Union
<1>10. Emit(E(hits, damaged) \cup SbaEvents(now(slain, killed)))
       /\ PerformStateBasedActions(now(slain, killed)) /\ DropPriorityIfOver
  BY <1>2
<1> QED BY <1>6, <1>9, <1>10

LEMMA AssignCombatDamageType ==
  ASSUME TypeOK, AssignCombatDamage
  PROVE  TypeOK'
<1>0. PICK now \in Nows : PerformStateBasedActions(now)
  BY AssignCombatDamageEffects
<1>1. DropPriorityIfOver /\ \E batch : Emit(batch) /\ IsFiniteSet(batch)
  BY AssignCombatDamageEffects
<1>2. subs' \subseteq Triggers /\ pending' \in [Triggers -> Nat]
  BY <1>1, EmitType
<1>3. /\ lost' \subseteq Players /\ doomed' \subseteq Players /\ emptyDraw' \subseteq Players
      /\ outcome' \in {"InProgress", "Won", "Draw"}
      /\ creatures' \subseteq Creatures /\ dying' \subseteq creatures'
      /\ combat' \in CombatStates
  BY <1>0, SbaType
<1>4. /\ priority' \in Players \cup {NoPlayer} /\ passes' \in 0 .. N - 1
      /\ deferred' \in Players \cup {NoPlayer}
  BY <1>1, DropType
<1>5. fuel' \in 0 .. Fuel
  BY SpendType DEF AssignCombatDamage
<1>6. UNCHANGED <<turnVars, attackersDeclared, cleanupVars, landPlayed, stack>>
  BY DEF AssignCombatDamage
<1> QED
  BY <1>2, <1>3, <1>4, <1>5, <1>6 DEF TypeOK, turnVars, cleanupVars

----------------------------------------------------------------------------
(* Type correctness *)

LEMMA InitType == Init => TypeOK /\ Started
<1>1. 0 \in 0 .. MaxTurn /\ Fuel \in 0 .. Fuel /\ 0 \in 0 .. N - 1
  BY BoundsAssumption, NAssumption
<1>2. <<>> \in Seq(StackEntries)
  OBVIOUS
<1>3. NoCombat \in CombatStates
  BY CombatType
<1> SUFFICES ASSUME Init PROVE TypeOK /\ Started
  OBVIOUS
<1>4. pending \in [Triggers -> Nat] /\ subs \subseteq Triggers
  BY DEF Init
<1>5. /\ turn \in 0 .. MaxTurn /\ passes \in 0 .. N - 1 /\ fuel \in 0 .. Fuel
      /\ stack \in Seq(StackEntries) /\ combat \in CombatStates
  BY <1>1, <1>2, <1>3 DEF Init
<1> QED BY <1>4, <1>5 DEF Init, TypeOK, Started

LEMMA NextType ==
  ASSUME TypeOK, Started, [Next]_vars
  PROVE  TypeOK'
<1>1. CASE StartTurn
  BY <1>1, TurnType, SeatsArePlayers DEF StartTurn
<1>2. CASE AdvanceStep
  <2>1. step \in Steps /\ active \in Players /\ AdvanceStepAfterEmptyStack
    BY <1>2 DEF AdvanceStep, Started, Steps
  <2> QED BY <2>1, AdvanceType
<1>3. CASE UNCHANGED vars
  BY <1>3 DEF TypeOK, vars, turnVars, priorityVars, fateVars, boardVars, combatVars,
              cleanupVars, triggerVars
<1> QED
  BY <1>1, <1>2, <1>3, PassType, DrainType, DeclareBlockersType, AssignCombatDamageType,
     PlayerActionType, EffectType DEF Next, GameOver

LEMMA AdvanceStarts ==
  ASSUME step \in Steps, active \in Players, AdvanceStepAfterEmptyStack
  PROVE  active' \in Players /\ step' \in Steps
<1>1. NextStep \in Steps
  BY DEF NextStep, NextNormalStep, Steps
<1>2. CASE NextStep = "Untap"
  BY <1>2, SeatsArePlayers DEF AdvanceStepAfterEmptyStack, BeginTurn, Steps
<1>3. CASE NextStep = "Cleanup"
  BY <1>3 DEF AdvanceStepAfterEmptyStack, BeginCleanup, Steps
<1>4. CASE NextStep = "Draw"
  BY <1>4 DEF AdvanceStepAfterEmptyStack, BeginDraw, BeginPriorityStep, Steps
<1>5. CASE NextStep \notin {"Untap", "Cleanup", "Draw"}
  <2>1. step' = NextStep /\ active' = active
    BY <1>5 DEF AdvanceStepAfterEmptyStack, BeginPriorityStep
  <2> QED BY <2>1, <1>1
<1> QED BY <1>2, <1>3, <1>4, <1>5

LEMMA StartedNext ==
  ASSUME TypeOK, Started, [Next]_vars
  PROVE  Started'
<1>1. CASE step = "NotStarted"
  <2>1. active = NoPlayer /\ priority = NoPlayer
    BY <1>1 DEF Started
  <2>2. StartTurn \/ (\E p \in Players : ActivateManaAbility(p) \/ Concede(p)) \/ UNCHANGED vars
    BY <1>1, <2>1, SeatsArePlayers
    DEF Next, AdvanceStep, Steps, Pass, PassTo, ResolveTop, CompleteStep, RejectedPass, MayPass,
        PutPendingTriggeredAbilitiesOnStack, CanDrain, DeclareBlockers, AssignCombatDamage,
        PlayerAction, CastSpell, ActivateAbility, PlayLand, DeclareAttackers, Effect,
        EffectWindow, GameOver
  <2>3. CASE StartTurn
    BY <2>3, SeatsArePlayers DEF StartTurn, BeginTurn, Started, Steps
  <2>4. CASE UNCHANGED vars
    BY <2>4 DEF Started, vars, turnVars, priorityVars
  <2>5. ASSUME NEW p \in Players, ActivateManaAbility(p) \/ Concede(p)
        PROVE  Started'
    BY <2>1, <2>5, <1>1
    DEF ActivateManaAbility, Concede, DropPriorityIfOver, turnVars, priorityVars, Started
  <2> QED BY <2>2, <2>3, <2>4, <2>5
<1>2. CASE step # "NotStarted"
  <2>1. active \in Players /\ step \in Steps
    BY <1>2 DEF Started, TypeOK
  <2>2. CASE AdvanceStepAfterEmptyStack
    BY <2>1, <2>2, AdvanceStarts DEF Started, Steps
  <2>3. CASE UNCHANGED turnVars
    BY <2>1, <2>3, <1>2 DEF Started, turnVars
  <2>4. AdvanceStepAfterEmptyStack \/ UNCHANGED turnVars
    BY <1>2
    DEF Next, StartTurn, AdvanceStep, Pass, PassTo, ResolveTop, CompleteStep, RejectedPass,
        PutPendingTriggeredAbilitiesOnStack, DeclareBlockers, AssignCombatDamage,
        PlayerAction, CastSpell, ActivateAbility, ActivateManaAbility, PlayLand,
        DeclareAttackers, Concede, Effect, LifeEffect, DrawFromEmptyLibrary, DamageCreature,
        DestroyPermanent, CounterStackEntry, CopyStackEntry, CheckStateBasedActions,
        RequestCleanupPriority, RegisterTriggeredAbility, UnregisterTriggeredAbility,
        GameOver, vars
  <2> QED BY <2>2, <2>3, <2>4
<1> QED BY <1>1, <1>2

LEMMA StartedAlways == Spec => [](TypeOK /\ Started)
<1>1. Init => TypeOK /\ Started
  BY InitType
<1>2. TypeOK /\ Started /\ [Next]_vars => (TypeOK /\ Started)'
  BY NextType, StartedNext
<1> QED BY <1>1, <1>2, PTL DEF Spec

\* The kernel's state keeps its types: no handler, in whatever order they run,
\* takes a player, a step, a pass count, a stack entry or a count of pending
\* triggers out of its range.
THEOREM TypeCorrect == Spec => []TypeOK
BY StartedAlways, PTL

----------------------------------------------------------------------------
(* Safety *)

\* What is known of every state once types are settled.
Typed == TypeOK /\ Started

LEMMA TypedAlways == Spec => []Typed
BY StartedAlways, PTL DEF Typed

----------------------------------------------------------------------------
(* A finished game stays finished and gives nobody priority *)

LEMMA AssignStops ==
  ASSUME NEW p, AssignPriority(p)
  PROVE  GameOverStopsPlay'
BY DEF AssignPriority, GameOverStopsPlay

LEMMA DropStops ==
  ASSUME DropPriorityIfOver
  PROVE  GameOverStopsPlay'
BY DEF DropPriorityIfOver, GameOverStopsPlay

LEMMA AdvanceStops ==
  ASSUME AdvanceStepAfterEmptyStack, GameOverStopsPlay
  PROVE  GameOverStopsPlay'
<1>1. CASE NextStep = "Untap"
  BY <1>1 DEF AdvanceStepAfterEmptyStack, BeginTurn, GameOverStopsPlay
<1>2. CASE NextStep = "Cleanup"
  BY <1>2 DEF AdvanceStepAfterEmptyStack, BeginCleanup, GameOverStopsPlay
<1>3. CASE NextStep \notin {"Untap", "Cleanup"}
  <2>1. AssignPriority(active)
    BY <1>3 DEF AdvanceStepAfterEmptyStack, BeginDraw, BeginPriorityStep, GrantPriorityTo
  <2> QED BY <2>1, AssignStops
<1> QED BY <1>1, <1>2, <1>3

LEMMA StopsNext ==
  ASSUME GameOverStopsPlay, [Next]_vars
  PROVE  GameOverStopsPlay'
<1>1. CASE StartTurn
  BY <1>1 DEF StartTurn, BeginTurn, GameOverStopsPlay
<1>2. CASE AdvanceStep
  BY <1>2, AdvanceStops DEF AdvanceStep
<1>3. ASSUME NEW p \in Players,
             PassTo(p) \/ ResolveTop(p) \/ CompleteStep(p) \/ RejectedPass(p)
      PROVE  GameOverStopsPlay'
  <2>1. CASE PassTo(p)
    BY <2>1, SeatsArePlayers DEF PassTo, MayPass, GameOverStopsPlay, fateVars
  <2>2. CASE ResolveTop(p)
    BY <2>2, AssignStops DEF ResolveTop, GrantPriorityTo
  <2>3. CASE CompleteStep(p)
    BY <2>3, AdvanceStops DEF CompleteStep
  <2>4. CASE RejectedPass(p)
    BY <2>4 DEF RejectedPass, GameOverStopsPlay, fateVars
  <2> QED BY <1>3, <2>1, <2>2, <2>3, <2>4
<1>4. CASE PutPendingTriggeredAbilitiesOnStack
  BY <1>4, AssignStops DEF PutPendingTriggeredAbilitiesOnStack
<1>5. ASSUME NEW d \in Players, DeclareBlockers(d)
      PROVE  GameOverStopsPlay'
  <2>1. AssignPriority(active) \/ UNCHANGED <<priorityVars, fateVars, boardVars>>
    BY <1>5 DEF DeclareBlockers, GrantPriorityTo
  <2> QED BY <2>1, AssignStops DEF GameOverStopsPlay, priorityVars, fateVars
<1>6. CASE AssignCombatDamage
  BY <1>6, DropStops DEF AssignCombatDamage
<1>7. ASSUME NEW p \in Players, PlayerAction(p)
      PROVE  GameOverStopsPlay'
  <2>1. CASE ActivateManaAbility(p)
    BY <2>1 DEF ActivateManaAbility, GameOverStopsPlay, priorityVars
  <2>2. CASE Concede(p)
    BY <2>2, DropStops DEF Concede
  <2>3. CASE ~ActivateManaAbility(p) /\ ~Concede(p)
    <3>1. AssignPriority(p)
      BY <1>7, <2>3
      DEF PlayerAction, CastSpell, ActivateAbility, PlayLand, DeclareAttackers,
          AfterPriorityAction, GrantPriorityTo
    <3> QED BY <3>1, AssignStops
  <2> QED BY <2>1, <2>2, <2>3
<1>8. CASE Effect
  <2>1. CASE CheckStateBasedActions
    BY <2>1, DropStops DEF CheckStateBasedActions
  <2>2. CASE ~CheckStateBasedActions
    <3>1. UNCHANGED <<priority, passes, outcome>>
      BY <1>8, <2>2
      DEF Effect, LifeEffect, DrawFromEmptyLibrary, DamageCreature, DestroyPermanent,
          CounterStackEntry, CopyStackEntry, RequestCleanupPriority, RegisterTriggeredAbility,
          UnregisterTriggeredAbility, priorityVars, fateVars
    <3> QED BY <3>1 DEF GameOverStopsPlay
  <2> QED BY <2>1, <2>2
<1>9. CASE UNCHANGED vars
  BY <1>9 DEF GameOverStopsPlay, vars, priorityVars, fateVars
<1> QED
  BY <1>1, <1>2, <1>3, <1>4, <1>5, <1>6, <1>7, <1>8, <1>9 DEF Next, Pass, GameOver

\* Whichever handler ends the game - a state-based action inside a grant of
\* priority, combat damage, a concession - nobody holds priority afterwards and
\* no pass is left counted.
THEOREM FinishedGameStops == Spec => []GameOverStopsPlay
<1>1. Init => GameOverStopsPlay
  BY DEF Init, GameOverStopsPlay
<1>2. GameOverStopsPlay /\ [Next]_vars => GameOverStopsPlay'
  BY StopsNext
<1> QED BY <1>1, <1>2, PTL DEF Spec

----------------------------------------------------------------------------
(* The outcome is read off who has lost, and nobody is ever un-lost *)

OutcomeMatches == outcome = OutcomeOf(lost)

LEMMA OverStaysOver ==
  ASSUME NEW l \in SUBSET Players, NEW m \in SUBSET Players, l \subseteq m,
         OutcomeOf(l) # "InProgress"
  PROVE  OutcomeOf(m) # "InProgress"
<1>1. l # {} /\ ~(Cardinality(Players \ l) > 1)
  BY DEF OutcomeOf
<1>2. IsFiniteSet(Players \ l) /\ Players \ m \subseteq Players \ l
  BY PlayersFinite, FS_Difference
<1>3. Cardinality(Players \ m) <= Cardinality(Players \ l)
      /\ Cardinality(Players \ m) \in Nat /\ Cardinality(Players \ l) \in Nat
  BY <1>2, FS_Subset, FS_CardinalityType
<1>4. ~(Cardinality(Players \ m) > 1) /\ m # {}
  BY <1>1, <1>3
<1> QED BY <1>4 DEF OutcomeOf

\* Every step leaves the losers alone with the outcome, or reads it anew.
LEMMA LossNext ==
  ASSUME Typed, [Next]_vars
  PROVE  UNCHANGED <<lost, outcome>> \/ (lost \subseteq lost' /\ outcome' = OutcomeOf(lost'))
<1>1. ASSUME NEW now, PerformStateBasedActions(now)
      PROVE  lost \subseteq lost' /\ outcome' = OutcomeOf(lost')
  BY <1>1 DEF PerformStateBasedActions
<1>2. ASSUME NEW p, NEW now, NEW E, GrantPriorityTo(p, now, E)
      PROVE  lost \subseteq lost' /\ outcome' = OutcomeOf(lost')
  BY <1>1, <1>2 DEF GrantPriorityTo
<1>3. ASSUME AdvanceStepAfterEmptyStack
      PROVE  UNCHANGED <<lost, outcome>> \/ (lost \subseteq lost' /\ outcome' = OutcomeOf(lost'))
  <2>1. CASE NextStep = "Untap"
    BY <1>3, <2>1 DEF AdvanceStepAfterEmptyStack, BeginTurn, fateVars
  <2>2. CASE NextStep = "Cleanup"
    BY <1>3, <2>2, <1>1 DEF AdvanceStepAfterEmptyStack, BeginCleanup
  <2>3. CASE NextStep \notin {"Untap", "Cleanup"}
    <3>1. \E now, E : GrantPriorityTo(active, now, E)
      BY <1>3, <2>3 DEF AdvanceStepAfterEmptyStack, BeginDraw, BeginPriorityStep
    <3> QED BY <3>1, <1>2
  <2> QED BY <2>1, <2>2, <2>3
<1>4. CASE StartTurn
  BY <1>4 DEF StartTurn, BeginTurn, fateVars
<1>5. CASE AdvanceStep
  BY <1>5, <1>3 DEF AdvanceStep
<1>6. CASE Pass
  BY <1>6, <1>2, <1>3 DEF Pass, PassTo, ResolveTop, CompleteStep, RejectedPass, fateVars
<1>7. CASE PutPendingTriggeredAbilitiesOnStack
  BY <1>7, <1>1 DEF PutPendingTriggeredAbilitiesOnStack
<1>8. CASE \E d \in Players : DeclareBlockers(d)
  BY <1>8, <1>2 DEF DeclareBlockers, fateVars
<1>9. CASE AssignCombatDamage
  BY <1>9, <1>1 DEF AssignCombatDamage
<1>10. ASSUME NEW p \in Players, PlayerAction(p)
       PROVE  UNCHANGED <<lost, outcome>> \/ (lost \subseteq lost' /\ outcome' = OutcomeOf(lost'))
  BY <1>10, <1>2
  DEF PlayerAction, CastSpell, ActivateAbility, ActivateManaAbility, PlayLand, DeclareAttackers,
      Concede, AfterPriorityAction
<1>11. CASE Effect
  BY <1>11, <1>1
  DEF Effect, LifeEffect, DrawFromEmptyLibrary, DamageCreature, DestroyPermanent,
      CounterStackEntry, CopyStackEntry, CheckStateBasedActions, RequestCleanupPriority,
      RegisterTriggeredAbility, UnregisterTriggeredAbility, fateVars
<1>12. CASE UNCHANGED vars
  BY <1>12 DEF vars, fateVars
<1> QED
  BY <1>4, <1>5, <1>6, <1>7, <1>8, <1>9, <1>10, <1>11, <1>12 DEF Next, GameOver

LEMMA OutcomeNext ==
  ASSUME Typed, OutcomeMatches, [Next]_vars
  PROVE  OutcomeMatches' /\ (outcome' = "InProgress" => outcome = "InProgress")
<1>1. CASE UNCHANGED <<lost, outcome>>
  BY <1>1 DEF OutcomeMatches
<1>2. CASE lost \subseteq lost' /\ outcome' = OutcomeOf(lost')
  <2>1. TypeOK'
    BY NextType DEF Typed
  <2>2. lost \in SUBSET Players /\ lost' \in SUBSET Players
    BY <2>1 DEF Typed, TypeOK
  <2> QED BY <1>2, <2>2, OverStaysOver DEF OutcomeMatches
<1> QED BY <1>1, <1>2, LossNext

LEMMA OutcomeAlways == Spec => []OutcomeMatches
<1>1. Init => OutcomeMatches
  BY DEF Init, OutcomeMatches, OutcomeOf
<1>2. Typed /\ OutcomeMatches /\ [Next]_vars => OutcomeMatches'
  BY OutcomeNext
<1> QED BY <1>1, <1>2, TypedAlways, PTL DEF Spec

\* A game that is over is never resumed: the set of losers only grows, and no
\* later state-based action or concession makes the outcome in progress again.
THEOREM OutcomeIsFinal == Spec => [][outcome' = "InProgress" => outcome = "InProgress"]_vars
<1>1. Typed /\ OutcomeMatches /\ [Next]_vars
        => [outcome' = "InProgress" => outcome = "InProgress"]_vars
  BY OutcomeNext
<1> QED BY <1>1, OutcomeAlways, TypedAlways, PTL DEF Spec

----------------------------------------------------------------------------
(* Somebody can always act in a step with a priority window *)

LEMMA AssignAccounts ==
  ASSUME NEW p \in Players, AssignPriority(p)
  PROVE  SomebodyMayAct'
<1>1. outcome' = "InProgress" =>
        \/ priority' \in Players /\ deferred' = NoPlayer
        \/ priority' = NoPlayer /\ deferred' \in Players /\ ~NonePending(pending')
  BY DEF AssignPriority
<1> QED BY <1>1 DEF SomebodyMayAct

\* A grant that waits for triggers goes on waiting while more are queued.
LEMMA EmitAccounts ==
  ASSUME Typed, OutcomeMatches, [Next]_vars, SomebodyMayAct,
         NEW E, IsFiniteSet(E), Emit(E), UNCHANGED <<step, deferred>>,
         outcome' = "InProgress" => UNCHANGED priority
  PROVE  SomebodyMayAct'
<1>1. \A t \in Triggers : pending'[t] >= pending[t] /\ pending[t] \in Nat /\ pending'[t] \in Nat
  BY QueueType DEF Emit, Typed, TypeOK
<1>2. ~NonePending(pending) => ~NonePending(pending')
  BY <1>1 DEF NonePending
<1>3. outcome' = "InProgress" => outcome = "InProgress"
  BY OutcomeNext
<1> QED BY <1>2, <1>3 DEF SomebodyMayAct

LEMMA QuietAccounts ==
  ASSUME SomebodyMayAct, UNCHANGED <<step, priority, deferred, outcome, pending>>
  PROVE  SomebodyMayAct'
BY DEF SomebodyMayAct

LEMMA AdvanceAccounts ==
  ASSUME active \in Players, AdvanceStepAfterEmptyStack
  PROVE  SomebodyMayAct'
<1>1. CASE NextStep = "Untap"
  BY <1>1 DEF AdvanceStepAfterEmptyStack, BeginTurn, SomebodyMayAct
<1>2. CASE NextStep = "Cleanup"
  BY <1>2 DEF AdvanceStepAfterEmptyStack, BeginCleanup, SomebodyMayAct
<1>3. CASE NextStep \notin {"Untap", "Cleanup"}
  <2>1. AssignPriority(active)
    BY <1>3 DEF AdvanceStepAfterEmptyStack, BeginDraw, BeginPriorityStep, GrantPriorityTo
  <2> QED BY <2>1, AssignAccounts
<1> QED BY <1>1, <1>2, <1>3

LEMMA PassAccounts ==
  ASSUME Typed, SomebodyMayAct, Pass
  PROVE  SomebodyMayAct'
<1>1. PICK p \in Players : PassTo(p) \/ ResolveTop(p) \/ CompleteStep(p) \/ RejectedPass(p)
  BY DEF Pass
<1>2. priority = p /\ active \in Players
  BY <1>1, HolderMeansStarted
  DEF PassTo, ResolveTop, CompleteStep, RejectedPass, MayPass, Typed
<1>3. CASE PassTo(p)
  <2>1. priority' \in Players /\ UNCHANGED <<step, deferred, outcome>>
    BY <1>3, SeatsArePlayers DEF PassTo, turnVars, fateVars
  <2> QED BY <1>2, <2>1, SeatsArePlayers DEF SomebodyMayAct
<1>4. CASE ResolveTop(p)
  BY <1>2, <1>4, AssignAccounts DEF ResolveTop, GrantPriorityTo
<1>5. CASE CompleteStep(p)
  BY <1>2, <1>5, AdvanceAccounts DEF CompleteStep
<1>6. CASE RejectedPass(p)
  BY <1>6, QuietAccounts DEF RejectedPass, turnVars, fateVars, triggerVars
<1> QED BY <1>1, <1>3, <1>4, <1>5, <1>6

LEMMA PlayerActionAccounts ==
  ASSUME Typed, OutcomeMatches, [Next]_vars, SomebodyMayAct,
         NEW p \in Players, PlayerAction(p)
  PROVE  SomebodyMayAct'
<1>1. CASE ActivateManaAbility(p)
  <2>1. PICK change \in LifeChanges : Emit({<<"AbilityActivated", p>>} \cup change[2])
    BY <1>1 DEF ActivateManaAbility
  <2>2. IsFiniteSet({<<"AbilityActivated", p>>} \cup change[2])
    BY LifeChangesType, FS_Singleton, FS_Union DEF Typed
  <2>3. UNCHANGED <<step, priority, deferred>>
    BY <1>1 DEF ActivateManaAbility, turnVars, priorityVars
  <2> QED BY <2>1, <2>2, <2>3, EmitAccounts
<1>2. CASE Concede(p)
  <2>1. Emit({<<"PlayerConceded", p>>} \cup Each("OutcomeChanged", {outcome'} \ {outcome}))
    BY <1>2 DEF Concede
  <2>2. IsFiniteSet({<<"PlayerConceded", p>>} \cup Each("OutcomeChanged", {outcome'} \ {outcome}))
    BY FS_Singleton, FS_Difference, EachFinite, FS_Union
  <2>3. UNCHANGED <<step, deferred>> /\ (outcome' = "InProgress" => UNCHANGED priority)
    BY <1>2 DEF Concede, DropPriorityIfOver, turnVars
  <2> QED BY <2>1, <2>2, <2>3, EmitAccounts
<1>3. CASE ~ActivateManaAbility(p) /\ ~Concede(p)
  <2>1. AssignPriority(p)
    BY <1>3
    DEF PlayerAction, CastSpell, ActivateAbility, PlayLand, DeclareAttackers,
        AfterPriorityAction, GrantPriorityTo
  <2> QED BY <2>1, AssignAccounts
<1> QED BY <1>1, <1>2, <1>3

LEMMA EffectAccounts ==
  ASSUME Typed, OutcomeMatches, [Next]_vars, SomebodyMayAct, Effect
  PROVE  SomebodyMayAct'
<1>1. CASE CheckStateBasedActions
  <2>1. Emit(SbaEvents(Now)) /\ IsFiniteSet(SbaEvents(Now))
    BY <1>1, NowType, SbaEventsFinite DEF CheckStateBasedActions, Typed
  <2>2. UNCHANGED <<step, deferred>> /\ (outcome' = "InProgress" => UNCHANGED priority)
    BY <1>1 DEF CheckStateBasedActions, DropPriorityIfOver, turnVars
  <2> QED BY <2>1, <2>2, EmitAccounts
<1>2. CASE LifeEffect
  <2>1. PICK change \in LifeChanges : Emit(change[2])
    BY <1>2 DEF LifeEffect
  <2>2. IsFiniteSet(change[2])
    BY LifeChangesType DEF Typed
  <2>3. UNCHANGED <<step, priority, deferred>>
    BY <1>2 DEF LifeEffect, turnVars, priorityVars
  <2> QED BY <2>1, <2>2, <2>3, EmitAccounts
<1>3. CASE \E t \in Triggers : RegisterTriggeredAbility(t) \/ UnregisterTriggeredAbility(t)
  BY <1>3, QuietAccounts
  DEF RegisterTriggeredAbility, UnregisterTriggeredAbility, turnVars, priorityVars, fateVars
<1>4. CASE \E i \in DOMAIN stack : \E p \in Players : CopyStackEntry(p, i)
  <2>1. Emit({PushEvent, <<"StackEntryCopied", Len(stack) + 1>>})
        /\ UNCHANGED <<step, priority, deferred>>
    BY <1>4 DEF CopyStackEntry, turnVars, priorityVars
  <2>2. IsFiniteSet({PushEvent} \cup {<<"StackEntryCopied", Len(stack) + 1>>})
    BY FS_Singleton, FS_Union
  <2>3. {PushEvent, <<"StackEntryCopied", Len(stack) + 1>>}
          = {PushEvent} \cup {<<"StackEntryCopied", Len(stack) + 1>>}
    OBVIOUS
  <2> QED BY <2>1, <2>2, <2>3, EmitAccounts
<1>5. CASE \/ RequestCleanupPriority
           \/ \E p \in Players : DrawFromEmptyLibrary(p)
           \/ \E c \in creatures : DamageCreature(c) \/ DestroyPermanent(c)
           \/ \E i \in DOMAIN stack : CounterStackEntry(i)
  <2>1. \E e : Emit({e}) /\ UNCHANGED <<step, priority, deferred>>
    BY <1>5
    DEF RequestCleanupPriority, DrawFromEmptyLibrary, DamageCreature, DestroyPermanent,
        CounterStackEntry, turnVars, priorityVars
  <2> QED BY <2>1, FS_Singleton, EmitAccounts
<1> QED BY <1>1, <1>2, <1>3, <1>4, <1>5 DEF Effect

LEMMA CombatAccounts ==
  ASSUME Typed, OutcomeMatches, [Next]_vars, SomebodyMayAct,
         AssignCombatDamage \/ \E d \in Players : DeclareBlockers(d)
  PROVE  SomebodyMayAct'
<1>1. CASE AssignCombatDamage
  <2>1. PICK E : Emit(E) /\ IsFiniteSet(E)
    BY <1>1, AssignCombatDamageEffects DEF Typed
  <2>2. UNCHANGED <<step, deferred>> /\ (outcome' = "InProgress" => UNCHANGED priority)
    BY <1>1 DEF AssignCombatDamage, DropPriorityIfOver, turnVars
  <2> QED BY <2>1, <2>2, EmitAccounts
<1>2. ASSUME NEW d \in Players, DeclareBlockers(d)
      PROVE  SomebodyMayAct'
  <2>1. active \in Players
    BY <1>2 DEF DeclareBlockers, Typed, Started
  <2>2. PICK blocking \in SUBSET {c \in creatures : Owner[c] = d} :
          \/ AssignPriority(active)
          \/ /\ Emit({<<"BlockersDeclared", d>>} \cup Each("BlockDeclared", blocking))
             /\ UNCHANGED <<priorityVars, fateVars, boardVars>>
    BY <1>2 DEF DeclareBlockers, GrantPriorityTo
  <2>3. CASE AssignPriority(active)
    BY <2>1, <2>3, AssignAccounts
  <2>4. CASE /\ Emit({<<"BlockersDeclared", d>>} \cup Each("BlockDeclared", blocking))
             /\ UNCHANGED <<priorityVars, fateVars, boardVars>>
    <3>1. blocking \subseteq Creatures
      BY DEF Typed, TypeOK
    <3>2. IsFiniteSet({<<"BlockersDeclared", d>>} \cup Each("BlockDeclared", blocking))
      BY <3>1, CreaturesAssumption, FS_Subset, EachFinite, FS_Singleton, FS_Union
    <3>3. UNCHANGED <<step, priority, deferred>>
      BY <1>2, <2>4 DEF DeclareBlockers, turnVars, priorityVars
    <3> QED BY <2>4, <3>2, <3>3, EmitAccounts
  <2> QED BY <2>2, <2>3, <2>4
<1> QED BY <1>1, <1>2

LEMMA AccountsNext ==
  ASSUME Typed, OutcomeMatches, SomebodyMayAct, [Next]_vars
  PROVE  SomebodyMayAct'
<1>1. CASE StartTurn
  BY <1>1 DEF StartTurn, BeginTurn, SomebodyMayAct
<1>2. CASE AdvanceStep
  BY <1>2, AdvanceAccounts DEF AdvanceStep, Typed, Started, Steps
<1>3. CASE PutPendingTriggeredAbilitiesOnStack
  <2>1. AssignPriority(DrainGoesTo) /\ active # NoPlayer
    BY <1>3 DEF PutPendingTriggeredAbilitiesOnStack, CanDrain
  <2>2. DrainGoesTo \in Players
    BY <2>1 DEF DrainGoesTo, Typed, TypeOK
  <2> QED BY <2>1, <2>2, AssignAccounts
<1>4. CASE UNCHANGED vars
  BY <1>4, QuietAccounts DEF vars, turnVars, priorityVars, fateVars, triggerVars
<1> QED
  BY <1>1, <1>2, <1>3, <1>4, PassAccounts, PlayerActionAccounts, EffectAccounts, CombatAccounts
  DEF Next, GameOver

\* Priority is accounted for: a finished game gives it to nobody, and in every
\* step with a priority window an unfinished game has a holder of priority, or a
\* deferred grant behind triggers that wait to be placed.  No handler returns
\* with the grant neither made nor remembered.
THEOREM SomebodyActs == Spec => []PriorityAccountedFor
<1>1. Init => SomebodyMayAct
  BY DEF Init, SomebodyMayAct, Steps
<1>2. Typed /\ OutcomeMatches /\ SomebodyMayAct /\ [Next]_vars => SomebodyMayAct'
  BY AccountsNext
<1>3. GameOverStopsPlay /\ SomebodyMayAct => PriorityAccountedFor
  BY DEF PriorityAccountedFor
<1> QED BY <1>1, <1>2, <1>3, FinishedGameStops, TypedAlways, OutcomeAlways, PTL DEF Spec

----------------------------------------------------------------------------
(* Nothing is left on the stack that nobody will resolve *)

\* A grant to a player either is made or leaves triggers to be placed.
LEMMA AssignLeavesNothing ==
  ASSUME NEW p \in Players, AssignPriority(p)
  PROVE  NobodyWaitsOnTheStack'
BY SeatsArePlayers DEF AssignPriority, NobodyWaitsOnTheStack

LEMMA EmptyStackLeavesNothing ==
  ASSUME stack = <<>>, active \in Players, AdvanceStepAfterEmptyStack
  PROVE  NobodyWaitsOnTheStack'
<1>1. CASE NextStep = "Untap"
  BY <1>1 DEF AdvanceStepAfterEmptyStack, BeginTurn, NobodyWaitsOnTheStack
<1>2. CASE NextStep = "Cleanup"
  BY <1>2 DEF AdvanceStepAfterEmptyStack, BeginCleanup, NobodyWaitsOnTheStack
<1>3. CASE NextStep \notin {"Untap", "Cleanup"}
  <2>1. AssignPriority(active)
    BY <1>3 DEF AdvanceStepAfterEmptyStack, BeginDraw, BeginPriorityStep, GrantPriorityTo
  <2> QED BY <2>1, AssignLeavesNothing
<1> QED BY <1>1, <1>2, <1>3

\* Queueing more triggers, and taking entries off the stack, keep it so.
LEMMA QueueLeavesNothing ==
  ASSUME Typed, OutcomeMatches, [Next]_vars, NobodyWaitsOnTheStack,
         pending' \in [Triggers -> Nat], \A t \in Triggers : pending'[t] >= pending[t],
         outcome' = "InProgress" => UNCHANGED priority, stack = <<>> => stack' = <<>>
  PROVE  NobodyWaitsOnTheStack'
<1>1. NonePending(pending') => NonePending(pending)
  BY DEF NonePending, Typed, TypeOK
<1>2. outcome' = "InProgress" => outcome = "InProgress"
  BY OutcomeNext
<1> QED BY <1>1, <1>2 DEF NobodyWaitsOnTheStack

LEMMA EmitGrows ==
  ASSUME Typed, NEW E, IsFiniteSet(E), Emit(E)
  PROVE  pending' \in [Triggers -> Nat] /\ \A t \in Triggers : pending'[t] >= pending[t]
BY QueueType DEF Emit, Typed, TypeOK

LEMMA PlayerActionLeavesNothing ==
  ASSUME Typed, OutcomeMatches, [Next]_vars, NobodyWaitsOnTheStack,
         NEW p \in Players, PlayerAction(p)
  PROVE  NobodyWaitsOnTheStack'
<1>1. CASE ActivateManaAbility(p)
  <2>1. PICK change \in LifeChanges : Emit({<<"AbilityActivated", p>>} \cup change[2])
    BY <1>1 DEF ActivateManaAbility
  <2>2. IsFiniteSet({<<"AbilityActivated", p>>} \cup change[2])
    BY LifeChangesType, FS_Singleton, FS_Union DEF Typed
  <2>3. UNCHANGED <<priority, stack>>
    BY <1>1 DEF ActivateManaAbility, priorityVars
  <2> QED BY <2>1, <2>2, <2>3, EmitGrows, QueueLeavesNothing
<1>2. CASE Concede(p)
  <2>1. IsFiniteSet({<<"PlayerConceded", p>>} \cup Each("OutcomeChanged", {outcome'} \ {outcome}))
    BY FS_Singleton, FS_Difference, EachFinite, FS_Union
  <2>2. UNCHANGED stack /\ (outcome' = "InProgress" => UNCHANGED priority)
    BY <1>2 DEF Concede, DropPriorityIfOver
  <2>3. Emit({<<"PlayerConceded", p>>} \cup Each("OutcomeChanged", {outcome'} \ {outcome}))
    BY <1>2 DEF Concede
  <2> QED BY <2>1, <2>2, <2>3, EmitGrows, QueueLeavesNothing
<1>3. CASE ~ActivateManaAbility(p) /\ ~Concede(p)
  <2>1. AssignPriority(p)
    BY <1>3
    DEF PlayerAction, CastSpell, ActivateAbility, PlayLand, DeclareAttackers,
        AfterPriorityAction, GrantPriorityTo
  <2> QED BY <2>1, AssignLeavesNothing
<1> QED BY <1>1, <1>2, <1>3

LEMMA EffectQueues ==
  ASSUME Typed, Effect
  PROVE  /\ pending' \in [Triggers -> Nat] /\ \A t \in Triggers : pending'[t] >= pending[t]
         /\ outcome' = "InProgress" => UNCHANGED priority
         /\ stack = <<>> => stack' = <<>>
<1>1. CASE CheckStateBasedActions
  BY <1>1, NowType, SbaEventsFinite, EmitGrows
  DEF CheckStateBasedActions, DropPriorityIfOver, Typed
<1>2. CASE LifeEffect
  <2>1. PICK change \in LifeChanges : Emit(change[2])
    BY <1>2 DEF LifeEffect
  <2>2. IsFiniteSet(change[2])
    BY LifeChangesType DEF Typed
  <2>3. UNCHANGED <<priority, stack>>
    BY <1>2 DEF LifeEffect, priorityVars
  <2> QED BY <2>1, <2>2, <2>3, EmitGrows
<1>3. CASE \E t \in Triggers : RegisterTriggeredAbility(t) \/ UnregisterTriggeredAbility(t)
  BY <1>3 DEF RegisterTriggeredAbility, UnregisterTriggeredAbility, priorityVars, Typed, TypeOK
<1>4. CASE \E i \in DOMAIN stack : \E p \in Players : CopyStackEntry(p, i)
  <2>1. Emit({PushEvent, <<"StackEntryCopied", Len(stack) + 1>>})
        /\ UNCHANGED priority /\ DOMAIN stack # {}
    BY <1>4 DEF CopyStackEntry, priorityVars
  <2>2. IsFiniteSet({PushEvent} \cup {<<"StackEntryCopied", Len(stack) + 1>>})
    BY FS_Singleton, FS_Union
  <2>3. {PushEvent, <<"StackEntryCopied", Len(stack) + 1>>}
          = {PushEvent} \cup {<<"StackEntryCopied", Len(stack) + 1>>}
    OBVIOUS
  <2>4. stack # <<>>
    BY <2>1
  <2> QED BY <2>1, <2>2, <2>3, <2>4, EmitGrows
<1>5. CASE \/ RequestCleanupPriority
           \/ \E p \in Players : DrawFromEmptyLibrary(p)
           \/ \E c \in creatures : DamageCreature(c) \/ DestroyPermanent(c)
  <2>1. (\E e : Emit({e})) /\ UNCHANGED <<priority, stack>>
    BY <1>5
    DEF RequestCleanupPriority, DrawFromEmptyLibrary, DamageCreature, DestroyPermanent,
        priorityVars
  <2> QED BY <2>1, FS_Singleton, EmitGrows
<1>6. CASE \E i \in DOMAIN stack : CounterStackEntry(i)
  <2>1. (\E e : Emit({e})) /\ UNCHANGED priority /\ DOMAIN stack # {}
    BY <1>6 DEF CounterStackEntry, priorityVars
  <2>2. stack # <<>>
    BY <2>1
  <2> QED BY <2>1, <2>2, FS_Singleton, EmitGrows
<1> QED BY <1>1, <1>2, <1>3, <1>4, <1>5, <1>6 DEF Effect

LEMMA DeclareBlockersGrantsOrQueues ==
  ASSUME Typed, NEW d \in Players, DeclareBlockers(d)
  PROVE  /\ active \in Players /\ UNCHANGED <<turnVars, stack>>
         /\ \/ AssignPriority(active)
            \/ /\ pending' \in [Triggers -> Nat] /\ \A t \in Triggers : pending'[t] >= pending[t]
               /\ UNCHANGED <<priorityVars, fateVars, boardVars>>
<1>1. active \in Players /\ UNCHANGED <<turnVars, stack>>
  BY DEF DeclareBlockers, Typed, Started
<1>2. PICK blocking \in SUBSET {c \in creatures : Owner[c] = d} :
        \/ AssignPriority(active)
        \/ /\ Emit({<<"BlockersDeclared", d>>} \cup Each("BlockDeclared", blocking))
           /\ UNCHANGED <<priorityVars, fateVars, boardVars>>
  BY DEF DeclareBlockers, GrantPriorityTo
<1>3. IsFiniteSet({<<"BlockersDeclared", d>>} \cup Each("BlockDeclared", blocking))
  <2>1. blocking \subseteq Creatures
    BY DEF Typed, TypeOK
  <2> QED BY <2>1, CreaturesAssumption, FS_Subset, EachFinite, FS_Singleton, FS_Union
<1> QED BY <1>1, <1>2, <1>3, EmitGrows

LEMMA NothingWaitsNext ==
  ASSUME Typed, OutcomeMatches, NobodyWaitsOnTheStack, [Next]_vars
  PROVE  NobodyWaitsOnTheStack'
<1>1. CASE StartTurn
  <2>1. UNCHANGED <<stack, outcome, priority>>
    BY <1>1 DEF StartTurn, BeginTurn, fateVars, Typed, Started
  <2>2. PICK E : IsFiniteSet(E) /\ Emit(E)
    <3>1. PICK untapped \in SUBSET {c \in creatures : Owner[c] = 0} :
            Emit({<<"TurnStarted", 0>>, <<"Untap", 0>>} \cup Each("Untapped", untapped))
      BY <1>1 DEF StartTurn, BeginTurn
    <3>2. IsFiniteSet(Each("Untapped", untapped))
      BY CreaturesAssumption, FS_Subset, EachFinite DEF Typed, TypeOK
    <3>3. IsFiniteSet({<<"TurnStarted", 0>>} \cup {<<"Untap", 0>>})
      BY FS_Singleton, FS_Union
    <3>4. {<<"TurnStarted", 0>>, <<"Untap", 0>>} = {<<"TurnStarted", 0>>} \cup {<<"Untap", 0>>}
      OBVIOUS
    <3>5. IsFiniteSet({<<"TurnStarted", 0>>, <<"Untap", 0>>} \cup Each("Untapped", untapped))
      BY <3>2, <3>3, <3>4, FS_Union
    <3> QED BY <3>1, <3>5, SeatsArePlayers
  <2> QED BY <2>1, <2>2, EmitGrows, QueueLeavesNothing
<1>2. CASE AdvanceStep
  <2>1. active \in Players /\ stack = <<>>
    BY <1>2 DEF AdvanceStep, Typed, Started, Steps, NobodyWaitsOnTheStack
  <2> QED BY <1>2, <2>1, EmptyStackLeavesNothing DEF AdvanceStep
<1>3. ASSUME NEW p \in Players,
             PassTo(p) \/ ResolveTop(p) \/ CompleteStep(p) \/ RejectedPass(p)
      PROVE  NobodyWaitsOnTheStack'
  <2>1. priority = p /\ active \in Players
    BY <1>3, HolderMeansStarted
    DEF PassTo, ResolveTop, CompleteStep, RejectedPass, MayPass, Typed
  <2>2. CASE PassTo(p)
    BY <2>2, SeatsArePlayers DEF PassTo, NobodyWaitsOnTheStack
  <2>3. CASE ResolveTop(p)
    BY <2>1, <2>3, AssignLeavesNothing DEF ResolveTop, GrantPriorityTo
  <2>4. CASE CompleteStep(p)
    BY <2>1, <2>4, EmptyStackLeavesNothing DEF CompleteStep
  <2>5. CASE RejectedPass(p)
    BY <2>5 DEF RejectedPass, NobodyWaitsOnTheStack
  <2> QED BY <1>3, <2>2, <2>3, <2>4, <2>5
<1>4. CASE PutPendingTriggeredAbilitiesOnStack
  <2>1. AssignPriority(DrainGoesTo) /\ active # NoPlayer
    BY <1>4 DEF PutPendingTriggeredAbilitiesOnStack, CanDrain
  <2>2. DrainGoesTo \in Players
    BY <2>1 DEF DrainGoesTo, Typed, TypeOK
  <2> QED BY <2>1, <2>2, AssignLeavesNothing
<1>5. ASSUME NEW d \in Players, DeclareBlockers(d)
      PROVE  NobodyWaitsOnTheStack'
  BY <1>5, DeclareBlockersGrantsOrQueues, AssignLeavesNothing, QueueLeavesNothing
  DEF priorityVars
<1>6. CASE AssignCombatDamage
  <2>1. PICK E : Emit(E) /\ IsFiniteSet(E)
    BY <1>6, AssignCombatDamageEffects DEF Typed
  <2>2. UNCHANGED stack /\ (outcome' = "InProgress" => UNCHANGED priority)
    BY <1>6 DEF AssignCombatDamage, DropPriorityIfOver
  <2> QED BY <2>1, <2>2, EmitGrows, QueueLeavesNothing
<1>7. CASE Effect
  BY <1>7, EffectQueues, QueueLeavesNothing
<1>8. CASE UNCHANGED vars
  BY <1>8 DEF NobodyWaitsOnTheStack, vars, priorityVars, fateVars, triggerVars
<1> QED
  BY <1>1, <1>2, <1>3, <1>4, <1>5, <1>6, <1>7, <1>8, PlayerActionLeavesNothing
  DEF Next, Pass, GameOver

\* Whenever nobody holds priority and no trigger waits, the stack is empty: the
\* driver, which then advances the step by itself, never walks away from an
\* object that should still resolve.
THEOREM StackIsNeverStranded == Spec => []NobodyWaitsOnTheStack
<1>1. Init => NobodyWaitsOnTheStack
  BY DEF Init, NobodyWaitsOnTheStack
<1>2. Typed /\ OutcomeMatches /\ NobodyWaitsOnTheStack /\ [Next]_vars => NobodyWaitsOnTheStack'
  BY NothingWaitsNext
<1> QED BY <1>1, <1>2, TypedAlways, OutcomeAlways, PTL DEF Spec

----------------------------------------------------------------------------
(* How a turn ends *)

LEMMA AdvanceEndsTurn ==
  ASSUME Typed, AdvanceStepAfterEmptyStack, step \in Steps, active' # active
  PROVE  step = "Cleanup" /\ ~cleanupRepeat /\ active' = (active + 1) % N
<1>1. NextStep = "Untap"
  BY DEF AdvanceStepAfterEmptyStack, BeginCleanup, BeginDraw, BeginPriorityStep
<1>2. step = "Cleanup" /\ ~cleanupRepeat
  BY <1>1 DEF NextStep, NextNormalStep, Steps
<1>3. active' = NextPlayerAfter(active)
  BY <1>1 DEF AdvanceStepAfterEmptyStack, BeginTurn
<1> QED BY <1>2, <1>3 DEF NextPlayerAfter

LEMMA EndsSettledNext ==
  ASSUME Typed, NobodyWaitsOnTheStack, [Next]_vars, active' # active, active # NoPlayer
  PROVE  /\ step = "Cleanup" /\ ~cleanupRepeat /\ stack = <<>> /\ NonePending(pending)
         /\ active' = (active + 1) % N
<1>1. step \in Steps
  BY DEF Typed, TypeOK, Started
<1>2. AdvanceStep \/ \E p \in Players : CompleteStep(p)
  BY <1>1
  DEF Next, StartTurn, Steps, Pass, PassTo, ResolveTop, RejectedPass,
      PutPendingTriggeredAbilitiesOnStack, DeclareBlockers, AssignCombatDamage,
      PlayerAction, CastSpell, ActivateAbility, ActivateManaAbility, PlayLand,
      DeclareAttackers, Concede, Effect, LifeEffect, DrawFromEmptyLibrary, DamageCreature,
      DestroyPermanent, CounterStackEntry, CopyStackEntry, CheckStateBasedActions,
      RequestCleanupPriority, RegisterTriggeredAbility, UnregisterTriggeredAbility,
      GameOver, vars, turnVars
<1>3. AdvanceStepAfterEmptyStack /\ stack = <<>> /\ NonePending(pending)
  BY <1>2 DEF AdvanceStep, CompleteStep, MayPass, NobodyWaitsOnTheStack
<1> QED BY <1>1, <1>3, AdvanceEndsTurn

\* The active player changes only out of a cleanup step that owes no repeat,
\* with the stack and the trigger queue empty, and to the next seat.
THEOREM TurnsEndSettled == Spec => TurnEndsWhenSettled
<1>1. Typed /\ NobodyWaitsOnTheStack /\ [Next]_vars
        => [active' # active /\ active # NoPlayer =>
              /\ step = "Cleanup" /\ ~cleanupRepeat /\ stack = <<>> /\ NonePending(pending)
              /\ active' = (active + 1) % N]_vars
  BY EndsSettledNext
<1> QED
  BY <1>1, TypedAlways, StackIsNeverStranded, PTL DEF Spec, TurnEndsWhenSettled

----------------------------------------------------------------------------
(* State-based actions come before priority *)

LEMMA LossNextPriority ==
  ASSUME Typed, [Next]_vars, priority' # NoPlayer, priority' # priority, passes' = 0
  PROVE  doomed' = {} /\ emptyDraw' = {} /\ dying' = {}
<1>1. ASSUME NEW now, PerformStateBasedActions(now)
      PROVE  doomed' = {} /\ emptyDraw' = {} /\ dying' = {}
  BY <1>1 DEF PerformStateBasedActions
<1>2. ASSUME NEW p, NEW now, NEW E, GrantPriorityTo(p, now, E)
      PROVE  doomed' = {} /\ emptyDraw' = {} /\ dying' = {}
  BY <1>1, <1>2 DEF GrantPriorityTo
<1>3. ASSUME AdvanceStepAfterEmptyStack
      PROVE  doomed' = {} /\ emptyDraw' = {} /\ dying' = {}
  <2>1. CASE NextStep = "Untap"
    BY <1>3, <2>1 DEF AdvanceStepAfterEmptyStack, BeginTurn
  <2>2. CASE NextStep = "Cleanup"
    BY <1>3, <2>2, <1>1 DEF AdvanceStepAfterEmptyStack, BeginCleanup
  <2>3. CASE NextStep \notin {"Untap", "Cleanup"}
    <3>1. \E now, E : GrantPriorityTo(active, now, E)
      BY <1>3, <2>3 DEF AdvanceStepAfterEmptyStack, BeginDraw, BeginPriorityStep
    <3> QED BY <3>1, <1>2
  <2> QED BY <2>1, <2>2, <2>3
<1>4. ~(DropPriorityIfOver \/ UNCHANGED priority)
  BY DEF DropPriorityIfOver
<1>5. CASE Pass
  <2>1. passes \in Nat
    BY DEF Typed, TypeOK
  <2>2. ASSUME NEW p \in Players, PassTo(p)
        PROVE  FALSE
    BY <2>1, <2>2 DEF PassTo
  <2> QED BY <1>2, <1>3, <1>4, <1>5, <2>2 DEF Pass, ResolveTop, CompleteStep, RejectedPass
<1>6. ASSUME NEW p \in Players, PlayerAction(p)
      PROVE  \E now, E : GrantPriorityTo(p, now, E)
  BY <1>4, <1>6
  DEF PlayerAction, CastSpell, ActivateAbility, ActivateManaAbility, PlayLand, DeclareAttackers,
      Concede, AfterPriorityAction, priorityVars
<1>7. CASE Effect
  BY <1>4, <1>7
  DEF Effect, LifeEffect, DrawFromEmptyLibrary, DamageCreature, DestroyPermanent,
      CounterStackEntry, CopyStackEntry, CheckStateBasedActions, RequestCleanupPriority,
      RegisterTriggeredAbility, UnregisterTriggeredAbility, priorityVars
<1>8. CASE AssignCombatDamage
  BY <1>4, <1>8 DEF AssignCombatDamage
<1>9. CASE \E d \in Players : DeclareBlockers(d)
  BY <1>2, <1>4, <1>9 DEF DeclareBlockers, priorityVars
<1>10. CASE PutPendingTriggeredAbilitiesOnStack
  BY <1>1, <1>10 DEF PutPendingTriggeredAbilitiesOnStack
<1>11. CASE StartTurn
  BY <1>11 DEF StartTurn, BeginTurn
<1>12. CASE UNCHANGED vars
  BY <1>4, <1>12 DEF vars, priorityVars
<1> QED
  BY <1>2, <1>3, <1>5, <1>6, <1>7, <1>8, <1>9, <1>10, <1>11, <1>12
  DEF Next, AdvanceStep, GameOver

\* Whoever receives priority anew finds every state-based action performed:
\* nobody at zero life, no unanswered empty-library draw and no creature with
\* lethal damage is waiting for them.
THEOREM LossComesFirst == Spec => LossBeforePriority
<1>1. Typed /\ [Next]_vars
        => [priority' # NoPlayer /\ priority' # priority /\ passes' = 0 =>
              doomed' = {} /\ emptyDraw' = {} /\ dying' = {}]_vars
  BY LossNextPriority
<1> QED BY <1>1, TypedAlways, PTL DEF Spec, LossBeforePriority

----------------------------------------------------------------------------
(* Combat *)

Fighters(cb) == AttackingCreatures(cb) \cup cb.blockers

\* State-based actions take the dead out of combat and off the battlefield.
LEMMA SbaKeepsFighters ==
  ASSUME TypeOK, NEW now \in Nows, Fighters(now.combat) \subseteq creatures,
         PerformStateBasedActions(now)
  PROVE  CombatIsOnBattlefield'
<1>1. now.combat \in CombatStates
  BY DEF Nows
<1>2. Fighters(RemoveFromCombat(now.combat, now.dying)) \subseteq creatures \ now.dying
  BY <1>1 DEF Fighters, RemoveFromCombat, CombatStates, AttackingCreatures
<1>3. combat' = RemoveFromCombat(now.combat, now.dying) /\ creatures' = creatures \ now.dying
  BY DEF PerformStateBasedActions
<1>4. Fighters(combat') \subseteq creatures'
  BY <1>2, <1>3
<1> QED BY <1>4 DEF CombatIsOnBattlefield, Fighters, AttackingCreatures

LEMMA QuietCombat ==
  ASSUME CombatIsOnBattlefield, UNCHANGED <<combat, creatures>>
  PROVE  CombatIsOnBattlefield'
BY DEF CombatIsOnBattlefield, AttackingCreatures

LEMMA NoFighters == Fighters(NoCombat) = {}
BY DEF Fighters, NoCombat, AttackingCreatures

LEMMA AdvanceKeepsFighters ==
  ASSUME TypeOK, CombatIsOnBattlefield, AdvanceStepAfterEmptyStack
  PROVE  CombatIsOnBattlefield'
<1>1. Fighters(combat) \subseteq creatures /\ Fighters(BeginCombatDamageStep(combat)) \subseteq creatures
      /\ Fighters(NoCombat) \subseteq creatures
  BY NoFighters
  DEF CombatIsOnBattlefield, Fighters, AttackingCreatures, BeginCombatDamageStep, TypeOK,
      CombatStates
<1>2. combat \in CombatStates /\ emptyDraw \subseteq Players
  BY DEF TypeOK
<1>3. ASSUME NEW s, NEW empty \in SUBSET Players, NEW cb \in CombatStates, NEW E,
             Fighters(cb) \subseteq creatures, BeginPriorityStep(s, empty, cb, E)
      PROVE  CombatIsOnBattlefield'
  <2>1. [Now EXCEPT !.emptyDraw = empty, !.combat = cb] \in Nows
    BY NowType DEF Nows
  <2>2. [Now EXCEPT !.emptyDraw = empty, !.combat = cb].combat = cb
    BY DEF Now
  <2>3. PerformStateBasedActions([Now EXCEPT !.emptyDraw = empty, !.combat = cb])
    BY <1>3 DEF BeginPriorityStep, GrantPriorityTo
  <2> QED BY <2>1, <2>2, <2>3, <1>3, SbaKeepsFighters
<1>4. CASE NextStep = "Untap"
  <2>1. combat' = NoCombat
    BY <1>4 DEF AdvanceStepAfterEmptyStack, BeginTurn
  <2> QED BY <2>1 DEF CombatIsOnBattlefield, AttackingCreatures, NoCombat
<1>5. CASE NextStep = "Cleanup"
  <2>1. PICK fading \in SUBSET (Waning \cap creatures) :
          PerformStateBasedActions([Now EXCEPT !.dying = fading])
    BY <1>5 DEF AdvanceStepAfterEmptyStack, BeginCleanup
  <2>2. [Now EXCEPT !.dying = fading] \in Nows /\ [Now EXCEPT !.dying = fading].combat = combat
    BY NowType DEF Nows, Now, TypeOK
  <2> QED BY <2>1, <2>2, <1>1, SbaKeepsFighters
<1>6. CASE NextStep = "Draw"
  <2>1. active \in Players => emptyDraw \cup {active} \in SUBSET Players
    BY <1>2
  <2>2. \E E : BeginPriorityStep("Draw", emptyDraw, combat, E)
               \/ BeginPriorityStep("Draw", emptyDraw \cup {active}, combat, E)
    BY <1>6 DEF AdvanceStepAfterEmptyStack, BeginDraw
  <2>3. \E empty, E : BeginPriorityStep("Draw", empty, combat, E)
    BY <2>2
  <2>4. PICK empty, E : PerformStateBasedActions([Now EXCEPT !.emptyDraw = empty, !.combat = combat])
    BY <2>3 DEF BeginPriorityStep, GrantPriorityTo
  <2>5. combat' = RemoveFromCombat(combat, dying) /\ creatures' = creatures \ dying
    BY <2>4 DEF PerformStateBasedActions, Now
  <2>6. Fighters(RemoveFromCombat(combat, dying)) \subseteq creatures \ dying
    BY <1>1, <1>2 DEF Fighters, RemoveFromCombat, CombatStates, AttackingCreatures
  <2>7. Fighters(combat') \subseteq creatures'
    BY <2>5, <2>6
  <2> QED BY <2>7 DEF CombatIsOnBattlefield, Fighters, AttackingCreatures
<1>7. CASE NextStep \notin {"Untap", "Cleanup", "Draw"}
  <2>1. PICK cb \in {combat, NoCombat, BeginCombatDamageStep(combat)} :
          BeginPriorityStep(NextStep, emptyDraw, cb, {})
    BY <1>7 DEF AdvanceStepAfterEmptyStack
  <2>2. cb \in CombatStates /\ Fighters(cb) \subseteq creatures
    BY <1>1, <1>2, CombatType
  <2> QED BY <2>1, <2>2, <1>2, <1>3
<1> QED BY <1>4, <1>5, <1>6, <1>7

LEMMA GrantKeepsFighters ==
  ASSUME TypeOK, NEW p, NEW now \in Nows, NEW E, GrantPriorityTo(p, now, E),
         Fighters(now.combat) \subseteq creatures
  PROVE  CombatIsOnBattlefield'
BY SbaKeepsFighters DEF GrantPriorityTo

LEMMA PlayerActionKeepsFighters ==
  ASSUME TypeOK, CombatIsOnBattlefield, NEW p \in Players, PlayerAction(p)
  PROVE  CombatIsOnBattlefield'
<1>1. Fighters(combat) \subseteq creatures
  BY DEF CombatIsOnBattlefield, Fighters, AttackingCreatures
<1>2. CASE \E kind \in SpellKinds, timing \in Timings : CastSpell(p, kind, timing)
  <2>1. PICK cost \in SUBSET Creatures :
          \E E : GrantPriorityTo(p, [Now EXCEPT !.dying = @ \cup cost], E)
    <3>1. \A cost \in {{}} \cup {{c} : c \in {c \in creatures : Owner[c] = p}} :
            cost \in SUBSET Creatures
      BY DEF TypeOK
    <3> QED BY <1>2, <3>1 DEF CastSpell
  <2>2. [Now EXCEPT !.dying = @ \cup cost] \in Nows
        /\ [Now EXCEPT !.dying = @ \cup cost].combat = combat
    BY NowWithDying DEF Now
  <2> QED BY <1>1, <2>1, <2>2, GrantKeepsFighters
<1>3. CASE (\E timing \in Timings : ActivateAbility(p, timing)) \/ PlayLand(p)
  <2>1. PICK E : GrantPriorityTo(p, Now, E)
    BY <1>3 DEF ActivateAbility, PlayLand, AfterPriorityAction
  <2>2. Now \in Nows /\ Now.combat = combat
    BY NowType DEF Now
  <2> QED BY <1>1, <2>1, <2>2, GrantKeepsFighters
<1>4. CASE \E attacks \in AttackChoices(p) : DeclareAttackers(p, attacks)
  <2>1. PICK attacks \in AttackChoices(p) : DeclareAttackers(p, attacks)
    BY <1>4
  <2> DEFINE cb == [NoCombat EXCEPT !.attackers = attacks]
  <2>2. GrantPriorityTo(p, [Now EXCEPT !.combat = cb],
          {<<"AttackersDeclared", p>>} \cup Each("AttackDeclared", {a[1] : a \in attacks}))
    BY <2>1 DEF DeclareAttackers
  <2>3. attacks \subseteq creatures \X Players
    BY AttackChoicesType
  <2>4. cb \in CombatStates /\ Fighters(cb) \subseteq creatures
    BY <2>3 DEF Fighters, AttackingCreatures, NoCombat, CombatStates, DamageSteps, TypeOK
  <2> HIDE DEF cb
  <2>5. [Now EXCEPT !.combat = cb] \in Nows /\ [Now EXCEPT !.combat = cb].combat = cb
    BY <2>4, NowWithCombat DEF Now
  <2> QED BY <2>2, <2>4, <2>5, GrantKeepsFighters
<1>5. CASE ActivateManaAbility(p) \/ Concede(p)
  BY <1>5, QuietCombat DEF ActivateManaAbility, Concede, combatVars, boardVars
<1> QED BY <1>2, <1>3, <1>4, <1>5 DEF PlayerAction

LEMMA DeclareBlockersKeepsFighters ==
  ASSUME TypeOK, CombatIsOnBattlefield, NEW d \in Players, DeclareBlockers(d)
  PROVE  CombatIsOnBattlefield'
<1> DEFINE declared(blocking) ==
             [combat EXCEPT !.blockers = @ \cup blocking, !.declaredBy = @ \cup {d}]
<1>1. PICK blocking \in SUBSET {c \in creatures : Owner[c] = d} :
        \/ \E E : GrantPriorityTo(active, [Now EXCEPT !.combat = declared(blocking)], E)
        \/ combat' = declared(blocking) /\ UNCHANGED boardVars
  BY DEF DeclareBlockers
<1>2. declared(blocking) \in CombatStates
  BY DEF TypeOK, CombatStates
<1>3. Fighters(declared(blocking)) \subseteq creatures
  <2>1. combat \in CombatStates
    BY DEF TypeOK
  <2> QED BY <2>1 DEF Fighters, AttackingCreatures, CombatStates, CombatIsOnBattlefield
<1>4. [Now EXCEPT !.combat = declared(blocking)] \in Nows
      /\ [Now EXCEPT !.combat = declared(blocking)].combat = declared(blocking)
  BY <1>2, NowWithCombat DEF Now
<1> HIDE DEF declared
<1>5. CASE \E E : GrantPriorityTo(active, [Now EXCEPT !.combat = declared(blocking)], E)
  BY <1>3, <1>4, <1>5, GrantKeepsFighters
<1>6. CASE combat' = declared(blocking) /\ UNCHANGED boardVars
  <2>1. Fighters(combat') \subseteq creatures'
    BY <1>3, <1>6 DEF boardVars
  <2> QED BY <2>1 DEF CombatIsOnBattlefield, Fighters, AttackingCreatures
<1> QED BY <1>1, <1>5, <1>6

LEMMA FightersNext ==
  ASSUME Typed, CombatIsOnBattlefield, [Next]_vars
  PROVE  CombatIsOnBattlefield'
<1>1. TypeOK /\ Fighters(combat) \subseteq creatures /\ combat \in CombatStates
  BY DEF Typed, TypeOK, CombatIsOnBattlefield, Fighters, AttackingCreatures
<1>2. Now \in Nows /\ Now.combat = combat
  BY <1>1, NowType DEF Now
<1>3. CASE StartTurn
  BY <1>3 DEF StartTurn, BeginTurn, NoCombat, CombatIsOnBattlefield, AttackingCreatures
<1>4. CASE AdvanceStep
  BY <1>1, <1>4, AdvanceKeepsFighters DEF AdvanceStep
<1>5. ASSUME NEW p \in Players,
             PassTo(p) \/ ResolveTop(p) \/ CompleteStep(p) \/ RejectedPass(p)
      PROVE  CombatIsOnBattlefield'
  <2>1. CASE PassTo(p) \/ RejectedPass(p)
    BY <2>1, QuietCombat DEF PassTo, RejectedPass, combatVars, boardVars
  <2>2. CASE ResolveTop(p)
    <3>1. PICK change \in LifeChanges :
            \E E : GrantPriorityTo(active, [Now EXCEPT !.doomed = change[1]], E)
      BY <2>2 DEF ResolveTop
    <3>2. change[1] \in SUBSET Players
      BY <1>1, LifeChangesType
    <3>3. [Now EXCEPT !.doomed = change[1]] \in Nows
          /\ [Now EXCEPT !.doomed = change[1]].combat = combat
      BY <1>1, <3>2, NowWithDoomed DEF Now
    <3> QED BY <1>1, <3>1, <3>3, GrantKeepsFighters
  <2>3. CASE CompleteStep(p)
    BY <1>1, <2>3, AdvanceKeepsFighters DEF CompleteStep
  <2> QED BY <1>5, <2>1, <2>2, <2>3
<1>6. CASE PutPendingTriggeredAbilitiesOnStack
  BY <1>1, <1>2, <1>6, SbaKeepsFighters DEF PutPendingTriggeredAbilitiesOnStack
<1>7. CASE AssignCombatDamage
  <2>1. PICK hits \in SUBSET combat.attackers,
             damaged \in SUBSET (AttackingCreatures(combat) \cup combat.blockers) :
          \E slain \in SUBSET {a[2] : a \in hits}, killed \in SUBSET damaged :
            PerformStateBasedActions(
              [Now EXCEPT !.doomed = @ \cup (slain \ lost), !.dying = @ \cup killed])
    BY <1>7 DEF AssignCombatDamage
  <2>2. PICK slain \in SUBSET {a[2] : a \in hits}, killed \in SUBSET damaged :
            PerformStateBasedActions(
              [Now EXCEPT !.doomed = @ \cup (slain \ lost), !.dying = @ \cup killed])
    BY <2>1
  <2>3. slain \subseteq Players /\ killed \subseteq Creatures
    BY <1>1, CombatType DEF CombatStates
  <2>4. [Now EXCEPT !.doomed = @ \cup (slain \ lost), !.dying = @ \cup killed] \in Nows
        /\ [Now EXCEPT !.doomed = @ \cup (slain \ lost), !.dying = @ \cup killed].combat = combat
    BY <1>2, <2>3 DEF Nows, Now
  <2> QED BY <1>1, <2>2, <2>4, SbaKeepsFighters
<1>8. CASE Effect
  <2>1. CASE CheckStateBasedActions
    BY <1>1, <1>2, <2>1, SbaKeepsFighters DEF CheckStateBasedActions
  <2>2. ASSUME NEW c \in creatures, DestroyPermanent(c)
        PROVE  CombatIsOnBattlefield'
    <3>1. Fighters(RemoveFromCombat(combat, {c})) \subseteq creatures \ {c}
      BY <1>1 DEF Fighters, RemoveFromCombat, CombatStates, AttackingCreatures
    <3>2. Fighters(combat') \subseteq creatures'
      BY <2>2, <3>1 DEF DestroyPermanent
    <3> QED BY <3>2 DEF CombatIsOnBattlefield, Fighters, AttackingCreatures
  <2>3. CASE UNCHANGED <<combat, creatures>>
    BY <2>3, QuietCombat
  <2>4. \/ CheckStateBasedActions
        \/ \E c \in creatures : DestroyPermanent(c)
        \/ UNCHANGED <<combat, creatures>>
    BY <1>8
    DEF Effect, LifeEffect, DrawFromEmptyLibrary, DamageCreature, CounterStackEntry,
        CopyStackEntry, RequestCleanupPriority, RegisterTriggeredAbility,
        UnregisterTriggeredAbility, combatVars, boardVars
  <2> QED BY <2>1, <2>2, <2>3, <2>4
<1>9. CASE UNCHANGED vars
  BY <1>9, QuietCombat DEF vars, combatVars, boardVars
<1> QED
  BY <1>1, <1>3, <1>4, <1>5, <1>6, <1>7, <1>8, <1>9, PlayerActionKeepsFighters,
     DeclareBlockersKeepsFighters DEF Next, Pass, GameOver

\* Combat holds only creatures on the battlefield: state-based actions,
\* sacrifice as a cost and destruction all take a creature out of combat in the
\* step that takes it off the battlefield.
THEOREM FightersAreOnBattlefield == Spec => []CombatIsOnBattlefield
<1>1. Init => CombatIsOnBattlefield
  BY DEF Init, CombatIsOnBattlefield, AttackingCreatures, NoCombat
<1>2. Typed /\ CombatIsOnBattlefield /\ [Next]_vars => CombatIsOnBattlefield'
  BY FightersNext
<1> QED BY <1>1, <1>2, TypedAlways, PTL DEF Spec

----------------------------------------------------------------------------
(* Blocks come before damage *)

\* Combat loses attackers and no declaration of blocks is forgotten.
Shrinks == combat'.attackers \subseteq combat.attackers /\ combat'.declaredBy = combat.declaredBy

LEMMA SbaShrinks ==
  ASSUME NEW now, now.combat \in CombatStates, PerformStateBasedActions(now)
  PROVE  /\ combat'.attackers \subseteq now.combat.attackers
         /\ combat'.declaredBy = now.combat.declaredBy
BY DEF PerformStateBasedActions, RemoveFromCombat, CombatStates

LEMMA GrantShrinks ==
  ASSUME NEW p, NEW now, NEW E, now.combat \in CombatStates, GrantPriorityTo(p, now, E)
  PROVE  /\ combat'.attackers \subseteq now.combat.attackers
         /\ combat'.declaredBy = now.combat.declaredBy
BY SbaShrinks DEF GrantPriorityTo

\* The combat a step starts with: none where a combat begins or is over.
LEMMA AdvanceShrinks ==
  ASSUME TypeOK, AdvanceStepAfterEmptyStack
  PROVE  /\ combat'.attackers \subseteq combat.attackers
         /\ combat'.declaredBy = combat.declaredBy \/ combat'.attackers = {}
         /\ NextStep \in {"Untap", "BeginningOfCombat", "PostcombatMain"} => combat'.attackers = {}
<1>1. /\ combat \in CombatStates /\ BeginCombatDamageStep(combat) \in CombatStates
      /\ NoCombat \in CombatStates /\ NoCombat.attackers = {}
      /\ BeginCombatDamageStep(combat).attackers = combat.attackers
      /\ BeginCombatDamageStep(combat).declaredBy = combat.declaredBy
  BY CombatType DEF TypeOK, NoCombat, BeginCombatDamageStep, CombatStates
<1>2. ASSUME NEW s, NEW empty, NEW cb \in CombatStates, NEW E, BeginPriorityStep(s, empty, cb, E)
      PROVE  combat'.attackers \subseteq cb.attackers /\ combat'.declaredBy = cb.declaredBy
  <2>1. [Now EXCEPT !.emptyDraw = empty, !.combat = cb].combat = cb
    BY DEF Now
  <2>2. GrantPriorityTo(active, [Now EXCEPT !.emptyDraw = empty, !.combat = cb], E \cup {<<s, 0>>})
    BY <1>2 DEF BeginPriorityStep
  <2> QED BY <2>1, <2>2, GrantShrinks
<1>3. CASE NextStep = "Untap"
  BY <1>1, <1>3 DEF AdvanceStepAfterEmptyStack, BeginTurn
<1>4. CASE NextStep = "Cleanup"
  <2>1. PICK fading \in SUBSET (Waning \cap creatures) :
          PerformStateBasedActions([Now EXCEPT !.dying = fading])
    BY <1>4 DEF AdvanceStepAfterEmptyStack, BeginCleanup
  <2>2. [Now EXCEPT !.dying = fading].combat = combat
    BY DEF Now
  <2> QED BY <1>1, <1>4, <2>1, <2>2, SbaShrinks
<1>5. CASE NextStep = "Draw"
  <2>1. PICK empty, E : BeginPriorityStep("Draw", empty, combat, E)
    BY <1>5 DEF AdvanceStepAfterEmptyStack, BeginDraw
  <2> QED BY <1>1, <1>2, <1>5, <2>1
<1>6. CASE NextStep \in {"BeginningOfCombat", "PostcombatMain"}
  <2>1. BeginPriorityStep(NextStep, emptyDraw, NoCombat, {})
    BY <1>6 DEF AdvanceStepAfterEmptyStack
  <2> QED BY <1>1, <1>2, <2>1
<1>7. CASE NextStep \notin {"Untap", "Cleanup", "Draw", "BeginningOfCombat", "PostcombatMain"}
  <2>1. PICK cb \in {combat, BeginCombatDamageStep(combat)} :
          BeginPriorityStep(NextStep, emptyDraw, cb, {})
    BY <1>7 DEF AdvanceStepAfterEmptyStack
  <2> QED BY <1>1, <1>2, <1>7, <2>1
<1> QED BY <1>3, <1>4, <1>5, <1>6, <1>7

LEMMA DeclareAttackersCombat ==
  ASSUME TypeOK, NEW p \in Players, NEW attacks \in AttackChoices(p), DeclareAttackers(p, attacks)
  PROVE  combat'.attackers \subseteq attacks /\ combat'.declaredBy = {}
<1> DEFINE cb == [NoCombat EXCEPT !.attackers = attacks]
<1>1. PICK E : GrantPriorityTo(p, [Now EXCEPT !.combat = cb], E)
  BY DEF DeclareAttackers
<1>2. cb \in CombatStates /\ cb.attackers = attacks /\ cb.declaredBy = {}
  <2>1. attacks \subseteq Creatures \X Players
    BY AttackChoicesType DEF TypeOK
  <2> QED BY <2>1, CombatType DEF CombatStates, NoCombat
<1> HIDE DEF cb
<1>3. [Now EXCEPT !.combat = cb].combat = cb
  BY DEF Now
<1> QED BY <1>1, <1>2, <1>3, GrantShrinks

LEMMA DeclareBlockersCombat ==
  ASSUME TypeOK, NEW d \in Players, DeclareBlockers(d)
  PROVE  /\ combat'.attackers \subseteq combat.attackers
         /\ combat'.declaredBy = combat.declaredBy \cup {d}
<1> DEFINE declared(blocking) ==
             [combat EXCEPT !.blockers = @ \cup blocking, !.declaredBy = @ \cup {d}]
<1>1. PICK blocking \in SUBSET {c \in creatures : Owner[c] = d} :
        \/ \E E : GrantPriorityTo(active, [Now EXCEPT !.combat = declared(blocking)], E)
        \/ combat' = declared(blocking)
  BY DEF DeclareBlockers
<1>2. /\ declared(blocking) \in CombatStates
      /\ declared(blocking).attackers = combat.attackers
      /\ declared(blocking).declaredBy = combat.declaredBy \cup {d}
  BY DEF TypeOK, CombatStates
<1>3. [Now EXCEPT !.combat = declared(blocking)].combat = declared(blocking)
  BY DEF Now
<1> HIDE DEF declared
<1>4. CASE \E E : GrantPriorityTo(active, [Now EXCEPT !.combat = declared(blocking)], E)
  <2> DEFINE now == [Now EXCEPT !.combat = declared(blocking)]
  <2>1. PICK E : GrantPriorityTo(active, now, E)
    BY <1>4
  <2>2. now.combat = declared(blocking)
    BY <1>3
  <2> HIDE DEF now
  <2> QED BY <1>2, <2>1, <2>2, GrantShrinks
<1>5. CASE combat' = declared(blocking)
  BY <1>2, <1>5
<1> QED BY <1>1, <1>4, <1>5

\* A handler that starts no step and adds nothing to the combat.
Calm == UNCHANGED turnVars /\ Shrinks

LEMMA QuietIsCalm == ASSUME UNCHANGED <<turnVars, combatVars>> PROVE Calm
BY DEF Calm, Shrinks, combatVars

LEMMA SbaIsCalm ==
  ASSUME TypeOK, NEW now, now.combat = combat, PerformStateBasedActions(now), UNCHANGED turnVars
  PROVE  Calm
<1>1. combat \in CombatStates
  BY DEF TypeOK
<1> QED BY <1>1, SbaShrinks DEF Calm, Shrinks

LEMMA ResolveIsCalm ==
  ASSUME TypeOK, NEW p, ResolveTop(p)
  PROVE  Calm
<1>1. PICK change, E : GrantPriorityTo(active, [Now EXCEPT !.doomed = change[1]], E)
  BY DEF ResolveTop
<1>2. [Now EXCEPT !.doomed = change[1]].combat = combat
  BY DEF Now
<1> QED BY <1>1, <1>2, SbaIsCalm DEF ResolveTop, GrantPriorityTo

LEMMA DrainIsCalm ==
  ASSUME TypeOK, PutPendingTriggeredAbilitiesOnStack
  PROVE  Calm
<1>1. Now.combat = combat
  BY DEF Now
<1> QED BY <1>1, SbaIsCalm DEF PutPendingTriggeredAbilitiesOnStack

LEMMA DamageIsCalm ==
  ASSUME TypeOK, AssignCombatDamage
  PROVE  Calm
<1>1. PICK d, k : PerformStateBasedActions([Now EXCEPT !.doomed = @ \cup d, !.dying = @ \cup k])
  BY DEF AssignCombatDamage
<1>2. [Now EXCEPT !.doomed = @ \cup d, !.dying = @ \cup k].combat = combat
  BY DEF Now
<1> QED BY <1>1, <1>2, SbaIsCalm DEF AssignCombatDamage

LEMMA SpellIsCalm ==
  ASSUME TypeOK, NEW p, NEW kind, NEW timing, CastSpell(p, kind, timing)
  PROVE  Calm
<1>1. PICK cost, E : GrantPriorityTo(p, [Now EXCEPT !.dying = @ \cup cost], E)
  BY DEF CastSpell
<1>2. [Now EXCEPT !.dying = @ \cup cost].combat = combat
  BY DEF Now
<1> QED BY <1>1, <1>2, SbaIsCalm DEF CastSpell, GrantPriorityTo

LEMMA OtherActionIsCalm ==
  ASSUME TypeOK, NEW p,
         \/ \E timing : ActivateAbility(p, timing)
         \/ PlayLand(p) \/ ActivateManaAbility(p) \/ Concede(p)
  PROVE  Calm
<1>1. Now.combat = combat
  BY DEF Now
<1>2. CASE (\E timing : ActivateAbility(p, timing)) \/ PlayLand(p)
  BY <1>1, <1>2, SbaIsCalm DEF ActivateAbility, PlayLand, AfterPriorityAction, GrantPriorityTo
<1>3. CASE ActivateManaAbility(p) \/ Concede(p)
  BY <1>3, QuietIsCalm DEF ActivateManaAbility, Concede
<1> QED BY <1>2, <1>3

LEMMA EffectIsCalm ==
  ASSUME TypeOK, Effect
  PROVE  Calm
<1>1. combat \in CombatStates /\ Now.combat = combat
  BY DEF TypeOK, Now
<1>2. CASE CheckStateBasedActions
  BY <1>1, <1>2, SbaIsCalm DEF CheckStateBasedActions
<1>3. ASSUME NEW c \in creatures, DestroyPermanent(c)
      PROVE  Calm
  <2>1. /\ RemoveFromCombat(combat, {c}).attackers \subseteq combat.attackers
        /\ RemoveFromCombat(combat, {c}).declaredBy = combat.declaredBy
    BY <1>1 DEF RemoveFromCombat, CombatStates
  <2> QED BY <1>3, <2>1 DEF DestroyPermanent, Calm, Shrinks
<1>4. \/ CheckStateBasedActions
      \/ \E c \in creatures : DestroyPermanent(c)
      \/ UNCHANGED <<turnVars, combatVars>>
  BY DEF Effect, LifeEffect, DrawFromEmptyLibrary, DamageCreature, CounterStackEntry,
         CopyStackEntry, RequestCleanupPriority, RegisterTriggeredAbility,
         UnregisterTriggeredAbility
<1> QED BY <1>2, <1>3, <1>4, QuietIsCalm

\* What a step of the kernel does to the combat.
CombatMove ==
  \/ Calm
  \/ AdvanceStepAfterEmptyStack /\ step \in Steps /\ active \in Players
  \/ StartTurn
  \/ \E p \in Players : \E attacks \in AttackChoices(p) : DeclareAttackers(p, attacks)
  \/ \E d \in Players : DeclareBlockers(d)

LEMMA CombatMoves ==
  ASSUME Typed, [Next]_vars
  PROVE  CombatMove
<1>1. TypeOK /\ Started
  BY DEF Typed
<1>2. CASE AdvanceStep
  BY <1>1, <1>2 DEF AdvanceStep, CombatMove, Started, Steps
<1>3. ASSUME NEW p \in Players,
             PassTo(p) \/ ResolveTop(p) \/ CompleteStep(p) \/ RejectedPass(p)
      PROVE  CombatMove
  <2>1. CASE PassTo(p) \/ RejectedPass(p)
    BY <2>1, QuietIsCalm DEF PassTo, RejectedPass, CombatMove
  <2>2. CASE ResolveTop(p)
    BY <1>1, <2>2, ResolveIsCalm DEF CombatMove
  <2>3. CASE CompleteStep(p)
    BY <1>1, <2>3, HolderMeansStarted DEF CompleteStep, MayPass, CombatMove
  <2> QED BY <1>3, <2>1, <2>2, <2>3
<1>4. CASE PutPendingTriggeredAbilitiesOnStack \/ AssignCombatDamage \/ Effect
  BY <1>1, <1>4, DrainIsCalm, DamageIsCalm, EffectIsCalm DEF CombatMove
<1>5. ASSUME NEW p \in Players, PlayerAction(p)
      PROVE  CombatMove
  BY <1>1, <1>5, SpellIsCalm, OtherActionIsCalm DEF PlayerAction, CombatMove
<1>6. CASE UNCHANGED vars
  BY <1>6, QuietIsCalm DEF vars, CombatMove
<1> QED
  BY <1>2, <1>3, <1>4, <1>5, <1>6 DEF Next, Pass, GameOver, CombatMove

LEMMA BlocksNext ==
  ASSUME Typed, BlocksBeforeDamage, [Next]_vars
  PROVE  BlocksBeforeDamage'
<1>1. TypeOK
  BY DEF Typed
<1> SUFFICES ASSUME step' = "CombatDamage", NEW a \in combat'.attackers
             PROVE  a[2] \in combat'.declaredBy
  BY DEF BlocksBeforeDamage
<1>2. CASE Calm
  BY <1>2 DEF BlocksBeforeDamage, Calm, Shrinks, turnVars
<1>3. CASE AdvanceStepAfterEmptyStack /\ step \in Steps /\ active \in Players
  <2>1. a \in combat.attackers /\ combat'.declaredBy = combat.declaredBy
    BY <1>1, <1>3, AdvanceShrinks
  <2>2. NextStep = "CombatDamage"
    <3>1. CASE NextStep \in {"Untap", "Cleanup", "Draw"}
      BY <1>3, <3>1 DEF AdvanceStepAfterEmptyStack, BeginTurn, BeginCleanup, BeginDraw,
                        BeginPriorityStep
    <3>2. CASE NextStep \notin {"Untap", "Cleanup", "Draw"}
      BY <1>3, <3>2 DEF AdvanceStepAfterEmptyStack, BeginPriorityStep
    <3> QED BY <3>1, <3>2
  <2>3. step \in {"CombatDamage", "DeclareBlockers"}
    BY <1>3, <2>2 DEF NextStep, NextNormalStep, Steps
  <2>4. CASE step = "CombatDamage"
    BY <2>1, <2>4 DEF BlocksBeforeDamage
  <2>5. CASE step = "DeclareBlockers"
    <3>1. AttackedPlayers(combat) \subseteq combat.declaredBy
      BY <1>3, <2>5 DEF AdvanceStepAfterEmptyStack, BlocksPending, AllBlocksDeclared
    <3> QED BY <2>1, <3>1 DEF AttackedPlayers
  <2> QED BY <2>3, <2>4, <2>5
<1>4. CASE StartTurn
  BY <1>4 DEF StartTurn, BeginTurn
<1>5. CASE \E p \in Players : \E attacks \in AttackChoices(p) : DeclareAttackers(p, attacks)
  BY <1>5 DEF DeclareAttackers, turnVars
<1>6. CASE \E d \in Players : DeclareBlockers(d)
  BY <1>6 DEF DeclareBlockers, turnVars
<1> QED BY <1>2, <1>3, <1>4, <1>5, <1>6, CombatMoves DEF CombatMove

\* Combat damage is never assigned while an attacked player has yet to declare
\* blocks: every way into the combat damage step passes the check, and no
\* handler in it adds an attacker or forgets a declaration.
THEOREM BlocksComeFirst == Spec => []BlocksBeforeDamage
<1>1. Init => BlocksBeforeDamage
  BY DEF Init, BlocksBeforeDamage
<1>2. Typed /\ BlocksBeforeDamage /\ [Next]_vars => BlocksBeforeDamage'
  BY BlocksNext
<1> QED BY <1>1, <1>2, TypedAlways, PTL DEF Spec
====
