---- MODULE KernelTriggerProofs ----
(***************************************************************************)
(* Triggered abilities in the kernel, proved for any number of players and *)
(* any set of subscriptions: the grant that waits for them, the drain that *)
(* puts them on the stack, and the once-only ones.                         *)
(***************************************************************************)
EXTENDS PriorityRoundProofs

----------------------------------------------------------------------------
(* Sequences *)

LEMMA Joined ==
  ASSUME NEW S, NEW f \in Seq(S), NEW g \in Seq(S)
  PROVE  /\ Len(f \o g) = Len(f) + Len(g) /\ DOMAIN (f \o g) = 1 .. Len(f) + Len(g)
         /\ \A k \in 1 .. Len(f) : (f \o g)[k] = f[k]
         /\ \A k \in 1 .. Len(g) : (f \o g)[Len(f) + k] = g[k]
OBVIOUS

\* A sequence without its i-th element.
LEMMA CutOut ==
  ASSUME NEW S, NEW s \in Seq(S), NEW i \in 1 .. Len(s)
  PROVE  LET r == SubSeq(s, 1, i - 1) \o SubSeq(s, i + 1, Len(s)) IN
         /\ DOMAIN r = 1 .. Len(s) - 1
         /\ \A k \in 1 .. Len(s) - 1 : r[k] = s[IF k < i THEN k ELSE k + 1]
<1> DEFINE below == SubSeq(s, 1, i - 1)
           above == SubSeq(s, i + 1, Len(s))
           r == below \o above
<1>1. Len(s) \in Nat /\ i \in Int
  OBVIOUS
<1>2. below \in Seq(S) /\ Len(below) = i - 1 /\ \A k \in 1 .. i - 1 : below[k] = s[k]
  BY <1>1
<1>3. above \in Seq(S) /\ Len(above) = Len(s) - i /\ \A k \in 1 .. Len(s) - i : above[k] = s[k + i]
  BY <1>1
<1> HIDE DEF below, above
<1>4. /\ Len(r) = Len(below) + Len(above) /\ DOMAIN r = 1 .. Len(below) + Len(above)
      /\ \A k \in 1 .. Len(below) : r[k] = below[k]
      /\ \A k \in 1 .. Len(above) : r[Len(below) + k] = above[k]
  <2>1. below \in Seq(S) /\ above \in Seq(S)
    BY <1>2, <1>3
  <2> QED BY <2>1, Joined
<1> HIDE DEF r
<1>5. DOMAIN r = 1 .. Len(s) - 1
  BY <1>1, <1>2, <1>3, <1>4
<1>6. ASSUME NEW k \in 1 .. Len(s) - 1, k < i
      PROVE  r[k] = s[k]
  <2>1. k \in 1 .. Len(below) /\ k \in 1 .. i - 1
    BY <1>1, <1>2, <1>6
  <2> QED BY <1>2, <1>4, <2>1
<1>7. ASSUME NEW k \in 1 .. Len(s) - 1, ~(k < i)
      PROVE  r[k] = s[k + 1]
  <2>1. k - (i - 1) \in 1 .. Len(above) /\ Len(below) + (k - (i - 1)) = k
    BY <1>1, <1>2, <1>3, <1>7
  <2>2. r[k] = above[k - (i - 1)]
    BY <1>4, <2>1
  <2>3. k - (i - 1) \in 1 .. Len(s) - i /\ k - (i - 1) + i = k + 1
    BY <1>1, <1>7
  <2>4. above[k - (i - 1)] = s[k - (i - 1) + i]
    BY <1>3, <2>3
  <2> QED BY <2>2, <2>3, <2>4
<1>8. \A k \in 1 .. Len(s) - 1 : r[k] = s[IF k < i THEN k ELSE k + 1]
  BY <1>6, <1>7
<1> QED BY <1>5, <1>8 DEF r, below, above
\* How many places there are after the first m.
LEMMA PlacesAfter ==
  ASSUME NEW m \in Nat, NEW n \in Nat
  PROVE  IsFiniteSet(m + 1 .. m + n) /\ Cardinality(m + 1 .. m + n) = n
<1>1. m + 1 \in Int /\ m + n \in Int
  OBVIOUS
<1>2. /\ IsFiniteSet(m + 1 .. m + n)
      /\ Cardinality(m + 1 .. m + n) = IF m + 1 > m + n THEN 0 ELSE (m + n) - (m + 1) + 1
  BY <1>1, FS_Interval
<1> QED BY <1>2

LEMMA PlacesUpTo ==
  ASSUME NEW n \in Nat
  PROVE  IsFiniteSet(1 .. n) /\ Cardinality(1 .. n) = n
<1>1. IsFiniteSet(1 .. n) /\ Cardinality(1 .. n) = IF 1 > n THEN 0 ELSE n - 1 + 1
  BY FS_Interval
<1> QED BY <1>1

----------------------------------------------------------------------------
(* What a handler does to the trigger queue and to the stack *)

Grows == pending' \in [Triggers -> Nat] /\ \A t \in Triggers : pending'[t] >= pending[t]

\* The stack lost entries and the others kept their order and contents.
Thinned ==
  \E kept \in Injection(DOMAIN stack', DOMAIN stack) :
    \A i \in DOMAIN stack' : stack'[i] = stack[kept[i]]

\* At most one entry was placed, and its event is among E; it is a spell, an
\* ability or a copy, never a trigger's own entry.
Announces(E) ==
  \/ Thinned
  \/ /\ PushEvent \in E
     /\ \E entry \in StackEntries :
          stack' = Append(stack, entry) /\ (entry.trigger = NoTrigger \/ entry.copied)

LEMMA SameStackThinned ==
  ASSUME stack' = stack
  PROVE  Thinned
<1> DEFINE id == [i \in DOMAIN stack |-> i]
<1>1. id \in Injection(DOMAIN stack, DOMAIN stack)
  BY DEF Injection, IsInjective
<1> QED BY <1>1 DEF Thinned

LEMMA PoppedThinned ==
  ASSUME TypeOK, stack # <<>>, stack' = SubSeq(stack, 1, Len(stack) - 1)
  PROVE  Thinned
<1> DEFINE id == [i \in DOMAIN stack' |-> i]
<1>1. Len(stack) \in Nat \ {0} /\ stack \in Seq(StackEntries)
  BY DEF TypeOK
<1>2. DOMAIN stack' = 1 .. Len(stack) - 1 /\ DOMAIN stack = 1 .. Len(stack)
      /\ \A i \in 1 .. Len(stack) - 1 : stack'[i] = stack[i]
  BY <1>1
<1>3. id \in Injection(DOMAIN stack', DOMAIN stack)
  BY <1>1, <1>2 DEF Injection, IsInjective
<1> QED BY <1>2, <1>3 DEF Thinned

LEMMA CounteredThinned ==
  ASSUME TypeOK, NEW i \in DOMAIN stack,
         stack' = SubSeq(stack, 1, i - 1) \o SubSeq(stack, i + 1, Len(stack))
  PROVE  Thinned
<1> DEFINE skip == [k \in DOMAIN stack' |-> IF k < i THEN k ELSE k + 1]
<1>1. Len(stack) \in Nat /\ stack \in Seq(StackEntries) /\ i \in 1 .. Len(stack)
  BY DEF TypeOK
<1>4. DOMAIN stack' = 1 .. Len(stack) - 1
      /\ \A k \in 1 .. Len(stack) - 1 : stack'[k] = stack[IF k < i THEN k ELSE k + 1]
  BY <1>1, CutOut
<1>5. skip \in Injection(DOMAIN stack', DOMAIN stack)
  <2>1. \A k \in DOMAIN stack' : skip[k] \in DOMAIN stack
    BY <1>1, <1>4
  <2>2. \A k, m \in DOMAIN stack' : skip[k] = skip[m] => k = m
    BY <1>1, <1>4
  <2> QED BY <2>1, <2>2 DEF Injection, IsInjective
<1> QED BY <1>4, <1>5 DEF Thinned

LEMMA PairFinite ==
  ASSUME NEW a, NEW b
  PROVE  IsFiniteSet({a, b})
<1>1. IsFiniteSet({a}) /\ IsFiniteSet({b})
  BY FS_Singleton
<1>2. IsFiniteSet({a} \cup {b})
  BY <1>1, FS_Union
<1>3. {a, b} = {a} \cup {b}
  OBVIOUS
<1> QED BY <1>2, <1>3, Zenon

\* A batch of events, and what an action with at most one placement does.
Quiet == UNCHANGED <<triggerVars, stack>>
Queues == \E E : IsFiniteSet(E) /\ Emit(E) /\ Announces(E)
Registers == \E t \in Triggers : RegisterTriggeredAbility(t) \/ UnregisterTriggeredAbility(t)

LEMMA SameStackQueues ==
  ASSUME stack' = stack, NEW E, IsFiniteSet(E), Emit(E)
  PROVE  Queues
BY SameStackThinned DEF Queues, Announces

LEMMA AdvanceQueues ==
  ASSUME Typed, AdvanceStepAfterEmptyStack, active \in Players
  PROVE  \E E : IsFiniteSet(E) /\ Emit(E) /\ stack' = stack
<1>1. TypeOK /\ stack' = stack
  BY AdvanceKeepsStack DEF Typed
<1>2. ASSUME NEW s, NEW empty \in SUBSET Players, NEW cb \in CombatStates, NEW E, IsFiniteSet(E),
             BeginPriorityStep(s, empty, cb, E)
      PROVE  \E batch : IsFiniteSet(batch) /\ Emit(batch)
  <2> DEFINE now == [Now EXCEPT !.emptyDraw = empty, !.combat = cb]
  <2>1. now \in Nows
    BY <1>1, NowType DEF Nows
  <2>2. Emit((E \cup {<<s, 0>>}) \cup SbaEvents(now))
    BY <1>2 DEF BeginPriorityStep, GrantPriorityTo
  <2> HIDE DEF now
  <2>3. IsFiniteSet((E \cup {<<s, 0>>}) \cup SbaEvents(now))
    BY <1>1, <1>2, <2>1, SbaEventsFinite, FS_Singleton, FS_Union
  <2> QED BY <2>2, <2>3
<1>3. CASE NextStep = "Untap"
  <2>1. PICK untapped \in SUBSET {c \in creatures : Owner[c] = NextPlayerAfter(active)} :
          Emit({<<"TurnStarted", 0>>, <<"Untap", 0>>} \cup Each("Untapped", untapped))
    BY <1>3 DEF AdvanceStepAfterEmptyStack, BeginTurn
  <2>2. IsFiniteSet(Each("Untapped", untapped))
    BY <1>1, CreaturesAssumption, FS_Subset, EachFinite DEF TypeOK
  <2>3. IsFiniteSet({<<"TurnStarted", 0>>, <<"Untap", 0>>})
    BY PairFinite
  <2> QED BY <1>1, <2>1, <2>2, <2>3, FS_Union
<1>4. CASE NextStep = "Cleanup"
  <2>1. PICK fading \in SUBSET (Waning \cap creatures), discards \in SUBSET {<<"Discarded", 0>>} :
          Emit({<<"Cleanup", 0>>, <<"CleanupPerformed", 0>>} \cup discards
                 \cup SbaEvents([Now EXCEPT !.dying = fading]))
    BY <1>4 DEF AdvanceStepAfterEmptyStack, BeginCleanup
  <2>2. [Now EXCEPT !.dying = fading] \in Nows
    BY <1>1, NowType DEF Nows, TypeOK
  <2>3. IsFiniteSet(SbaEvents([Now EXCEPT !.dying = fading])) /\ IsFiniteSet(discards)
    BY <1>1, <2>2, SbaEventsFinite, FS_Singleton, FS_Subset
  <2>4. IsFiniteSet({<<"Cleanup", 0>>, <<"CleanupPerformed", 0>>})
    BY PairFinite
  <2> QED BY <1>1, <2>1, <2>3, <2>4, FS_Union
<1>5. CASE NextStep = "Draw"
  <2>1. PICK empty \in SUBSET Players, E \in {{}, {<<"CardDrawn", active>>}, {<<"EmptyLibraryDraw", active>>}} :
          BeginPriorityStep("Draw", empty, combat, E)
    BY <1>1, <1>5 DEF AdvanceStepAfterEmptyStack, BeginDraw, TypeOK
  <2>2. IsFiniteSet(E)
    <3>1. IsFiniteSet({}) /\ IsFiniteSet({<<"CardDrawn", active>>}) /\ IsFiniteSet({<<"EmptyLibraryDraw", active>>})
      BY FS_EmptySet, FS_Singleton
    <3>2. E = {} \/ E = {<<"CardDrawn", active>>} \/ E = {<<"EmptyLibraryDraw", active>>}
      OBVIOUS
    <3> QED BY ONLY <3>1, <3>2
  <2> QED BY <1>1, <1>2, <2>1, <2>2 DEF TypeOK
<1>6. CASE NextStep \notin {"Untap", "Cleanup", "Draw"}
  <2>1. PICK cb \in {combat, NoCombat, BeginCombatDamageStep(combat)} :
          BeginPriorityStep(NextStep, emptyDraw, cb, {})
    BY <1>6 DEF AdvanceStepAfterEmptyStack
  <2>2. cb \in CombatStates /\ emptyDraw \in SUBSET Players
    BY <1>1, CombatType DEF TypeOK
  <2> QED BY <1>1, <1>2, <2>1, <2>2, FS_EmptySet
<1> QED BY <1>1, <1>3, <1>4, <1>5, <1>6

LEMMA GrantQueues ==
  ASSUME Typed, NEW p, NEW now \in Nows, NEW E, IsFiniteSet(E), GrantPriorityTo(p, now, E),
         Announces(E)
  PROVE  Queues
<1>1. IsFiniteSet(E \cup SbaEvents(now)) /\ Emit(E \cup SbaEvents(now))
  BY SbaEventsFinite, FS_Union DEF Typed, GrantPriorityTo
<1>2. Announces(E \cup SbaEvents(now))
  BY DEF Announces
<1> QED BY <1>1, <1>2 DEF Queues

LEMMA PushedAnnounces ==
  ASSUME TypeOK, NEW p \in Players, NEW kind \in EntryKinds, Push(Entry(p, kind, NoTrigger)),
         NEW E, PushEvent \in E
  PROVE  Announces(E)
<1>1. Entry(p, kind, NoTrigger) \in StackEntries /\ Entry(p, kind, NoTrigger).trigger = NoTrigger
  BY DEF Entry, StackEntries
<1> QED BY <1>1 DEF Announces, Push

LEMMA PlayerActionQueues ==
  ASSUME Typed, NEW p \in Players, PlayerAction(p)
  PROVE  Queues
<1>1. TypeOK /\ Now \in Nows
  BY NowType DEF Typed
<1>2. ASSUME NEW kind \in SpellKinds, NEW timing, CastSpell(p, kind, timing)
      PROVE  Queues
  <2>1. PICK cost \in {{}} \cup {{c} : c \in {c \in creatures : Owner[c] = p}} :
          GrantPriorityTo(p, [Now EXCEPT !.dying = @ \cup cost], {<<"SpellMoved", 0>>, PushEvent})
    BY <1>2 DEF CastSpell
  <2>2. cost \in SUBSET Creatures
    BY <1>1 DEF TypeOK
  <2>3. [Now EXCEPT !.dying = @ \cup cost] \in Nows
    BY <1>1, <2>2, NowWithDying
  <2>4. IsFiniteSet({<<"SpellMoved", 0>>, PushEvent})
    BY PairFinite
  <2>5. Announces({<<"SpellMoved", 0>>, PushEvent})
    BY <1>1, <1>2, PushedAnnounces DEF CastSpell, EntryKinds
  <2> QED BY <2>1, <2>3, <2>4, <2>5, GrantQueues
<1>3. ASSUME NEW timing, ActivateAbility(p, timing)
      PROVE  Queues
  <2>1. GrantPriorityTo(p, Now, {<<"AbilityActivated", p>>, PushEvent})
    BY <1>3 DEF ActivateAbility, AfterPriorityAction
  <2>2. IsFiniteSet({<<"AbilityActivated", p>>, PushEvent})
    BY PairFinite
  <2>3. Announces({<<"AbilityActivated", p>>, PushEvent})
    BY <1>1, <1>3, PushedAnnounces DEF ActivateAbility, EntryKinds
  <2> QED BY <1>1, <2>1, <2>2, <2>3, GrantQueues
<1>4. CASE ActivateManaAbility(p)
  <2>1. PICK change \in LifeChanges : Emit({<<"AbilityActivated", p>>} \cup change[2])
    BY <1>4 DEF ActivateManaAbility
  <2>2. IsFiniteSet({<<"AbilityActivated", p>>} \cup change[2])
    BY <1>1, LifeChangesType, FS_Singleton, FS_Union
  <2> QED BY <1>4, <2>1, <2>2, SameStackQueues DEF ActivateManaAbility
<1>5. CASE PlayLand(p)
  <2>1. GrantPriorityTo(p, Now, {<<"LandEntered", p>>}) /\ stack' = stack
    BY <1>5 DEF PlayLand, AfterPriorityAction
  <2> QED BY <1>1, <2>1, FS_Singleton, SameStackThinned, GrantQueues DEF Announces
<1>6. ASSUME NEW attacks \in AttackChoices(p), DeclareAttackers(p, attacks)
      PROVE  Queues
  <2> DEFINE cb == [NoCombat EXCEPT !.attackers = attacks]
             E == {<<"AttackersDeclared", p>>} \cup Each("AttackDeclared", {a[1] : a \in attacks})
  <2>1. attacks \subseteq creatures \X Players /\ creatures \subseteq Creatures
    BY <1>1, AttackChoicesType DEF TypeOK
  <2>2. cb \in CombatStates
    BY <2>1 DEF NoCombat, CombatStates, DamageSteps
  <2>3. IsFiniteSet(E)
    <3>1. {a[1] : a \in attacks} \subseteq Creatures
      BY <2>1
    <3> QED BY <3>1, CreaturesAssumption, FS_Subset, EachFinite, FS_Singleton, FS_Union
  <2>4. GrantPriorityTo(p, [Now EXCEPT !.combat = cb], E) /\ stack' = stack
    BY <1>6 DEF DeclareAttackers
  <2> HIDE DEF cb, E
  <2>5. [Now EXCEPT !.combat = cb] \in Nows
    BY <1>1, <2>2, NowWithCombat
  <2> QED BY <2>3, <2>4, <2>5, SameStackThinned, GrantQueues DEF Announces
<1>7. CASE Concede(p)
  <2>1. IsFiniteSet({<<"PlayerConceded", p>>} \cup Each("OutcomeChanged", {outcome'} \ {outcome}))
    BY FS_Singleton, FS_Difference, EachFinite, FS_Union
  <2> QED BY <1>7, <2>1, SameStackQueues DEF Concede
<1> QED BY <1>2, <1>3, <1>4, <1>5, <1>6, <1>7 DEF PlayerAction

LEMMA EffectQueuesOrRegisters ==
  ASSUME Typed, Effect
  PROVE  Queues \/ Registers
<1>1. TypeOK
  BY DEF Typed
<1>2. CASE CheckStateBasedActions
  BY <1>1, <1>2, NowType, SbaEventsFinite, SameStackQueues DEF CheckStateBasedActions
<1>3. CASE LifeEffect
  <2>1. PICK change \in LifeChanges : Emit(change[2])
    BY <1>3 DEF LifeEffect
  <2> QED BY <1>1, <1>3, <2>1, LifeChangesType, SameStackQueues DEF LifeEffect
<1>4. ASSUME NEW i \in DOMAIN stack, NEW p \in Players, CopyStackEntry(p, i)
      PROVE  Queues
  <2> DEFINE entry == [stack[i] EXCEPT !.by = p, !.copied = TRUE]
             E == {PushEvent, <<"StackEntryCopied", Len(stack) + 1>>}
  <2>1. stack[i] \in StackEntries
    BY <1>1 DEF TypeOK
  <2>2. entry \in StackEntries /\ entry.copied
    BY <2>1 DEF StackEntries
  <2>3. stack' = Append(stack, entry) /\ Emit(E) /\ PushEvent \in E
    BY <1>4 DEF CopyStackEntry, Push
  <2>4. IsFiniteSet(E)
    BY PairFinite
  <2> HIDE DEF entry, E
  <2> QED BY <2>2, <2>3, <2>4 DEF Queues, Announces
<1>5. CASE \/ RequestCleanupPriority
           \/ \E p \in Players : DrawFromEmptyLibrary(p)
           \/ \E c \in creatures : DamageCreature(c) \/ DestroyPermanent(c)
  <2>1. \E e : Emit({e}) /\ stack' = stack
    BY <1>5 DEF RequestCleanupPriority, DrawFromEmptyLibrary, DamageCreature, DestroyPermanent
  <2> QED BY <2>1, FS_Singleton, SameStackQueues
<1>6. ASSUME NEW i \in DOMAIN stack, CounterStackEntry(i)
      PROVE  Queues
  <2>1. Emit({<<"StackEntryResolved", i>>}) /\ Thinned
    BY <1>1, <1>6, CounteredThinned DEF CounterStackEntry
  <2> QED BY <2>1, FS_Singleton DEF Queues, Announces
<1> QED BY <1>2, <1>3, <1>4, <1>5, <1>6 DEF Effect, Registers

\* Whatever a handler is, apart from the drain: it queues the triggers of a
\* batch of events that announces its placement, or changes one registration,
\* or leaves the triggers and the stack alone.
LEMMA QueueMoves ==
  ASSUME Typed, [Next]_vars
  PROVE  Queues \/ Registers \/ Quiet \/ PutPendingTriggeredAbilitiesOnStack
<1>1. TypeOK /\ Started
  BY DEF Typed
<1>2. ASSUME AdvanceStepAfterEmptyStack, active \in Players
      PROVE  Queues
  BY <1>2, AdvanceQueues, SameStackQueues
<1>3. CASE StartTurn
  <2>1. PICK untapped \in SUBSET {c \in creatures : Owner[c] = 0} :
          Emit({<<"TurnStarted", 0>>, <<"Untap", 0>>} \cup Each("Untapped", untapped))
    BY <1>3 DEF StartTurn, BeginTurn
  <2>2. IsFiniteSet(Each("Untapped", untapped))
    BY <1>1, CreaturesAssumption, FS_Subset, EachFinite DEF TypeOK
  <2>3. IsFiniteSet({<<"TurnStarted", 0>>, <<"Untap", 0>>})
    BY PairFinite
  <2>5. IsFiniteSet({<<"TurnStarted", 0>>, <<"Untap", 0>>} \cup Each("Untapped", untapped))
    BY <2>2, <2>3, FS_Union
  <2> QED BY <1>3, <2>1, <2>5, SameStackQueues DEF StartTurn, BeginTurn
<1>4. CASE AdvanceStep
  BY <1>1, <1>2, <1>4 DEF AdvanceStep, Started, Steps
<1>5. ASSUME NEW p \in Players,
             PassTo(p) \/ ResolveTop(p) \/ CompleteStep(p) \/ RejectedPass(p)
      PROVE  Queues \/ Quiet
  <2>1. active \in Players
    BY <1>1, <1>5, HolderMeansStarted DEF PassTo, ResolveTop, CompleteStep, RejectedPass, MayPass
  <2>2. CASE PassTo(p) \/ RejectedPass(p)
    BY <2>2 DEF PassTo, RejectedPass, Quiet
  <2>3. CASE ResolveTop(p)
    <3>1. PICK change \in LifeChanges :
            GrantPriorityTo(active, [Now EXCEPT !.doomed = change[1]],
                            {<<"StackEntryResolved", Len(stack)>>} \cup change[2])
      BY <2>3 DEF ResolveTop
    <3>2. change[1] \in SUBSET Players /\ IsFiniteSet(change[2])
      BY <1>1, LifeChangesType
    <3>3. [Now EXCEPT !.doomed = change[1]] \in Nows
      BY <1>1, <3>2, NowWithDoomed
    <3>4. IsFiniteSet({<<"StackEntryResolved", Len(stack)>>} \cup change[2])
      BY <3>2, FS_Singleton, FS_Union
    <3>5. Thinned
      BY <1>1, <2>3, PoppedThinned DEF ResolveTop
    <3> QED BY <3>1, <3>3, <3>4, <3>5, GrantQueues DEF Announces
  <2>4. CASE CompleteStep(p)
    BY <1>2, <2>1, <2>4 DEF CompleteStep
  <2> QED BY <1>5, <2>2, <2>3, <2>4
<1>6. ASSUME NEW d \in Players, DeclareBlockers(d)
      PROVE  Queues
  <2> DEFINE declared(blocking) ==
               [combat EXCEPT !.blockers = @ \cup blocking, !.declaredBy = @ \cup {d}]
             E(blocking) == {<<"BlockersDeclared", d>>} \cup Each("BlockDeclared", blocking)
  <2>1. PICK blocking \in SUBSET {c \in creatures : Owner[c] = d} :
          \/ GrantPriorityTo(active, [Now EXCEPT !.combat = declared(blocking)], E(blocking))
          \/ Emit(E(blocking))
    BY <1>6 DEF DeclareBlockers
  <2>2. blocking \subseteq Creatures /\ declared(blocking) \in CombatStates
    BY <1>1 DEF TypeOK, CombatStates
  <2>3. IsFiniteSet(E(blocking))
    BY <2>2, CreaturesAssumption, FS_Subset, EachFinite, FS_Singleton, FS_Union
  <2>4. stack' = stack
    BY <1>6 DEF DeclareBlockers
  <2> HIDE DEF declared, E
  <2>5. [Now EXCEPT !.combat = declared(blocking)] \in Nows
    BY <1>1, <2>2, NowWithCombat
  <2> QED BY <2>1, <2>3, <2>4, <2>5, GrantQueues, SameStackThinned, SameStackQueues DEF Announces
<1>7. CASE AssignCombatDamage
  <2>1. PICK E : Emit(E) /\ IsFiniteSet(E)
    BY <1>1, <1>7, AssignCombatDamageEffects
  <2> QED BY <1>7, <2>1, SameStackQueues DEF AssignCombatDamage
<1>8. CASE UNCHANGED vars
  BY <1>8 DEF vars, Quiet
<1> QED
  BY <1>3, <1>4, <1>5, <1>6, <1>7, <1>8, PlayerActionQueues, EffectQueuesOrRegisters
  DEF Next, Pass, GameOver

----------------------------------------------------------------------------
(* What the drain does *)

\* The instances kept of the queue, in the order they are placed, and the
\* batch of events announced once the queue is cleared.
DrainedAs(kept, order, E) ==
  /\ kept \subseteq PendingInstances
  /\ \A x \in PendingInstances \ kept : x[1] \in Targeted
  /\ order \in Bijection(1 .. Cardinality(kept), kept)
  /\ InApnapOrder(order)
  /\ stack' = stack \o [i \in 1 .. Cardinality(kept) |->
                          Entry(Controller[order[i][1]], "Trigger", order[i][1])]
  /\ IsFiniteSet(E) /\ ClearAndEmit(E)
  /\ Each("StackEntryAdded", Len(stack) + 1 .. Len(stack) + Cardinality(kept)) \subseteq E

LEMMA DrainMoves ==
  ASSUME Typed, PutPendingTriggeredAbilitiesOnStack
  PROVE  \E kept, order, E : DrainedAs(kept, order, E)
<1> DEFINE added(kept) == Each("StackEntryAdded", Len(stack) + 1 .. Len(stack) + Cardinality(kept))
           placed(order) == [i \in DOMAIN order |->
                               Entry(Controller[order[i][1]], "Trigger", order[i][1])]
<1>0. TypeOK
  BY DEF Typed
<1>1. PICK kept \in SUBSET PendingInstances :
        /\ \A x \in PendingInstances \ kept : x[1] \in Targeted
        /\ \E order \in Injection(1 .. Cardinality(kept), kept) :
             /\ InApnapOrder(order)
             /\ stack' = stack \o placed(order)
             /\ ClearAndEmit(added(kept) \cup SbaEvents(Now))
  BY DEF PutPendingTriggeredAbilitiesOnStack
<1>2. PICK order \in Injection(1 .. Cardinality(kept), kept) :
        /\ InApnapOrder(order)
        /\ stack' = stack \o placed(order)
        /\ ClearAndEmit(added(kept) \cup SbaEvents(Now))
  BY <1>1
<1>3. IsFiniteSet(kept) /\ Cardinality(kept) \in Nat
  BY <1>0, PendingInstancesFinite, FS_Subset, FS_CardinalityType
<1>4. order \in Bijection(1 .. Cardinality(kept), kept)
  <2>1. Cardinality(1 .. Cardinality(kept)) = Cardinality(kept)
    BY <1>3, FS_Interval
  <2>2. order \in Surjection(1 .. Cardinality(kept), kept)
    BY <1>3, <2>1, FS_Injection
  <2> QED BY <2>2 DEF Bijection
<1>5. IsFiniteSet(added(kept) \cup SbaEvents(Now))
  <2>1. IsFiniteSet(Len(stack) + 1 .. Len(stack) + Cardinality(kept))
    BY <1>0, <1>3, FS_Interval, LenProperties DEF TypeOK
  <2> QED BY <1>0, <2>1, NowType, SbaEventsFinite, EachFinite, FS_Union
<1>6. DOMAIN order = 1 .. Cardinality(kept)
  BY DEF Injection
<1> HIDE DEF added
<1>7. DrainedAs(kept, order, added(kept) \cup SbaEvents(Now))
  BY <1>1, <1>2, <1>4, <1>5, <1>6 DEF DrainedAs, added
<1> QED BY <1>7

LEMMA DrainedStack ==
  ASSUME Typed, NEW kept, NEW order, NEW E, DrainedAs(kept, order, E)
  PROVE  /\ Cardinality(kept) \in Nat /\ IsFiniteSet(kept)
         /\ \A i \in 1 .. Cardinality(kept) :
              order[i] \in kept /\ order[i][1] \in Triggers /\ Controller[order[i][1]] \in Players
         /\ Len(stack') = Len(stack) + Cardinality(kept)
         /\ \A i \in 1 .. Len(stack) : stack'[i] = stack[i]
         /\ \A i \in 1 .. Cardinality(kept) :
              stack'[Len(stack) + i] = Entry(Controller[order[i][1]], "Trigger", order[i][1])
<1> DEFINE placed == [i \in 1 .. Cardinality(kept) |->
                        Entry(Controller[order[i][1]], "Trigger", order[i][1])]
<1>1. TypeOK
  BY DEF Typed
<1>2. Cardinality(kept) \in Nat /\ IsFiniteSet(kept)
  BY <1>1, PendingInstancesFinite, FS_Subset, FS_CardinalityType DEF DrainedAs
<1>3. \A i \in 1 .. Cardinality(kept) :
        order[i] \in kept /\ order[i][1] \in Triggers /\ Controller[order[i][1]] \in Players
  BY <1>1, PendingInstancesFinite, TriggersAssumption DEF DrainedAs, Bijection, Injection
<1>4. placed \in Seq(StackEntries) /\ Len(placed) = Cardinality(kept)
      /\ \A i \in 1 .. Cardinality(kept) :
           placed[i] = Entry(Controller[order[i][1]], "Trigger", order[i][1])
  <2>1. \A i \in 1 .. Cardinality(kept) :
          Entry(Controller[order[i][1]], "Trigger", order[i][1]) \in StackEntries
    BY <1>3, EntryType DEF EntryKinds
  <2>2. placed \in [1 .. Cardinality(kept) -> StackEntries]
    BY <2>1
  <2> QED BY <1>2, <2>2
<1>5. stack' = stack \o placed /\ stack \in Seq(StackEntries)
  BY <1>1 DEF DrainedAs, TypeOK
<1> HIDE DEF placed
<1>6. /\ Len(stack \o placed) = Len(stack) + Len(placed)
      /\ \A i \in 1 .. Len(stack) : (stack \o placed)[i] = stack[i]
      /\ \A i \in 1 .. Len(placed) : (stack \o placed)[Len(stack) + i] = placed[i]
  <2>1. placed \in Seq(StackEntries)
    BY <1>4
  <2> QED BY <1>5, <2>1, Joined
<1>7. /\ Len(stack') = Len(stack) + Cardinality(kept)
      /\ \A i \in 1 .. Len(stack) : stack'[i] = stack[i]
      /\ \A i \in 1 .. Cardinality(kept) : stack'[Len(stack) + i] = placed[i]
  BY <1>4, <1>5, <1>6
<1> QED BY <1>2, <1>3, <1>4, <1>7

----------------------------------------------------------------------------
(* A placement is heard *)

LEMMA ThinnedShorter ==
  ASSUME TypeOK, TypeOK', Thinned
  PROVE  Len(stack') <= Len(stack)
<1>1. PICK f \in Injection(DOMAIN stack', DOMAIN stack) : TRUE
  BY DEF Thinned
<1>2. /\ Len(stack) \in Nat /\ DOMAIN stack = 1 .. Len(stack)
      /\ Len(stack') \in Nat /\ DOMAIN stack' = 1 .. Len(stack')
  BY DEF TypeOK
<1>3. IsFiniteSet(1 .. Len(stack)) /\ Cardinality(1 .. Len(stack)) = Len(stack)
      /\ Cardinality(1 .. Len(stack')) = Len(stack')
  BY <1>2, PlacesUpTo
<1>4. f \in Injection(1 .. Len(stack'), 1 .. Len(stack))
  BY <1>2
<1>5. Cardinality(1 .. Len(stack')) <= Cardinality(1 .. Len(stack))
  BY <1>3, <1>4, FS_Injection
<1> QED BY <1>3, <1>5

\* As many events of a kind as the batch holds of them.
LEMMA CountAtLeast ==
  ASSUME NEW E, IsFiniteSet(E), NEW kind, NEW S, IsFiniteSet(S), Each(kind, S) \subseteq E
  PROVE  CountOf(E, kind) \in Nat /\ Cardinality(S) <= CountOf(E, kind)
<1> DEFINE heard == {e \in E : e[1] = kind}
<1>1. IsFiniteSet(heard) /\ Cardinality(heard) \in Nat
  BY FS_Subset, FS_CardinalityType
<1>2. [x \in S |-> <<kind, x>>] \in Injection(S, heard)
  BY DEF Each, Injection, IsInjective
<1>3. Cardinality(S) <= Cardinality(heard)
  BY <1>1, <1>2, FS_Injection
<1> QED BY <1>1, <1>3 DEF CountOf

LEMMA HeardWhenPlaced ==
  ASSUME Typed, TypeOK', [Next]_vars, NEW t \in subs, Watches[t] = "StackEntryAdded",
         Len(stack') > Len(stack)
  PROVE  pending'[t] >= IF t \in Delayed THEN 1 ELSE Len(stack') - Len(stack)
<1>1. /\ TypeOK /\ t \in Triggers /\ pending[t] \in Nat
      /\ Len(stack) \in Nat /\ Len(stack') \in Nat
  BY DEF Typed, TypeOK
<1>2. CASE Queues
  <2>1. PICK E : IsFiniteSet(E) /\ Emit(E) /\ Announces(E)
    BY <1>2 DEF Queues
  <2>2. ~Thinned
    BY <1>1, ThinnedShorter
  <2>3. PushEvent \in E /\ \E entry : stack' = Append(stack, entry)
    BY <2>1, <2>2 DEF Announces
  <2>4. Len(stack') - Len(stack) = 1
    BY <1>1, <2>3 DEF TypeOK
  <2>5. Each("StackEntryAdded", {Len(stack) + 1}) \subseteq E
    BY <2>3 DEF Each, PushEvent
  <2>6. CountOf(E, "StackEntryAdded") \in Nat /\ 1 <= CountOf(E, "StackEntryAdded")
    <3>1. IsFiniteSet({Len(stack) + 1}) /\ Cardinality({Len(stack) + 1}) = 1
      BY FS_Singleton
    <3> HIDE DEF PushEvent
    <3> QED BY <2>1, <2>5, <3>1, CountAtLeast
  <2>7. Fired(t, E) >= 1 /\ Fired(t, E) \in Nat
    BY <2>6 DEF Fired
  <2>8. pending'[t] = pending[t] + Fired(t, E)
    BY <1>1, <2>1 DEF Emit, QueueOnto
  <2> QED BY <1>1, <2>4, <2>7, <2>8
<1>3. CASE PutPendingTriggeredAbilitiesOnStack
  <2>1. PICK kept, order, E : DrainedAs(kept, order, E)
    BY <1>3, DrainMoves
  <2> DEFINE places == Len(stack) + 1 .. Len(stack) + Cardinality(kept)
  <2>2. /\ Cardinality(kept) \in Nat /\ Len(stack') - Len(stack) = Cardinality(kept)
        /\ Cardinality(kept) >= 1
    BY <1>1, <2>1, DrainedStack
  <2>3. IsFiniteSet(places) /\ Cardinality(places) = Cardinality(kept)
    BY <1>1, <2>2, PlacesAfter
  <2>4. Each("StackEntryAdded", places) \subseteq E /\ IsFiniteSet(E) /\ ClearAndEmit(E)
    BY <2>1 DEF DrainedAs
  <2> HIDE DEF places
  <2>5. CountOf(E, "StackEntryAdded") \in Nat /\ Cardinality(kept) <= CountOf(E, "StackEntryAdded")
    BY <2>3, <2>4, CountAtLeast
  <2>6. Fired(t, E) >= IF t \in Delayed THEN 1 ELSE Cardinality(kept)
    BY <2>2, <2>5 DEF Fired
  <2>7. pending'[t] = 0 + Fired(t, E) /\ Fired(t, E) \in Nat
    BY <1>1, <2>4, FiredNat DEF ClearAndEmit, QueueOnto
  <2> QED BY <2>2, <2>6, <2>7
<1>4. CASE Registers \/ Quiet
  <2>1. stack' = stack
    BY <1>4 DEF Registers, Quiet, RegisterTriggeredAbility, UnregisterTriggeredAbility
  <2> QED BY <1>1, <2>1
<1> QED BY <1>2, <1>3, <1>4, QueueMoves

\* A subscription to the placement of stack entries hears every one of them,
\* those a drain places included: the queue is cleared before the placed
\* entries are announced, so none of what they queue is wiped out.
THEOREM PlacementsAreHeard == Spec => PlacementIsHeard
<1>1. Typed /\ Typed' /\ [Next]_vars
        => [\A t \in subs : Watches[t] = "StackEntryAdded" /\ Len(stack') > Len(stack) =>
              pending'[t] >= IF t \in Delayed THEN 1 ELSE Len(stack') - Len(stack)]_vars
  BY HeardWhenPlaced DEF Typed
<1> QED BY <1>1, TypedAlways, PTL DEF Spec, PlacementIsHeard

----------------------------------------------------------------------------
(* How many of a trigger's own entries are on the stack *)

Places(s, t) == {i \in DOMAIN s : s[i].trigger = t /\ ~s[i].copied}

LEMMA PlacesCounted ==
  ASSUME NEW s \in Seq(StackEntries), NEW t
  PROVE  /\ OnStack(s, t) = Cardinality(Places(s, t)) /\ OnStack(s, t) \in Nat
         /\ IsFiniteSet(Places(s, t)) /\ Places(s, t) \subseteq 1 .. Len(s)
<1>1. Len(s) \in Nat /\ DOMAIN s = 1 .. Len(s)
  OBVIOUS
<1>2. IsFiniteSet(1 .. Len(s))
  BY <1>1, PlacesUpTo
<1>3. Places(s, t) \subseteq 1 .. Len(s)
  BY <1>1 DEF Places
<1>4. IsFiniteSet(Places(s, t)) /\ Cardinality(Places(s, t)) \in Nat
  BY <1>2, <1>3, FS_Subset, FS_CardinalityType
<1>5. OnStack(s, t) = Cardinality(Places(s, t))
  BY DEF OnStack, Places
<1> QED BY <1>3, <1>4, <1>5

LEMMA ThinnedFewer ==
  ASSUME TypeOK, TypeOK', Thinned, NEW t
  PROVE  OnStack(stack', t) <= OnStack(stack, t)
<1>1. PICK f \in Injection(DOMAIN stack', DOMAIN stack) :
        \A i \in DOMAIN stack' : stack'[i] = stack[f[i]]
  BY DEF Thinned
<1>2. [i \in Places(stack', t) |-> f[i]] \in Injection(Places(stack', t), Places(stack, t))
  BY <1>1 DEF Places, Injection, IsInjective
<1>3. Cardinality(Places(stack', t)) <= Cardinality(Places(stack, t))
  <2>1. stack \in Seq(StackEntries)
    BY DEF TypeOK
  <2>2. IsFiniteSet(Places(stack, t))
    BY <2>1, PlacesCounted
  <2> QED BY <1>2, <2>2, FS_Injection
<1> QED BY <1>3 DEF OnStack, Places

LEMMA PushedSame ==
  ASSUME TypeOK, NEW t \in Triggers, NEW entry, stack' = Append(stack, entry),
         entry.trigger = NoTrigger \/ entry.copied
  PROVE  OnStack(stack', t) = OnStack(stack, t)
<1>1. stack \in Seq(StackEntries) /\ Len(stack) \in Nat
  BY DEF TypeOK
<1>2. /\ DOMAIN stack' = 1 .. Len(stack) + 1 /\ DOMAIN stack = 1 .. Len(stack)
      /\ \A i \in 1 .. Len(stack) : stack'[i] = stack[i]
      /\ stack'[Len(stack) + 1] = entry
  BY <1>1
<1>3. entry.trigger # t \/ entry.copied
  BY NoTriggerAssumption
<1>4. Places(stack', t) = Places(stack, t)
  BY <1>1, <1>2, <1>3 DEF Places
<1> QED BY <1>4 DEF OnStack, Places

\* The instances of t that a drain keeps.
KeptOf(kept, t) == {x \in kept : x[1] = t}

LEMMA DrainedOnStack ==
  ASSUME Typed, NEW kept, NEW order, NEW E, DrainedAs(kept, order, E), NEW t
  PROVE  /\ OnStack(stack', t) = OnStack(stack, t) + Cardinality(KeptOf(kept, t))
         /\ Cardinality(KeptOf(kept, t)) \in Nat /\ IsFiniteSet(KeptOf(kept, t))
<1> DEFINE n == Cardinality(kept)
           m == Len(stack)
           B == {i \in 1 .. n : order[i][1] = t}
           fresh == {i \in m + 1 .. m + n : stack'[i].trigger = t /\ ~stack'[i].copied}
<1>1. TypeOK /\ stack \in Seq(StackEntries) /\ m \in Nat
  BY DEF Typed, TypeOK
<1>2. /\ n \in Nat /\ IsFiniteSet(kept) /\ Len(stack') = m + n
      /\ \A i \in 1 .. m : stack'[i] = stack[i]
      /\ \A i \in 1 .. n :
           stack'[m + i] = Entry(Controller[order[i][1]], "Trigger", order[i][1])
  BY DrainedStack
<1>3. DOMAIN stack' = 1 .. m + n /\ DOMAIN stack = 1 .. m
  <2>1. \E placed \in Seq(StackEntries) : stack' = stack \o placed
    <3>1. \A i \in 1 .. n : Entry(Controller[order[i][1]], "Trigger", order[i][1]) \in StackEntries
      BY DrainedStack, EntryType DEF EntryKinds
    <3>2. [i \in 1 .. n |-> Entry(Controller[order[i][1]], "Trigger", order[i][1])]
            \in [1 .. n -> StackEntries]
      BY <3>1
    <3>3. [i \in 1 .. n |-> Entry(Controller[order[i][1]], "Trigger", order[i][1])]
            \in Seq(StackEntries)
      BY <1>2, <3>2
    <3> QED BY <3>3 DEF DrainedAs
  <2>2. stack' \in Seq(StackEntries)
    BY <1>1, <2>1, ConcatProperties
  <2> QED BY <1>1, <1>2, <2>2
<1>4. order \in [1 .. n -> kept] /\ (\A i, j \in 1 .. n : order[i] = order[j] => i = j)
      /\ \A x \in kept : \E i \in 1 .. n : order[i] = x
  BY DEF DrainedAs, Bijection, Injection, Surjection, IsInjective
<1> HIDE DEF n, m
<1>5. IsFiniteSet(KeptOf(kept, t)) /\ Cardinality(KeptOf(kept, t)) \in Nat
  BY <1>2, FS_Subset, FS_CardinalityType DEF KeptOf
<1>6. IsFiniteSet(B)
  BY <1>2, PlacesUpTo, FS_Subset
<1>7. Cardinality(KeptOf(kept, t)) = Cardinality(B)
  <2>1. [i \in B |-> order[i]] \in Bijection(B, KeptOf(kept, t))
    BY <1>4 DEF Bijection, Injection, Surjection, IsInjective, KeptOf
  <2> QED BY <1>6, <2>1, FS_Bijection DEF ExistsBijection
<1>8. Cardinality(fresh) = Cardinality(B) /\ IsFiniteSet(fresh)
  <2>1. \A i \in 1 .. n : m + i \in m + 1 .. m + n
          /\ (stack'[m + i].trigger = t /\ ~stack'[m + i].copied <=> order[i][1] = t)
    <3> TAKE i \in 1 .. n
    <3>1. m + i \in m + 1 .. m + n
      BY <1>1, <1>2
    <3>2. stack'[m + i] = Entry(Controller[order[i][1]], "Trigger", order[i][1])
      BY <1>2
    <3>3. stack'[m + i].trigger = order[i][1] /\ stack'[m + i].copied = FALSE
      BY <3>2 DEF Entry
    <3> QED BY <3>1, <3>3
  <2>2. \A k \in m + 1 .. m + n : k - m \in 1 .. n /\ m + (k - m) = k
    BY <1>1, <1>2
  <2>3. \A i \in B : m + i \in fresh
    BY <2>1
  <2>4. \A k \in fresh : \E i \in B : m + i = k
    <3> TAKE k \in fresh
    <3>1. k \in m + 1 .. m + n /\ stack'[k].trigger = t /\ ~stack'[k].copied
      OBVIOUS
    <3>2. k - m \in 1 .. n /\ m + (k - m) = k
      BY <2>2, <3>1
    <3>3. order[k - m][1] = t
      BY <2>1, <3>1, <3>2
    <3> QED BY <3>2, <3>3
  <2>5. \A i, j \in B : m + i = m + j => i = j
    BY <1>1, <1>2
  <2> HIDE DEF B, fresh
  <2>6. [i \in B |-> m + i] \in Bijection(B, fresh)
    BY <2>3, <2>4, <2>5 DEF Bijection, Injection, Surjection, IsInjective
  <2> QED BY <1>6, <2>6, FS_Bijection DEF ExistsBijection
<1>9. Places(stack', t) = Places(stack, t) \cup fresh /\ Places(stack, t) \cap fresh = {}
  BY <1>1, <1>2, <1>3 DEF Places
<1>10. IsFiniteSet(Places(stack, t)) /\ Cardinality(Places(stack, t)) \in Nat
       /\ OnStack(stack, t) = Cardinality(Places(stack, t))
  BY <1>1, PlacesCounted
<1> HIDE DEF fresh, B
<1>11. Cardinality(Places(stack', t)) = Cardinality(Places(stack, t)) + Cardinality(fresh)
  <2>1. Cardinality(Places(stack, t) \cup fresh)
          = Cardinality(Places(stack, t)) + Cardinality(fresh) - Cardinality(Places(stack, t) \cap fresh)
    BY <1>8, <1>10, FS_Union
  <2>2. Cardinality(Places(stack, t) \cap fresh) = 0
    BY <1>9, FS_EmptySet
  <2>3. Cardinality(fresh) \in Nat
    BY <1>8, FS_CardinalityType
  <2> QED BY <1>9, <1>10, <2>1, <2>2, <2>3
<1>12. OnStack(stack', t) = Cardinality(Places(stack', t))
  BY DEF OnStack, Places
<1> QED BY <1>5, <1>7, <1>8, <1>10, <1>11, <1>12

LEMMA InstancesCounted ==
  ASSUME TypeOK, NEW t \in Triggers
  PROVE  /\ IsFiniteSet(KeptOf(PendingInstances, t))
         /\ Cardinality(KeptOf(PendingInstances, t)) = pending[t]
<1>1. pending[t] \in Nat
  BY DEF TypeOK
<1>2. KeptOf(PendingInstances, t) = {t} \X (1 .. pending[t])
  BY DEF KeptOf, PendingInstances
<1>3. [k \in 1 .. pending[t] |-> <<t, k>>] \in Bijection(1 .. pending[t], {t} \X (1 .. pending[t]))
  BY DEF Bijection, Injection, Surjection, IsInjective
<1>4. IsFiniteSet(1 .. pending[t]) /\ Cardinality(1 .. pending[t]) = pending[t]
  BY <1>1, PlacesUpTo
<1>5. ExistsBijection(1 .. pending[t], {t} \X (1 .. pending[t]))
  BY <1>3 DEF ExistsBijection
<1>6. IsFiniteSet({t} \X (1 .. pending[t]))
      /\ Cardinality({t} \X (1 .. pending[t])) = Cardinality(1 .. pending[t])
  BY <1>4, <1>5, FS_Bijection
<1> QED BY <1>2, <1>4, <1>6

----------------------------------------------------------------------------
(* No trigger is lost *)

LEMMA QueuesGrow ==
  ASSUME Typed, Queues
  PROVE  Grows
BY EmitGrows DEF Queues, Grows

LEMMA LeavesOntoStack ==
  ASSUME Typed, [Next]_vars, NEW t \in Triggers \ Targeted, pending'[t] < pending[t]
  PROVE  OnStack(stack', t) - OnStack(stack, t) = pending[t]
<1>1. TypeOK /\ t \in Triggers /\ pending[t] \in Nat /\ stack \in Seq(StackEntries)
  BY DEF Typed, TypeOK
<1>2. ~Queues
  BY <1>1, QueuesGrow DEF Grows
<1>3. ~Registers /\ ~Quiet
  BY <1>1 DEF Registers, Quiet, RegisterTriggeredAbility, UnregisterTriggeredAbility, triggerVars
<1>4. PICK kept, order, E : DrainedAs(kept, order, E)
  BY <1>2, <1>3, QueueMoves, DrainMoves
<1>5. KeptOf(kept, t) = KeptOf(PendingInstances, t)
  BY <1>4 DEF DrainedAs, KeptOf
<1>6. /\ OnStack(stack', t) = OnStack(stack, t) + Cardinality(KeptOf(kept, t))
      /\ OnStack(stack, t) \in Nat /\ Cardinality(KeptOf(kept, t)) = pending[t]
  BY <1>1, <1>4, <1>5, DrainedOnStack, PlacesCounted, InstancesCounted
<1> QED BY <1>1, <1>6

\* No trigger is lost: the instances that leave the queue are on the stack after
\* the same step, every one of them, unless the ability needs a target.
THEOREM TriggersReachTheStack == Spec => NoTriggerIsLost
<1>1. Typed /\ [Next]_vars
        => [\A t \in Triggers \ Targeted :
              pending'[t] < pending[t] => OnStack(stack', t) - OnStack(stack, t) = pending[t]]_vars
  BY LeavesOntoStack
<1> QED BY <1>1, TypedAlways, PTL DEF Spec, NoTriggerIsLost

----------------------------------------------------------------------------
(* A delayed-once trigger exists once *)

Existences(t) == (IF t \in subs THEN 1 ELSE 0) + pending[t] + OnStack(stack, t)

LEMMA FiresOnce ==
  ASSUME NEW t \in subs, t \in Triggers, t \in Delayed, NEW E, IsFiniteSet(E)
  PROVE  Fired(t, E) \in {0, 1}
<1>1. Fired(t, E) \in Nat /\ CountOf(E, Watches[t]) \in Nat
  BY FiredNat, FS_Subset, FS_CardinalityType DEF CountOf
<1> QED BY <1>1 DEF Fired

LEMMA ExistsOnceNext ==
  ASSUME Typed, TypeOK', [Next]_vars, NEW t \in Delayed, Existences(t) <= 1
  PROVE  (Existences(t) <= 1)'
<1>1. /\ TypeOK /\ t \in Triggers /\ pending[t] \in Nat /\ pending'[t] \in Nat
      /\ OnStack(stack, t) \in Nat /\ OnStack(stack', t) \in Nat
  <2>1. TypeOK /\ t \in Triggers /\ stack \in Seq(StackEntries) /\ stack' \in Seq(StackEntries)
    BY TriggersAssumption DEF Typed, TypeOK
  <2>2. OnStack(stack, t) \in Nat /\ OnStack(stack', t) \in Nat
    BY <2>1, PlacesCounted
  <2> QED BY <2>1, <2>2 DEF TypeOK
<1>2. CASE Queues
  <2>1. PICK E : IsFiniteSet(E) /\ Emit(E) /\ Announces(E)
    BY <1>2 DEF Queues
  <2>2. OnStack(stack', t) <= OnStack(stack, t)
    BY <1>1, <2>1, ThinnedFewer, PushedSame DEF Announces
  <2>3. pending'[t] = pending[t] + Fired(t, E)
        /\ (t \in subs' <=> t \in subs /\ Fired(t, E) = 0)
    BY <1>1, <2>1 DEF Emit, QueueOnto
  <2>4. t \in subs => Fired(t, E) \in {0, 1}
    BY <1>1, <2>1, FiresOnce
  <2>5. t \notin subs => Fired(t, E) = 0
    BY DEF Fired
  <2> QED BY <1>1, <2>2, <2>3, <2>4, <2>5 DEF Existences
<1>3. CASE PutPendingTriggeredAbilitiesOnStack
  <2>1. PICK kept, order, E : DrainedAs(kept, order, E)
    BY <1>3, DrainMoves
  <2>2. Cardinality(KeptOf(kept, t)) <= pending[t] /\ Cardinality(KeptOf(kept, t)) \in Nat
    <3>1. KeptOf(kept, t) \subseteq KeptOf(PendingInstances, t)
      BY <2>1 DEF DrainedAs, KeptOf
    <3>2. Cardinality(KeptOf(kept, t)) <= Cardinality(KeptOf(PendingInstances, t))
      BY <1>1, <3>1, InstancesCounted, FS_Subset
    <3> QED BY <1>1, <2>1, <3>2, InstancesCounted, DrainedOnStack
  <2>3. OnStack(stack', t) = OnStack(stack, t) + Cardinality(KeptOf(kept, t))
    BY <2>1, DrainedOnStack
  <2>4. pending'[t] = 0 + Fired(t, E) /\ (t \in subs' <=> t \in subs /\ Fired(t, E) = 0)
        /\ IsFiniteSet(E)
    BY <1>1, <2>1 DEF DrainedAs, ClearAndEmit, QueueOnto
  <2>5. t \in subs => Fired(t, E) \in {0, 1}
    BY <1>1, <2>4, FiresOnce
  <2>6. t \notin subs => Fired(t, E) = 0
    BY DEF Fired
  <2> QED BY <1>1, <2>2, <2>3, <2>4, <2>5, <2>6 DEF Existences
<1>4. CASE Registers
  <2>1. stack' = stack /\ pending' = pending
    BY <1>4 DEF Registers, RegisterTriggeredAbility, UnregisterTriggeredAbility
  <2>2. t \in subs' /\ t \notin subs => pending[t] = 0 /\ Places(stack, t) = {}
    BY <1>4 DEF Registers, RegisterTriggeredAbility, UnregisterTriggeredAbility, Places
  <2>3. Places(stack, t) = {} => OnStack(stack, t) = 0
    BY FS_EmptySet DEF OnStack, Places
  <2>4. OnStack(stack', t) = OnStack(stack, t)
    BY <2>1
  <2> QED BY <1>1, <2>1, <2>2, <2>3, <2>4 DEF Existences
<1>5. CASE Quiet
  <2>1. stack' = stack /\ pending' = pending /\ subs' = subs
    BY <1>5 DEF Quiet, triggerVars
  <2> QED BY <2>1 DEF Existences, OnStack
<1> QED BY <1>2, <1>3, <1>4, <1>5, QueueMoves

\* A delayed-once trigger exists once - as a subscription, as a pending instance
\* or as a stack entry - however many events of a batch it watches for and
\* whatever copies are made of its entry.
THEOREM DelayedTriggersFireOnce == Spec => []DelayedFiresOnce
<1>1. Init => DelayedFiresOnce
  <2> SUFFICES ASSUME Init, NEW t \in Delayed
               PROVE  Existences(t) <= 1
    BY DEF DelayedFiresOnce, Existences
  <2>1. t \in Triggers /\ subs = Triggers /\ pending[t] = 0 /\ stack = <<>>
    BY TriggersAssumption DEF Init
  <2>2. Places(stack, t) = {}
    BY <2>1 DEF Places
  <2>3. OnStack(stack, t) = 0
    BY <2>2, FS_EmptySet DEF OnStack, Places
  <2> QED BY <2>1, <2>3 DEF Existences
<1>2. Typed /\ Typed' /\ DelayedFiresOnce /\ [Next]_vars => DelayedFiresOnce'
  <2>1. DelayedFiresOnce <=> \A t \in Delayed : Existences(t) <= 1
    BY DEF DelayedFiresOnce, Existences
  <2>2. (\A t \in Delayed : (Existences(t) <= 1)') => DelayedFiresOnce'
    BY DEF DelayedFiresOnce, Existences
  <2> QED BY <2>1, <2>2, ExistsOnceNext DEF Typed
<1> QED BY <1>1, <1>2, TypedAlways, PTL DEF Spec

----------------------------------------------------------------------------
(* The order of triggers placed together *)

\* A player's place in APNAP order leads from the active player to their seat.
LEMMA ApnapPlaceLeads ==
  ASSUME active \in Players, NEW p \in Players
  PROVE  ApnapPlace(p) \in 0 .. N - 1 /\ (active + ApnapPlace(p)) % N = p
<1>1. N \in Nat \ {0} /\ active \in 0 .. N - 1 /\ p \in 0 .. N - 1
  BY NAssumption DEF Players
<1>2. CASE p >= active
  <2>1. p + N - active \in N .. 2 * N - 1 /\ p - active \in 0 .. N - 1
        /\ (p + N - active) - N = p - active
    BY <1>1, <1>2
  <2>2. ApnapPlace(p) = p - active
    <3>1. (p + N - active) % N = (p + N - active) - N
      BY <1>1, <2>1, ModWrap
    <3> QED BY <2>1, <3>1 DEF ApnapPlace
  <2>3. active + (p - active) = p
    BY <1>1
  <2> QED BY <1>1, <2>1, <2>2, <2>3, ModSmall
<1>3. CASE p < active
  <2>1. p + N - active \in 0 .. N - 1
    BY <1>1, <1>3
  <2>2. ApnapPlace(p) = p + N - active
    BY <1>1, <2>1, ModSmall DEF ApnapPlace
  <2>3. active + (p + N - active) = p + N
    BY <1>1
  <2>4. (p + N) % N = p
    <3>1. p + N \in N .. 2 * N - 1 /\ (p + N) - N = p
      BY <1>1
    <3> QED BY <1>1, <3>1, ModWrap
  <2> QED BY <2>1, <2>2, <2>3, <2>4
<1> QED BY <1>1, <1>2, <1>3

LEMMA PlacedInOrder ==
  ASSUME Typed, TypeOK', [Next]_vars,
         NEW i \in Len(stack) + 1 .. Len(stack'), NEW j \in Len(stack) + 1 .. Len(stack'), i < j
  PROVE  \E k \in 0 .. N - 1 :
           /\ (active + k) % N = stack'[j].by
           /\ stack'[i].by \in {(active + m) % N : m \in 0 .. k}
<1>1. TypeOK /\ Len(stack) \in Nat /\ Len(stack') \in Nat
  BY DEF Typed, TypeOK
<1>2. Len(stack') > Len(stack) + 1
  BY <1>1
<1>3. ~Queues
  <2> SUFFICES ASSUME NEW E, Announces(E)
               PROVE  FALSE
    BY DEF Queues
  <2>1. ~Thinned
    BY <1>1, <1>2, ThinnedShorter
  <2>2. \E entry : stack' = Append(stack, entry)
    BY <2>1 DEF Announces
  <2> QED BY <1>1, <1>2, <2>2 DEF TypeOK
<1>4. ~Registers /\ ~Quiet
  <2>1. stack' # stack
    BY <1>1, <1>2
  <2> QED BY <2>1 DEF Registers, Quiet, RegisterTriggeredAbility, UnregisterTriggeredAbility
<1>5. PutPendingTriggeredAbilitiesOnStack
  BY <1>3, <1>4, QueueMoves
<1>6. PICK kept, order, E : DrainedAs(kept, order, E)
  BY <1>5, DrainMoves
<1>7. active \in Players
  BY <1>1, <1>5 DEF PutPendingTriggeredAbilitiesOnStack, CanDrain, TypeOK
<1> DEFINE n == Cardinality(kept)
           a == i - Len(stack)
           b == j - Len(stack)
           p == Controller[order[a][1]]
           q == Controller[order[b][1]]
<1>8. n \in Nat /\ Len(stack') = Len(stack) + n
  BY <1>6, DrainedStack
<1>9. /\ a \in 1 .. n /\ b \in 1 .. n /\ a < b
      /\ Len(stack) + a = i /\ Len(stack) + b = j
  BY <1>1, <1>8
<1>10. p \in Players /\ q \in Players /\ stack'[i].by = p /\ stack'[j].by = q
  <2>1. \A k \in 1 .. n :
          /\ Controller[order[k][1]] \in Players
          /\ stack'[Len(stack) + k].by = Controller[order[k][1]]
    <3> TAKE k \in 1 .. n
    <3>1. Controller[order[k][1]] \in Players
          /\ stack'[Len(stack) + k] = Entry(Controller[order[k][1]], "Trigger", order[k][1])
      BY <1>6, DrainedStack
    <3> QED BY <3>1 DEF Entry
  <2> HIDE DEF a, b
  <2> QED BY <1>9, <2>1
<1>11. ApnapPlace(p) <= ApnapPlace(q)
  <2>1. DOMAIN order = 1 .. n /\ InApnapOrder(order)
    BY <1>6 DEF DrainedAs, Bijection, Injection
  <2> HIDE DEF a, b, n
  <2> QED BY <1>9, <2>1 DEF InApnapOrder
<1>12. /\ ApnapPlace(p) \in 0 .. N - 1 /\ (active + ApnapPlace(p)) % N = p
       /\ ApnapPlace(q) \in 0 .. N - 1 /\ (active + ApnapPlace(q)) % N = q
  BY <1>7, <1>10, ApnapPlaceLeads
<1> HIDE DEF p, q
<1>13. ApnapPlace(p) \in 0 .. ApnapPlace(q)
  BY <1>11, <1>12, NAssumption
<1> QED BY <1>10, <1>12, <1>13

\* Triggers placed together lie on the stack in APNAP order: those of the
\* active player below those of the next seats, whoever's turn it is.
THEOREM TriggersLieInApnapOrder == Spec => ApnapOrderOnStack
<1>1. Typed /\ Typed' /\ [Next]_vars
        => [\A i, j \in Len(stack) + 1 .. Len(stack') :
              (i < j /\ stack'[j].kind = "Trigger" /\ stack'[i].kind = "Trigger")
                => \E k \in 0 .. N - 1 :
                     /\ (active + k) % N = stack'[j].by
                     /\ stack'[i].by \in {(active + m) % N : m \in 0 .. k}]_vars
  BY PlacedInOrder DEF Typed
<1> QED BY <1>1, TypedAlways, PTL DEF Spec, ApnapOrderOnStack

----------------------------------------------------------------------------
(* The player whose grant was deferred *)

LEMMA GrowsUnlessDrained ==
  ASSUME Typed, [Next]_vars, ~PutPendingTriggeredAbilitiesOnStack
  PROVE  Grows
<1>1. pending \in [Triggers -> Nat]
  BY DEF Typed, TypeOK
<1>2. ASSUME pending' = pending
      PROVE  Grows
  BY <1>1, <1>2 DEF Grows
<1>3. Registers \/ Quiet => pending' = pending
  BY DEF Registers, Quiet, RegisterTriggeredAbility, UnregisterTriggeredAbility, triggerVars
<1> QED BY <1>2, <1>3, QueueMoves, QueuesGrow

\* A handler makes a grant, leaves priority and the deferred grant alone (or
\* ends the game), or runs with nothing pending and defers nothing.
Granted(p) == AssignPriority(p) /\ (PutPendingTriggeredAbilitiesOnStack => p = DrainGoesTo)
Leaves ==
  /\ ~PutPendingTriggeredAbilitiesOnStack
  /\ deferred' = deferred /\ (outcome' = "InProgress" => priority' = priority)
MovesOn == NonePending(pending) /\ deferred' = deferred

LEMMA AdvanceGrants ==
  ASSUME AdvanceStepAfterEmptyStack, active \in Players, NonePending(pending)
  PROVE  (\E p \in Players : Granted(p)) \/ MovesOn
<1>1. CASE NextStep = "Untap"
  BY <1>1 DEF AdvanceStepAfterEmptyStack, BeginTurn, MovesOn
<1>2. CASE NextStep = "Cleanup"
  BY <1>2 DEF AdvanceStepAfterEmptyStack, BeginCleanup, MovesOn
<1>3. CASE NextStep \notin {"Untap", "Cleanup"}
  <2>1. AssignPriority(active)
    BY <1>3 DEF AdvanceStepAfterEmptyStack, BeginDraw, BeginPriorityStep, GrantPriorityTo
  <2> QED BY <2>1 DEF Granted, PutPendingTriggeredAbilitiesOnStack, CanDrain
<1> QED BY <1>1, <1>2, <1>3

LEMMA PriorityMoves ==
  ASSUME Typed, [Next]_vars
  PROVE  (\E p \in Players : Granted(p)) \/ Leaves \/ MovesOn
<1>1. TypeOK /\ Started
  BY DEF Typed
<1>2. CASE PutPendingTriggeredAbilitiesOnStack
  <2>1. AssignPriority(DrainGoesTo) /\ active # NoPlayer
    BY <1>2 DEF PutPendingTriggeredAbilitiesOnStack, CanDrain
  <2>2. DrainGoesTo \in Players
    BY <1>1, <2>1 DEF DrainGoesTo, TypeOK
  <2> QED BY <2>1, <2>2 DEF Granted
<1> SUFFICES ASSUME ~PutPendingTriggeredAbilitiesOnStack
             PROVE  (\E p \in Players : Granted(p)) \/ Leaves \/ MovesOn
  BY <1>2
<1>3. CASE StartTurn
  BY <1>1, <1>3 DEF StartTurn, BeginTurn, Started, Leaves
<1>4. CASE AdvanceStep
  BY <1>1, <1>4, AdvanceGrants DEF AdvanceStep, Started, Steps
<1>5. ASSUME NEW p \in Players,
             PassTo(p) \/ ResolveTop(p) \/ CompleteStep(p) \/ RejectedPass(p)
      PROVE  (\E q \in Players : Granted(q)) \/ MovesOn
  <2>1. active \in Players /\ NonePending(pending)
    BY <1>1, <1>5, HolderMeansStarted DEF PassTo, ResolveTop, CompleteStep, RejectedPass, MayPass
  <2>2. CASE PassTo(p) \/ RejectedPass(p)
    BY <2>1, <2>2 DEF PassTo, RejectedPass, MovesOn
  <2>3. CASE ResolveTop(p)
    BY <2>1, <2>3 DEF ResolveTop, GrantPriorityTo, Granted
  <2>4. CASE CompleteStep(p)
    BY <2>1, <2>4, AdvanceGrants DEF CompleteStep
  <2> QED BY <1>5, <2>2, <2>3, <2>4
<1>6. ASSUME NEW p \in Players, PlayerAction(p)
      PROVE  Granted(p) \/ Leaves
  <2>1. CASE ActivateManaAbility(p) \/ Concede(p)
    BY <2>1 DEF ActivateManaAbility, Concede, DropPriorityIfOver, priorityVars, Leaves
  <2>2. CASE ~ActivateManaAbility(p) /\ ~Concede(p)
    <3>1. AssignPriority(p)
      BY <1>6, <2>2
      DEF PlayerAction, CastSpell, ActivateAbility, PlayLand, DeclareAttackers,
          AfterPriorityAction, GrantPriorityTo
    <3> QED BY <3>1 DEF Granted
  <2> QED BY <2>1, <2>2
<1>7. CASE Effect
  BY <1>7
  DEF Effect, LifeEffect, DrawFromEmptyLibrary, DamageCreature, DestroyPermanent,
      CounterStackEntry, CopyStackEntry, CheckStateBasedActions, RequestCleanupPriority,
      RegisterTriggeredAbility, UnregisterTriggeredAbility, DropPriorityIfOver, priorityVars,
      Leaves
<1>8. ASSUME NEW d \in Players, DeclareBlockers(d)
      PROVE  (\E p \in Players : Granted(p)) \/ Leaves
  BY <1>8, DeclareBlockersGrantsOrQueues DEF Granted, Leaves, priorityVars
<1>9. CASE AssignCombatDamage
  BY <1>9 DEF AssignCombatDamage, DropPriorityIfOver, Leaves
<1>10. CASE UNCHANGED vars
  BY <1>10 DEF vars, priorityVars, Leaves
<1> QED
  BY <1>3, <1>4, <1>5, <1>6, <1>7, <1>8, <1>9, <1>10 DEF Next, Pass, GameOver

\* A remembered grant waits for triggers, and nobody holds priority meanwhile.
DeferredWaits ==
  outcome = "InProgress" /\ deferred # NoPlayer => priority = NoPlayer /\ ~NonePending(pending)

LEMMA StillPending ==
  ASSUME Typed, Grows, ~NonePending(pending)
  PROVE  ~NonePending(pending')
BY DEF Typed, TypeOK, Grows, NonePending

LEMMA WaitsNext ==
  ASSUME Typed, OutcomeMatches, DeferredWaits, [Next]_vars
  PROVE  /\ DeferredWaits'
         /\ deferred # NoPlayer /\ deferred' = NoPlayer /\ outcome' = "InProgress"
              => priority' = deferred
<1>1. outcome' = "InProgress" => outcome = "InProgress"
  BY OutcomeNext
<1>2. ASSUME NEW p \in Players, Granted(p)
      PROVE  /\ DeferredWaits'
             /\ deferred # NoPlayer /\ deferred' = NoPlayer /\ outcome' = "InProgress"
                  => priority' = deferred
  <2>1. DeferredWaits'
    BY <1>2, SeatsArePlayers DEF Granted, AssignPriority, DeferredWaits
  <2>2. ASSUME deferred # NoPlayer, deferred' = NoPlayer, outcome' = "InProgress"
        PROVE  priority' = deferred
    <3>1. NonePending(pending') /\ priority' = p
      BY <1>2, <2>2, SeatsArePlayers DEF Granted, AssignPriority
    <3>2. ~NonePending(pending)
      BY <1>1, <2>2 DEF DeferredWaits
    <3>3. PutPendingTriggeredAbilitiesOnStack
      BY <3>1, <3>2, GrowsUnlessDrained, StillPending
    <3> QED BY <1>2, <2>2, <3>1, <3>3 DEF Granted, DrainGoesTo
  <2> QED BY <2>1, <2>2
<1>3. CASE Leaves
  BY <1>1, <1>3, GrowsUnlessDrained, StillPending DEF Leaves, DeferredWaits
<1>4. CASE MovesOn
  BY <1>1, <1>4 DEF MovesOn, DeferredWaits
<1> QED BY <1>2, <1>3, <1>4, PriorityMoves

\* The player whose grant was put off is the one who gets priority once the
\* triggers are placed: a handler that runs in between - an effect, a
\* concession, a declaration - may put another grant in its place, as the code
\* does, but none drops it or makes it to anybody else.
THEOREM DeferredGrantIsMade == Spec => DeferredPlayerIsServed
<1>1. Init => DeferredWaits
  BY DEF Init, DeferredWaits
<1>2. Typed /\ OutcomeMatches /\ DeferredWaits /\ [Next]_vars
        => /\ DeferredWaits'
           /\ [deferred # NoPlayer /\ deferred' = NoPlayer /\ outcome' = "InProgress" =>
                 priority' = deferred]_vars
  BY WaitsNext
<1> QED BY <1>1, <1>2, TypedAlways, OutcomeAlways, PTL DEF Spec, DeferredPlayerIsServed
====
