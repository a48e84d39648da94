---- MODULE KernelProperties ----
(***************************************************************************)
(* What the turn and priority machine of Kernel must never do, and what it *)
(* must eventually do.                                                     *)
(***************************************************************************)
EXTENDS Kernel

----------------------------------------------------------------------------
(* Type invariant *)

EntryKinds == SpellKinds \cup {"Ability", "Trigger"}
StackEntries ==
  [by : Players, kind : EntryKinds, trigger : Triggers \cup {NoTrigger}, copied : BOOLEAN]
CombatStates ==
  [attackers : SUBSET (Creatures \X Players), blockers : SUBSET Creatures,
   declaredBy : SUBSET Players, damageStep : DamageSteps]

\* Every variable holds a value of its type: GameState's fields keep the
\* ranges their Rust types and arenas give them.
TypeOK ==
  /\ turn \in 0 .. MaxTurn /\ active \in Players \cup {NoPlayer}
  /\ step \in Steps \cup {"NotStarted"}
  /\ priority \in Players \cup {NoPlayer} /\ passes \in 0 .. N - 1
  /\ deferred \in Players \cup {NoPlayer}
  /\ outcome \in {"InProgress", "Won", "Draw"}
  /\ lost \subseteq Players /\ doomed \subseteq Players /\ emptyDraw \subseteq Players
  /\ creatures \subseteq Creatures /\ dying \subseteq creatures
  /\ combat \in CombatStates /\ attackersDeclared \in BOOLEAN
  /\ cleanupRequested \in BOOLEAN /\ cleanupRepeat \in BOOLEAN
  /\ landPlayed \subseteq Players
  /\ stack \in Seq(StackEntries)
  /\ subs \subseteq Triggers /\ pending \in [Triggers -> Nat]
  /\ fuel \in 0 .. Fuel

----------------------------------------------------------------------------
(* Priority *)

\* Passing in succession (CR 117.4): the top of the stack resolves, and a step
\* with priority ends, only after every player has passed since the last
\* object went on the stack - read off the pass count and the seat of the
\* player who holds priority, which is all GameState keeps.
PassedInSuccession ==
  IF priority = NoPlayer THEN {} ELSE {(priority + N - k) % N : k \in 1 .. passes}

Round == INSTANCE PriorityRound WITH
  holder <- priority, passed <- PassedInSuccession, stack <- stack,
  where <- <<turn, active, step, combat.damageStep>>
PriorityRounds == Round!Spec

\* A finished game gives nobody priority and keeps no pass, whichever handler
\* ended it and whatever that handler did after the outcome was known.
GameOverStopsPlay ==
  outcome # "InProgress" => priority = NoPlayer /\ passes = 0

\* While the game is on, a step that has a priority window always has somebody
\* to act: either a player holds priority, or the grant is deferred to a named
\* player and triggers are waiting to be placed.  Nobody ever waits on nobody.
SomebodyMayAct ==
  outcome = "InProgress" /\ step \in Steps \ {"Untap", "Cleanup"} =>
    \/ priority \in Players /\ deferred = NoPlayer
    \/ priority = NoPlayer /\ deferred \in Players /\ ~NonePending(pending)

\* Priority is accounted for in every state a handler leaves: a finished game
\* gives it to nobody and an unfinished one always has somebody to act.
PriorityAccountedFor == GameOverStopsPlay /\ SomebodyMayAct

\* When the driver may advance a step by itself nothing is on the stack, so
\* no object is carried over a step boundary.
NobodyWaitsOnTheStack ==
  outcome = "InProgress" /\ priority = NoPlayer /\ NonePending(pending) => stack = <<>>

\* The player whose grant was put off by waiting triggers is the one who gets
\* priority once they are placed, unless the game ended meanwhile.
DeferredPlayerIsServed ==
  [][deferred # NoPlayer /\ deferred' = NoPlayer /\ outcome' = "InProgress" =>
       priority' = deferred]_vars

\* A player who is given priority anew (not passed to) finds every state-based
\* action performed: no player at zero life, no empty-library draw and no
\* creature with lethal damage is still waiting.
LossBeforePriority ==
  [][priority' # NoPlayer /\ priority' # priority /\ passes' = 0 =>
       doomed' = {} /\ emptyDraw' = {} /\ dying' = {}]_vars

----------------------------------------------------------------------------
(* Triggers *)

OnStack(s, t) == Cardinality({i \in DOMAIN s : s[i].trigger = t /\ ~s[i].copied})

\* No trigger is lost: when instances leave the queue each is on the stack,
\* or its ability needed a target and had none.
NoTriggerIsLost ==
  [][\A t \in Triggers \ Targeted :
       pending'[t] < pending[t] => OnStack(stack', t) - OnStack(stack, t) = pending[t]]_vars

\* Placing objects on the stack is itself an event: a subscription to
\* StackEntryAdded hears every one of them, those placed by a drain included.
PlacementIsHeard ==
  [][\A t \in subs : Watches[t] = "StackEntryAdded" /\ Len(stack') > Len(stack) =>
       pending'[t] >= IF t \in Delayed THEN 1 ELSE Len(stack') - Len(stack)]_vars

\* A delayed-once trigger exists once: as a subscription, as a pending
\* instance or as a stack entry, never as two of them, whatever batch of
\* events set it off.
DelayedFiresOnce ==
  \A t \in Delayed :
    (IF t \in subs THEN 1 ELSE 0) + pending[t] + OnStack(stack, t) <= 1

\* Triggers placed together lie on the stack in APNAP order: walking the seats
\* from the active player, a controller met later is never below one met earlier.
ApnapOrderOnStack ==
  [][\A i, j \in Len(stack) + 1 .. Len(stack') :
       (i < j /\ stack'[j].kind = "Trigger" /\ stack'[i].kind = "Trigger")
         => \E k \in 0 .. N - 1 :
              /\ (active + k) % N = stack'[j].by
              /\ stack'[i].by \in {(active + m) % N : m \in 0 .. k}]_vars

----------------------------------------------------------------------------
(* Combat, cleanup and turns *)

\* Combat damage is never assigned while an attacked player has yet to
\* declare blocks.
BlocksBeforeDamage ==
  step = "CombatDamage" => \A a \in combat.attackers : a[2] \in combat.declaredBy

\* Only creatures on the battlefield are in combat, whichever way the others
\* left: state-based action, sacrifice or destruction.
CombatIsOnBattlefield ==
  AttackingCreatures(combat) \cup combat.blockers \subseteq creatures

\* A turn ends only out of its last cleanup step, with the stack and the
\* trigger queue empty and no repeat owed, and the next seat becomes active.
TurnEndsWhenSettled ==
  [][active' # active /\ active # NoPlayer =>
       /\ step = "Cleanup" /\ ~cleanupRepeat /\ stack = <<>> /\ NonePending(pending)
       /\ active' = (active + 1) % N]_vars

----------------------------------------------------------------------------
(* Progress.  The driver's loop never leaves a step alone: it drains        *)
(* triggers, collects blocks, lets the holder of priority act or pass, and  *)
(* advances a step in which nobody can act.                                 *)

Fairness ==
  /\ WF_vars(StartTurn) /\ WF_vars(AdvanceStep) /\ WF_vars(Pass)
  /\ WF_vars(PutPendingTriggeredAbilitiesOnStack)
  /\ \A d \in Players : WF_vars(DeclareBlockers(d))
FairSpec == Spec /\ Fairness

\* The turn keeps passing until the game is over: no exchange of triggers,
\* deferred grants, refused passes and repeated cleanups holds it up forever.
TurnsKeepComing == <>[](outcome # "InProgress") \/ []<>(step = "Untap")

\* Every trigger that waits is eventually dealt with.
TriggersAreDrained ==
  \A t \in Triggers : (pending[t] > 0) ~> (pending[t] = 0 \/ outcome # "InProgress")
====
