----------------------------- MODULE CardRuntime -----------------------------
(***************************************************************************)
(* The driver's side of card programs: it casts them, registers their      *)
(* triggers, puts pending triggers on the stack with the player they are   *)
(* about, and runs what a resolution owes.  The driver keeps its own tables*)
(* next to the kernel's state; each action is one dispatch of the driver   *)
(* with everything it does before it looks at the state again.             *)
(***************************************************************************)
EXTENDS SpellStack

CONSTANTS
    Mortal,         \* permanents that a state-based action may find dead
    MaxTurn,        \* bound: turns played
    Fuel            \* bound: casts, draws

ASSUME RuntimeAssumption == Mortal \subseteq Cards /\ MaxTurn \in Nat /\ Fuel \in Nat

VARIABLES
    game,           \* the kernel's state
    registered,     \* triggers_registered_for
    runtimes,       \* trigger_programs: [trigger, source, ability]
    conditional,    \* conditional_cast_triggers
    contexts,       \* triggering_players_by_stack_entry: [entry, player]
    result,         \* "Ok", or the error that run returns
    fuel

vars == <<game, registered, runtimes, conditional, contexts, result, fuel>>
tables == <<registered, runtimes, conditional>>

Init ==
    /\ game = NewState
    /\ registered = {} /\ runtimes = {} /\ contexts = {}
    /\ conditional = [c \in Cards |-> <<>>]
    /\ result = "Ok"
    /\ fuel = Fuel

Running == result = "Ok"
Burn == fuel > 0 /\ fuel' = fuel - 1

AbilityOf(trigger) ==
    LET r == CHOOSE x \in runtimes : x.trigger = trigger IN Text[r.source].abilities[r.ability]
SourceOf(trigger) == (CHOOSE x \in runtimes : x.trigger = trigger).source

(* What the state-based actions before a grant of priority may remove, one  *)
(* after another.                                                           *)
Deaths(g) ==
    LET doomed == {c \in Mortal : g.zone[c] = "battlefield"}
    IN {d \in SeqOf(doomed, Cardinality(doomed)) : IsInjective(d)}

---------------------------------------------------------------------------
\* Casting

(* register_triggers: unconditional abilities once for each card, those of  *)
(* the alternate cost that was paid on every such cast.                     *)
ToRegister(card, alternate) ==
    LET abilities == Text[card].abilities
    IN Keep([i \in DOMAIN abilities |-> i],
            {i \in DOMAIN abilities : IF abilities[i].alternate = "none" THEN card \notin registered
                                      ELSE abilities[i].alternate = alternate})

CastProgram(player, card) ==
    /\ Running /\ Burn
    /\ MayCast(game, player, card)
    /\ \E alternate \in Text[card].alternates :
       \E choices \in [DOMAIN Text[card].targets -> Cards \cup EntryIds(game)] :
       LET cast == Cast(game, player, card, choices)
           new == ToRegister(card, alternate)
           id == [k \in DOMAIN new |-> cast.nextTrigger + k - 1]
           definitions == [k \in DOMAIN new |-> [event |-> Text[card].abilities[new[k]].event,
                                                 once |-> Text[card].abilities[new[k]].alternate # "none"]]
       IN /\ \A i \in DOMAIN choices : choices[i] \in LegalChoices(game, Text[card].targets[i])
          /\ IsInjective(choices)
          /\ \E dead \in Deaths(cast) : game' = Register(Bury(cast, dead), player, card, definitions)
          /\ registered' = registered \cup {card}
          /\ runtimes' = runtimes \cup {[trigger |-> id[k], source |-> card, ability |-> new[k]] : k \in DOMAIN new}
          /\ conditional' = [conditional EXCEPT ![card] =
                 @ \o Keep(id, {id[k] : k \in {j \in DOMAIN new : definitions[j].once}})]
          /\ UNCHANGED <<contexts, result>>

---------------------------------------------------------------------------
\* Resolving

(* A run in the middle of a step: the kernel's state, the tables a          *)
(* resolution writes and the error that stopped it.                         *)
Now(g) == [game |-> g, runtimes |-> runtimes, conditional |-> conditional, error |-> "Ok"]

Then(run, error, g) ==
    IF run.error # "Ok" THEN run
    ELSE IF error # "Ok" THEN [run EXCEPT !.error = error]
    ELSE [run EXCEPT !.game = g]

(* The conditional triggers of a spell that left the stack: kept if they    *)
(* have been queued by its entering, unregistered otherwise.                *)
Queued(g, record, trigger) ==
    /\ record.outcome = "Resolved" /\ g.zone[record.object] = "battlefield"
    /\ \E i \in DOMAIN g.pending : g.pending[i].trigger = trigger
RetireOne(run, record, trigger) ==
    IF run.error # "Ok" \/ Queued(run.game, record, trigger) THEN run
    ELSE LET next == Then(run, UnregisterError(run.game, trigger), Unregister(run.game, trigger))
         IN [next EXCEPT !.runtimes = {x \in @ : next.error # "Ok" \/ x.trigger # trigger}]
RetireAll(run, record) ==
    LET triggers == run.conditional[record.object]
        f[i \in 0 .. Len(triggers)] ==
            IF i = 0 THEN [run EXCEPT !.conditional[record.object] = <<>>]
            ELSE RetireOne(f[i - 1], record, triggers[i])
    IN f[Len(triggers)]
\* Mutant: a spell that did not resolve keeps its conditional triggers.
RetireConditional_OnlyResolved(run, record) ==
    IF record.object = None \/ record.outcome # "Resolved" THEN run ELSE RetireAll(run, record)
RetireConditional(run, record) == IF record.object = None THEN run ELSE RetireAll(run, record)

(* One bound action of a spell: dispatched against the state its            *)
(* predecessors left, refused by the kernel where that state does not fit.  *)
Moves == [destroy |-> "graveyard", bounce |-> "hand", reanimate |-> "battlefield"]
Effect(run, effect, choice) ==
    IF effect = "counter"
    THEN LET next == Then(run, IF choice \in EntryIds(run.game) THEN "Ok" ELSE "UnknownStackEntry",
                          Counter(run.game, choice))
         IN IF next.error # "Ok" THEN next ELSE RetireConditional(next, CounterRecord(run.game, choice))
    ELSE Then(run, IF effect = "destroy" /\ run.game.zone[choice] # "battlefield" THEN "ObjectNotOnBattlefield"
                   ELSE "Ok",
              Move(run.game, choice, Moves[effect]))

(* bind_program_actions: a move names the zone it starts from, and is bound *)
(* with all others before the first is dispatched.                          *)
Bound(g, record) ==
    LET from == [bounce |-> "battlefield", reanimate |-> "graveyard"]
        effect == Text[record.object].effect
    IN effect \in DOMAIN from =>
           \A i \in DOMAIN record.targets :
               record.legal[i] => g.zone[record.targets[i].choice] = from[effect]

(* The targets that are still legal are affected, in their order. *)
SpellEffects(run, record) ==
    LET f[i \in 0 .. Len(record.targets)] ==
            IF i = 0 THEN run
            ELSE IF record.legal[i] THEN Effect(f[i - 1], Text[record.object].effect, record.targets[i].choice)
            ELSE f[i - 1]
    IN IF Bound(run.game, record) THEN f[Len(record.targets)] ELSE [run EXCEPT !.error = "InvalidChoice"]

(* execute_trigger for the abilities modelled.  `paid` is the answer of the *)
(* player an unless-paid ability asks.                                      *)
TriggerEffects(run, record, paid) ==
    LET does == AbilityOf(record.trigger).does
        source == SourceOf(record.trigger)
    IN CASE does = "sacrificeSource" ->
               Then(run, IF run.game.zone[source] = "battlefield" THEN "Ok" ELSE "InvalidChoice",
                    Move(run.game, source, "graveyard"))
         [] does = "draw" -> Then(run, "Ok", Draw(run.game, record.controller, 1))
         [] does = "drawUnlessPaid" -> IF paid THEN run ELSE Then(run, "Ok", Draw(run.game, record.controller, 1))

(* handle_resolution: first the conditional triggers, then what resolved. *)
HandleResolution(run, record, paid) ==
    LET retired == RetireConditional(run, record)
    IN IF retired.error # "Ok" \/ record.outcome # "Resolved" THEN retired
       ELSE IF record.trigger # None THEN TriggerEffects(retired, record, paid)
       ELSE SpellEffects(retired, record)

Ended(run) ==
    /\ game' = run.game
    /\ runtimes' = run.runtimes
    /\ conditional' = run.conditional
    /\ result' = run.error

(* Everybody passed: the kernel resolves the top and performs state-based   *)
(* actions on the way to its grant of priority, then the driver handles the *)
(* resolution record.                                                       *)
ResolveEntry ==
    /\ Running /\ game.pending = <<>> /\ game.stack # <<>>
    /\ LET record == Resolution(game)
           resolved == ResolveTop(game)
       IN \E dead \in Deaths(resolved) :
          \E paid \in BOOLEAN :
              /\ Ended(HandleResolution(Now(Bury(resolved, dead)), record, paid))
              /\ contexts' = {c \in contexts : c.entry # record.entry}
    /\ UNCHANGED <<registered, fuel>>

---------------------------------------------------------------------------
\* Putting triggers on the stack

(* Any order within one controller's triggers, the active player's first.   *)
Orders ==
    LET n == Len(game.pending)
        seat(p) == (p + Cardinality(Players) - Active(game)) % Cardinality(Players)
    IN {o \in [1 .. n -> 1 .. n] :
            /\ IsInjective(o)
            /\ \A i, j \in 1 .. n : i < j => seat(game.pending[o[i]].controller) <= seat(game.pending[o[j]].controller)}

(* triggering_player_for_pending: only an unless-paid ability asks for the  *)
(* player who drew, and finds the draw in the event log.                    *)
NeedsContext(pending) == AbilityOf(pending.trigger).does = "drawUnlessPaid"
\* Mutant: the latest event of the log is taken for the event that queued the trigger.
TriggeringEvent_Latest(pending) == {i \in {Len(game.log.events)} : i # 0}
TriggeringEvent(pending) == Recorded(game.log, pending.turn, pending.sequence)
ContextError(pending) ==
    IF ~NeedsContext(pending) THEN "Ok"
    ELSE IF TriggeringEvent(pending) = {} THEN "CannotRecoverEvent"
    ELSE IF \E i \in TriggeringEvent(pending) : game.log.events[i].event.kind # "drawn" THEN "UnsupportedEvent"
    ELSE "Ok"
PlayerOf(pending) == game.log.events[CHOOSE i \in TriggeringEvent(pending) : TRUE].event.player

PutTriggersOnStack ==
    /\ Running /\ game.pending # <<>>
    /\ \E o \in Orders :
       LET ordered == [i \in DOMAIN o |-> game.pending[o[i]]]
           failing == {i \in DOMAIN o : ContextError(ordered[i]) # "Ok"}
       IN \/ \E i \in failing :
             /\ \A j \in failing : i <= j
             /\ result' = ContextError(ordered[i])
             /\ UNCHANGED <<game, contexts>>
          \/ /\ failing = {}
             /\ \E dead \in Deaths(game) : game' = Bury(Drain(game, ordered), dead)
             /\ contexts' = contexts \cup
                  {[entry |-> game.nextEntry + i - 1, player |-> PlayerOf(ordered[i])] :
                        i \in {j \in DOMAIN o : NeedsContext(ordered[j])}}
             /\ UNCHANGED result
    /\ UNCHANGED <<tables, fuel>>

---------------------------------------------------------------------------
\* Turns

DrawCards(player, count) ==
    /\ Running /\ Burn /\ game.log.turn > 0
    /\ game' = Draw(game, player, count)
    /\ UNCHANGED <<tables, contexts, result>>

NewTurn ==
    /\ Running /\ game.stack = <<>> /\ game.pending = <<>>
    /\ game.log.turn < MaxTurn
    /\ game' = BeginTurn(game)
    /\ UNCHANGED <<tables, contexts, result, fuel>>

\* An error ends the run, and so does the last turn of the bound.
Over ==
    /\ ~Running \/ (game.log.turn = MaxTurn /\ game.stack = <<>> /\ game.pending = <<>>)
    /\ UNCHANGED vars

Next ==
    \/ \E p \in Players, c \in Cards : CastProgram(p, c)
    \/ \E p \in Players, n \in 1 .. 2 : DrawCards(p, n)
    \/ ResolveEntry
    \/ PutTriggersOnStack
    \/ NewTurn
    \/ Over

Spec == Init /\ [][Next]_vars
=============================================================================
