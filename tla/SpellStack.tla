----------------------------- MODULE SpellStack -----------------------------
(***************************************************************************)
(* The life of a spell in `GameState`: cards move between zones, spells and*)
(* abilities go on the stack with targets captured, resolve or are         *)
(* countered, and every event queues the triggered abilities subscribed to *)
(* it.  The state is one record, threaded through the kernel's own helpers *)
(* in the order the code calls them; `CardRuntime` turns them into the     *)
(* driver's steps.  Who may act when is `Kernel`'s subject and left out.   *)
(***************************************************************************)
EXTENDS EventLog, FiniteSets

CONSTANTS
    Players,            \* seats, 1 .. n in turn order
    Cards,              \* cards with a program
    Owner,              \* [Cards -> Players]
    Text,               \* [Cards -> program]: permanent, flash, spell effect, abilities
    None                \* no object, no trigger

Zones == {"library", "hand", "stack", "battlefield", "graveyard"}

ASSUME SpellStackAssumption ==
    /\ Players = 1 .. Cardinality(Players)
    /\ IsFiniteSet(Cards) /\ Owner \in [Cards -> Players]
    /\ None \notin Cards /\ None \notin Nat /\ None \notin Players /\ Cards \cap Nat = {}

(* What the compiler accepts of the programs modelled: the targets of an    *)
(* effect are of its class (stack entries or objects), and the one ability  *)
(* that depends on an alternate cost is the sacrifice of an evoked          *)
(* permanent when it enters.                                                *)
Abilities == [event : {"enters", "upkeep", "draws"}, alternate : {"none", "evoke"},
              does : {"draw", "drawUnlessPaid", "sacrificeSource"}]
Programs == [permanent : BOOLEAN, flash : BOOLEAN, alternates : SUBSET {"none", "evoke"},
             abilities : Seq(Abilities), effect : {"none", "destroy", "bounce", "reanimate", "counter"},
             targets : Seq({"permanent", "grave", "spell"})]

ProgramsFit ==
    /\ Text \in [Cards -> Programs]
    /\ \A c \in Cards :
          /\ Text[c].effect = "none" => Text[c].targets = <<>>
          /\ \A i \in DOMAIN Text[c].targets : Text[c].targets[i] = "spell" <=> Text[c].effect = "counter"
          /\ \A i, j \in DOMAIN Text[c].abilities :
                /\ Text[c].abilities[i].alternate # "none" => Text[c].abilities[i].event = "enters"
                /\ Text[c].abilities[i].alternate # "none" /\ Text[c].abilities[j].alternate # "none" => i = j
ASSUME ProgramAssumption == ProgramsFit

NewState == [zone |-> [c \in Cards |-> "hand"], stack |-> <<>>, subs |-> <<>>, pending |-> <<>>,
             log |-> NewLog, nextTrigger |-> 1, nextEntry |-> 1]

\* active_player: turns go round the table
Active(g) == 1 + ((g.log.turn + Cardinality(Players) - 1) % Cardinality(Players))

---------------------------------------------------------------------------
\* Triggers

(* trigger_condition_matches for the conditions a card program binds.  None *)
(* of them, nor the `Always` a program binds as its intervening condition,  *)
(* asks where the source is.                                                *)
Hears(g, sub, event) ==
    CASE sub.event = "enters" -> event.kind = "moved" /\ event.object = sub.source /\ event.to = "battlefield"
      [] sub.event = "upkeep" -> event.kind = "upkeep" /\ Active(g) = sub.controller
      [] sub.event = "draws"  -> event.kind = "drawn" /\ event.player # sub.controller

(* queue_triggered_abilities: everything that hears the record is pending,  *)
(* and a delayed-once subscription is gone.                                 *)
QueueTriggers(g, record) ==
    LET hearing == {s \in Range(g.subs) : Hears(g, s, record.event)}
        heard == Keep(g.subs, hearing)
    IN [g EXCEPT !.pending = @ \o [i \in DOMAIN heard |->
            [trigger |-> heard[i].trigger, controller |-> heard[i].controller, source |-> heard[i].source,
             turn |-> record.turn, sequence |-> record.sequence]],
                 !.subs = Keep(@, {s \in Range(@) : s \in hearing => ~s.once})]

\* emit_event
Emit(g, event) ==
    QueueTriggers([g EXCEPT !.log = AppendEvent(@, event)],
                  [sequence |-> g.log.next, turn |-> g.log.turn, event |-> event])

(* register_triggered_ability for each definition, in order: [event, once] *)
Register(g, controller, source, definitions) ==
    [g EXCEPT !.subs = @ \o [k \in DOMAIN definitions |->
                  [trigger |-> g.nextTrigger + k - 1, controller |-> controller, source |-> source,
                   event |-> definitions[k].event, once |-> definitions[k].once]],
              !.nextTrigger = @ + Len(definitions)]

\* unregister_triggered_ability: both of its refusals, then the removal
UnregisterError(g, trigger) ==
    IF \E i \in DOMAIN g.pending : g.pending[i].trigger = trigger THEN "PendingTriggeredAbilities"
    ELSE IF \A i \in DOMAIN g.subs : g.subs[i].trigger # trigger THEN "UnknownTrigger"
    ELSE "Ok"
Unregister(g, trigger) == [g EXCEPT !.subs = Keep(@, {s \in Range(@) : s.trigger # trigger})]

---------------------------------------------------------------------------
\* Objects and stack entries

\* move_object: a move within the zone is nothing, any other is an event
Move(g, card, to) ==
    IF g.zone[card] = to THEN g
    ELSE Emit([g EXCEPT !.zone[card] = to],
              [kind |-> "moved", object |-> card, to |-> to, player |-> None])

Push(g, entry) ==
    [g EXCEPT !.stack = Append(@, [entry EXCEPT !.id = g.nextEntry]), !.nextEntry = @ + 1]

EntryIds(g) == {e.id : e \in Range(g.stack)}
EntryNamed(g, id) == CHOOSE e \in Range(g.stack) : e.id = id

(* target_matches_kind for the three kinds of target the modelled spells have. *)
Matches(g, kind, choice) ==
    CASE kind = "permanent" -> choice \in Cards /\ g.zone[choice] = "battlefield"
      [] kind = "grave"     -> choice \in Cards /\ g.zone[choice] = "graveyard" /\ Text[choice].permanent
      [] kind = "spell"     -> choice \in EntryIds(g) /\ \E i \in DOMAIN g.stack :
                                  g.stack[i].id = choice /\ g.stack[i].object # None

\* capture_target_snapshots: the choice with the zone it is in now
Snapshot(g, kind, choice) ==
    [kind |-> kind, choice |-> choice, zone |-> IF choice \in Cards THEN g.zone[choice] ELSE "none"]

\* is_target_still_legal: the same zone as at the announcement, and a match
StillLegal(g, target) ==
    /\ target.choice \in Cards => g.zone[target.choice] = target.zone
    /\ Matches(g, target.kind, target.choice)

LegalChoices(g, kind) == {c \in Cards \cup EntryIds(g) : Matches(g, kind, c)}

(* cast_spell: from hand, permanents without flash only on an empty stack   *)
(* in one's own turn, a legal choice for each target; the card moves to the *)
(* stack before its entry is pushed.                                        *)
MayCast(g, player, card) ==
    /\ Owner[card] = player /\ g.zone[card] = "hand"
    /\ g.log.turn > 0
    /\ Text[card].permanent /\ ~Text[card].flash => g.stack = <<>> /\ Active(g) = player
Cast(g, player, card, choices) ==
    Push(Move(g, card, "stack"),
         [id |-> None, controller |-> player, object |-> card, trigger |-> None,
          targets |-> [i \in DOMAIN choices |-> Snapshot(g, Text[card].targets[i], choices[i])]])

Record(entry, outcome, legal) ==
    [entry |-> entry.id, controller |-> entry.controller, object |-> entry.object,
     trigger |-> entry.trigger, targets |-> entry.targets, legal |-> legal, outcome |-> outcome]

(* resolve_top_stack_entry.  All targets illegal counters the entry; its    *)
(* object goes to the battlefield or to its owner's graveyard.              *)
\* Mutant: one illegal target is enough to counter the entry.
Resolution_AnyIllegal(g) ==
    LET entry == Last(g.stack)
        legal == [i \in DOMAIN entry.targets |-> StillLegal(g, entry.targets[i])]
    IN Record(entry, IF \E i \in DOMAIN legal : ~legal[i] THEN "CounteredOnResolution" ELSE "Resolved", legal)
Resolution(g) ==
    LET entry == Last(g.stack)
        legal == [i \in DOMAIN entry.targets |-> StillLegal(g, entry.targets[i])]
    IN Record(entry,
              IF legal # <<>> /\ \A i \in DOMAIN legal : ~legal[i] THEN "CounteredOnResolution" ELSE "Resolved",
              legal)

Destination(record) ==
    IF record.outcome = "Resolved" /\ Text[record.object].permanent THEN "battlefield" ELSE "graveyard"

ResolveTop(g) ==
    LET record == Resolution(g)
        popped == [g EXCEPT !.stack = Front(@)]
    IN IF record.object = None THEN popped ELSE Move(popped, record.object, Destination(record))

(* counter_stack_entry: wherever in the stack the entry is. *)
\* Mutant: the card of a countered spell stays where it was.
Without(stack, id) == Keep(stack, {e \in Range(stack) : e.id # id})
Counter_LeavesCard(g, id) == [g EXCEPT !.stack = Without(@, id)]
Counter(g, id) ==
    LET object == EntryNamed(g, id).object
        removed == [g EXCEPT !.stack = Without(@, id)]
    IN IF object = None THEN removed ELSE Move(removed, object, "graveyard")
CounterRecord(g, id) ==
    LET entry == EntryNamed(g, id)
    IN Record(entry, "CounteredBySpell", [i \in DOMAIN entry.targets |-> TRUE])

(* put_pending_triggered_abilities_on_stack, in the order it is given. *)
Drain(g, order) ==
    [g EXCEPT !.pending = <<>>,
              !.stack = @ \o [k \in DOMAIN order |->
                  [id |-> g.nextEntry + k - 1, controller |-> order[k].controller, object |-> None,
                   trigger |-> order[k].trigger, targets |-> <<>>]],
              !.nextEntry = @ + Len(order)]

\* draw_cards: each card drawn is an event of its own
Draw(g, player, count) ==
    LET f[i \in 0 .. count] ==
            IF i = 0 THEN g
            ELSE Emit(f[i - 1], [kind |-> "drawn", object |-> None, to |-> "hand", player |-> player])
    IN f[count]

\* The creatures that state-based actions find dead go to the graveyard.
Bury(g, dead) ==
    LET f[i \in 0 .. Len(dead)] == IF i = 0 THEN g ELSE Move(f[i - 1], dead[i], "graveyard")
    IN f[Len(dead)]

\* start_turn with the beginning of its upkeep
BeginTurn(g) == Emit([g EXCEPT !.log = NextTurn(@)], [kind |-> "upkeep", object |-> None, to |-> "none", player |-> None])
=============================================================================
