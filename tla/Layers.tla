------------------------------- MODULE Layers -------------------------------
(***************************************************************************)
(* object_characteristics: what a permanent is, computed on demand from    *)
(* its stored record through the layers of the registered continuous       *)
(* effects.  The operators take the game state as a record of which they   *)
(* read inPlay, effects and counters.  Colour, text, supertypes and the    *)
(* devotion condition are left out: nothing here reads them.               *)
(***************************************************************************)
EXTENDS Integers, Sequences, FiniteSets, SequencesExt

CONSTANTS
    Players,
    Objects,    \* ObjectIds, in arena order
    Base        \* [Objects -> stored record]: controller, types, power, toughness, keywords

ASSUME LayersAssumption ==
    /\ Objects \subseteq Nat /\ IsFiniteSet(Objects)
    /\ \A o \in Objects : Base[o].controller \in Players

LayerOrder == <<"copy", "control", "type", "ability", "cda", "set", "modify", "switch">>

\* ContinuousEffectOperation::layer
LayerOf(op) ==
    CASE op \in {"setTypes", "addTypes", "removeTypes"} -> "type"
      [] op \in {"addKeywords", "removeKeywords"}       -> "ability"
      [] op = "setBase"                                 -> "cda"
      [] OTHER                                          -> op

IsCreature(ch) == "creature" \in ch.types

\* sync_creature_type: a creature by type alone is a 0/0, a non-creature has no numbers
Sync(ch) == IF IsCreature(ch) THEN ch ELSE [ch EXCEPT !.power = 0, !.toughness = 0, !.keywords = {}]

BaseCharacteristics(o) ==
    [controller |-> Base[o].controller, types |-> Base[o].types, power |-> Base[o].power,
     toughness |-> Base[o].toughness, keywords |-> Base[o].keywords]

BecomeCopy(ch, o, from) ==
    IF "creature" \in Base[from].types
    THEN [ch EXCEPT !.types = @ \cup {"creature"}, !.power = Base[from].power,
                    !.toughness = Base[from].toughness, !.keywords = Base[from].keywords]
    ELSE IF o = from THEN ch ELSE Sync([ch EXCEPT !.types = @ \ {"creature"}])

\* The operations that need a creature to work on.
ApplyToCreature(ch, def) ==
    CASE def.op = "addKeywords"    -> [ch EXCEPT !.keywords = @ \cup def.keywords]
      [] def.op = "removeKeywords" -> [ch EXCEPT !.keywords = @ \ def.keywords]
      [] def.op \in {"setBase", "set"} -> [ch EXCEPT !.power = def.power, !.toughness = def.toughness]
      [] def.op = "modify" -> [ch EXCEPT !.power = @ + def.power, !.toughness = @ + def.toughness]
      [] def.op = "switch" -> [ch EXCEPT !.power = ch.toughness, !.toughness = ch.power]

\* apply_continuous_effect
Apply(ch, o, def) ==
    CASE def.op = "copy"        -> BecomeCopy(ch, o, def.from)
      [] def.op = "control"     -> [ch EXCEPT !.controller = def.player]
      [] def.op = "setTypes"    -> Sync([ch EXCEPT !.types = def.types])
      [] def.op = "addTypes"    -> [ch EXCEPT !.types = @ \cup def.types]
      [] def.op = "removeTypes" -> Sync([ch EXCEPT !.types = @ \ def.types])
      [] OTHER                  -> IF IsCreature(ch) THEN ApplyToCreature(ch, def) ELSE ch

\* apply_power_toughness_counters: +1/+1 less -1/-1 counters
ApplyCounters(ch, n) ==
    IF IsCreature(ch) THEN [ch EXCEPT !.power = @ + n, !.toughness = @ + n] ELSE ch

(* continuous_effect_applies_to, against the characteristics the object had *)
(* before the effect's layer.                                               *)
AppliesTo(g, def, o, before) ==
    /\ def.duration = "whileSource" => def.source \in g.inPlay
    /\ CASE def.target.kind = "object"   -> def.target.object = o
         [] def.target.kind = "all"      -> TRUE
         [] def.target.kind = "matching" ->
              /\ o # def.target.excluded
              /\ def.target.yours => before.controller = def.controller
              /\ def.target.types \subseteq before.types

\* Mutant: the dependency edges are forgotten and timestamps alone decide.
InDependencyOrder_TimestampsOnly(pending) == pending

(* The first effect none of whose dependencies is still to come; in a       *)
(* cycle, the first of all.                                                 *)
NextInOrder(rest) ==
    LET Free(k) == \A j \in DOMAIN rest : rest[j].id \notin rest[k].def.dependencies
    IN IF \A k \in DOMAIN rest : ~Free(k) THEN 1
       ELSE CHOOSE k \in DOMAIN rest : Free(k) /\ \A j \in 1 .. k - 1 : ~Free(j)

InDependencyOrder(pending) ==
    LET Take(acc, k) == [done |-> Append(acc.done, acc.rest[k]), rest |-> RemoveAt(acc.rest, k)]
    IN FoldLeft(LAMBDA acc, i : Take(acc, NextInOrder(acc.rest)),
                [done |-> <<>>, rest |-> pending], pending).done

\* ordered_continuous_effects_for_layer: effects are kept in registration order
OrderedEffects(g, o, before, layer) ==
    LET applies(e) == LayerOf(e.def.op) = layer /\ AppliesTo(g, e.def, o, before)
        Earlier(a, b) == a.timestamp < b.timestamp \/ (a.timestamp = b.timestamp /\ a.id < b.id)
    IN InDependencyOrder(SortSeq(SelectSeq(g.effects, applies), Earlier))

Characteristics(g, o) ==
    LET Through(ch, layer) ==
            ApplyCounters(FoldLeft(LAMBDA c, e : Apply(c, o, e.def), ch, OrderedEffects(g, o, ch, layer)),
                          IF layer = "modify" THEN g.counters[o] ELSE 0)
    IN FoldLeft(Through, BaseCharacteristics(o), LayerOrder)

\* register_continuous_effect: validation, then a fresh id and a default timestamp
MayRegister(g, def) ==
    /\ def.duration = "whileSource" => def.source \in Objects
    /\ \A d \in def.dependencies : \E i \in DOMAIN g.effects : g.effects[i].id = d
RegisterContinuousEffect(g, def) ==
    [g EXCEPT !.effects = Append(@, [id |-> g.nextEffect, def |-> def,
                  timestamp |-> IF def.timestamp = 0 THEN g.nextEffect + 1 ELSE def.timestamp]),
              !.nextEffect = @ + 1]

\* expire_continuous_effects(UntilEndOfTurn)
ExpireContinuousEffects(g) ==
    [g EXCEPT !.effects = SelectSeq(@, LAMBDA e : e.def.duration # "untilEndOfTurn")]
=============================================================================
