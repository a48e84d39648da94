------------------------------- MODULE Damage -------------------------------
(***************************************************************************)
(* Damage in `GameState`: replacement and prevention effects, lifelink and *)
(* deathtouch, combat membership, and the state-based actions that follow. *)
(* The game is one record, threaded through the kernel's own helpers; what *)
(* it holds is said at NewGame of CombatDamage.                            *)
(***************************************************************************)
EXTENDS Layers, FiniteSetsExt

CONSTANT SbaLimit       \* SBA_FIXPOINT_LIMIT

ASSUME DamageAssumption == SbaLimit \in Nat \ {0}

NoObject == -1
Player(p) == <<"player", p>>
Object(o) == <<"object", o>>
IsPlayer(target) == target[1] = "player"

Over(g) == Cardinality(Players \ g.lost) <= 1

---------------------------------------------------------------------------
\* Characteristics and combat membership

Keywords(g, o) == Characteristics(g, o).keywords
Power(g, o) == Characteristics(g, o).power
Toughness(g, o) == Characteristics(g, o).toughness

IsActive(g, o) == o \in g.inPlay /\ IsCreature(Characteristics(g, o))
Attackers(g) == {a.object : a \in ToSet(g.attackers)}
Blockers(g) == {b.object : b \in ToSet(g.blockers)}

\* active_combat_creatures: attackers first, each in order of declaration
ActiveCreatures(g) ==
    SelectSeq([i \in DOMAIN g.attackers |-> g.attackers[i].object]
              \o [i \in DOMAIN g.blockers |-> g.blockers[i].object], LAMBDA o : IsActive(g, o))

RemoveFromCombat(g, o) ==
    [g EXCEPT !.attackers = [i \in DOMAIN SelectSeq(@, LAMBDA a : a.object # o) |->
                  LET a == SelectSeq(@, LAMBDA x : x.object # o)[i]
                  IN [a EXCEPT !.blockers = SelectSeq(@, LAMBDA b : b # o)]],
              !.blockers = SelectSeq(@, LAMBDA b : b.object # o),
              !.participants = @ \ {o}]

\* move_object from the battlefield to the graveyard
Bury(g, o) ==
    [RemoveFromCombat(g, o) EXCEPT !.inPlay = @ \ {o}, !.damage[o] = 0,
                                   !.deathtouched = @ \ {o}, !.counters[o] = 0]

---------------------------------------------------------------------------
\* State-based actions

Losing(g) == {p \in Players \ g.lost : g.life[p] <= 0}
Dying(g) ==
    {o \in g.inPlay : LET ch == Characteristics(g, o) IN
        /\ IsCreature(ch)
        /\ \/ ch.toughness <= 0
           \/ g.damage[o] > 0 /\ g.damage[o] >= ch.toughness
           \/ o \in g.deathtouched}

\* One round: everything collected is applied; deathtouch is looked at once.
ApplyStateBasedActions(g, losing, dying) ==
    [game |-> FoldSet(LAMBDA o, h : Bury(h, o),
                      [g EXCEPT !.lost = @ \cup losing, !.deathtouched = {}], dying),
     settled |-> losing = {} /\ dying = {}]

(* perform_state_based_actions: rounds until nothing is collected; still    *)
(* busy after SbaLimit of them, it fails.                                   *)
PerformStateBasedActions(g) ==
    LET Round(acc, i) ==
            IF acc.settled THEN acc
            ELSE ApplyStateBasedActions(acc.game, Losing(acc.game), Dying(acc.game))
        Fixpoint(last) ==
            IF last.settled THEN last.game ELSE [last.game EXCEPT !.error = "StateBasedActionLoop"]
    IN Fixpoint(FoldLeft(Round, [game |-> g, settled |-> FALSE], [i \in 1 .. SbaLimit |-> i]))

---------------------------------------------------------------------------
\* Replacement and prevention effects

\* damage_replacement_chooser: an object's stored controller, not the effective one
Chooser(target) == IF IsPlayer(target) THEN target[2] ELSE Base[target[2]].controller

\* replacement_condition_matches; a ward with no target watches every target
Matches(def, event) ==
    /\ def.combatOnly => event.combat
    /\ def.sources = "own" => event.source = def.source
    /\ def.targets = {} \/ event.target \in def.targets

Rank(g, chooser, id) ==
    LET order == g.orders[chooser]
    IN IF id \in ToSet(order) THEN CHOOSE i \in DOMAIN order : order[i] = id ELSE Len(order) + 1

\* next_damage_replacement's sort key: self-replacement, the chooser's order, the id
Precedes(g, chooser, a, b) ==
    LET Key(r) == <<IF r.def.self THEN 0 ELSE 1, Rank(g, chooser, r.id), r.id>>
        ka == Key(a)
        kb == Key(b)
    IN \E i \in 1 .. 3 : ka[i] < kb[i] /\ \A j \in 1 .. i - 1 : ka[j] = kb[j]

\* Mutant: an effect may be applied again to the event it has modified.
Candidates_Again(g, event, applied) == {r \in ToSet(g.replacements) : Matches(r.def, event)}

Candidates(g, event, applied) ==
    {r \in ToSet(g.replacements) : r.id \notin applied /\ Matches(r.def, event)}

Operate(def, amount) ==
    CASE def.op = "preventAll" -> 0
      [] def.op = "prevent"    -> IF amount > def.n THEN amount - def.n ELSE 0
      [] def.op = "add"        -> amount + def.n
      [] def.op = "double"     -> 2 * amount
      [] def.op = "set"        -> def.n

LoggedIds(log) == {log[k].id : k \in DOMAIN log}

(* apply_damage_replacement_effects: one after the other while damage is    *)
(* left; those that last once are gone afterwards.                          *)
ApplyReplacements(g, event) ==
    LET First(open) == CHOOSE a \in open : \A b \in open \ {a} : Precedes(g, Chooser(event.target), a, b)
        Logged(acc, id, after) ==
            [amount |-> after, log |-> Append(acc.log, [id |-> id, from |-> acc.amount, to |-> after])]
        ApplyOne(acc, r) == Logged(acc, r.id, Operate(r.def, acc.amount))
        ApplyFirst(acc, open) == IF acc.amount = 0 \/ open = {} THEN acc ELSE ApplyOne(acc, First(open))
        Spend(done) ==
            [amount |-> done.amount, log |-> done.log,
             game |-> [g EXCEPT !.replacements =
                          SelectSeq(@, LAMBDA r : ~(r.def.once /\ r.id \in LoggedIds(done.log)))]]
    IN Spend(FoldLeft(LAMBDA acc, i : ApplyFirst(acc, Candidates(g, event, LoggedIds(acc.log))),
                      [amount |-> event.amount, log |-> <<>>], g.replacements))

---------------------------------------------------------------------------
\* Damage

LoseLife(g, p, n) == [g EXCEPT !.life[p] = @ - n]
GainLife(g, p, n) == [g EXCEPT !.life[p] = @ + n]

\* mark_damage_on_object_unreplaced asks for stored creature characteristics
MarkDamage(g, o, n) ==
    IF "creature" \in Base[o].types THEN [g EXCEPT !.damage[o] = @ + n] ELSE [g EXCEPT !.error = "NotACreature"]

Hurt(g, event, n, deathtouch) ==
    IF n = 0 THEN g
    ELSE IF IsPlayer(event.target) THEN LoseLife(g, event.target[2], n)
    ELSE LET o == event.target[2]
             touched == IF deathtouch THEN [g EXCEPT !.deathtouched = @ \cup {o}] ELSE g
         IN IF event.combat \/ IsCreature(Characteristics(g, o)) THEN MarkDamage(touched, o, n)
            ELSE [touched EXCEPT !.error = "NotACreature"]

\* The damage event as it went: what was assigned, what replaced it, what was dealt.
Deal(g, event, keywords, step, gainer) ==
    LET Paid(hurt, n) == IF "lifelink" \in keywords THEN GainLife(hurt, gainer, n) ELSE hurt
        Dealt(hurt, replaced) ==
            IF hurt.error # "None" THEN hurt
            ELSE [Paid(hurt, replaced.amount) EXCEPT
                     !.dealt = Append(@, [event |-> event, step |-> step, log |-> replaced.log,
                                          amount |-> replaced.amount])]
        Struck(replaced) ==
            Dealt(Hurt(replaced.game, event, replaced.amount, "deathtouch" \in keywords), replaced)
    IN Struck(ApplyReplacements(g, event))

(* apply_combat_damage; its lifelink pays the stored controller of the      *)
(* source.                                                                  *)
ApplyCombatDamage(g, source, target, amount) ==
    IF g.error # "None" THEN g
    ELSE Deal(g, [source |-> source, target |-> target, amount |-> amount, combat |-> TRUE],
              Keywords(g, source), g.damageStep, Base[source].controller)

\* deal_noncombat_damage; its lifelink pays the effective controller
DealNoncombatDamage(g, source, target, amount) ==
    LET event == [source |-> source, target |-> target, amount |-> amount, combat |-> FALSE]
    IN IF source = NoObject THEN Deal(g, event, {}, "None", NoObject)
       ELSE Deal(g, event, Keywords(g, source), "None", Characteristics(g, source).controller)
=============================================================================
