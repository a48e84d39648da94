-------------------------- MODULE DamageProperties --------------------------
(***************************************************************************)
(* What one combat's damage must respect, whatever spells resolve in it.   *)
(***************************************************************************)
EXTENDS CombatDamage

Ids(entry) == {entry.log[k].id : k \in DOMAIN entry.log}

New == Len(game.dealt) + 1 .. Len(game'.dealt)

(* CR 614.5, 615 and 616.1: a replacement effect modifies an event at most *)
(* once and takes it as the one before left it; one that lasts once is used *)
(* by one event of the game; damage that is dealt has met every effect that *)
(* applies to it, self-replacement effects first, then in the order the     *)
(* affected player chose.                                                   *)
ReplacementsTakeTurns ==
    [][\A i \in New :
        LET e == game'.dealt[i]
            order == game.orders[Chooser(e.event.target)]
            Known(id) == CHOOSE r \in ToSet(game.replacements) : r.id = id
            Self(k) == Known(e.log[k].id).def.self
        IN /\ Cardinality(Ids(e)) = Len(e.log)
           /\ \A k \in DOMAIN e.log : e.log[k].from = IF k = 1 THEN e.event.amount ELSE e.log[k - 1].to
           /\ \A id \in Ids(e) : Known(id).def.once => \A j \in 1 .. i - 1 : id \notin Ids(game'.dealt[j])
           /\ e.amount # 0 => \A r \in ToSet(game'.replacements) : Matches(r.def, e.event) => r.id \in Ids(e)
           /\ \A k, l \in DOMAIN e.log : k < l =>
                /\ Self(l) => Self(k)
                /\ Self(k) = Self(l) =>
                     ~\E a, b \in DOMAIN order : a < b /\ order[a] = e.log[l].id /\ order[b] = e.log[k].id]_vars

(* The driver's step-by-step choice of a division and the kernel's check of *)
(* the finished request agree: what the choices can reach is exactly what   *)
(* the check accepts, so no game is lost to a refused request and no legal  *)
(* division is out of a player's reach.                                     *)
DivisionsAreTheValidOnes ==
    AssigningDamage => \A o \in ToSet(EligibleSources(game)) :
        LET profile == Profile(game, o)
        IN profile.total > 0 =>
             DriverDivisions(game, o, profile) = {d \in Divisions(profile) : IsValid(game, o, d)}

(* CR 702.7b and 702.4b: a creature that dealt damage with the first        *)
(* strikers deals none with the others unless it has double strike then.    *)
NobodyStrikesTwice ==
    [][\A i \in New : LET o == game'.dealt[i].event.source IN
        game.step = "CombatDamage" /\ game'.dealt[i].event.combat
        /\ (\E k \in DOMAIN game.dealt : game.dealt[k].event.combat /\ game.dealt[k].event.source = o)
        => "doubleStrike" \in Keywords(game, o)]_vars

(* CR 514.2: damage wears off in the same moment as what lasts until end of *)
(* turn; no creature dies in the cleanup step of damage it survived.        *)
NobodyDiesOfOldDamage ==
    [][game.step # "Cleanup" /\ game'.step = "Cleanup" =>
        \A o \in game.inPlay \ game'.inPlay : Toughness(WearOff(game), o) <= 0]_vars

(* CR 613.8: within a layer an effect that depends on another is applied    *)
(* after it whatever their timestamps, and otherwise the earlier timestamp  *)
(* goes first.                                                              *)
DependenciesComeFirst ==
    \A o \in game.inPlay : \A layer \in ToSet(LayerOrder) :
        LET order == OrderedEffects(game, o, BaseCharacteristics(o), layer)
            DependsOn(i, j) == order[j].id \in order[i].def.dependencies
        IN \A i, j \in DOMAIN order : i < j =>
            /\ ~DependsOn(i, j)
            /\ order[i].timestamp > order[j].timestamp =>
                  \E k \in i .. j - 1 : DependsOn(j, k)
=============================================================================
