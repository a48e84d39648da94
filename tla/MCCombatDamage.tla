--------------------------- MODULE MCCombatDamage ---------------------------
(***************************************************************************)
(* A trampler with lifelink and a first striker, who can make the trampler *)
(* tougher, against a double striker with deathtouch and a plain creature. *)
(***************************************************************************)
EXTENDS DamageProperties

Creature(p, power, toughness, keywords) ==
    [controller |-> p, types |-> {"creature"}, power |-> power, toughness |-> toughness, keywords |-> keywords]

TwoPlayers == {1, 2}
FourCreatures == 1 .. 4
Stored == <<Creature(1, 3, 1, {"trample", "lifelink"}), Creature(1, 1, 2, {"firstStrike"}),
            Creature(2, 1, 1, {"doubleStrike", "deathtouch"}), Creature(2, 1, 1, {})>>

Charm(op, source, target, duration, timestamp) ==
    [op |-> op, source |-> source, controller |-> Stored[source].controller, target |-> target,
     duration |-> duration, timestamp |-> timestamp, dependencies |-> {},
     power |-> 0, toughness |-> 1, keywords |-> {"firstStrike"}]
One(o) == [kind |-> "object", object |-> o]
Team(o) == [kind |-> "matching", excluded |-> o, yours |-> TRUE, types |-> {"creature"}]

Anthem == Charm("modify", 2, Team(2), "whileSource", 0)
Growth == Charm("modify", 1, One(1), "untilEndOfTurn", 1)
Disarm == Charm("removeKeywords", 4, One(2), "untilEndOfTurn", 0)
ManyCharms == {Anthem, Growth, Disarm}

Ward(p, targets, op, n, self, once) ==
    [controller |-> p, source |-> 4, combatOnly |-> FALSE, sources |-> "any", targets |-> targets,
     op |-> op, n |-> n, self |-> self, once |-> once]
ManyWards == {Ward(2, {Player(2)}, "prevent", 1, FALSE, TRUE),
              Ward(1, {}, "double", 0, FALSE, FALSE),
              Ward(1, {Object(3)}, "add", 1, TRUE, FALSE)}

ManyBurns == {[source |-> 1, target |-> Object(3), amount |-> 1],
              [source |-> 1, target |-> Player(2), amount |-> 2]}
=============================================================================
