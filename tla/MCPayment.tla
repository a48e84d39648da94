------------------------------ MODULE MCPayment ------------------------------
(***************************************************************************)
(* Five lands of two colours and none, an X spell, a spell with two X and  *)
(* a commander, and two permanents that make spells cheaper.               *)
(***************************************************************************)
EXTENDS PaymentProperties

CONSTANTS plains, isle, grove, waste, relic, blaze, mirror, captain, medallion, herald

TwoColors == <<"white", "blue">>
FiveLands == {plains, isle, grove, waste, relic}
Mana(w, u, c) == [k \in {"white", "blue", "colorless"} |->
                    CASE k = "white" -> w [] k = "blue" -> u [] k = "colorless" -> c]
LandMana == [l \in FiveLands |->
    CASE l = plains -> Mana(1, 0, 0) [] l = isle -> Mana(0, 1, 0) [] l = grove -> Mana(1, 0, 0)
      [] l = waste -> Mana(0, 0, 1) [] l = relic -> Mana(0, 0, 2)]
Cost(w, u, generic, xCount) ==
    [colored |-> [k \in {"white", "blue"} |-> IF k = "white" THEN w ELSE u],
     generic |-> generic, xCount |-> xCount, xValue |-> 0]
ThreeSpells == {blaze, mirror, captain}
SpellCosts == [s \in ThreeSpells |->
    CASE s = blaze -> Cost(1, 0, 0, 1) [] s = mirror -> Cost(0, 0, 1, 2) [] s = captain -> Cost(0, 1, 1, 0)]
TwoReducers == {medallion, herald}
Reduction == [r \in TwoReducers |-> IF r = medallion THEN 1 ELSE 2]
ReducedSpells == [r \in TwoReducers |-> IF r = medallion THEN ThreeSpells ELSE {blaze, captain}]
=============================================================================
