---- MODULE MCGameRunner ----
(***************************************************************************)
(* Constants for model checking GameRunnerProperties: triggers of the      *)
(* event families that compiled cards watch (drawing, attacking, casting). *)
(***************************************************************************)
EXTENDS GameRunnerProperties

None == {}
NoController == [t \in {} |-> 0]

\* A creature for each player of a duel; the first strikes first.
DuelCreatures == {"bear", "knight"}
DuelOwner == [c \in DuelCreatures |-> IF c = "knight" THEN 0 ELSE 1]
Knight == {"knight"}

\* "study" watches draws of the other player, "charge" attacks, "tax" casts.
PlayTriggers == {"study", "charge"}
PlayController == [study |-> 1, charge |-> 0]
PlayWatches == [study |-> "CardDrawn", charge |-> "AttackDeclared"]
Choosing == {"Choosing"}
AllPolicies == {"Choosing", "Baseline"}
====
