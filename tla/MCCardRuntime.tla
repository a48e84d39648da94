--------------------------- MODULE MCCardRuntime ---------------------------
(***************************************************************************)
(* Two players: a creature with flash that draws each upkeep, an evoked    *)
(* creature, a tax on draws, and four spells that destroy, return, counter *)
(* or raise them.                                                          *)
(***************************************************************************)
EXTENDS CardRuntimeProperties

CONSTANTS sprite, drifter, tax, doom, recall, denial, raise

Program(permanent, flash, alternates, abilities, effect, targets) ==
    [permanent |-> permanent, flash |-> flash, alternates |-> alternates, abilities |-> abilities,
     effect |-> effect, targets |-> targets]
Ability(event, alternate, does) == [event |-> event, alternate |-> alternate, does |-> does]

SevenCards == {sprite, drifter, tax, doom, recall, denial, raise}
CardTexts == [c \in SevenCards |->
    CASE c = sprite -> Program(TRUE, TRUE, {"none"}, <<Ability("upkeep", "none", "draw")>>, "none", <<>>)
      [] c = drifter -> Program(TRUE, FALSE, {"none", "evoke"},
                        <<Ability("enters", "none", "draw"), Ability("enters", "evoke", "sacrificeSource")>>, "none", <<>>)
      [] c = tax -> Program(TRUE, FALSE, {"none"}, <<Ability("draws", "none", "drawUnlessPaid")>>, "none", <<>>)
      [] c = doom -> Program(FALSE, FALSE, {"none"}, <<>>, "destroy", <<"permanent", "permanent">>)
      [] c = recall -> Program(FALSE, FALSE, {"none"}, <<>>, "bounce", <<"permanent">>)
      [] c = denial -> Program(FALSE, FALSE, {"none"}, <<>>, "counter", <<"spell">>)
      [] c = raise -> Program(FALSE, FALSE, {"none"}, <<>>, "reanimate", <<"grave">>)]
CardOwner == [c \in SevenCards |-> IF c \in {sprite, drifter, recall, raise} THEN 1 ELSE 2]
TwoPlayers == {1, 2}
=============================================================================
