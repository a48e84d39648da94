---- MODULE MCZones ----
(***************************************************************************)
(* Two players with decks of three and two cards and one token: enough for *)
(* a library whose order matters, for an opponent, and for every move.     *)
(***************************************************************************)
EXTENDS ZonesProperties

TwoDecks == {"bolt", "ring", "elf", "bear", "tutor"}
TwoTokens == {"goblin"}
TwoOwner ==
  [o \in TwoDecks \cup TwoTokens |-> IF o \in {"bear", "tutor"} THEN 1 ELSE 0]
MovesTo == {"Hand", "Library", "Battlefield"}
====
