---- MODULE ZonesProperties ----
(***************************************************************************)
(* What must hold of zones and knowledge.  Two history variables keep who  *)
(* has been shown which object: they watch public zones, the hands of      *)
(* their owners and the events that reveal and shuffle, and the views that *)
(* GameState builds from known_objects must lie between them.  Whether a   *)
(* player who was shown an object still knows where it is, is another      *)
(* question, that of Onlooker.                                             *)
(***************************************************************************)
EXTENDS Zones

VARIABLES
  seen,   \* <<p, o>>: p was shown o, and no library with o in it was shuffled since
  shown   \* the same, but a card set aside from a shuffle may stay known

----------------------------------------------------------------------------
(* What the players can see of a state, and of a step *)

InSight ==
  UNION {{p} \X {o \in Objects : \E z \in ZoneIds :
                   o \in Range(zones[z]) /\ (z[1] \in {"Hand", "Library"} => z = Hand(p))} :
         p \in Players}

ShownNow == {o \in Objects : <<"ObjectRevealed", o>> \in events}

\* A shuffle hides what is in the library before it and what it puts there.
Mixed ==
  UNION {Range(zones[Library(p)]) \cup Range(zones'[Library(p)]) :
         p \in {q \in Players : <<"ZoneShuffled", q>> \in events'}}

\* A card found by a search lies outside the library while the rest is
\* shuffled, if it is to be put on top afterwards.
SetAside == IF todo # <<>> /\ Head(todo) = "Shuffle" /\ Tail(todo) # <<>> THEN {found} ELSE {}

SeenInit == Init /\ seen = InSight /\ shown = InSight
SeenNext ==
  /\ Next
  /\ seen' = {k \in seen : k[2] \notin Mixed} \cup InSight' \cup (Players \X ShownNow')
  /\ shown' = {k \in shown : k[2] \notin Mixed \ SetAside} \cup InSight' \cup (Players \X ShownNow')
SeenSpec == SeenInit /\ [][SeenNext]_<<vars, seen, shown>>

----------------------------------------------------------------------------
(* Safety *)

Slots(o) ==
  {s \in ZoneIds \X (1 .. Cardinality(Objects)) :
     s[2] \in DOMAIN zones[s[1]] /\ zones[s[1]][s[2]] = o}

\* No draw, mulligan, bottoming, search, discard or state-based action loses
\* or duplicates an object: a card is in exactly one place, and so is a token
\* from its creation on, the ceased zone included.
EveryObjectInOnePlace ==
  /\ \A c \in Cards : Cardinality(Slots(c)) = 1
  /\ \A t \in Tokens : Cardinality(Slots(t)) <= 1

\* A view shows a player only objects that were shown to them, in public, in
\* their own hand or by a reveal, since the last shuffle that could have hidden
\* them.  That the player can still tell which object it is, is not claimed.
ViewsShowOnlyWhatWasShown ==
  \A p \in Players : \A o \in PlayerView(p) : <<p, o>> \in shown

\* A view never forgets without a shuffle: what a player was shown stays
\* visible to them when it moves on into a hand or a library.
SightIsRemembered ==
  \A k \in seen : k[2] \in PlayerView(k[1])

----------------------------------------------------------------------------
(* Progress.  The driver's setup is straight-line code: it decides the turn *)
(* order, draws, asks each seat until it keeps, and starts the first turn.  *)

FairSeen == SeenSpec /\ WF_vars(Opening)

\* The opening comes to an end: mulligans cannot go on forever, and a hand
\* that policies settle for can always be kept.
GameStarts == <>begun

====
