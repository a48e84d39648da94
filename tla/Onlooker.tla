---- MODULE Onlooker ----
(***************************************************************************)
(* Somebody at the table who remembers everything and cannot see through   *)
(* cards.  followed is what they can name of the objects in hidden zones:  *)
(* unlike the code's known_objects, it loses what a secret choice among    *)
(* hidden cards mixes up.                                                  *)
(*                                                                         *)
(* The moves of MoveObject name their object to the table, as targets are  *)
(* named; a scry counts as followed, although only its player knows which  *)
(* cards went to the bottom.                                               *)
(***************************************************************************)
EXTENDS ZonesProperties

VARIABLE followed   \* <<p, o>>: p can tell which of the cards at the table o is

\* A card taken from the library into a hand without being shown may be any
\* card of that library, but for the player who took it.
TakenUnseen ==
  IF todo # <<>> /\ Head(todo) = "Hand" /\ found \notin ShownNow /\ Len(zones[Library(Owner[found])]) > 1
  THEN (Players \ {Owner[found]}) \X Range(zones[Library(Owner[found])])
  ELSE {}

OnlookerInit == SeenInit /\ followed = InSight
OnlookerNext ==
  /\ SeenNext
  /\ followed' = {k \in followed \ TakenUnseen : k[2] \notin Mixed \ SetAside}
                    \cup InSight' \cup (Players \X ShownNow')
OnlookerSpec == OnlookerInit /\ [][OnlookerNext]_<<vars, seen, shown, followed>>

----------------------------------------------------------------------------
(* What the code does not keep. *)

\* FORGE_REBUILD_MASTER_PLAN.md:689 wants "an AI that is honest (no
\* hidden-info peeking)": player_view names no object, once a search has run to
\* its end, that its player could not name.
ViewsAreHonest ==
  todo = <<>> => \A p \in Players : \A o \in PlayerView(p) : <<p, o>> \in followed
====
