---- MODULE Zones ----
(***************************************************************************)
(* Where every object of forge-core's GameState is and who may know it:    *)
(* the zones with their order, the known_objects the views are built from, *)
(* the opening hands with their mulligans, and the library searches of     *)
(* card programs, one instruction at a time.                               *)
(*                                                                         *)
(* A zone is <<kind, owner>>; a library's top is its last object.  Which   *)
(* of these moves a card or a rule asks for is not told apart: any object  *)
(* may be moved once play has begun.  What a draw from an empty library    *)
(* leads to is in Kernel; here it moves nothing.                           *)
(***************************************************************************)
EXTENDS Integers, Sequences, FiniteSets, Functions, Selection

CONSTANTS N,             \* number of players
          Cards,         \* the cards of all decks
          Tokens,        \* identifiers of the tokens that may be created
          Owner,         \* ObjectRecord::owner of both
          HandSize,      \* OPENING_HAND_SIZE
          MaxHandSize,   \* effective_max_hand_size
          MaxMulligans,  \* where the players' mulligan policies stop
          Destinations,  \* bound: the kinds of zone that effects move objects to
          Fuel           \* bound: voluntary actions after the game began

Players == 0 .. N - 1
NoPlayer == -1
Objects == Cards \cup Tokens
NoObject == "NoObject"

OwnedKinds == {"Library", "Hand", "Graveyard"}
SharedKinds == {"Battlefield", "Exile", "Stack", "Command", "Ceased"}
ZoneIds == (OwnedKinds \X Players) \cup (SharedKinds \X {NoPlayer})
Library(p) == <<"Library", p>>
Hand(p) == <<"Hand", p>>
Graveyard(p) == <<"Graveyard", p>>
Battlefield == <<"Battlefield", NoPlayer>>
Ceased == <<"Ceased", NoPlayer>>
\* The zone of a kind that an object goes to: its owner's, or the shared one.
ZoneFor(kind, o) == <<kind, IF kind \in OwnedKinds THEN Owner[o] ELSE NoPlayer>>

Deck(p) == {c \in Cards : Owner[c] = p}

ASSUME PlayersAssumption == N \in Nat \ {0}
ASSUME ObjectsAssumption ==
  /\ IsFiniteSet(Objects) /\ Cards \cap Tokens = {} /\ NoObject \notin Objects
  /\ Owner \in [Objects -> Players]
ASSUME OpeningAssumption ==
  /\ HandSize \in Nat /\ MaxHandSize \in Nat /\ MaxMulligans \in 0 .. HandSize
  /\ \A p \in Players : Cardinality(Deck(p)) >= HandSize
ASSUME ZonesBoundsAssumption ==
  Fuel \in Nat /\ Destinations \subseteq (OwnedKinds \cup SharedKinds) \ {"Ceased"}

VARIABLES
  zones,                        \* ZoneRecord::objects of every zone
  known,                        \* known_objects: <<observer, object>>
  starting, handsDrawn, begun,  \* starting_player, opening_hands_drawn, current_step set
  kept, mulligans,              \* opening_hand_kept and mulligans_taken
  found, todo,                  \* the object a search chose; what its program still does
  events,                       \* ObjectRevealed and ZoneShuffled events of the last action
  fuel                          \* voluntary actions left

openingVars == <<starting, handsDrawn, begun, kept, mulligans>>
searchVars == <<found, todo>>
vars == <<zones, known, openingVars, searchVars, events, fuel>>

----------------------------------------------------------------------------
(* Knowledge *)

HidesIdentity(z) == z[1] \in {"Hand", "Library"}

\* Mutant: only what leaves a public zone is remembered.
Learners_PublicOnly(from, to) ==
  IF HidesIdentity(to) /\ ~HidesIdentity(from) THEN Players ELSE {}

\* Who remembers an object that moves from one zone to another.
Learners(from, to) ==
  IF ~HidesIdentity(to) THEN {}
  ELSE IF ~HidesIdentity(from) THEN Players
  ELSE IF from[1] = "Hand" THEN {from[2]} ELSE {}

Remember(observers, S) == known \cup (observers \X S)

\* Mutant: a shuffle forgets nothing.
Forget_Nothing(S) == known

Forget(S) == {k \in known : k[2] \notin S}

\* The identities player_view shows to p.
PlayerView(p) ==
  {o \in Objects : \E z \in ZoneIds :
     o \in Range(zones[z]) /\ (HidesIdentity(z) => z = Hand(p) \/ <<p, o>> \in known)}

----------------------------------------------------------------------------
(* Sequences of objects *)

Orders(S) == Injection(1 .. Cardinality(S), S)
\* Some of the objects of S, in some order.
Selections(S) == UNION {Orders(T) : T \in SUBSET S}
Without(s, S) == Keep(s, Range(s) \ S)
\* The k objects popped from the end of s, in the order they are popped.
Popped(s, k) == [i \in 1 .. k |-> s[Len(s) + 1 - i]]
Fewer(a, b) == IF a < b THEN a ELSE b
TopObjects(s, k) == Range(SubSeq(s, Len(s) - k + 1, Len(s)))

\* Where objects are once those of the sequence objs have moved from one zone
\* to the end of another.
Moved(from, to, objs) ==
  [zones EXCEPT ![from] = Without(@, Range(objs)), ![to] = @ \o objs]

\* Mutant: the cards put on the bottom are copied there.
Bottomed_Copies(p, bottom) == [zones EXCEPT ![Library(p)] = bottom \o @]

Bottomed(p, bottom) ==
  [zones EXCEPT ![Hand(p)] = Without(@, Range(bottom)), ![Library(p)] = bottom \o @]

\* zs after p drew n cards, or all there are.
Drawn(zs, p, n) ==
  LET lib == zs[Library(p)]
      k == Fewer(n, Len(lib))
  IN [zs EXCEPT ![Library(p)] = SubSeq(lib, 1, Len(lib) - k), ![Hand(p)] = @ \o Popped(lib, k)]

----------------------------------------------------------------------------
(* The opening *)

DecideTurnOrder ==
  /\ starting = NoPlayer /\ starting' \in Players
  /\ events' = {}
  /\ UNCHANGED <<zones, known, handsDrawn, begun, kept, mulligans, searchVars, fuel>>

DrawOpeningHands ==
  /\ starting # NoPlayer /\ ~handsDrawn /\ handsDrawn' = TRUE
  /\ zones' = [z \in ZoneIds |->
                 IF z[1] \in {"Library", "Hand"} THEN Drawn(zones, z[2], HandSize)[z]
                 ELSE zones[z]]
  /\ events' = {}
  /\ UNCHANGED <<known, starting, begun, kept, mulligans, searchVars, fuel>>

Deciding(p) == handsDrawn /\ p \notin kept

\* The policies settle for a hand at their floor; the kernel has none.
MayMulligan(p) == mulligans[p] < MaxMulligans

\* The hand goes back where its owner knows it, and the shuffle forgets it.
AfterMulligan(p, S) ==
  {k \in Remember(Learners(Hand(p), Library(p)), Range(zones[Hand(p)])) : k[2] \notin S}

\* Mutant: a mulligan is not counted.
OneMoreMulligan_Uncounted(p) == mulligans

OneMoreMulligan(p) == [mulligans EXCEPT ![p] = @ + 1]

TakeMulligan(p) ==
  /\ Deciding(p) /\ MayMulligan(p)
  /\ LET S == Range(zones[Hand(p)]) \cup Range(zones[Library(p)])
     IN /\ \E order \in Orders(S) :
             zones' = Drawn([zones EXCEPT ![Library(p)] = order, ![Hand(p)] = <<>>], p, HandSize)
        /\ known' = AfterMulligan(p, S)
  /\ mulligans' = OneMoreMulligan(p)
  /\ events' = {<<"ZoneShuffled", p>>}
  /\ UNCHANGED <<starting, handsDrawn, begun, kept, searchVars, fuel>>

\* The cards that a kept hand owes to the bottom of the library.
MustBottom(p) == mulligans[p]

KeepOpeningHand(p) ==
  /\ Deciding(p) /\ kept' = kept \cup {p}
  /\ \E bottom \in Selections(Range(zones[Hand(p)])) :
       /\ Len(bottom) = MustBottom(p)
       /\ zones' = Bottomed(p, bottom)
       /\ known' = Remember(Learners(Hand(p), Library(p)), Range(bottom))
  /\ events' = {}
  /\ UNCHANGED <<starting, handsDrawn, begun, mulligans, searchVars, fuel>>

AllKept == kept = Players

StartTurn ==
  /\ starting # NoPlayer /\ handsDrawn /\ AllKept /\ ~begun
  /\ begun' = TRUE /\ events' = {}
  /\ UNCHANGED <<zones, known, starting, handsDrawn, kept, mulligans, searchVars, fuel>>

----------------------------------------------------------------------------
(* Moves in play.  A card program that is searching runs to its end before  *)
(* anything else happens.                                                   *)

Playing == begun /\ todo = <<>>
Spend == fuel > 0 /\ fuel' = fuel - 1
Play == Playing /\ Spend /\ UNCHANGED <<openingVars, searchVars>>

ZoneOf(o) == CHOOSE z \in ZoneIds : o \in Range(zones[z])
Exists(o) == \E z \in ZoneIds : o \in Range(zones[z])

\* move_object, as effects, costs, casting and resolution use it.
MoveTo(o, to) ==
  IF ZoneOf(o) = to THEN UNCHANGED <<zones, known>>
  ELSE /\ zones' = Moved(ZoneOf(o), to, <<o>>)
       /\ known' = Remember(Learners(ZoneOf(o), to), {o})

MoveObject(o, kind) ==
  /\ Play /\ Exists(o) /\ ZoneOf(o) # Ceased
  /\ MoveTo(o, ZoneFor(kind, o)) /\ events' = {}

DrawCards(p) ==
  /\ Play /\ zones' = Drawn(zones, p, 1) /\ events' = {} /\ UNCHANGED known

ShuffledLibrary(p) ==
  /\ \E order \in Orders(Range(zones[Library(p)])) : zones' = [zones EXCEPT ![Library(p)] = order]
  /\ known' = Forget(Range(zones[Library(p)]))
  /\ events' = {<<"ZoneShuffled", p>>}

ShuffleLibrary(p) == Play /\ ShuffledLibrary(p)

\* The cards of the top count that go to the bottom keep the order given.
Scry(p, count) ==
  /\ Play /\ count <= Len(zones[Library(p)])
  /\ \E bottom \in Selections(TopObjects(zones[Library(p)], count)) :
       zones' = [zones EXCEPT ![Library(p)] = bottom \o Without(@, Range(bottom))]
  /\ events' = {} /\ UNCHANGED known

Surveil(p, count) ==
  /\ Play /\ count <= Len(zones[Library(p)])
  /\ \E away \in Selections(TopObjects(zones[Library(p)], count)) :
       zones' = Moved(Library(p), Graveyard(p), away)
  /\ events' = {} /\ UNCHANGED known

\* The cleanup discard takes the last cards of the hand.
DiscardToMaxHandSize(p) ==
  /\ Play /\ Len(zones[Hand(p)]) > MaxHandSize
  /\ zones' = Moved(Hand(p), Graveyard(p),
                    Popped(zones[Hand(p)], Len(zones[Hand(p)]) - MaxHandSize))
  /\ events' = {} /\ UNCHANGED known

CreateToken(t) ==
  /\ Play /\ ~Exists(t)
  /\ zones' = [zones EXCEPT ![Battlefield] = Append(@, t)]
  /\ events' = {} /\ UNCHANGED known

\* Tokens outside the battlefield cease to exist with the next state-based actions.
Stray == {t \in Tokens : Exists(t) /\ ZoneOf(t) \notin {Battlefield, Ceased}}

TokensCease ==
  /\ Playing /\ Stray # {}
  /\ \E order \in Orders(Stray) :
       zones' = [z \in ZoneIds |-> IF z = Ceased THEN zones[z] \o order
                                   ELSE Without(zones[z], Stray)]
  /\ events' = {}
  /\ UNCHANGED <<known, openingVars, searchVars, fuel>>

----------------------------------------------------------------------------
(* Library searches *)

\* What the search programs do with the card they find.
Programs == {<<"Reveal", "Hand", "Shuffle">>, <<"Hand", "Shuffle">>,
             <<"Battlefield", "Shuffle">>, <<"Reveal", "Shuffle", "Top">>}

SearchLibrary(p) ==
  /\ Playing /\ Spend
  /\ found' \in Range(zones[Library(p)]) /\ todo' \in Programs
  /\ events' = {} /\ UNCHANGED <<zones, known, openingVars>>

RevealObjects(o) ==
  /\ known' = Remember(Players, {o}) /\ events' = {<<"ObjectRevealed", o>>} /\ UNCHANGED zones

\* Only the order of the library changes.
PutObjectOnTopOfLibrary(o) ==
  /\ o \in Range(zones[Library(Owner[o])])
  /\ zones' = [zones EXCEPT ![Library(Owner[o])] = Append(Without(@, {o}), o)]
  /\ events' = {} /\ UNCHANGED known

ContinueSearch ==
  /\ todo # <<>> /\ todo' = Tail(todo)
  /\ found' = IF todo' = <<>> THEN NoObject ELSE found
  /\ \/ Head(todo) = "Reveal" /\ RevealObjects(found)
     \/ Head(todo) = "Shuffle" /\ ShuffledLibrary(Owner[found])
     \/ Head(todo) = "Top" /\ PutObjectOnTopOfLibrary(found)
     \/ /\ Head(todo) \in {"Hand", "Battlefield"}
        /\ MoveTo(found, ZoneFor(Head(todo), found)) /\ events' = {}
  /\ UNCHANGED <<openingVars, fuel>>

----------------------------------------------------------------------------
\* Shuffled decks, and nobody knows a card.
Init ==
  /\ \E order \in [Players -> UNION {Orders(Deck(p)) : p \in Players}] :
       /\ \A p \in Players : order[p] \in Orders(Deck(p))
       /\ zones = [z \in ZoneIds |-> IF z[1] = "Library" THEN order[z[2]] ELSE <<>>]
  /\ known = {}
  /\ starting = NoPlayer /\ handsDrawn = FALSE /\ begun = FALSE
  /\ kept = {} /\ mulligans = [p \in Players |-> 0]
  /\ found = NoObject /\ todo = <<>> /\ events = {} /\ fuel = Fuel

Opening == \/ DecideTurnOrder
           \/ DrawOpeningHands
           \/ \E p \in Players : TakeMulligan(p) \/ KeepOpeningHand(p)
           \/ StartTurn

InPlay ==
  \/ \E o \in Objects, kind \in Destinations : MoveObject(o, kind)
  \/ \E p \in Players : DrawCards(p) \/ ShuffleLibrary(p) \/ DiscardToMaxHandSize(p)
  \/ \E p \in Players, count \in 1 .. 2 : Scry(p, count) \/ Surveil(p, count)
  \/ \E t \in Tokens : CreateToken(t)
  \/ TokensCease
  \/ \E p \in Players : SearchLibrary(p)
  \/ ContinueSearch

\* The instance's budget is spent.
Rest == Playing /\ fuel = 0 /\ UNCHANGED vars

Next == Opening \/ InPlay \/ Rest

Spec == Init /\ [][Next]_vars
====
