------------------------ MODULE CardRuntimeProperties ------------------------
(***************************************************************************)
(* What holds of cards, stack entries, subscriptions and the event log,    *)
(* and a sentence of the rules, by which the repository settles questions, *)
(* that the code does not keep.                                            *)
(***************************************************************************)
EXTENDS CardRuntime

VARIABLES
    turnStart,      \* history: the next sequence number when the turn began
    strayed         \* history: <<entry, card>>, the card has left the zone it was announced in

(* The targets that are not where they were announced.  No dispatch takes a *)
(* target out of its zone and puts it back, so none that left is missed.    *)
Absent(g) == UNION {{<<e.id, t.choice>> : t \in {x \in Range(e.targets) : x.choice \in Cards /\ g.zone[x.choice] # x.zone}} :
                    e \in Range(g.stack)}

SeenInit == Init /\ turnStart = 0 /\ strayed = {}
SeenNext ==
    /\ Next
    /\ turnStart' = IF game'.log.turn # game.log.turn THEN game.log.next ELSE turnStart
    /\ strayed' = {s \in strayed : s[1] \in EntryIds(game')} \cup Absent(game')
SeenSpec == SeenInit /\ [][SeenNext]_<<vars, turnStart, strayed>>

EntriesOf(card) == {i \in DOMAIN game.stack : game.stack[i].object = card}

(* A card is in the stack zone exactly while one stack entry is about it:   *)
(* resolving, countering (from anywhere in the stack) and fizzling remove   *)
(* the entry and move the card together.                                    *)
CardsMatchEntries ==
    \A c \in Cards : Cardinality(EntriesOf(c)) = IF game.zone[c] = "stack" THEN 1 ELSE 0

(* The subscriptions are what the casts so far call for: one for each       *)
(* unconditional ability of a card that was ever cast, however often and    *)
(* wherever it is now, and one for a conditional ability exactly while the  *)
(* spell cast for that alternate cost is on the stack.                      *)
SubscriptionsAreExact ==
    Running => \A c \in Cards : \A a \in DOMAIN Text[c].abilities :
        LET live == {i \in DOMAIN game.subs : [trigger |-> game.subs[i].trigger, source |-> c, ability |-> a] \in runtimes}
            due == IF Text[c].abilities[a].alternate = "none" THEN c \in registered
                   ELSE conditional[c] # <<>> /\ game.zone[c] = "stack"
        IN Cardinality(live) = IF due THEN 1 ELSE 0

(* Every unless-paid ability on the stack knows the player who drew, and    *)
(* the lookup in the event log fails only when the ring has dropped that    *)
(* draw since.                                                              *)
TriggersKnowTheirPlayer ==
    /\ \A i \in DOMAIN game.stack :
           game.stack[i].trigger # None /\ AbilityOf(game.stack[i].trigger).does = "drawUnlessPaid" =>
               \E c \in contexts : c.entry = game.stack[i].id /\ c.player \in Players \ {game.stack[i].controller}
    /\ result = "CannotRecoverEvent" =>
           \E i \in DOMAIN game.pending : game.log.next - game.pending[i].sequence > Capacity

(* A reader who took a cursor at any moment of this turn gets every event   *)
(* since then in order, or is told that the ring has dropped some.          *)
ReaderMissesNothing ==
    \A n \in turnStart .. game.log.next :
        LET cursor == [turn |-> game.log.turn, next |-> n]
            read == EventsSince(game.log, cursor)
        IN IF game.log.next - n > Capacity THEN CursorError(game.log, cursor) = "CursorTooOld"
           ELSE /\ CursorError(game.log, cursor) = "None"
                /\ Len(read) = game.log.next - n
                /\ \A i \in DOMAIN read : read[i].sequence = n + i - 1

\* Where the text of the three effects on cards sends them.
Fate == [destroy |-> "graveyard", bounce |-> "hand", reanimate |-> "battlefield"]
Stays(c) == game'.zone[c] = game.zone[c] \/ (c \in Mortal /\ game'.zone[c] = "graveyard")

\* The entry on top goes, the others stay, and what it does is done.
EffectRuns(entry) ==
    /\ game.stack # <<>> /\ game'.stack = Front(game.stack) /\ entry.object # None
    /\ Text[entry.object].effect \in DOMAIN Fate /\ result' = "Ok"
\* The kernel counts the card among the legal targets of the entry.
AimsAt(entry, c) == \E i \in DOMAIN entry.targets : entry.targets[i].choice = c /\ StillLegal(game, entry.targets[i])

(* When a spell leaves the top of the stack and other entries stay, each of *)
(* its targets that has stayed where it was announced gets its effect, and  *)
(* no other card moves but the spell itself and the dead.  Nothing is said  *)
(* of a target that has been away and is back: the code takes it for the    *)
(* one announced, the rules (400.7) for a new object.                       *)
TargetsAreAffected ==
    LET entry == Last(game.stack)
    IN EffectRuns(entry) => \A c \in Cards \ {entry.object} :
           /\ AimsAt(entry, c) /\ <<entry.id, c>> \notin strayed => game'.zone[c] = Fate[Text[entry.object].effect]
           /\ ~AimsAt(entry, c) => Stays(c)
OnlyLegalTargetsAreAffected == [][TargetsAreAffected]_vars

---------------------------------------------------------------------------
(* What the code does not keep.                                             *)

(* comprehensive-rules.txt:771: abilities of objects other than instants    *)
(* and sorceries "usually function only while that object is on the         *)
(* battlefield".                                                            *)
DeadSourcesAreSilent ==
    [][\A i \in (Len(game.pending) + 1) .. Len(game'.pending) :
           LET trigger == game'.pending[i].trigger
           IN AbilityOf(trigger).event # "enters" => game'.zone[SourceOf(trigger)] = "battlefield"]_vars
=============================================================================
