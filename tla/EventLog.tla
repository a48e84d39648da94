------------------------------ MODULE EventLog ------------------------------
(***************************************************************************)
(* The event log of `GameState`: the events of the current turn in a ring  *)
(* of bounded size, numbered through the whole game, and what a reader gets*)
(* from a cursor taken earlier.  A log is a record; the state that keeps it*)
(* is the caller's.                                                        *)
(***************************************************************************)
EXTENDS Naturals, Sequences, SequencesExt, Selection

CONSTANT Capacity       \* EVENT_RING_CAPACITY, 1024 in the code

ASSUME CapacityAssumption == Capacity \in Nat \ {0}

\* turn_number, next_event_sequence and turn_events of a new game
NewLog == [turn |-> 0, next |-> 0, events |-> <<>>]

\* Mutant: the ring gives up its newest record instead of its oldest.
AppendEvent_DropsNewest(log, event) ==
    LET grown == Append(log.events, [sequence |-> log.next, turn |-> log.turn, event |-> event])
    IN [log EXCEPT !.next = @ + 1,
                   !.events = IF Len(grown) > Capacity THEN Front(grown) ELSE grown]

\* append_event: the oldest record goes when the ring overflows.
AppendEvent(log, event) ==
    LET grown == Append(log.events, [sequence |-> log.next, turn |-> log.turn, event |-> event])
    IN [log EXCEPT !.next = @ + 1,
                   !.events = IF Len(grown) > Capacity THEN Tail(grown) ELSE grown]

\* the turn number advances, then reset_turn_events; numbering goes on
NextTurn(log) == [log EXCEPT !.turn = @ + 1, !.events = <<>>]

CursorOf(log) == [turn |-> log.turn, next |-> log.next]

OldestRetained(log) == IF log.events = <<>> THEN log.next ELSE log.events[1].sequence

(* The three errors of `events_since`, in the order it checks them. *)
CursorError(log, cursor) ==
    IF cursor.turn # log.turn THEN "CursorTurnMismatch"
    ELSE IF cursor.next > log.next THEN "CursorInFuture"
    ELSE IF cursor.next < OldestRetained(log) THEN "CursorTooOld"
    ELSE "None"

EventsSince(log, cursor) == Keep(log.events, {r \in Range(log.events) : r.sequence >= cursor.next})

(* The record a pending trigger names by its turn and sequence number. *)
Recorded(log, turn, sequence) ==
    {i \in DOMAIN log.events : log.events[i].turn = turn /\ log.events[i].sequence = sequence}
=============================================================================
