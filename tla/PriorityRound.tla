---- MODULE PriorityRound ----
(***************************************************************************)
(* What the turn structure promises, with none of its machinery: one       *)
(* player at a time holds priority; the top of the stack resolves, and a   *)
(* step ends, only after every player has passed in succession with        *)
(* nothing put on the stack in between, or while nobody holds priority and *)
(* the stack is empty.                                                     *)
(***************************************************************************)
EXTENDS Integers, Sequences, FiniteSets

CONSTANT N          \* number of players (positive), named 0 .. N - 1 by seat

VARIABLES holder,   \* who holds priority, or NoPlayer
          passed,   \* who passed since the round began
          stack,    \* the stack, bottom first
          where     \* the step (and combat damage sub-step) being played

vars == <<holder, passed, stack, where>>

Players == 0 .. N - 1
NoPlayer == -1

\* Whether s extends t, as the stack does when objects are put on it.
Extends(s, t) == Len(t) <= Len(s) /\ SubSeq(s, 1, Len(t)) = t

Init == holder = NoPlayer /\ passed = {} /\ stack = <<>>

\* A player passes and somebody who has not passed yet is asked next.
Pass ==
  /\ holder \in Players /\ holder' \in Players \ (passed \cup {holder})
  /\ passed' = passed \cup {holder}
  /\ UNCHANGED <<stack, where>>

\* The last player passes: either the top of the stack resolves, or the
\* stack is empty and the step ends (or is held open for the blocks).
Complete ==
  /\ holder \in Players /\ passed \cup {holder} = Players
  /\ passed' = {}
  /\ \/ stack # <<>> /\ stack' = SubSeq(stack, 1, Len(stack) - 1) /\ UNCHANGED where
     \/ stack = <<>> /\ UNCHANGED stack

\* Somebody acts, which starts the round again.
Act ==
  /\ passed' = {}
  /\ Extends(stack', stack)
  /\ UNCHANGED where

\* Between two rounds effects may rearrange the stack.
Interlude == passed = {} /\ passed' = {} /\ UNCHANGED where

\* Nobody may act in this step and nothing waits on the stack.
Turnover ==
  /\ holder = NoPlayer /\ stack = <<>> /\ passed = {}
  /\ passed' = {} /\ UNCHANGED stack

Next == Pass \/ Complete \/ Act \/ Interlude \/ Turnover

Spec == Init /\ [][Next]_vars
====
