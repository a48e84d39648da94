---- MODULE MCKernel ----
(***************************************************************************)
(* Constants for model checking KernelProperties on small instances: two   *)
(* or three seats, and per run the few triggers that its question needs.   *)
(***************************************************************************)
EXTENDS KernelProperties

None == {}

\* A creature for each player of a duel; the first strikes first.
DuelCreatures == {"bear", "knight"}
DuelOwner == [c \in DuelCreatures |-> IF c = "knight" THEN 0 ELSE 1]
Knight == {"knight"}

\* Two attackers for seat 0 of a pod of three, and a blocker for seat 1.
PodCreatures == {"knight", "wolf", "bear"}
PodOwner == [c \in PodCreatures |-> IF c = "bear" THEN 1 ELSE 0]

\* Two players watch deaths, one of them once, and the third hears the next
\* stack entry.
PodTriggers == {"east", "west", "hear"}
PodController == [east |-> 0, west |-> 2, hear |-> 1]
PodWatches == [t \in PodTriggers |-> IF t = "hear" THEN "StackEntryAdded" ELSE "Dies"]
Once == {"west", "hear"}

\* Triggers in the two steps that give no priority, and on losing life.
QuietTriggers == {"dawn", "grip", "ache"}
QuietController == [dawn |-> 1, grip |-> 0, ache |-> 0]
QuietWatches == [dawn |-> "Untap", grip |-> "Discarded", ache |-> "LifeLost"]
Ache == {"ache"}
====
