------------------------------ MODULE MCSearch ------------------------------
(***************************************************************************)
(* Small games: two lines of play that converge, a game that repeats its   *)
(* states, a game a solver knows, and one whose rules fail on an action.   *)
(* States are numbered so that an acyclic game only ever counts upwards.   *)
(***************************************************************************)
EXTENDS SearchProperties

States == 1 .. 7
Three == {10, 20, 30}
NoMove == [a \in {} |-> <<>>]
Move(s, t) == (10 :> <<s>>) @@ (20 :> <<t>>)

Diamond ==
    [actions |-> Three, offered |-> Three, acyclic |-> TRUE,
     roots |-> (0 :> 1) @@ (1 :> 2) @@ (2 :> 1),
     legal |-> [s \in States |-> CASE s \in {1, 2} -> Three [] s \in {3, 4} -> {10, 20} [] OTHER -> {}],
     apply |-> [s \in States |->
                  CASE s = 1 -> Move(3, 4) @@ (30 :> <<3>>) [] s = 2 -> Move(4, 4) @@ (30 :> <<5>>)
                    [] s = 3 -> Move(5, 6) [] s = 4 -> Move(5, 7) [] s \in {5, 6, 7} -> NoMove],
     terminal |-> [s \in States |-> IF s = 6 THEN <<5>> ELSE IF s = 7 THEN <<-2>> ELSE <<>>],
     value |-> [s \in States |-> s - 4],
     sign |-> [s \in States |-> IF s \in {1, 2} THEN 1 ELSE -1],
     prior |-> [s \in States |-> [a \in Three |-> IF s = 1 THEN -a ELSE 0]],
     group |-> [s \in States |-> [a \in Three |-> IF a = 30 THEN 2 ELSE 1]],
     key |-> [s \in States |-> IF s = 4 THEN <<3>> ELSE <<s>>],
     solution |-> [s \in States |-> <<>>]]

Repeating == [Diamond EXCEPT !.acyclic = FALSE,
                 !.apply = [s \in States |-> IF s = 3 THEN Move(1, 1) ELSE Diamond.apply[s]]]
Solved == [Diamond EXCEPT !.solution = [s \in States |-> IF s = 2 THEN <<20>> ELSE <<>>]]
Failing == [Diamond EXCEPT !.apply[4] = (10 :> <<5>>) @@ (20 :> <<>>)]
Forced == [Diamond EXCEPT !.offered = {10}]
Disagreeing == [Diamond EXCEPT !.legal[2] = {10}, !.apply[2] = (10 :> <<3>>)]

Fixed(iterations, determinizations, workers) ==
    [limit |-> "iterations", iterations |-> iterations, determinizations |-> determinizations,
     workers |-> workers, duration |-> 1, rolloutDepth |-> 2, widening |-> <<>>, adaptive |-> <<>>]
Within(determinizations, workers) == [Fixed(0, determinizations, workers) EXCEPT !.limit = "time"]
Widened == [initial |-> 1, perSqrt |-> 1]
Adaptive == [checkpoints |-> {2, 4, 5}, stable |-> 1, share |-> 40, visitGap |-> 0, valueGap |-> 0]

SomeSearches ==
    [domain : {Diamond, Solved, Failing, Forced, Disagreeing},
     config : {Fixed(5, 3, 2), [Fixed(6, 2, 3) EXCEPT !.widening = <<Widened>>, !.adaptive = <<Adaptive>>],
               Fixed(3, 3, 3), Fixed(0, 1, 1), [Within(1, 1) EXCEPT !.duration = 0]}]
    \cup [domain : {Diamond, Repeating, Solved}, config : {Within(2, 2), Within(3, 1), [Within(3, 2) EXCEPT !.widening = <<Widened>>]}]
=============================================================================
