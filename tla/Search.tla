------------------------------- MODULE Search -------------------------------
(***************************************************************************)
(* One decision of forge-ai's SearchEngine: worker threads build a tree    *)
(* for each determinization of the hidden information, under an iteration  *)
(* limit or a deadline all of them share, and the root evidence of the     *)
(* trees is added up.  What a thread does between two looks at the clock   *)
(* before a tree or a simulation touches its own tree only, so it is done  *)
(* at its end; the clock may pass the deadline while any number of threads *)
(* are in there, and each thread's first check to see it is chosen freely. *)
(*                                                                         *)
(* An optional value is a sequence of length at most one.                  *)
(***************************************************************************)
EXTENDS Integers, Sequences, FiniteSets, SequencesExt

CONSTANTS
    Searches,     \* The searches to run: [domain |-> ..., config |-> ...].
    SimLimit,     \* Bound on the simulations of one tree before the deadline.
    PathLimit,    \* Bound on the nodes one simulation visits before the deadline.
    ValueLimit

ASSUME SearchAssumption == {SimLimit, PathLimit, ValueLimit} \subseteq Nat \ {0}

VARIABLES
    search,       \* The search being run; it never changes.
    phase,        \* "open", "running" or "answered".
    expired,      \* Instant::now() >= deadline.
    at,           \* Where each worker is.
    next,         \* The determinization each worker takes up next.
    tree,         \* The tree each worker is growing, if any.
    trees,        \* The batch of reports each worker has collected, in its order.
    answer        \* What SearchEngine::search returned, if it has.

vars == <<search, phase, expired, at, next, tree, trees, answer>>

(* A worker is in its "batch", about to check the clock for the next       *)
(* determinization, at the "root", past that check, in the "loop" of a     *)
(* tree, about to check its limit, or "inside" a simulation.               *)
D == search.domain
C == search.config
Timed == C.limit = "time"
WorkerCount == IF C.workers < C.determinizations THEN C.workers ELSE C.determinizations
RunningWorkers == 0 .. WorkerCount - 1

-----------------------------------------------------------------------------
(* Nodes.                                                                  *)

Clamp(v) == IF v > ValueLimit THEN ValueLimit ELSE IF v < -ValueLimit THEN -ValueLimit ELSE v
IntegerSqrt(v) == CHOOSE r \in 0 .. v : r * r <= v /\ (r + 1) * (r + 1) > v

PriorBefore(s, a, b) ==
    D.prior[s][a] > D.prior[s][b] \/ (D.prior[s][a] = D.prior[s][b] /\ a < b)

(* The order in which the actions of a node are tried: the best prior      *)
(* first, or, in groups, the best of every group before the second of any. *)
ExpansionOrder(s, actions, grouped) ==
    LET Rank(a) == Cardinality({b \in actions : PriorBefore(s, b, a)})
        Depth(a) == IF ~grouped THEN 0
                    ELSE Cardinality({b \in actions : D.group[s][b] = D.group[s][a]
                                                      /\ PriorBefore(s, b, a)})
    IN SetToSortSeq(actions, LAMBDA a, b : Depth(a) < Depth(b)
                                           \/ (Depth(a) = Depth(b) /\ Rank(a) < Rank(b)))

NewNode(s, late) ==
    LET actions == IF D.terminal[s] # <<>> THEN {} ELSE D.legal[s]
        grouped == ~late /\ C.widening # <<>> /\ Cardinality(actions) > C.widening[1].initial
    IN [state |-> s, order |-> ExpansionOrder(s, actions, grouped), visits |-> 0, total |-> 0,
        edges |-> [a \in actions |-> [child |-> 0, visits |-> 0, total |-> 0]]]

(* The next action of a node to be tried, among those the widening allows. *)
BestUnexpanded(node) ==
    LET count == Len(node.order)
        widened == C.widening[1].initial + C.widening[1].perSqrt * IntegerSqrt(node.visits)
        active == IF C.widening = <<>> \/ widened > count THEN count ELSE widened
    IN SelectSeq(SubSeq(node.order, 1, active), LAMBDA a : node.edges[a].child = 0)

(* The UCT score, for an exploration constant that outweighs the values:   *)
(* the fewest visits, then the mean for the player to act and the prior.   *)
Preferred(node, a, b) ==
    LET Score(x) == D.sign[node.state] * node.edges[x].total * 1000
                    + D.prior[node.state][x] * node.edges[x].visits
    IN \/ node.edges[a].visits < node.edges[b].visits
       \/ /\ node.edges[a].visits = node.edges[b].visits
          /\ Score(a) > Score(b) \/ (Score(a) = Score(b) /\ a < b)

SelectUctChild(node) ==
    LET expanded == {a \in DOMAIN node.edges : node.edges[a].child # 0}
    IN CHOOSE a \in expanded : \A b \in expanded \ {a} : Preferred(node, a, b)

-----------------------------------------------------------------------------
(* Simulations.  `late` is the number of checks of the clock before the    *)
(* deadline is seen to have passed; without a deadline it is never seen.   *)

Never == 1000

(* The check made at the last node of the path finds the deadline passed,  *)
(* or the path is as long as time allows.                                  *)
TooLate(path, late) == Len(path) > late \/ (Timed /\ Len(path) > PathLimit)

RECURSIVE Rollout(_, _, _, _)
Rollout(s, seed, ply, late) ==
    IF ply >= C.rolloutDepth \/ ply >= late THEN <<Clamp(D.value[s])>>
    ELSE IF D.terminal[s] # <<>> THEN <<Clamp(D.terminal[s][1])>>
    ELSE IF D.legal[s] = {} THEN <<Clamp(D.value[s])>>
    ELSE LET actions == SetToSortSeq(D.legal[s], <)
             action == actions[((seed + ply) % Len(actions)) + 1]
             after == D.apply[s][action]
         IN IF after = <<>> THEN <<>> ELSE Rollout(after[1], seed, ply + 1, late)

(* Mutant: a key of the bucket is taken for the state itself.              *)
Transpositions_KeyAlone(nodes, s) ==
    {k \in DOMAIN nodes : D.key[s] # <<>> /\ D.key[nodes[k].state] = D.key[s]}

(* The nodes a state may share: those of its bucket that are the state.    *)
Transpositions(nodes, s) ==
    {k \in DOMAIN nodes : D.key[s] # <<>> /\ D.key[nodes[k].state] = D.key[s]
                          /\ nodes[k].state = s}

(* Try an action for the first time and play on from where it leads.       *)
Expand(nodes, path, edges, a, seed, late) ==
    LET node == Last(path)
        after == D.apply[nodes[node].state][a]
        shared == Transpositions(nodes, after[1])
        child == IF shared = {} THEN Len(nodes) + 1 ELSE CHOOSE k \in shared : \A l \in shared : k <= l
        grown == IF shared = {} THEN Append(nodes, NewNode(after[1], Len(path) >= late)) ELSE nodes
        cyclic == Contains(path, child)
        checked == Len(path) + IF shared = {} THEN 1 ELSE 0
    IN IF after = <<>> THEN [nodes |-> nodes, path |-> path, edges |-> edges, value |-> <<>>]
       ELSE [nodes |-> [grown EXCEPT ![node].edges[a].child = child],
             path |-> IF cyclic THEN path ELSE Append(path, child),
             edges |-> Append(edges, <<node, a>>),
             value |-> IF cyclic THEN <<Clamp(D.value[after[1]])>>
                       ELSE Rollout(after[1], seed, 0, late - checked)]

(* Descend from the last node of the path to a leaf.                       *)
RECURSIVE Descend(_, _, _, _, _)
Descend(nodes, path, edges, seed, late) ==
    LET node == nodes[Last(path)]
        untried == BestUnexpanded(node)
        best == SelectUctChild(node)
        Leaf(v) == [nodes |-> nodes, path |-> path, edges |-> edges, value |-> <<Clamp(v)>>]
    IN CASE TooLate(path, late) -> Leaf(D.value[node.state])
         [] ~TooLate(path, late) /\ D.terminal[node.state] # <<>> -> Leaf(D.terminal[node.state][1])
         [] ~TooLate(path, late) /\ D.terminal[node.state] = <<>> /\ node.order = <<>> ->
                Leaf(D.value[node.state])
         [] ~TooLate(path, late) /\ untried # <<>> -> Expand(nodes, path, edges, untried[1], seed, late)
         [] OTHER -> Descend(nodes, Append(path, node.edges[best].child),
                             Append(edges, <<Last(path), best>>), seed, late)

Occurrences(s, x) == Cardinality({i \in DOMAIN s : s[i] = x})

(* Mutant: an edge borrows the visits of the node it leads to.             *)
Backup_ChildStatistics(walk) ==
    [k \in DOMAIN walk.nodes |->
        LET times == Occurrences(walk.path, k)
            Seen(c) == IF c = 0 THEN 0 ELSE walk.nodes[c].visits + Occurrences(walk.path, c)
        IN [walk.nodes[k] EXCEPT
              !.visits = @ + times, !.total = @ + times * walk.value[1],
              !.edges = [a \in DOMAIN @ |-> [@[a] EXCEPT !.visits = Seen(walk.nodes[k].edges[a].child)]]]]

(* Credit the value to every node of the path and every edge taken.        *)
Backup(walk) ==
    [k \in DOMAIN walk.nodes |->
        LET times == Occurrences(walk.path, k)
            Taken(a) == Occurrences(walk.edges, <<k, a>>)
        IN [walk.nodes[k] EXCEPT
              !.visits = @ + times, !.total = @ + times * walk.value[1],
              !.edges = [a \in DOMAIN @ |-> [@[a] EXCEPT !.visits = @ + Taken(a),
                                                         !.total = @ + Taken(a) * walk.value[1]]]]]

-----------------------------------------------------------------------------
(* Trees.                                                                  *)

Quotient(t, n) == IF t >= 0 THEN t \div n ELSE -((-t) \div n)
Mean(e) == IF e.visits = 0 THEN 0 ELSE Quotient(e.total, e.visits)

(* Actions by visits, then mean value, then identifier.                    *)
Ranking(stats) ==
    SetToSortSeq(DOMAIN stats, LAMBDA a, b :
        \/ stats[a].visits > stats[b].visits
        \/ stats[a].visits = stats[b].visits /\ Mean(stats[a]) > Mean(stats[b])
        \/ stats[a].visits = stats[b].visits /\ Mean(stats[a]) = Mean(stats[b]) /\ a < b)

Evidence(stats) == [a \in DOMAIN stats |-> [visits |-> stats[a].visits, total |-> stats[a].total]]

NewTree(index, late) ==
    [index |-> index, nodes |-> <<NewNode(D.roots[index], late)>>, simulations |-> 0,
     ranking |-> <<>>, stable |-> 0,
     stop |-> IF Timed THEN "WallTimeBudget" ELSE "FixedIterations"]

(* At the visits the schedule names, see whether the same ranking has held *)
(* long enough and its leader leads by enough.                             *)
Checkpoint(t) ==
    LET stats == t.nodes[1].edges
        ranking == Ranking(stats)
        stable == IF t.ranking # <<>> /\ ranking = t.ranking THEN t.stable + 1 ELSE 0
        first == stats[ranking[1]]
        second == stats[ranking[2]]
        total == MapThenSumSet(LAMBDA a : stats[a].visits, DOMAIN stats)
        share == IF total = 0 THEN 0 ELSE (100 * first.visits) \div total
        settled == /\ stable >= C.adaptive[1].stable
                   /\ share >= C.adaptive[1].share
                   /\ first.visits - second.visits >= C.adaptive[1].visitGap
                   /\ Mean(first) - Mean(second) >= C.adaptive[1].valueGap
    IN IF C.adaptive = <<>> \/ t.simulations \notin C.adaptive[1].checkpoints THEN t
       ELSE [t EXCEPT !.ranking = ranking, !.stable = stable,
                      !.stop = IF settled THEN "AdaptiveStableLeader" ELSE @]

(* tree_seed(index) ^ simulations *)
Seed(t) == t.index + t.simulations

(* One simulation: where it goes, and the tree it leaves behind.           *)
Walk(t, late) == Descend(t.nodes, <<1>>, <<>>, Seed(t), late)
Simulated(t, walk) == Checkpoint([t EXCEPT !.nodes = Backup(walk), !.simulations = @ + 1])

FailedReport(index) == [index |-> index, failed |-> TRUE]
TreeReport(t) ==
    [index |-> t.index, failed |-> FALSE, actions |-> Evidence(t.nodes[1].edges),
     fallback |-> t.nodes[1].order[1], simulations |-> t.simulations, stop |-> t.stop]
SolvedReport(index, a) ==
    [index |-> index, failed |-> FALSE,
     actions |-> [b \in D.offered |-> IF b = a THEN [visits |-> 1, total |-> ValueLimit]
                                      ELSE [visits |-> 0, total |-> 0]],
     fallback |-> a, simulations |-> 0, stop |-> "CertifiedWin"]

-----------------------------------------------------------------------------
(* The answer.                                                             *)

Aggregate(reports) ==
    LET stats == [a \in D.offered |->
                    [visits |-> MapThenSumSet(LAMBDA r : r.actions[a].visits, reports),
                     total  |-> MapThenSumSet(LAMBDA r : r.actions[a].total, reports)]]
        simulations == MapThenSumSet(LAMBDA r : r.simulations, reports)
        Votes(a) == Cardinality({r \in reports : r.fallback = a})
        fallback == CHOOSE a \in D.offered : \A b \in D.offered \ {a} :
                        Votes(a) > Votes(b) \/ (Votes(a) = Votes(b) /\ a < b)
        stops == {r.stop : r \in reports}
    IN [kind |-> "report", selected |-> IF simulations = 0 THEN fallback ELSE Ranking(stats)[1],
        actions |-> stats, simulations |-> simulations, determinizations |-> Cardinality(reports),
        stop |-> IF Cardinality(stops) = 1 THEN CHOOSE s \in stops : TRUE ELSE "Mixed"]

SingletonReport ==
    LET a == CHOOSE a \in D.offered : TRUE
    IN [kind |-> "report", selected |-> a, actions |-> (a :> [visits |-> 0, total |-> 0]),
        simulations |-> 0, determinizations |-> 0, stop |-> "SingletonLegalAction"]

ValidConfig ==
    /\ C.determinizations > 0 /\ C.workers > 0 /\ C.rolloutDepth > 0
    /\ C.widening # <<>> => C.widening[1].initial > 0 /\ C.widening[1].perSqrt > 0
    /\ C.adaptive # <<>> => /\ C.adaptive[1].checkpoints # {} /\ 0 \notin C.adaptive[1].checkpoints
                            /\ C.adaptive[1].stable \in 1 .. Cardinality(C.adaptive[1].checkpoints) - 1
                            /\ C.adaptive[1].share <= 100 /\ C.adaptive[1].valueGap >= 0
    /\ IF Timed THEN C.duration > 0 ELSE C.iterations > 0

-----------------------------------------------------------------------------
Init ==
    /\ search \in Searches
    /\ phase = "open"
    /\ expired = FALSE
    /\ at = <<>> /\ next = <<>> /\ tree = <<>> /\ trees = <<>>
    /\ answer = <<>>

Answer(a) == phase' = "answered" /\ answer' = <<a>>

(* SearchEngine::search up to the threads it starts.                       *)
RefuseConfig ==
    /\ phase = "open" /\ ~ValidConfig
    /\ Answer([kind |-> "InvalidConfig"])
    /\ UNCHANGED <<search, expired, at, next, tree, trees>>

AnswerSingleton ==
    /\ phase = "open" /\ ValidConfig /\ Cardinality(D.offered) = 1
    /\ Answer(SingletonReport)
    /\ UNCHANGED <<search, expired, at, next, tree, trees>>

StartWorkers ==
    /\ phase = "open" /\ ValidConfig /\ Cardinality(D.offered) > 1
    /\ phase' = "running"
    /\ at' = [w \in RunningWorkers |-> "batch"]
    /\ next' = [w \in RunningWorkers |-> w]
    /\ tree' = [w \in RunningWorkers |-> <<>>]
    /\ trees' = [w \in RunningWorkers |-> <<>>]
    /\ UNCHANGED <<search, expired, answer>>

(* Mutant: the workers' shares overlap. *)
NextIndex_One(index) == index + 1

(* step_by(worker_count) *)
NextIndex(index) == index + WorkerCount

(* Mutant: no determinization is searched once the time is over. *)
OutOfTime_AnyWorker(w) == expired

Free(w) == at[w] = "batch" /\ next[w] < C.determinizations
OutOfTime(w) == expired /\ (w # 0 \/ trees[w] # <<>>)
Goes(w, place) == at' = [at EXCEPT ![w] = place]

Collect(w, report) ==
    /\ trees' = [trees EXCEPT ![w] = Append(@, report)]
    /\ tree' = [tree EXCEPT ![w] = <<>>]
    /\ Goes(w, "batch")

(* The worker takes up its next determinization, if there is time.         *)
TakeUp(w) ==
    /\ Free(w) /\ ~OutOfTime(w)
    /\ Goes(w, "root")
    /\ UNCHANGED <<search, phase, expired, next, tree, trees, answer>>

StopBatch(w) ==
    /\ Free(w) /\ OutOfTime(w)
    /\ next' = [next EXCEPT ![w] = C.determinizations]
    /\ UNCHANGED <<search, phase, expired, at, tree, trees, answer>>

(* The determinization failed, is solved, or gets a tree; the deadline may *)
(* have passed since it was taken up.                                      *)
BeginTree(w) ==
    /\ at[w] = "root"
    /\ next' = [next EXCEPT ![w] = NextIndex(@)]
    /\ LET root == D.roots[next[w]]
       IN \/ /\ D.legal[root] # D.offered
             /\ Collect(w, FailedReport(next[w]))
          \/ /\ D.legal[root] = D.offered /\ D.solution[root] # <<>>
             /\ Collect(w, SolvedReport(next[w], D.solution[root][1]))
          \/ /\ D.legal[root] = D.offered /\ D.solution[root] = <<>>
             /\ tree' = [tree EXCEPT ![w] = <<NewTree(next[w], expired)>>]
             /\ Goes(w, "loop") /\ UNCHANGED trees
    /\ UNCHANGED <<search, phase, expired, answer>>

LimitReached(t) == IF Timed THEN expired ELSE t.simulations >= C.iterations
TreeIsDone(t) == LimitReached(t) \/ t.stop = "AdaptiveStableLeader"

EnterSimulation(w) ==
    /\ at[w] = "loop" /\ ~TreeIsDone(tree[w][1])
    /\ Timed => tree[w][1].simulations < SimLimit
    /\ Goes(w, "inside")
    /\ UNCHANGED <<search, phase, expired, next, tree, trees, answer>>

(* Once the deadline has passed, any check since the simulation was        *)
(* entered may be the first to see it, or none of them.                    *)
ClockChecks == {Never} \cup IF expired THEN 0 .. PathLimit ELSE {}

RunSimulation(w) ==
    /\ at[w] = "inside"
    /\ \E late \in ClockChecks : \E walk \in {Walk(tree[w][1], late)} :
           /\ ~expired => ~TooLate(walk.path, late)
           /\ IF walk.value = <<>> THEN Collect(w, FailedReport(tree[w][1].index))
              ELSE /\ tree' \in {[tree EXCEPT ![w] = <<Simulated(@[1], walk)>>]}
                   /\ Goes(w, "loop") /\ UNCHANGED trees
    /\ UNCHANGED <<search, phase, expired, next, answer>>

FinishTree(w) ==
    /\ at[w] = "loop" /\ TreeIsDone(tree[w][1])
    /\ Collect(w, TreeReport(tree[w][1]))
    /\ UNCHANGED <<search, phase, expired, next, answer>>

(* All workers are joined; their batches are read in the workers' order.   *)
JoinWorkers ==
    /\ phase = "running"
    /\ \A w \in RunningWorkers : at[w] = "batch" /\ next[w] >= C.determinizations
    /\ LET batches == FlattenSeq([k \in 1 .. WorkerCount |-> trees[k - 1]])
           failures == SelectSeq(batches, LAMBDA r : r.failed)
       IN Answer(CASE failures # <<>> -> [kind |-> "DomainFailure", index |-> failures[1].index]
                   [] failures = <<>> /\ (batches = <<>> \/ (~Timed /\ Len(batches) # C.determinizations)) ->
                          [kind |-> "MissingTree"]
                   [] OTHER -> Aggregate(Range(batches)))
    /\ UNCHANGED <<search, expired, at, next, tree, trees>>

(* The clock passes the deadline.                                          *)
Expire ==
    /\ Timed /\ phase # "answered" /\ ~expired
    /\ expired' = TRUE
    /\ UNCHANGED <<search, phase, at, next, tree, trees, answer>>

WorkerStep(w) ==
    /\ phase = "running"
    /\ \/ TakeUp(w) \/ StopBatch(w) \/ BeginTree(w)
       \/ EnterSimulation(w) \/ RunSimulation(w) \/ FinishTree(w)
MainStep == RefuseConfig \/ AnswerSingleton \/ StartWorkers \/ JoinWorkers

Next == MainStep \/ Expire \/ \E w \in DOMAIN at : WorkerStep(w)

(* Threads are scheduled, and time passes.                                 *)
Fairness ==
    /\ WF_vars(MainStep)
    /\ WF_vars(Expire)
    /\ \A w \in 0 .. 3 : WF_vars(w \in DOMAIN at /\ WorkerStep(w))

Spec == Init /\ [][Next]_vars /\ Fairness
=============================================================================
