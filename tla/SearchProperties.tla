-------------------------- MODULE SearchProperties --------------------------
(***************************************************************************)
(* What the search promises the player it answers for.                     *)
(***************************************************************************)
EXTENDS Search

Edges(nodes) == {<<k, a>> : k \in DOMAIN nodes, a \in D.actions}
                    \cap UNION {{k} \X DOMAIN nodes[k].edges : k \in DOMAIN nodes}
EdgesInto(nodes, k) == {e \in Edges(nodes) : nodes[e[1]].edges[e[2]].child = k}
VisitsOf(nodes, es) == MapThenSumSet(LAMBDA e : nodes[e[1]].edges[e[2]].visits, es)
TotalOf(nodes, es) == MapThenSumSet(LAMBDA e : nodes[e[1]].edges[e[2]].total, es)

(* The simulations of a tree, or of its report, that visit no root edge.   *)
RootVisits(actions) == MapThenSumSet(LAMBDA a : actions[a].visits, DOMAIN actions)
Unseen(w) ==
    LET searched == {r \in Range(trees[w]) : ~r.failed /\ r.stop # "CertifiedWin"}
        reported == MapThenSumSet(LAMBDA r : r.simulations - RootVisits(r.actions), searched)
    IN reported + IF tree[w] = <<>> THEN 0
                  ELSE tree[w][1].simulations - RootVisits(tree[w][1].nodes[1].edges)

(* Actions that converge on one state keep evidence of their own: the      *)
(* edges into a shared node add up to what the node knows, and an edge's   *)
(* child is the state its action leads to, whatever keys collide.  Every   *)
(* simulation visits a root edge, but for one of each thread: the deadline *)
(* may cut it before it takes an action, and then the thread stops, so the *)
(* root evidence of a search lacks at most one simulation of each thread.  *)
(* (docs/adr/0016:59 asks for equal sums and knows no such exception.)     *)
EvidenceAddsUp ==
    \A w \in DOMAIN tree :
        /\ tree[w] # <<>> =>
             LET t == tree[w][1]
                 own(k) == IF k = 1 THEN t.simulations ELSE 0
             IN /\ \A e \in Edges(t.nodes) :
                     LET edge == t.nodes[e[1]].edges[e[2]]
                     IN edge.child # 0 =>
                          D.apply[t.nodes[e[1]].state][e[2]] = <<t.nodes[edge.child].state>>
                /\ D.acyclic => \A k \in DOMAIN t.nodes :
                     /\ t.nodes[k].visits = own(k) + VisitsOf(t.nodes, EdgesInto(t.nodes, k))
                     /\ k # 1 => t.nodes[k].total = TotalOf(t.nodes, EdgesInto(t.nodes, k))
        /\ D.acyclic => Unseen(w) \in IF expired THEN {0, 1} ELSE {0}

(* The tree of one determinization, grown by nobody but one thread.        *)
GrownAlone(index) ==
    FoldLeft(LAMBDA t, i : IF t = <<>> \/ t[1].stop = "AdaptiveStableLeader" THEN t
                           ELSE LET walk == Walk(t[1], Never)
                                IN IF walk.value = <<>> THEN <<>> ELSE <<Simulated(t[1], walk)>>,
             <<NewTree(index, FALSE)>>, [i \in 1 .. C.iterations |-> i])

ReportAlone(index) ==
    LET root == D.roots[index]
        grown == GrownAlone(index)
    IN IF D.legal[root] # D.offered THEN FailedReport(index)
       ELSE IF D.solution[root] # <<>> THEN SolvedReport(index, D.solution[root][1])
       ELSE IF grown = <<>> THEN FailedReport(index) ELSE TreeReport(grown[1])

(* A search of a fixed number of simulations answers the same however its  *)
(* threads are scheduled and however many there are: every determinization *)
(* is searched once, with its own seed, and the answer is that of one      *)
(* thread searching them in turn.  If some fail, one that failed is named. *)
ReplayIsExact ==
    answer # <<>> /\ ValidConfig /\ ~Timed /\ Cardinality(D.offered) > 1 =>
        LET reports == {ReportAlone(i) : i \in 0 .. C.determinizations - 1}
            failures == {r.index : r \in {q \in reports : q.failed}}
        IN IF failures = {} THEN answer[1] = Aggregate(reports)
           ELSE answer[1].kind = "DomainFailure" /\ answer[1].index \in failures

(* The rules refuse no legal action, and every determinization offers the  *)
(* actions that the real game does.                                        *)
SoundDomain ==
    /\ \A s \in DOMAIN D.apply : \A a \in D.legal[s] : D.apply[s][a] # <<>>
    /\ \A i \in 0 .. C.determinizations - 1 : D.legal[D.roots[i]] = D.offered

(* A search always answers, and with an action the player was offered:     *)
(* when it counts simulations, and when its time is over before it began,  *)
(* in the middle of a simulation, or between the trees of two threads.     *)
SearchAnswers ==
    <>(/\ answer # <<>>
       /\ ValidConfig /\ SoundDomain =>
            answer[1].kind = "report" /\ answer[1].selected \in D.offered)
=============================================================================
