----------------------------- MODULE CallGraph -----------------------------
(***************************************************************************)
(* Queries over a published index: the neighborhood of a function          *)
(* (internal/analyzer/query.go, Focus), as the HTTP adapter and the engine *)
(* ask for it, and the order in which changed functions are reviewed       *)
(* (internal/analyzer/git_hierarchy.go).                                   *)
(*                                                                         *)
(* A graph is a record of its functions, which of them are tests, and its  *)
(* edges as pairs of caller and callee.  Functions are numbers in the      *)
(* order of changedFunctionLess: by name, then file, then line.            *)
(***************************************************************************)
EXTENDS Integers, FiniteSets, Sequences

MaxGraphDepth == 8

-----------------------------------------------------------------------------
(* Neighborhoods *)

\* Mutant of Coerced: a depth beyond the bound becomes the default.
Coerced_DefaultDepth(request) ==
    [request EXCEPT
        !.depth = IF @ \in 0..MaxGraphDepth THEN @ ELSE 1,
        !.direction = IF @ \in {"upstream", "both"} THEN @ ELSE "downstream"]

\* The HTTP adapter coerces what the protocol would reject: the depth into its
\* bounds, any other direction to downstream.
Coerced(request) ==
    [request EXCEPT
        !.depth = IF @ < 0 THEN 0 ELSE IF @ > MaxGraphDepth THEN MaxGraphDepth ELSE @,
        !.direction = IF @ \in {"upstream", "both"} THEN @ ELSE "downstream"]

\* What the engine accepts from any client of the protocol.
Accepted(request) ==
    /\ request.direction \in {"upstream", "downstream", "both"}
    /\ request.depth \in 0..MaxGraphDepth

CandidateEdges(graph, direction, id) ==
    {e \in graph.edges : \/ direction \in {"downstream", "both"} /\ e[1] = id
                         \/ direction \in {"upstream", "both"} /\ e[2] = id}

OtherEnd(e, id) == IF e[2] = id THEN e[1] ELSE e[2]

\* One turn of the loop over levels: the neighbors of the frontier that are neither
\* hidden nor selected yet are selected and expanded next.
Expanded(graph, request, level) ==
    LET Neighbors(id) == {OtherEnd(e, id) : e \in CandidateEdges(graph, request.direction, id)}
        Hidden == IF request.tests THEN {} ELSE graph.tests
        next == (UNION {Neighbors(id) : id \in level.frontier}) \ (Hidden \cup level.selected)
    IN  [selected |-> level.selected \cup next, frontier |-> next]

\* What is selected after level n, and the part of it that is expanded next.
Levels(graph, request) ==
    LET Level[n \in 0..request.depth] ==
            IF n = 0 THEN [selected |-> {request.root}, frontier |-> {request.root}]
            ELSE Expanded(graph, request, Level[n - 1])
    IN  Level

Induced(graph, nodes) ==
    [error |-> "none", nodes |-> nodes,
     edges |-> {e \in graph.edges : e[1] \in nodes /\ e[2] \in nodes}]

Refused(error) == [error |-> error, nodes |-> {}, edges |-> {}]

\* Focus of an accepted request whose root is in the index.
Focus(graph, request) ==
    Induced(graph, Levels(graph, request)[request.depth].selected)

Neighborhood(graph, request) ==
    IF ~Accepted(request) THEN Refused("invalidParams")
    ELSE IF request.root \notin graph.functions THEN Refused("symbolNotFound")
    ELSE Focus(graph, request)

Linked(graph, request, u, v) ==
    \/ request.direction # "upstream" /\ <<u, v>> \in graph.edges
    \/ request.direction \in {"upstream", "both"} /\ <<v, u>> \in graph.edges

\* A set of functions and what is one step from it, hidden tests left out.
Nearby(graph, request, S) ==
    {v \in graph.functions : \/ v \in S
                             \/ /\ v \in graph.tests => request.tests
                                /\ \E u \in S : Linked(graph, request, u, v)}

\* The functions within n steps of the root, hidden tests neither shown nor crossed.
Within(graph, request, n) ==
    LET Ball[k \in 0..n] ==
            IF k = 0 THEN {request.root} ELSE Nearby(graph, request, Ball[k - 1])
    IN  Ball[n]

-----------------------------------------------------------------------------
(* Review order *)

Called(graph, S) == {e[2] : e \in {x \in graph.edges : x[1] \in S}}

\* Changed functions a walk from source meets, through unchanged ones too, source
\* itself left out (changedReachability).
Reaches(graph, changed, source) ==
    LET Visited[n \in 0..Cardinality(graph.functions)] ==
            IF n = 0 THEN {source} ELSE Visited[n - 1] \cup Called(graph, Visited[n - 1])
    IN  (Visited[Cardinality(graph.functions)] \cap changed) \ {source}

\* Mutant of Component: what a function reaches belongs to its component.
Component_OneWay(reachable, id) == {id} \cup reachable[id]

\* A component: changed functions that reach each other (changedComponents).
Component(reachable, id) ==
    {id} \cup {other \in DOMAIN reachable : other \in reachable[id] /\ id \in reachable[other]}

Components(reachable) == {Component(reachable, id) : id \in DOMAIN reachable}

\* Edges between components, and the functions of the last components below each.
Targets(reachable) ==
    [c \in Components(reachable) |->
       {d \in Components(reachable) \ {c} : \E f \in c : reachable[f] \cap d # {}}]

LeafCounts(targets) ==
    [c \in DOMAIN targets |-> Cardinality(UNION {d \in targets[c] : targets[d] = {}})]

Smallest(S) == CHOOSE x \in S : \A y \in S : x <= y
ComponentOf(components, id) == CHOOSE c \in components : id \in c

\* The functions of a frontier: its components in order, most leaf descendants first,
\* then by their first function (componentLess), and each component in order.
FrontierOrder(frontier, leafCount) ==
    {p \in (UNION frontier) \X (UNION frontier) :
       LET c == ComponentOf(frontier, p[1])
           d == ComponentOf(frontier, p[2])
       IN  \/ leafCount[c] > leafCount[d]
           \/ /\ leafCount[c] = leafCount[d]
              /\ \/ Smallest(c) < Smallest(d)
                 \/ Smallest(c) = Smallest(d) /\ p[1] < p[2]}

Arranged(S, order) ==
    CHOOSE s \in [1..Cardinality(S) -> S] :
       \A i, j \in 1..Cardinality(S) : i < j => <<s[i], s[j]>> \in order

\* The entries of a frontier, with the leaf descendants of their components.
Entries(frontier, leafCount) ==
    LET placed == Arranged(UNION frontier, FrontierOrder(frontier, leafCount))
    IN  [i \in DOMAIN placed |->
           [id |-> placed[i], leaves |-> leafCount[ComponentOf(frontier, placed[i])]]]

\* One level of the topological walk: the frontier is placed, every edge that
\* leaves it lowers an indegree, and what falls to zero is the next frontier.
PlaceFrontier(level, targets, leafCount) ==
    LET Incoming(c) == Cardinality({s \in level.frontier : c \in targets[s]})
        indegree == [c \in DOMAIN targets |-> level.indegree[c] - Incoming(c)]
    IN  [ordered  |-> level.ordered \o Entries(level.frontier, leafCount),
         indegree |-> indegree,
         frontier |-> {c \in DOMAIN targets : Incoming(c) > 0 /\ indegree[c] = 0}]

\* The walk starts from the components that no other one leads to.
Start(targets) ==
    LET indegree == [c \in DOMAIN targets |-> Cardinality({s \in DOMAIN targets : c \in targets[s]})]
    IN  [ordered  |-> <<>>,
         indegree |-> indegree,
         frontier |-> {c \in DOMAIN targets : indegree[c] = 0}]

\* orderChangedFunctions: changed functions with their leaf descendant counts.
ReviewOrder(graph, changed) ==
    LET reachable == [f \in changed |-> Reaches(graph, changed, f)]
        targets == Targets(reachable)
        Level[n \in 0..Cardinality(DOMAIN targets)] ==
            IF n = 0 THEN Start(targets) ELSE PlaceFrontier(Level[n - 1], targets, LeafCounts(targets))
    IN  Level[Cardinality(DOMAIN targets)].ordered
============================================================================
