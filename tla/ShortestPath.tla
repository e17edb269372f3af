---------------------------- MODULE ShortestPath ----------------------------
(***************************************************************************)
(* The two programs for the shortest paths from a node: Dijkstra.cpp, with *)
(* lists of edges and a list of candidates, and Dijkstra2.cpp, with a      *)
(* matrix.  An action is one turn of the outer loop.                       *)
(***************************************************************************)
EXTENDS Integers, SequencesExt, FiniteSetsExt

CONSTANTS
  Graphs,      \* what a program reads: n, the source, and the edges in order
  INT_MAX      \* no path

Edges(g) == [u : 0..g.n-1, v : 0..g.n-1, w : 0..INT_MAX-1]

\* Dijkstra.cpp keeps the last of parallel edges from the source, whatever their
\* weights (line 37): it is not made for such a graph.  The weights are small
\* enough for every path to be shorter than INT_MAX.
ASSUME GraphsAssumption ==
  /\ INT_MAX \in Nat \ {0}
  /\ \A g \in Graphs :
    /\ \E most \in 0..INT_MAX :
         (g.n - 1) * most < INT_MAX /\ \A i \in DOMAIN g.edges : g.edges[i].w <= most
    /\ g.n \in Nat /\ g.source \in 0..g.n-1 /\ g.edges \in Seq(Edges(g))
    /\ \A i, j \in DOMAIN g.edges :
         g.edges[i].u = g.source /\ g.edges[j] = [g.edges[i] EXCEPT !.w = g.edges[j].w] => i = j

VARIABLES
  program,     \* the program that runs
  graph,       \* its input
  cost,        \* Path[].cost, distance[]
  pre,         \* Path[].pre, prevVertex[]
  used,        \* isUsed[], isInS[]
  assi,        \* Assi, the candidates of Dijkstra.cpp
  turn         \* i, the turn of the outer loop of Dijkstra2.cpp

pathVars == <<program, graph, cost, pre, used, assi, turn>>

Vertices(g) == 0..g.n-1

Parallel(g) == \E i, j \in DOMAIN g.edges :
                 i < j /\ g.edges[i].u = g.edges[j].u /\ g.edges[i].v = g.edges[j].v

\* Variant with a bug: no path has no length.
map_None(g, x, y) ==
  IF \E e \in ToSet(g.edges) : e.u = x /\ e.v = y
  THEN (CHOOSE e \in ToSet(g.edges) : e.u = x /\ e.v = y).w
  ELSE -1

\* map[u][v] of a graph without parallel edges.
map(g, x, y) ==
  IF \E e \in ToSet(g.edges) : e.u = x /\ e.v = y
  THEN (CHOOSE e \in ToSet(g.edges) : e.u = x /\ e.v = y).w
  ELSE INT_MAX

\* What step makes of r, from the first edge to the last.  The list of a node
\* has its edges in that order; step leaves out the edges of other nodes.
OverEdges(g, step(_, _), r) ==
  LET after[k \in 0..Len(g.edges)] == IF k = 0 THEN r ELSE step(after[k - 1], g.edges[k])
  IN after[Len(g.edges)]

\* The turn over the edges of the source.
Started(g, r, e) ==
  IF e.u # g.source THEN r
  ELSE [r EXCEPT !.cost[e.v] = e.w, !.pre[e.v] = e.u, !.assi = Append(@, e.v)]

FromSource(g) ==
  OverEdges(g, LAMBDA r, e : Started(g, r, e),
            [cost |-> [x \in Vertices(g) |-> INT_MAX], pre |-> [x \in Vertices(g) |-> x],
             assi |-> <<>>])

ListStart(g) ==
  LET r == FromSource(g)
  IN /\ program = "Dijkstra.cpp" /\ graph = g /\ used = {g.source} /\ turn = 1
     /\ cost = r.cost /\ pre = r.pre /\ assi = r.assi

MatrixStart(g) ==
  /\ program = "Dijkstra2.cpp" /\ graph = g /\ used = {g.source} /\ turn = 1 /\ assi = <<>>
  /\ ~Parallel(g)
  /\ cost = [x \in Vertices(g) |-> map(g, g.source, x)]
  /\ pre = [x \in Vertices(g) |->
              IF x # g.source /\ map(g, g.source, x) < INT_MAX THEN g.source ELSE -1]

PathInit == \E g \in Graphs : ListStart(g) \/ MatrixStart(g)

\* Variant with a bug: the last candidate.
Cheapest_Last == Len(assi)

\* The place of the first of the cheapest candidates.
Cheapest == CHOOSE i \in DOMAIN assi :
              \A j \in DOMAIN assi : \/ cost[assi[i]] < cost[assi[j]]
                                     \/ cost[assi[i]] = cost[assi[j]] /\ i <= j

\* Variant with a bug: a vertex that is reached late is no candidate.
Candidates_Lost(r, e) == r.assi

Candidates(r, e) == IF r.cost[e.v] = INT_MAX THEN Append(r.assi, e.v) ELSE r.assi

\* Variant with a bug: the vertex before x.
Via_Before(r, x, e) == [r.pre EXCEPT ![e.v] = pre[x]]

Via(r, x, e) == [r.pre EXCEPT ![e.v] = x]

\* The edge e, if it is one from x, the candidate that is used.
Relaxed(r, x, e) ==
  IF e.u # x \/ e.v \in used \cup {x} THEN r
  ELSE LET shorter == r.cost[e.v] > cost[x] + e.w
       IN [cost |-> IF shorter THEN [r.cost EXCEPT ![e.v] = cost[x] + e.w] ELSE r.cost,
           pre  |-> IF shorter THEN Via(r, x, e) ELSE r.pre,
           assi |-> Candidates(r, e)]

Dijkstra ==
  /\ program = "Dijkstra.cpp" /\ assi # <<>>
  /\ LET x == assi[Cheapest]
         r == OverEdges(graph, LAMBDA a, e : Relaxed(a, x, e),
                        [cost |-> cost, pre |-> pre, assi |-> RemoveAt(assi, Cheapest)])
     IN cost' = r.cost /\ pre' = r.pre /\ assi' = r.assi /\ used' = used \cup {x}
  /\ UNCHANGED <<program, graph, turn>>

Unused == {x \in Vertices(graph) \ used : cost[x] < INT_MAX}

\* The first of the nearest vertices that are not in S.  When no vertex can be
\* reached any more, the last one is used once again.
Nearest == CHOOSE x \in Unused : \A y \in Unused : cost[x] < cost[y] \/ (cost[x] = cost[y] /\ x <= y)

Dijkstra2 ==
  /\ program = "Dijkstra2.cpp" /\ turn < graph.n
  /\ turn' = turn + 1
  /\ IF Unused = {} THEN UNCHANGED <<cost, pre, used>>
     ELSE LET shorter == {y \in Vertices(graph) \ (used \cup {Nearest}) :
                            /\ map(graph, Nearest, y) < INT_MAX
                            /\ cost[Nearest] + map(graph, Nearest, y) < cost[y]}
          IN /\ used' = used \cup {Nearest}
             /\ cost' = [y \in Vertices(graph) |->
                           IF y \in shorter THEN cost[Nearest] + map(graph, Nearest, y) ELSE cost[y]]
             /\ pre' = [y \in Vertices(graph) |-> IF y \in shorter THEN Nearest ELSE pre[y]]
  /\ UNCHANGED <<program, graph, assi>>

PathNext == Dijkstra \/ Dijkstra2

PathSpec == PathInit /\ [][PathNext]_pathVars

-----------------------------------------------------------------------------

Done == IF program = "Dijkstra.cpp" THEN assi = <<>> ELSE turn >= graph.n

\* The length of the shortest walk of at most k edges to each vertex.
Shortest ==
  LET within[k \in Nat] ==
        IF k = 0 THEN [x \in Vertices(graph) |-> IF x = graph.source THEN 0 ELSE INT_MAX]
        ELSE [x \in Vertices(graph) |->
                Min({within[k - 1][x]} \cup
                    {within[k - 1][e.u] + e.w : e \in {d \in ToSet(graph.edges) : d.v = x}})]
  IN within[graph.n - 1]

PathTypeOK ==
  /\ program \in {"Dijkstra.cpp", "Dijkstra2.cpp"}
  /\ cost \in [Vertices(graph) -> 0..INT_MAX] /\ pre \in [Vertices(graph) -> -1..graph.n-1]
  /\ used \in SUBSET Vertices(graph) /\ assi \in Seq(Vertices(graph)) /\ turn \in 1..graph.n

\* What has been used has its shortest length: it need not be looked at again,
\* however many candidates are left (Dijkstra.cpp 60, Dijkstra2.cpp 51).  At the
\* end that holds of every vertex, the ones that cannot be reached included.
UsedIsShortest ==
  LET d == Shortest
  IN \A x \in Vertices(graph) \ {graph.source} : x \in used \/ Done => cost[x] = d[x]

\* Following pre from a vertex that was reached leads to the source along edges
\* whose weights add up to its cost, so that Traverse ends (Dijkstra.cpp 70).
PreLeadsToSource ==
  LET back[k \in Nat] ==
        IF k = 0 THEN {graph.source}
        ELSE back[k - 1] \cup {x \in Vertices(graph) \ {graph.source} : pre[x] \in back[k - 1]}
  IN \A x \in Vertices(graph) \ {graph.source} : cost[x] < INT_MAX =>
       /\ x \in back[graph.n - 1]
       /\ \E e \in ToSet(graph.edges) :
            /\ e.u = pre[x] /\ e.v = x
            /\ cost[x] = e.w + IF pre[x] = graph.source THEN 0 ELSE cost[pre[x]]

\* A vertex that was reached and not yet used is a candidate: none is dropped
\* with the place that it has in the list (Dijkstra.cpp 54).
NoneForgotten ==
  program = "Dijkstra.cpp" =>
    \A x \in Vertices(graph) \ used : cost[x] < INT_MAX <=> x \in ToSet(assi)

\* Both programs are right at every turn: the cost of a vertex that is used is
\* the length of a shortest path, its predecessors lead back to the source at
\* that cost, and a vertex with a known cost that is not used is still a
\* candidate (Dijkstra.cpp 23 to 69, Dijkstra2.cpp 9 to 61).
PathsCorrect ==
  /\ PathTypeOK
  /\ UsedIsShortest
  /\ PreLeadsToSource
  /\ NoneForgotten
=============================================================================
