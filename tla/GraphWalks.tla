----------------------------- MODULE GraphWalks -----------------------------
(***************************************************************************)
(* dsa/graph: the adjacency lists under any sequence of edges added,        *)
(* replaced and removed, directed or not, the in-degrees kept with them,    *)
(* and the walks, orders, paths and disjoint sets over every graph that is  *)
(* reached.  The nodes were added first, in the order of 1..Nodes.          *)
(***************************************************************************)
EXTENDS Integers, SequencesExt, FiniteSetsExt

CONSTANTS
    Nodes,        \* how many nodes the graph has
    WeightsOf,    \* bound: the weights that the edge from one node to another may be given
    MaxEdges      \* the bound of the edges at one time

VARIABLES
    directed,
    adj,          \* per node, its edges <<to, weight>> in insertion order
    incoming      \* Graph.incoming

graphVars == <<directed, adj, incoming>>

V == 1..Nodes
Neighbours(v) == [i \in 1..Len(adj[v]) |-> adj[v][i][1]]
HasEdge(from, to) == to \in ToSet(Neighbours(from))
Weight(from, to) == adj[from][SelectInSeq(adj[from], LAMBDA e : e[1] = to)][2]

(* setEdge: a second edge between two nodes replaces the first's weight.    *)
SetEdge(a, from, to, w) ==
    LET at == SelectInSeq(a[from], LAMBDA e : e[1] = to)
    IN  [a EXCEPT ![from] = IF at = 0 THEN Append(@, <<to, w>>) ELSE [@ EXCEPT ![at] = <<to, w>>]]
UnsetEdge(a, from, to) == [a EXCEPT ![from] = SelectSeq(@, LAMBDA e : e[1] # to)]

(* Both ends of an undirected edge are entered by it, a loop's one end twice. *)
Shift(count, from, to, by) ==
    LET first == [count EXCEPT ![to] = @ + by]
    IN  IF directed THEN first ELSE [first EXCEPT ![from] = @ + by]

GraphInit ==
    /\ directed \in BOOLEAN
    /\ adj = [v \in V |-> <<>>]
    /\ incoming = [v \in V |-> 0]

(* Mutant: the edge back is not replaced with it. *)
AddWeightedEdgeOneWay(from, to, w) ==
    LET there == SetEdge(adj, from, to, w)
    IN  /\ adj' = IF directed \/ HasEdge(from, to) THEN there ELSE SetEdge(there, to, from, w)
        /\ incoming' = IF HasEdge(from, to) THEN incoming ELSE Shift(incoming, from, to, 1)
        /\ UNCHANGED directed

AddWeightedEdge(from, to, w) ==
    LET there == SetEdge(adj, from, to, w)
    IN  /\ adj' = IF directed THEN there ELSE SetEdge(there, to, from, w)
        /\ incoming' = IF HasEdge(from, to) THEN incoming ELSE Shift(incoming, from, to, 1)
        /\ UNCHANGED directed

RemoveEdge(from, to) ==
    LET gone == UnsetEdge(adj, from, to)
    IN  /\ HasEdge(from, to)
        /\ adj' = IF directed THEN gone ELSE UnsetEdge(gone, to, from)
        /\ incoming' = Shift(incoming, from, to, -1)
        /\ UNCHANGED directed

Arcs == UNION {{<<v, e[1], e[2]>> : e \in ToSet(adj[v])} : v \in V}
EdgeCount ==
    LET total == FoldLeft(LAMBDA n, v : n + Len(adj[v]), 0, [v \in V |-> v])
        loops == Cardinality({v \in V : HasEdge(v, v)})
    IN  IF directed THEN total ELSE (total - loops) \div 2 + loops

GraphNext ==
    \E from, to \in V :
        \/ /\ EdgeCount < MaxEdges \/ HasEdge(from, to)
           /\ \E w \in WeightsOf[<<from, to>>] : AddWeightedEdge(from, to, w)
        \/ RemoveEdge(from, to)

-----------------------------------------------------------------------------
(* The walks. *)
New(v, seen) == SelectSeq(Neighbours(v), LAMBDA u : u \notin seen)

(* A node is marked when it enters the queue, not when it leaves it. *)
RECURSIVE BfsFrom(_, _)
BfsFrom(queue, seen) ==
    IF queue = <<>> THEN <<>>
    ELSE LET new == New(Head(queue), seen)
         IN  <<Head(queue)>> \o BfsFrom(Tail(queue) \o new, seen \cup ToSet(new))
BFS(start) == BfsFrom(<<start>>, {start})

(* A whole level is taken out of the queue before the next one is filled.   *)
RECURSIVE LevelsBelow(_, _)
LevelsBelow(level, seen) ==
    IF level = <<>> THEN <<>>
    ELSE LET next == FoldLeft(LAMBDA q, v : q \o New(v, seen \cup ToSet(q)), <<>>, level)
         IN  <<level>> \o LevelsBelow(next, seen \cup ToSet(next))
BFSLevels(start) == LevelsBelow(<<start>>, {start})

RECURSIVE DfsFrom(_, _)

(* Mutant: the neighbours are pushed in their order. *)
DfsUnreversed(stack, visited) ==
    IF stack = <<>> THEN visited
    ELSE IF Last(stack) \in ToSet(visited) THEN DfsFrom(Front(stack), visited)
    ELSE LET now == Append(visited, Last(stack))
         IN  DfsFrom(Front(stack) \o New(Last(stack), ToSet(now)), now)

(* A stack marks nodes as they leave it, and pushes neighbours in reverse.  *)
DfsFrom(stack, visited) ==
    IF stack = <<>> THEN visited
    ELSE IF Last(stack) \in ToSet(visited) THEN DfsFrom(Front(stack), visited)
    ELSE LET now == Append(visited, Last(stack))
         IN  DfsFrom(Front(stack) \o Reverse(New(Last(stack), ToSet(now))), now)
DFS(start) == DfsFrom(<<start>>, <<>>)

RECURSIVE Walk(_, _)
Walk(v, visited) ==
    FoldLeft(LAMBDA seen, u : IF u \in ToSet(seen) THEN seen ELSE Walk(u, seen),
             Append(visited, v), Neighbours(v))
DFSRecursive(start) == Walk(start, <<>>)

(* Components takes the nodes in their order, skipping those already seen.  *)
Components ==
    FoldLeft(LAMBDA out, v : IF v \in UNION {ToSet(c) : c \in ToSet(out)} THEN out ELSE Append(out, BFS(v)),
             <<>>, [v \in V |-> v])

(* Kahn: a node is ready when nothing that is left enters it; <<>> is the
   cycle error, and Nodes > 0.                                              *)
RECURSIVE Kahn(_, _)

(* Mutant: a node is ready when something enters it no more. *)
KahnEarly(ready, remaining) ==
    IF ready = <<>> THEN <<>>
    ELSE LET out  == Neighbours(Head(ready))
             left == [v \in V |-> IF v \in ToSet(out) THEN remaining[v] - 1 ELSE remaining[v]]
         IN  <<Head(ready)>> \o Kahn(Tail(ready) \o SelectSeq(out, LAMBDA u : left[u] <= 1), left)

Kahn(ready, remaining) ==
    IF ready = <<>> THEN <<>>
    ELSE LET out  == Neighbours(Head(ready))
             left == [v \in V |-> IF v \in ToSet(out) THEN remaining[v] - 1 ELSE remaining[v]]
         IN  <<Head(ready)>> \o Kahn(Tail(ready) \o SelectSeq(out, LAMBDA u : left[u] = 0), left)
TopoSort ==
    LET order == Kahn(SelectSeq([v \in V |-> v], LAMBDA v : incoming[v] = 0), incoming)
    IN  IF Len(order) = Nodes THEN order ELSE <<>>

(* The coloured walk: path holds the grey nodes, black the finished ones;
   an edge into the path closes a cycle.                                    *)
RECURSIVE CycleFrom(_, _)
CycleFrom(v, state) ==
    LET grey == [state EXCEPT !.path = Append(@, v)]
        step(s, u) ==
            CASE s.cycle # <<>> -> s
              [] s.cycle = <<>> /\ u \in ToSet(s.path) ->
                    [s EXCEPT !.cycle = SubSeq(s.path, SelectInSeq(s.path, LAMBDA p : p = u), Len(s.path))
                                        \o <<u>>]
              [] s.cycle = <<>> /\ u \notin ToSet(s.path) ->
                    IF u \in s.black THEN s ELSE CycleFrom(u, s)
        done == FoldLeft(step, grey, Neighbours(v))
    IN  IF done.cycle # <<>> THEN done
        ELSE [done EXCEPT !.path = Front(@), !.black = @ \cup {v}]
FindCycle ==
    FoldLeft(LAMBDA s, v : IF s.cycle # <<>> \/ v \in s.black THEN s ELSE CycleFrom(v, s),
             [path |-> <<>>, black |-> {}, cycle |-> <<>>], [v \in V |-> v]).cycle

(* Without directions every visited node but the one the walk came from
   closes a cycle; came is 0 at a start.                                    *)
RECURSIVE UndirectedFrom(_, _, _)
UndirectedFrom(v, came, state) ==
    FoldLeft(LAMBDA s, u :
                 CASE s.cycle \/ u = came -> s
                   [] ~s.cycle /\ u # came -> IF u \in s.visited THEN [s EXCEPT !.cycle = TRUE]
                                              ELSE UndirectedFrom(u, v, s),
             [state EXCEPT !.visited = @ \cup {v}], Neighbours(v))
HasUndirectedCycle ==
    FoldLeft(LAMBDA s, v : IF s.cycle \/ v \in s.visited THEN s ELSE UndirectedFrom(v, 0, s),
             [visited |-> {}, cycle |-> FALSE], [v \in V |-> v]).cycle
HasCycle == IF directed THEN FindCycle # <<>> ELSE HasUndirectedCycle

(* Back from the goal along the parents, reversed. *)
RECURSIVE Rebuild(_, _, _)
Rebuild(parent, from, to) ==
    IF to = from THEN <<from>> ELSE Append(Rebuild(parent, from, parent[to]), to)

(* ShortestPath: parent is set once, when a node enters the queue; <<>> for
   ErrNoPath.                                                               *)
RECURSIVE PathFrom(_, _, _, _)
PathFrom(queue, parent, from, to) ==
    CASE parent[to] # 0 -> Rebuild(parent, from, to)
      [] parent[to] = 0 /\ queue = <<>> -> <<>>
      [] parent[to] = 0 /\ queue # <<>> ->
            LET new == SelectSeq(Neighbours(Head(queue)), LAMBDA u : parent[u] = 0)
            IN  PathFrom(Tail(queue) \o new,
                         [v \in V |-> IF v \in ToSet(new) THEN Head(queue) ELSE parent[v]], from, to)
ShortestPath(from, to) == PathFrom(<<from>>, [v \in V |-> IF v = from THEN from ELSE 0], from, to)

(* Dijkstra: pq holds entries <<dist, node>>, the stale ones included, and
   gives one of the nearest; -1 is an unknown distance.                     *)
Unknown == -1
RECURSIVE DijkstraFrom(_, _)

(* Mutant: a node's distance is settled when it is first seen. *)
DijkstraFirst(pq, s) ==
    IF pq = {} THEN s
    ELSE LET near == CHOOSE e \in pq : \A f \in pq : e[1] <= f[1]
             v    == near[2]
             out  == {u \in ToSet(Neighbours(v)) : u \notin s.done /\ s.dist[u] = Unknown}
         IN  IF v \in s.done THEN DijkstraFrom(pq \ {near}, s)
             ELSE DijkstraFrom((pq \ {near}) \cup {<<near[1] + Weight(v, u), u>> : u \in out},
                               [done   |-> s.done \cup {v},
                                dist   |-> [u \in V |-> IF u \in out THEN near[1] + Weight(v, u) ELSE s.dist[u]],
                                parent |-> [u \in V |-> IF u \in out THEN v ELSE s.parent[u]]])

DijkstraFrom(pq, s) ==
    IF pq = {} THEN s
    ELSE LET near == CHOOSE e \in pq : \A f \in pq : e[1] <= f[1]
             v    == near[2]
             out  == {u \in ToSet(Neighbours(v)) :
                         u \notin s.done /\ (s.dist[u] = Unknown \/ s.dist[u] > near[1] + Weight(v, u))}
         IN  IF v \in s.done THEN DijkstraFrom(pq \ {near}, s)
             ELSE DijkstraFrom((pq \ {near}) \cup {<<near[1] + Weight(v, u), u>> : u \in out},
                               [done   |-> s.done \cup {v},
                                dist   |-> [u \in V |-> IF u \in out THEN near[1] + Weight(v, u) ELSE s.dist[u]],
                                parent |-> [u \in V |-> IF u \in out THEN v ELSE s.parent[u]]])
DijkstraAll(start) ==
    DijkstraFrom({<<0, start>>},
                 [done |-> {}, dist |-> [v \in V |-> IF v = start THEN 0 ELSE Unknown],
                  parent |-> [v \in V |-> IF v = start THEN start ELSE 0]])

-----------------------------------------------------------------------------
(* After any sequence of edges added, replaced and removed an undirected    *)
(* graph has each edge from both ends with one weight, no node has two      *)
(* edges to another, and the in-degrees and the number of edges that are    *)
(* kept apart agree with the lists (graph.go:86-195).                      *)
ListsAgree ==
    /\ \A v \in V : Cardinality(ToSet(Neighbours(v))) = Len(adj[v])
    /\ ~directed => \A a \in Arcs : <<a[2], a[1], a[3]>> \in Arcs
    /\ \A v \in V : incoming[v] = Cardinality({a \in Arcs : a[2] = v})
                                  + (IF ~directed /\ HasEdge(v, v) THEN 1 ELSE 0)
    /\ EdgeCount = IF directed THEN Cardinality(Arcs)
                   ELSE Cardinality({{a[1], a[2]} : a \in Arcs})

RECURSIVE Within(_, _)
Within(start, hops) ==
    IF hops = 0 THEN {start}
    ELSE Within(start, hops - 1) \cup UNION {ToSet(Neighbours(v)) : v \in Within(start, hops - 1)}
Reached(start) == Within(start, Nodes)
HopsTo(start, v) == Min({h \in 0..Nodes : v \in Within(start, h)})

IsWalk(p) == \A i \in 1..(Len(p) - 1) : HasEdge(p[i], p[i + 1])
RECURSIVE Length(_)
Length(p) == IF Len(p) < 2 THEN 0 ELSE Weight(p[1], p[2]) + Length(Tail(p))
Orders == {p \in UNION {[1..n -> V] : n \in 1..Nodes} : IsInjective(p)}

(* Every walk yields each node that can be reached once and no other; the   *)
(* levels are the nodes by distance, the plain walk yields them in that     *)
(* order, and the two depth-first walks agree node by node                  *)
(* (traverse.go:31-231).                                                   *)
WalksAgree ==
    \A s \in V : \A levels \in {BFSLevels(s)} :
        /\ BFS(s) = FlattenSeq(levels) /\ DFS(s) = DFSRecursive(s)
        /\ \A o \in {BFS(s), DFS(s)} : ToSet(o) = Reached(s) /\ Len(o) = Cardinality(Reached(s))
        /\ \A d \in 1..Len(levels) : \A v \in ToSet(levels[d]) : HopsTo(s, v) = d - 1
        /\ ~directed => \E c \in ToSet(Components) : s \in ToSet(c) /\ ToSet(c) = Reached(s)

(* A directed graph is sorted, every edge forwards, exactly when it has no  *)
(* cycle, and a cycle that is found is one; an undirected graph has a cycle *)
(* exactly when it has a loop or as many edges as nodes in some component   *)
(* (topo.go:24-221).                                                       *)
OrderOrCycle ==
    IF directed
    THEN /\ TopoSort = <<>> <=> HasCycle
         /\ TopoSort # <<>> => /\ ToSet(TopoSort) = V
                               /\ \A i, j \in V : HasEdge(TopoSort[i], TopoSort[j]) => i < j
         /\ HasCycle => Len(FindCycle) > 1 /\ FindCycle[1] = Last(FindCycle) /\ IsWalk(FindCycle)
         /\ HasCycle <=> \E v \in V : \E u \in ToSet(Neighbours(v)) : v \in Reached(u)
    ELSE HasCycle <=> EdgeCount > Nodes - Len(Components)

(* The path of fewest hops and the path of least weight are walks of the    *)
(* graph and as short as any other, in every graph with weights that are    *)
(* not negative, zero included; a node that cannot be reached has neither   *)
(* (paths.go:42-224).                                                      *)
PathsAreShortest ==
    \A s \in V : \A d \in {DijkstraAll(s)} :
        /\ \A t \in V :
              LET p     == ShortestPath(s, t)
                  cheap == Rebuild(d.parent, s, t)
              IN  IF t \notin Reached(s) THEN p = <<>> /\ d.dist[t] = Unknown
                  ELSE /\ IsWalk(p) /\ p[1] = s /\ Last(p) = t /\ Len(p) = HopsTo(s, t) + 1
                       /\ IsWalk(cheap) /\ cheap[1] = s /\ Last(cheap) = t /\ Length(cheap) = d.dist[t]
        /\ \A q \in Orders : (q[1] = s /\ IsWalk(q)) => Length(q) >= d.dist[Last(q)]

-----------------------------------------------------------------------------
(* dsa/patterns/unionfind, over the edges of the same graph: the disjoint   *)
(* sets and the problems solved with them.                                 *)

(* The sets after Add of every node. *)
Singletons == [parent |-> [v \in V |-> v], size |-> [v \in V |-> 1], count |-> Nodes]

RECURSIVE RootOf(_, _)
RootOf(parent, x) == IF parent[x] = x THEN x ELSE RootOf(parent, parent[x])
RECURSIVE PathToRoot(_, _)
PathToRoot(parent, x) == IF parent[x] = x THEN {} ELSE {x} \cup PathToRoot(parent, parent[x])

(* root: the nodes passed on the way point to the root from then on. *)
Compressed(s, x) ==
    LET path == PathToRoot(s.parent, x)
        r    == RootOf(s.parent, x)
    IN  IF path = {} THEN s ELSE [s EXCEPT !.parent = [v \in V |-> IF v \in path THEN r ELSE @[v]]]

(* Mutant: the sizes are compared and not added. *)
JoinUnsized(s, x, y) ==
    LET big == IF s.size[x] < s.size[y] THEN y ELSE x
        small == IF big = x THEN y ELSE x
    IN  [s EXCEPT !.parent[small] = big, !.count = @ - 1]

(* The root of the smaller set goes below the root of the larger. *)
Join(s, x, y) ==
    LET big == IF s.size[x] < s.size[y] THEN y ELSE x
        small == IF big = x THEN y ELSE x
    IN  [s EXCEPT !.parent[small] = big, !.size[big] = @ + s.size[small], !.count = @ - 1]

(* Union: the sets, and whether there were two. *)
Union(s, x, y) ==
    LET c  == Compressed(Compressed(s, x), y)
        rx == RootOf(c.parent, x)
        ry == RootOf(c.parent, y)
    IN  IF rx = ry THEN [sets |-> c, joined |-> FALSE] ELSE [sets |-> Join(c, rx, ry), joined |-> TRUE]

(* The edges <<from, to, weight>> of the graph, each once. *)
EdgeList == SetToSortSeq({a \in Arcs : a[1] <= a[2]}, LAMBDA a, b : a[1] < b[1] \/ (a[1] = b[1] /\ a[2] < b[2]))

UnionAll(edges) == FoldLeft(LAMBDA s, e : Union(s, e[1], e[2]).sets, Singletons, edges)
CountComponents(edges) == UnionAll(edges).count

(* HasCycle: the first edge that joins nothing. *)
ClosesCycle(edges) ==
    FoldLeft(LAMBDA s, e : LET u == Union(s.sets, e[1], e[2])
                           IN  [sets |-> u.sets, closed |-> s.closed \/ ~u.joined],
             [sets |-> Singletons, closed |-> FALSE], edges).closed

ByWeight(a, b) == a[3] < b[3] \/ (a[3] = b[3] /\ (a[1] < b[1] \/ (a[1] = b[1] /\ a[2] < b[2])))

(* Mutant: the tree is taken for complete one edge early. *)
CompleteEarly(kept) == Len(kept) >= Nodes - 2

(* Kruskal stops once the tree is complete. *)
Complete(kept) == Len(kept) = Nodes - 1

(* Kruskal: the edges by weight, those that join nothing left out. *)
MinimumSpanningTree(edges) ==
    FoldLeft(LAMBDA s, e : IF Complete(s.kept) THEN s
                           ELSE LET u == Union(s.sets, e[1], e[2])
                                IN  [sets |-> u.sets, kept |-> IF u.joined THEN Append(s.kept, e) ELSE s.kept],
             [sets |-> Singletons, kept |-> <<>>], SetToSortSeq(ToSet(edges), ByWeight)).kept

Groups(s) == {{x \in V : RootOf(s.parent, x) = r} : r \in {v \in V : s.parent[v] = v}}

-----------------------------------------------------------------------------
RECURSIVE DepthIn(_, _)
DepthIn(parent, x) == IF parent[x] = x THEN 0 ELSE 1 + DepthIn(parent, parent[x])
TotalOf(edges) == MapThenSumSet(LAMBDA e : e[3], edges)
(* A subset that joins what the graph joins with one edge less per node of it. *)
Spans(edges) ==
    /\ Cardinality(edges) = Nodes - Len(Components)
    /\ FoldSet(LAMBDA e, s : Union(s, e[1], e[2]).sets, Singletons, edges).count = Len(Components)

(* The sets are the components the graph's own walk finds, a cycle is seen  *)
(* by the one as by the other, the sizes kept at the roots are true, and no *)
(* path to a root is longer than the logarithm of its set                   *)
(* (unionfind.go:111-157, :218-256).                                       *)
SetsAreComponents ==
    ~directed =>
        \A edges \in {EdgeList} : \A s \in {UnionAll(edges)} :
            /\ Groups(s) = {ToSet(c) : c \in ToSet(Components)}
            /\ CountComponents(edges) = Len(Components)
            /\ ClosesCycle(edges) = HasUndirectedCycle
            /\ \A g \in Groups(s) : \A x \in g :
                   /\ s.size[RootOf(s.parent, x)] = Cardinality(g)
                   /\ 2 ^ DepthIn(s.parent, x) <= Cardinality(g)

(* The edges kept join what the graph joins, without a cycle, and no other  *)
(* choice of edges that joins as much weighs less (unionfind.go:272-308).  *)
TreeIsLeast ==
    ~directed =>
        LET edges == EdgeList
            kept  == ToSet(MinimumSpanningTree(edges))
        IN  /\ kept \subseteq ToSet(edges) /\ Spans(kept)
            /\ \A f \in SUBSET ToSet(edges) : Spans(f) => TotalOf(kept) <= TotalOf(f)
=============================================================================
