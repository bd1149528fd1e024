------------------------------- MODULE Graph -------------------------------
(***************************************************************************)
(* Graph: a list of weighted edges, and two adjacency tables built from it *)
(* by the first query that needs them and thrown away by every change.     *)
(* The tables are built behind a shared reference.                         *)
(***************************************************************************)
EXTENDS Integers, Sequences, SequencesExt, FiniteSetsExt

CONSTANTS
    None,
    Sizes,        \* arguments of graph_new
    Edges,        \* arguments of add_edge: [src, dst, w]; the weights are not negative
    IndexHalf,    \* node numbers are stored as -IndexHalf .. IndexHalf - 1 (2^31)
    MaxEdges,     \* bound
    Heuristics    \* tables given to A*, functions on the nodes

VARIABLES graph, out

New(n) == [nodes |-> IF n < 0 THEN 0 ELSE n, edges |-> <<>>, forward |-> None, reverse |-> None]

Returns(op, v, r) == out' = [op |-> op, arg |-> v, result |-> r]

Init ==
    /\ \E n \in Sizes : graph = New(n)
    /\ out = [op |-> "new", arg |-> None, result |-> None]

Nodes(g) == 0 .. g.nodes - 1
Index32(x) == ((x + IndexHalf) % (2 * IndexHalf)) - IndexHalf
Invalidated(g) == [g EXCEPT !.forward = None, !.reverse = None]

-----------------------------------------------------------------------------
(* The tables: edges grouped by one end, in the order they were added.      *)
(* start[v] counts the edges of the nodes before v; each edge goes to the   *)
(* next slot of its node.  Edges whose end is no node are left out; the     *)
(* other end is looked at by whoever walks the table.                       *)
Table(g, from, to) ==
    LET kept == SelectSeq(g.edges, LAMBDA e : e[from] \in Nodes(g))
        start == [v \in 0 .. g.nodes |-> Cardinality({i \in DOMAIN kept : kept[i][from] < v})]
        slot(i) == start[kept[i][from]] + Cardinality({j \in 1 .. i - 1 : kept[j][from] = kept[i][from]})
        at(p) == kept[CHOOSE i \in DOMAIN kept : slot(i) = p]
    IN  [start |-> start,
         slots |-> [p \in 0 .. Len(kept) - 1 |-> [to |-> at(p)[to], w |-> at(p).w]]]

BuiltForward(g) ==
    IF g.forward # None \/ g.nodes = 0 THEN g ELSE [g EXCEPT !.forward = Table(g, "src", "dst")]
BuiltReverse(g) ==
    IF g.reverse # None \/ g.nodes = 0 THEN g ELSE [g EXCEPT !.reverse = Table(g, "dst", "src")]

\* What a walk of node u's slots sees.
Around(g, table, u) ==
    LET first == table.start[u]
    IN  SelectSeq([k \in 1 .. table.start[u + 1] - first |-> table.slots[first + k - 1]],
                  LAMBDA s : s.to \in Nodes(g))
Neighbours(g, u) == Around(g, g.forward, u)

AddEdge(e) ==
    /\ Len(graph.edges) < MaxEdges
    /\ graph' = [Invalidated(graph) EXCEPT
                    !.edges = Append(@, [src |-> Index32(e.src), dst |-> Index32(e.dst), w |-> e.w])]
    /\ Returns("add_edge", e, Len(graph.edges) + 1)

Clear ==
    /\ graph' = [Invalidated(graph) EXCEPT !.edges = <<>>]
    /\ Returns("clear", None, Len(graph.edges))

-----------------------------------------------------------------------------
Rounds(g) == [i \in 1 .. g.nodes |-> i]

\* bfs_reach takes the first of the nodes to visit, dfs_reach the last.
Reached(g, s, first) ==
    LET u == IF first THEN Head(s.todo) ELSE Last(s.todo)
        rest == IF first THEN Tail(s.todo) ELSE Front(s.todo)
    IN  FoldLeft(LAMBDA r, n : IF n.to \in r.seen THEN r
                               ELSE [seen |-> r.seen \cup {n.to}, todo |-> Append(r.todo, n.to)],
                 [seen |-> s.seen, todo |-> rest], Neighbours(g, u))
Search(g, start, first) ==
    IF start \notin Nodes(g) THEN 0
    ELSE Cardinality(FoldLeft(LAMBDA s, i : IF s.todo = <<>> THEN s ELSE Reached(g, s, first),
                              [seen |-> {start}, todo |-> <<start>>], Rounds(g)).seen)
BfsReach(g, start) == Search(g, start, TRUE)
DfsReach(g, start) == Search(g, start, FALSE)

\* Kahn: the nodes that lose their last incoming edge, in that order.
Peel(g, s) ==
    LET u == Head(s.todo)
    IN  FoldLeft(LAMBDA r, n : [r EXCEPT !.in[n.to] = @ - 1,
                                         !.todo = IF r.in[n.to] = 1 THEN Append(@, n.to) ELSE @],
                 [s EXCEPT !.todo = Tail(@), !.order = Append(@, u)], Neighbours(g, u))
TopoSort(g) ==
    IF g.nodes = 0 THEN <<>> ELSE
    LET in == [v \in Nodes(g) |->
                  Cardinality({p \in DOMAIN g.forward.slots : g.forward.slots[p].to = v})]
        none == SelectSeq([i \in 1 .. g.nodes |-> i - 1], LAMBDA v : in[v] = 0)
    IN  FoldLeft(LAMBDA s, i : IF s.todo = <<>> THEN s ELSE Peel(g, s),
                 [in |-> in, todo |-> none, order |-> <<>>], Rounds(g)).order
HasCycle(g) == Len(TopoSort(g)) < g.nodes

\* None is the largest number.
Less(a, b) == a # None /\ (b = None \/ a < b)
\* The first of the nodes not done whose value is smallest, if any has one.
Nearest(g, value, done) ==
    {u \in Nodes(g) \ done :
        /\ value[u] # None
        /\ \A v \in Nodes(g) \ done :
              ~Less(value[v], value[u]) /\ (value[v] = value[u] => u <= v)}

Relax(g, s, u) ==
    FoldLeft(LAMBDA r, n : IF Less(r.dist[u] + n.w, r.dist[n.to])
                           THEN [r EXCEPT !.dist[n.to] = r.dist[u] + n.w] ELSE r,
             [s EXCEPT !.done = @ \cup {u}], Neighbours(g, u))
\* A settled node is never taken again, even if its distance shrinks.
Settle(g, dst, h, s) ==
    LET value == [v \in Nodes(g) |-> IF s.dist[v] = None THEN None ELSE s.dist[v] + h[v]]
        next == Nearest(g, value, s.done)
    IN  IF s.stop \/ next = {} THEN [s EXCEPT !.stop = TRUE]
        ELSE LET u == CHOOSE u \in next : TRUE
             IN  IF u = dst THEN [s EXCEPT !.stop = TRUE] ELSE Relax(g, s, u)
Astar(g, src, dst, h) ==
    IF {src, dst} \subseteq Nodes(g) /\ DOMAIN h = Nodes(g)
    THEN FoldLeft(LAMBDA s, i : Settle(g, dst, h, s),
                  [dist |-> [v \in Nodes(g) |-> IF v = src THEN 0 ELSE None],
                   done |-> {}, stop |-> src = dst], Rounds(g)).dist[dst]
    ELSE None
Dijkstra(g, src, dst) == Astar(g, src, dst, [v \in Nodes(g) |-> 0])

\* Kruskal: cheapest edge first, the older one if equal; `set` is the union-find.
Join(g, s, e) ==
    IF s.taken >= g.nodes - 1 \/ ~({e.src, e.dst} \subseteq Nodes(g)) THEN s
    ELSE IF s.set[e.src] = s.set[e.dst] THEN s
    ELSE [set |-> [v \in Nodes(g) |-> IF s.set[v] = s.set[e.src] THEN s.set[e.dst] ELSE s.set[v]],
          taken |-> s.taken + 1, total |-> s.total + e.w]
MstKruskal(g) ==
    LET cheaper(i, j) == g.edges[i].w < g.edges[j].w \/ (g.edges[i].w = g.edges[j].w /\ i < j)
        end == FoldLeft(LAMBDA s, i : Join(g, s, g.edges[i]),
                        [set |-> [v \in Nodes(g) |-> v], taken |-> 0, total |-> 0],
                        SetToSortSeq(DOMAIN g.edges, cheaper))
    IN  IF g.nodes # 0 /\ end.taken >= g.nodes - 1 THEN end.total ELSE None

\* Prim, from node 0: the edges of a new node are looked up in both tables.
Grow(g, s) ==
    LET next == Nearest(g, s.best, s.done) IN
    IF next = {} THEN s ELSE
    LET u == CHOOSE u \in next : TRUE
        grown == [s EXCEPT !.done = @ \cup {u}, !.total = @ + s.best[u]]
    IN  FoldLeft(LAMBDA r, n : IF n.to \notin r.done /\ Less(n.w, r.best[n.to])
                               THEN [r EXCEPT !.best[n.to] = n.w] ELSE r,
                 grown, Neighbours(g, u) \o Around(g, g.reverse, u))
MstPrim(g) ==
    LET end == FoldLeft(LAMBDA s, i : Grow(g, s),
                        [best |-> [v \in Nodes(g) |-> IF v = 0 THEN 0 ELSE None],
                         done |-> {}, total |-> 0], Rounds(g))
    IN  IF g.nodes # 0 /\ end.done = Nodes(g) THEN end.total ELSE None

\* Every query leaves the tables it needed: mst_prim both, mst_kruskal none,
\* the others the forward one.
Walk ==
    /\ graph' = BuiltForward(graph)
    /\ Returns("has_cycle", None, HasCycle(graph'))
Span ==
    /\ graph' = BuiltReverse(BuiltForward(graph))
    /\ Returns("mst_prim", None, MstPrim(graph'))

Next == (\E e \in Edges : AddEdge(e)) \/ Clear \/ Walk \/ Span

-----------------------------------------------------------------------------
TypeOK ==
    /\ graph.nodes \in Nat
    /\ graph.edges \in Seq([src : -IndexHalf .. IndexHalf - 1, dst : -IndexHalf .. IndexHalf - 1, w : Nat])
    /\ graph.forward # None => DOMAIN graph.forward.start = 0 .. graph.nodes
    /\ graph.reverse # None => DOMAIN graph.reverse.start = 0 .. graph.nodes

(* What the queries mean, from the list of edges alone. *)
Real(g) == {i \in DOMAIN g.edges : {g.edges[i].src, g.edges[i].dst} \subseteq Nodes(g)}
Weights(g, u, v) == {g.edges[i].w : i \in {j \in Real(g) : g.edges[j].src = u /\ g.edges[j].dst = v}}

\* Node sequences without repetition, by the number of nodes.
Tours == [n \in {IF m < 0 THEN 0 ELSE m : m \in Sizes} |->
             {p \in SeqOf(0 .. n - 1, n) : p # <<>> /\ IsInjective(p)}]
Routes(g) == {p \in Tours[g.nodes] : \A i \in 1 .. Len(p) - 1 : Weights(g, p[i], p[i + 1]) # {}}
Cost(g, p) == FoldLeft(LAMBDA c, i : c + Min(Weights(g, p[i], p[i + 1])), 0,
                        [i \in 1 .. Len(p) - 1 |-> i])

\* A* is right with a table that never drops by more than an edge costs.
Consistent(g, dst, h) ==
    /\ h[dst] = 0
    /\ \A i \in Real(g) : h[g.edges[i].src] <= g.edges[i].w + h[g.edges[i].dst]

SpanningCosts(g) ==
    LET spans(S) == \A part \in (SUBSET Nodes(g)) \ {{}, Nodes(g)} :
                       \E i \in S : (g.edges[i].src \in part) # (g.edges[i].dst \in part)
    IN  {MapThenSumSet(LAMBDA i : g.edges[i].w, S) :
             S \in {T \in kSubset(g.nodes - 1, Real(g)) : spans(T)}}

\* With the tables there are or that would be built now, every query agrees
\* with the list of edges: reachability by paths, cycles, an order of the nodes
\* off and before the cycles, cheapest paths, cheapest spanning trees.
LookupsAgree ==
    LET g == BuiltReverse(BuiltForward(graph))
        routes == Routes(g)
        paths(u, v) == {p \in routes : p[1] = u /\ Last(p) = v}
        least(costs) == IF costs = {} THEN None ELSE Min(costs)
        distance == [u, v \in Nodes(g) |-> least({Cost(g, p) : p \in paths(u, v)})]
        onCycle == {v \in Nodes(g) : \E u \in Nodes(g) :
                        Weights(g, u, v) # {} /\ distance[v, u] # None}
        order == TopoSort(g)
    IN
    /\ \A u \in Nodes(g) :
          /\ BfsReach(g, u) = Cardinality({v \in Nodes(g) : distance[u, v] # None})
          /\ DfsReach(g, u) = BfsReach(g, u)
    /\ HasCycle(g) = (onCycle # {})
    /\ ToSet(order) = {v \in Nodes(g) : \A c \in onCycle : distance[c, v] = None}
    /\ IsInjective(order)
    /\ \A i, j \in DOMAIN order : i <= j => Weights(g, order[j], order[i]) = {}
    /\ \A u, v \in Nodes(g) :
          /\ Dijkstra(g, u, v) = distance[u, v]
          /\ \A h \in Heuristics :
                DOMAIN h = Nodes(g) /\ Consistent(g, v, h) => Astar(g, u, v, h) = distance[u, v]
    /\ MstPrim(g) = IF g.nodes = 0 THEN None ELSE least(SpanningCosts(g))
    /\ MstKruskal(g) = MstPrim(g)
    /\ BfsReach(g, g.nodes) = 0 /\ Dijkstra(g, -1, 0) = None
=============================================================================
