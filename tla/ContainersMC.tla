---------------------------- MODULE ContainersMC ----------------------------
(* Small instances of Containers for TLC.                                    *)
EXTENDS Containers

\* Two keys start their walk at the same slot, one of them the last one.
MCHash == [k \in Keys |-> IF k = 2 THEN 0 ELSE 7]
MCTableCapacities == <<2, 8>>
MCRingCapacities == <<2, 4>>
MCArenaSizes == <<8, 64, 5>>
MCWords == {<<>>, <<1>>, <<2>>, <<1, 2>>, <<1, 1, 2>>}
\* Cycles, a loop, ends that are no node, one that becomes a node when stored
\* (and then is the cheaper of two edges between the same nodes).
MCEdge(u, v, w) == [src |-> u, dst |-> v, w |-> w]
MCGraphEdges == {MCEdge(0, 1, 1), MCEdge(1, 2, 1), MCEdge(0, 2, 3), MCEdge(16, 2, 2),
                 MCEdge(2, 0, 2), MCEdge(1, 1, 2), MCEdge(2, 3, 0), MCEdge(-1, 1, 0)}
MCGraphBounds == <<4, 8>>
MCHeuristics == {[v \in 0 .. 2 |-> IF v = 2 THEN 0 ELSE 1], [v \in 0 .. 2 |-> 2 - v]}
\* Of three keys one has a step of 0 and one wraps around.
MCShapes == {<<0, 0>>, <<9, 2>>, <<8, 3>>}
MCVecTypes == {<<>>, <<"str">>, <<"vec">>, <<"struct", "str">>, <<"struct", "vec">>,
               <<"struct", "struct", "str">>, <<"enum", "str">>, <<"enum", "vec">>,
               <<"struct", "enum", "str">>}
\* Comparators that reverse the order and that take 0 and 2 for equal.
MCIntArguments ==
    [others |-> {<<>>, <<1>>, <<2, 0>>, <<0, 0, 1>>},
     predicates |-> {[x \in Ints |-> x > 0], [x \in Ints |-> x = 1], [x \in Ints |-> FALSE]},
     mappers |-> {[x \in Ints |-> 2 - x], [x \in Ints |-> IF x = 2 THEN 0 ELSE 1]},
     comparators |-> {[p \in Ints \X Ints |-> p[2] - p[1]],
                      [p \in Ints \X Ints |-> (p[1] % 2) - (p[2] % 2)]}]
\* In words of 8 bits: the ends, powers of 2 and of 10, squares, primes, signs.
MCNumberArguments ==
    {-128, -127, -64, -12, -3, -2, -1, 0, 1, 2, 3, 4, 5, 7, 10, 12, 16, 30, 63, 64, 97, 126, 127}
MCStep == [k \in Keys |-> IF k = 2 THEN 0 ELSE 62 + k]
=============================================================================
