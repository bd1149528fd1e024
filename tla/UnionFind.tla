----------------------------- MODULE UnionFind -----------------------------
(***************************************************************************)
(* UnionFind: a forest of parent links with ranks; find compresses the     *)
(* path it walked.  Elements outside 0..N-1 are their own roots.           *)
(***************************************************************************)
EXTENDS Integers, FiniteSets

CONSTANTS N, None

VARIABLES uf, out

Elems == 0 .. N - 1
Singletons == [parent |-> [x \in Elems |-> x], rank |-> [x \in Elems |-> 0], sets |-> N]

Init == uf = Singletons /\ out = [op |-> "new", arg |-> None, result |-> None]

Returns(op, x, r) == out' = [op |-> op, arg |-> x, result |-> r]

\* The nodes from x up, as far as N steps.
Path(u, x) ==
    LET up[n \in 0 .. N] == IF n = 0 THEN x ELSE u.parent[up[n - 1]]
    IN  up
Above(u, x) == {Path(u, x)[n] : n \in 0 .. N}
\* Faulty: stops at the parent.
RootOneStep(u, x) == IF x \notin Elems THEN x ELSE u.parent[x]
Root(u, x) ==
    IF x \notin Elems THEN x ELSE CHOOSE r \in Above(u, x) : u.parent[r] = r

\* find: every node of the path is pointed at the root.
Compressed(u, x) ==
    IF x \notin Elems THEN u
    ELSE [u EXCEPT !.parent = [y \in Elems |-> IF y \in Above(u, x) THEN Root(u, x) ELSE @[y]]]

Find(x) ==
    /\ uf' = Compressed(uf, x)
    /\ Returns("find", x, Root(uf, x))

\* Bound: elements inside only; union reads rank[x] without a check.
Union(a, b) ==
    LET u == Compressed(Compressed(uf, a), b)
        ra == Root(uf, a)
        rb == Root(uf, b)
    IN
    /\ uf' = IF ra = rb THEN u
             ELSE LET lower == IF u.rank[ra] < u.rank[rb] THEN ra ELSE rb
                      upper == IF lower = ra THEN rb ELSE ra
                  IN  [u EXCEPT !.parent[lower] = upper, !.sets = @ - 1,
                                !.rank[upper] = IF u.rank[ra] = u.rank[rb] THEN @ + 1 ELSE @]
    /\ Returns("union", <<a, b>>, ra # rb)

Connected(a, b) ==
    /\ uf' = Compressed(Compressed(uf, a), b)
    /\ Returns("connected", <<a, b>>, Root(uf, a) = Root(uf, b))

Clear ==
    /\ uf' = Singletons
    /\ Returns("clear", None, uf.sets)

Next ==
    \/ \E x \in Elems \cup {N} : Find(x)
    \/ \E a, b \in Elems : Union(a, b) \/ Connected(a, b)
    \/ Clear

Spec == Init /\ [][Next]_<<uf, out>>

-----------------------------------------------------------------------------
Blocks == {{y \in Elems : Root(uf, y) = Root(uf, x)} : x \in Elems}

TypeOK ==
    /\ uf.parent \in [Elems -> Elems]
    /\ uf.rank \in [Elems -> 0 .. N - 1]

\* The links form trees: every walk ends at a root, ranks grow towards it, and
\* the count of sets is the number of roots.
Forest ==
    /\ \A x \in Elems : \E r \in Above(uf, x) : uf.parent[r] = r
    /\ \A x \in Elems : uf.parent[x] # x => uf.rank[x] < uf.rank[uf.parent[x]]
    /\ uf.sets = Cardinality(Blocks)

\* A call changes which elements are together only by joining the two sets it
\* was given, and answers whether it did.
JoinsOnlyThese ==
    \/ Blocks' = Blocks /\ (out'.op = "union" => out'.result = FALSE)
    \/ /\ out'.op = "union" /\ out'.result
       /\ \E p, q \in Blocks :
             /\ p # q /\ out'.arg[1] \in p /\ out'.arg[2] \in q
             /\ Blocks' = (Blocks \ {p, q}) \cup {p \cup q}
    \/ out'.op = "clear" /\ Blocks' = {{x} : x \in Elems}
=============================================================================
