------------------------------ MODULE AvlTree ------------------------------
(***************************************************************************)
(* Bst<i64>: an AVL tree in an arena.  Nodes are indices into parallel     *)
(* arrays; insert and remove record the search path and rebalance along it *)
(* on the way back.                                                        *)
(***************************************************************************)
EXTENDS Integers, FiniteSets, Sequences, SequencesExt

CONSTANTS Keys, None,
    FirstCapacity,  \* 8 in the code
    PathLength,     \* 64 in the code: the size of the path arrays
    SlotReuse       \* also insert when the next slot of the arena is in use

VARIABLES tree, out

Nil == -1
Unwritten == [key |-> None, left |-> Nil, right |-> Nil, height |-> 0]
New == [node |-> [i \in {} |-> Unwritten], root |-> Nil, len |-> 0]
Capacity(t) == Cardinality(DOMAIN t.node)

Init == tree = New /\ out = [op |-> "new", key |-> None, result |-> None]

Returns(op, k, r) == out' = [op |-> op, key |-> k, result |-> r]

-----------------------------------------------------------------------------
Child(t, n, side) == IF side = "left" THEN t.node[n].left ELSE t.node[n].right
Link(t, n, side, child) ==
    IF side = "left" THEN [t EXCEPT !.node[n].left = child]
                     ELSE [t EXCEPT !.node[n].right = child]
Other(side) == IF side = "left" THEN "right" ELSE "left"

Height(t, n) == IF n = Nil THEN 0 ELSE t.node[n].height
Taller(t, n) ==
    IF Height(t, t.node[n].left) > Height(t, t.node[n].right) THEN t.node[n].left ELSE t.node[n].right
UpdateHeight(t, n) == [t EXCEPT !.node[n].height = 1 + Height(t, Taller(t, n))]

\* rotate_right(x) brings up its left child, rotate_left(x) its right one;
\* the result is the tree and the new root of the subtree.
Rotate(t, x, up) ==
    LET y == Child(t, x, up)
        moved == Link(Link(t, x, up, Child(t, y, Other(up))), y, Other(up), x)
    IN  [t |-> UpdateHeight(UpdateHeight(moved, x), y), root |-> y]

Rebalance(t0, n) ==
    LET t == UpdateHeight(t0, n)
        over(side) == Height(t, Child(t, n, side)) - Height(t, Child(t, n, Other(side))) > 1
        raise(side) ==
            LET c == Child(t, n, side)
                inner == Height(t, Child(t, c, Other(side))) > Height(t, Child(t, c, side))
                turned == Rotate(t, c, Other(side))
            IN  Rotate(IF inner THEN Link(turned.t, n, side, turned.root) ELSE t, n, side)
    IN  IF over("left") THEN raise("left")
        ELSE IF over("right") THEN raise("right")
        ELSE [t |-> t, root |-> n]

Side(t, n, x) == IF x < t.node[n].key THEN "left" ELSE "right"

\* The walk for x: the nodes passed with the side taken, and where it ended.
RECURSIVE Descend(_, _, _, _)
Descend(t, x, path, cur) ==
    IF cur = Nil \/ Len(path) = PathLength \/ t.node[cur].key = x
    THEN [path |-> path, at |-> cur]
    ELSE LET side == Side(t, cur, x)
         IN  Descend(t, x, Append(path, [node |-> cur, side |-> side]), Child(t, cur, side))
Search(t, x) == Descend(t, x, <<>>, t.root)

\* From the root of the tree below n to its leftmost node.
RECURSIVE Leftmost(_, _, _)
Leftmost(t, path, cur) ==
    IF t.node[cur].left = Nil \/ Len(path) = PathLength THEN [path |-> path, at |-> cur]
    ELSE Leftmost(t, Append(path, [node |-> cur, side |-> "left"]), t.node[cur].left)

\* Hang sub under the last node of the path, then rebalance up to the root.
Rise(t, path, sub) ==
    LET step(p, below) == Rebalance(Link(below.t, p.node, p.side, below.root), p.node)
        top == FoldRight(step, path, [t |-> t, root |-> sub])
    IN  [top.t EXCEPT !.root = top.root]

\* __emplace: the slot with number len.
Emplaced(t, x) ==
    LET size == IF t.len < Capacity(t) THEN Capacity(t)
                ELSE IF Capacity(t) = 0 THEN FirstCapacity ELSE 2 * Capacity(t)
        room == [i \in 0 .. size - 1 |-> IF i \in DOMAIN t.node THEN t.node[i] ELSE Unwritten]
    IN  [t EXCEPT !.node = [room EXCEPT ![t.len] = [Unwritten EXCEPT !.key = x, !.height = 1]],
                  !.len = @ + 1]

\* The nodes reachable from the root.
Live(t) ==
    LET level[d \in 0 .. Capacity(t)] ==
            IF d = 0 THEN {t.root} \ {Nil}
            ELSE LET above == level[d - 1]
                 IN  above \cup (UNION {{t.node[n].left, t.node[n].right} : n \in above} \ {Nil})
    IN  level[Capacity(t)]

Add(x) ==
    LET found == Search(tree, x) IN
    /\ SlotReuse \/ tree.len \notin Live(tree)
    /\ tree' = IF found.at # Nil THEN tree
               ELSE Rise(Emplaced(tree, x), found.path, tree.len)
    /\ Returns("add", x, found.at = Nil)

\* The node goes, or, with two children, its successor goes after its key has
\* been copied up.  Nothing reads the slot left behind before __emplace writes
\* it: it is blank here.
Removed(t, x) ==
    LET found == Search(t, x)
        n == t.node[found.at]
        succ == Leftmost(t, Append(found.path, [node |-> found.at, side |-> "right"]), n.right)
        without(gone) == [t EXCEPT !.len = @ - 1, !.node[gone] = Unwritten]
    IN  IF n.left # Nil /\ n.right # Nil
        THEN Rise([without(succ.at) EXCEPT !.node[found.at].key = t.node[succ.at].key],
                  succ.path, t.node[succ.at].right)
        ELSE Rise(without(found.at), found.path, IF n.left # Nil THEN n.left ELSE n.right)

Discard(x) ==
    LET found == Search(tree, x) IN
    /\ tree' = IF found.at = Nil THEN tree ELSE Removed(tree, x)
    /\ Returns("discard", x, found.at # Nil)

Clear ==
    /\ tree' = New
    /\ Returns("clear", None, tree.len)

Next ==
    \/ \E x \in Keys : Add(x) \/ Discard(x)
    \/ Clear

\* contains, min, max
Member(t, x) == Search(t, x).at # Nil
RECURSIVE Outermost(_, _, _)
Outermost(t, n, side) ==
    IF Child(t, n, side) = Nil THEN t.node[n].key ELSE Outermost(t, Child(t, n, side), side)
Least(t) == IF t.root = Nil THEN None ELSE Outermost(t, t.root, "left")
Greatest(t) == IF t.root = Nil THEN None ELSE Outermost(t, t.root, "right")

-----------------------------------------------------------------------------
Content(t) == [x \in {t.node[n].key : n \in Live(t)} |-> TRUE]

TypeOK ==
    /\ tree.root \in DOMAIN tree.node \cup {Nil}
    /\ tree.node \in [DOMAIN tree.node -> [key : Keys \cup {None}, left : DOMAIN tree.node \cup {Nil},
                                           right : DOMAIN tree.node \cup {Nil}, height : Nat]]

\* After every rotation the heights are exact and siblings differ by at most
\* one, so that no path outgrows the path arrays.
Balanced ==
    LET t == tree IN
    \A n \in Live(t) :
        /\ t.node[n].height = 1 + Height(t, Taller(t, n))
        /\ Height(t, t.node[n].left) - Height(t, t.node[n].right) \in -1 .. 1
        /\ Len(Search(t, t.node[n].key).path) < PathLength

\* Every key in the arena that is reachable is found where the order puts it.
LookupsAgree ==
    LET m == DOMAIN Content(tree) IN
    /\ \A x \in Keys : Member(tree, x) = (x \in m)
    /\ tree.len = Cardinality(m)
    /\ \A x \in m : Least(tree) <= x /\ x <= Greatest(tree)
    /\ m = {} => Least(tree) = None /\ Greatest(tree) = None
=============================================================================
