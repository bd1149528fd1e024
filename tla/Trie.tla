-------------------------------- MODULE Trie --------------------------------
(***************************************************************************)
(* Trie: a prefix tree in an arena with a free list.  A freed node keeps   *)
(* the link to the next one in its child slot 0, which no word uses, words *)
(* being NUL-terminated.                                                   *)
(***************************************************************************)
EXTENDS Integers, FiniteSets, Sequences, SequencesExt

CONSTANTS Words,    \* the words tried
    Letters,        \* bytes other than 0
    None

VARIABLES trie, out

Nil == -1
Slots == Letters \cup {0}
Leaf == [child |-> [c \in Slots |-> Nil], isEnd |-> FALSE]
New == [node |-> <<Leaf>>, words |-> 0, free |-> Nil, freeCount |-> 0]

Init == trie = New /\ out = [op |-> "new", key |-> None, result |-> None]

Returns(op, k, r) == out' = [op |-> op, key |-> k, result |-> r]

ChildOf(t, n, c) == t.node[n + 1].child[c]
WithChild(t, n, c, x) == [t EXCEPT !.node[n + 1].child[c] = x]

\* new_node: the head of the free list, or a slot at the end of the arena.
\* Faulty: a recycled node keeps its children.
NewNodeDirty(t) ==
    IF t.free # Nil
    THEN [t |-> [t EXCEPT !.free = ChildOf(t, t.free, 0), !.freeCount = @ - 1,
                          !.node[t.free + 1].isEnd = FALSE],
          n |-> t.free]
    ELSE [t |-> [t EXCEPT !.node = Append(@, Leaf)], n |-> Len(t.node)]
NewNode(t) ==
    IF t.free # Nil
    THEN [t |-> [t EXCEPT !.free = ChildOf(t, t.free, 0), !.freeCount = @ - 1,
                          !.node[t.free + 1] = Leaf],
          n |-> t.free]
    ELSE [t |-> [t EXCEPT !.node = Append(@, Leaf)], n |-> Len(t.node)]

\* walk: the nodes passed after reading each prefix of w; Nil off the tree.
Walk(t, w) ==
    LET at[i \in 0 .. Len(w)] ==
            IF i = 0 THEN 0
            ELSE LET n == at[i - 1] IN IF n = Nil THEN Nil ELSE ChildOf(t, n, w[i])
    IN  at
Member(t, w) == LET n == Walk(t, w)[Len(w)] IN n # Nil /\ t.node[n + 1].isEnd
StartsWith(t, w) == Walk(t, w)[Len(w)] # Nil

\* insert makes the missing nodes of the path.
Grown(t, w) ==
    LET step(at, c) ==
            IF ChildOf(at.t, at.n, c) # Nil THEN [at EXCEPT !.n = ChildOf(at.t, at.n, c)]
            ELSE LET new == NewNode(at.t) IN [t |-> WithChild(new.t, at.n, c, new.n), n |-> new.n]
        end == FoldLeft(step, [t |-> t, n |-> 0], w)
    IN  [end.t EXCEPT !.node[end.n + 1].isEnd = TRUE, !.words = @ + 1]

Add(w) ==
    /\ trie' = IF Member(trie, w) THEN trie ELSE Grown(trie, w)
    /\ Returns("add", w, ~Member(trie, w))

\* delete unmarks the word, then unlinks and frees dead nodes up the path.
Dead(t, n) ==
    /\ n # 0 /\ ~t.node[n + 1].isEnd
    /\ \A c \in Slots : ChildOf(t, n, c) = Nil

Freed(t, parent, c, n) ==
    [WithChild(WithChild(t, parent, c, Nil), n, 0, t.free) EXCEPT !.free = n, !.freeCount = @ + 1]

Removed(t0, w) ==
    LET path == Walk(t0, w)
        t == [t0 EXCEPT !.node[path[Len(w)] + 1].isEnd = FALSE, !.words = @ - 1]
        up[i \in 0 .. Len(w)] ==  \* the trie after i steps back, and whether to go on
            IF i = 0 THEN [t |-> t, on |-> TRUE]
            ELSE LET step == Len(w) - i + 1
                     was == up[i - 1]
                 IN  IF was.on /\ Dead(was.t, path[step])
                     THEN [t |-> Freed(was.t, path[step - 1], w[step], path[step]), on |-> TRUE]
                     ELSE [was EXCEPT !.on = FALSE]
    IN  up[Len(w)].t

Discard(w) ==
    /\ trie' = IF Member(trie, w) THEN Removed(trie, w) ELSE trie
    /\ Returns("discard", w, Member(trie, w))

\* clear forgets every node but the root, the freed ones too.
Clear ==
    /\ trie' = New
    /\ Returns("clear", None, trie.words)

Next == \/ \E w \in Words : Add(w) \/ Discard(w)
        \/ Clear

NodeCount(t) == Len(t.node) - t.freeCount

-----------------------------------------------------------------------------
Content(t) == [w \in {x \in Words : Member(t, x)} |-> TRUE]

Live(t) ==
    LET level[d \in 0 .. Len(t.node)] ==
            IF d = 0 THEN {0}
            ELSE LET above == level[d - 1]
                 IN  above \cup ({ChildOf(t, n, c) : n \in above, c \in Slots} \ {Nil})
    IN  level[Len(t.node)]
FreeList(t) ==
    LET chain[d \in 0 .. Len(t.node)] ==
            IF d = 0 THEN {t.free} \ {Nil}
            ELSE LET before == chain[d - 1]
                 IN  before \cup ({ChildOf(t, n, 0) : n \in before} \ {Nil})
    IN  chain[Len(t.node)]

TypeOK ==
    /\ \A i \in DOMAIN trie.node :
          /\ trie.node[i].child \in [Slots -> -1 .. Len(trie.node) - 1]
          /\ trie.node[i].isEnd \in BOOLEAN
    /\ trie.words = Cardinality(DOMAIN Content(trie))

\* Every node of the arena is either on the tree or on the free list, never on
\* both; a free node has no child and a live one leads to a word.
ArenaSplit ==
    LET t == trie IN
    /\ Live(t) \cap FreeList(t) = {}
    /\ Live(t) \cup FreeList(t) = 0 .. Len(t.node) - 1
    /\ NodeCount(t) = Cardinality(Live(t))
    /\ \A n \in FreeList(t), c \in Letters : ChildOf(t, n, c) = Nil
    /\ \A n \in Live(t) : ~Dead(t, n)

\* A prefix is found exactly when a word in the trie has it.
LookupsAgree ==
    \A w \in Words : \A i \in 1 .. Len(w) :
        StartsWith(trie, SubSeq(w, 1, i)) =
            \E x \in DOMAIN Content(trie) : Len(x) >= i /\ SubSeq(x, 1, i) = SubSeq(w, 1, i)
=============================================================================
