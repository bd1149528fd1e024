------------------------------ MODULE SkipList ------------------------------
(***************************************************************************)
(* SkipList: an ordered set as a linked list with express lanes, in an     *)
(* arena whose node 0 is the head.  Removed nodes keep their slot.         *)
(***************************************************************************)
EXTENDS Integers, FiniteSets, Sequences

CONSTANTS Keys, None,
    MaxLevel,   \* 8 in the code
    MaxNodes    \* bound: slots of the arena, the head included

VARIABLES list, out

Nil == -1
Levels == 0 .. MaxLevel - 1
Sentinel == [key |-> None, level |-> MaxLevel, forward |-> [l \in Levels |-> Nil]]
New == [node |-> <<Sentinel>>, keys |-> 0, tail |-> Nil, bit |-> 1]

Init == list = New /\ out = [op |-> "new", key |-> None, result |-> None]

Returns(op, k, r) == out' = [op |-> op, key |-> k, result |-> r]

Node(s, n) == s.node[n + 1]
Forward(s, n, l) == Node(s, n).forward[l]

\* random_level.  Only the lowest bit of the generator matters, and an odd
\* multiplier and increment flip it at every draw.
RandomLevel(s) ==
    LET draw[l \in 1 .. MaxLevel, b \in 0..1] ==
            IF l = MaxLevel THEN [level |-> l, bit |-> b]
            ELSE IF b = 1 THEN [level |-> l, bit |-> 0]
            ELSE draw[l + 1, 1]
    IN  draw[1, s.bit]

\* The last node before x in lane l, coming from the lanes above it.
Before(s, x) ==
    LET go[l \in Levels, n \in 0 .. Len(s.node) - 1] ==
            IF Forward(s, n, l) = Nil \/ Node(s, Forward(s, n, l)).key >= x THEN n
            ELSE go[l, Forward(s, n, l)]
        down[l \in 0 .. MaxLevel] == IF l = MaxLevel THEN 0 ELSE go[l, down[l + 1]]
    IN  [l \in Levels |-> down[l]]
Candidate(s, x) == Forward(s, Before(s, x)[0], 0)
Member(s, x) == Candidate(s, x) # Nil /\ Node(s, Candidate(s, x)).key = x

Added(s, x) ==
    LET before == Before(s, x)
        drawn == RandomLevel(s)
        new == Len(s.node)
        lanes == 0 .. drawn.level - 1
        relinked == [i \in DOMAIN s.node |->
            [s.node[i] EXCEPT !.forward = [l \in Levels |->
                IF l \in lanes /\ before[l] = i - 1 THEN new ELSE s.node[i].forward[l]]]]
        fresh == [key |-> x, level |-> drawn.level,
                  forward |-> [l \in Levels |-> IF l \in lanes THEN Forward(s, before[l], l) ELSE Nil]]
    IN  [node |-> Append(relinked, fresh), keys |-> s.keys + 1, bit |-> drawn.bit,
         tail |-> IF fresh.forward[0] = Nil THEN new ELSE s.tail]

Removed(s, x) ==
    LET before == Before(s, x)
        gone == Candidate(s, x)
    IN  [s EXCEPT
            !.node = [i \in DOMAIN s.node |->
                [s.node[i] EXCEPT !.forward = [l \in Levels |->
                    IF l < Node(s, gone).level /\ before[l] = i - 1 /\ @[l] = gone
                    THEN Forward(s, gone, l) ELSE @[l]]]],
            !.keys = @ - 1,
            !.tail = IF @ # gone THEN @ ELSE IF before[0] = 0 THEN Nil ELSE before[0]]

Add(x) ==
    /\ Len(list.node) < MaxNodes
    /\ list' = IF Member(list, x) THEN list ELSE Added(list, x)
    /\ Returns("add", x, ~Member(list, x))

Discard(x) ==
    /\ list' = IF Member(list, x) THEN Removed(list, x) ELSE list
    /\ Returns("discard", x, Member(list, x))

\* clear keeps the arrays and the state of the generator.
Clear ==
    /\ list' = [New EXCEPT !.bit = list.bit]
    /\ Returns("clear", None, list.keys)

Next == \/ \E x \in Keys : Add(x) \/ Discard(x)
        \/ Clear

Least(s) == IF Forward(s, 0, 0) = Nil THEN None ELSE Node(s, Forward(s, 0, 0)).key
Greatest(s) == IF s.tail = Nil THEN None ELSE Node(s, s.tail).key

-----------------------------------------------------------------------------
\* The nodes on lane l.
Lane(s, l) ==
    LET on[d \in 0 .. Len(s.node)] ==
            IF d = 0 THEN {0}
            ELSE LET so == on[d - 1] IN so \cup ({Forward(s, n, l) : n \in so} \ {Nil})
    IN  on[Len(s.node)] \ {0}
Content(s) == [x \in {Node(s, n).key : n \in Lane(s, 0)} |-> TRUE]

TypeOK ==
    /\ list.keys = Cardinality(Lane(list, 0))
    /\ list.bit \in 0..1 /\ list.tail \in {Nil} \cup Lane(list, 0)
    /\ \A i \in DOMAIN list.node : list.node[i].level \in 1..MaxLevel

\* Each lane holds exactly the nodes of its level that the lane below links, so
\* the walk down the lanes finds every key; the tail is the largest.
LookupsAgree ==
    LET m == DOMAIN Content(list) IN
    /\ \A x \in Keys : Member(list, x) = (x \in m)
    /\ \A l \in Levels : Lane(list, l) = {n \in Lane(list, 0) : Node(list, n).level > l}
    /\ \A x \in m : Least(list) <= x /\ x <= Greatest(list)
    /\ m = {} => Least(list) = None /\ Greatest(list) = None
=============================================================================
