------------------------------- MODULE Deque -------------------------------
(***************************************************************************)
(* Deque<i64>: a ring buffer that doubles when it is full.                 *)
(***************************************************************************)
EXTENDS Integers, Sequences

CONSTANTS Elements, None,
    FirstCapacity,  \* 4 in the code
    MaxCapacity     \* bound

VARIABLES ring, out

New == [data |-> [i \in {} |-> None], front |-> 0, len |-> 0, capacity |-> 0]

Init == ring = New /\ out = [op |-> "new", arg |-> None, result |-> None]

Returns(op, v, r) == out' = [op |-> op, arg |-> v, result |-> r]

At(r, i) == (r.front + i) % r.capacity
Content(r) == [i \in 1 .. r.len |-> r.data[At(r, i - 1)]]

\* grow unwraps the ring into the new buffer, whose other cells are not written.
Grown(r) ==
    LET capacity == IF r.capacity = 0 THEN FirstCapacity ELSE 2 * r.capacity
    IN  [data |-> [i \in 0 .. capacity - 1 |-> IF i < r.len THEN r.data[At(r, i)] ELSE None],
         front |-> 0, len |-> r.len, capacity |-> capacity]
Room(r) == IF r.len >= r.capacity THEN Grown(r) ELSE r
WithinBound == ring.len < ring.capacity \/ 2 * ring.capacity <= MaxCapacity

PushBack(v) ==
    /\ WithinBound
    /\ LET r == Room(ring)
       IN  /\ ring' = [r EXCEPT !.data[At(r, r.len)] = v, !.len = @ + 1]
           /\ Returns("push_back", v, r.len + 1)

PushFront(v) ==
    /\ WithinBound
    /\ LET r == Room(ring)
           front == (r.front + r.capacity - 1) % r.capacity
       IN  /\ ring' = [r EXCEPT !.front = front, !.data[front] = v, !.len = @ + 1]
           /\ Returns("push_front", v, r.len + 1)

PopBack ==
    IF ring.len = 0 THEN ring' = ring /\ Returns("pop_back", None, None)
    ELSE /\ ring' = [ring EXCEPT !.len = @ - 1]
         /\ Returns("pop_back", None, ring.data[At(ring, ring.len - 1)])

PopFront ==
    IF ring.len = 0 THEN ring' = ring /\ Returns("pop_front", None, None)
    ELSE /\ ring' = [ring EXCEPT !.front = (@ + 1) % ring.capacity, !.len = @ - 1]
         /\ Returns("pop_front", None, ring.data[ring.front])

Clear ==
    /\ ring' = New
    /\ Returns("clear", None, ring.len)

PeekFront == IF ring.len = 0 THEN None ELSE ring.data[ring.front]
PeekBack == IF ring.len = 0 THEN None ELSE ring.data[(ring.front + ring.len - 1) % ring.capacity]

Next == \/ \E v \in Elements : PushBack(v) \/ PushFront(v)
        \/ PopBack \/ PopFront \/ Clear

Spec == Init /\ [][Next]_<<ring, out>>

TypeOK ==
    /\ ring.capacity \in Nat /\ ring.len \in 0 .. ring.capacity
    /\ ring.front \in Nat /\ (ring.capacity # 0 => ring.front < ring.capacity)
    /\ ring.data \in [0 .. ring.capacity - 1 -> Elements \cup {None}]

\* The cells in use hold elements, and both peeks show the ends.
LookupsAgree ==
    LET s == Content(ring) IN
    /\ \A i \in DOMAIN s : s[i] \in Elements
    /\ PeekFront = IF s = <<>> THEN None ELSE s[1]
    /\ PeekBack = IF s = <<>> THEN None ELSE s[Len(s)]
=============================================================================
