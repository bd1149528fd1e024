----------------------------- MODULE BinaryHeap -----------------------------
(***************************************************************************)
(* BinaryHeap<i64>: a min-heap in one array, numbered from 0.              *)
(***************************************************************************)
EXTENDS Integers, Sequences, SequencesExt

CONSTANTS Elements, None,
    MaxLen    \* bound

VARIABLES heap, out

Init == heap = <<>> /\ out = [op |-> "new", arg |-> None, result |-> None]

Returns(op, v, r) == out' = [op |-> op, arg |-> v, result |-> r]

Val(h, i) == h[i + 1]
Swap(h, i, j) == [h EXCEPT ![i + 1] = Val(h, j), ![j + 1] = Val(h, i)]

RECURSIVE SiftUp(_, _), SiftDown(_, _)
SiftUp(h, i) ==
    LET parent == (i - 1) \div 2
    IN  IF i = 0 \/ Val(h, i) >= Val(h, parent) THEN h
        ELSE SiftUp(Swap(h, i, parent), parent)

\* Faulty: the right child is not looked at.
SmallestLeft(h, i) ==
    LET left == 2 * i + 1
    IN  IF left < Len(h) /\ Val(h, left) < Val(h, i) THEN left ELSE i
Smallest(h, i) ==
    LET left == 2 * i + 1
        right == 2 * i + 2
        s == IF left < Len(h) /\ Val(h, left) < Val(h, i) THEN left ELSE i
    IN  IF right < Len(h) /\ Val(h, right) < Val(h, s) THEN right ELSE s

SiftDown(h, i) ==
    IF Smallest(h, i) = i THEN h ELSE SiftDown(Swap(h, i, Smallest(h, i)), Smallest(h, i))

Push(v) ==
    /\ Len(heap) < MaxLen
    /\ heap' = SiftUp(Append(heap, v), Len(heap))
    /\ Returns("push", v, Len(heap) + 1)

\* The last element moves to the root and sinks.
Pop ==
    IF heap = <<>> THEN heap' = heap /\ Returns("pop", None, None)
    ELSE /\ heap' = IF Len(heap) = 1 THEN <<>>
                    ELSE SiftDown([Front(heap) EXCEPT ![1] = Last(heap)], 0)
         /\ Returns("pop", None, Val(heap, 0))

Clear == heap' = <<>> /\ Returns("clear", None, Len(heap))

Peek == IF heap = <<>> THEN None ELSE Val(heap, 0)

Next == (\E v \in Elements : Push(v)) \/ Pop \/ Clear

-----------------------------------------------------------------------------
Content(h) == SortSeq(h, <)

TypeOK == heap \in Seq(Elements)

\* Every parent is at most its children, so the root is the least element.
LookupsAgree ==
    /\ \A i \in 1 .. Len(heap) - 1 : Val(heap, (i - 1) \div 2) <= Val(heap, i)
    /\ heap # <<>> => \A i \in DOMAIN heap : Peek <= heap[i]
=============================================================================
