--------------------------- MODULE AbstractQueue ---------------------------
(***************************************************************************)
(* What Deque<i64> and BinaryHeap<i64> promise: a sequence open at both    *)
(* ends, and a bag that gives up its smallest element.                     *)
(***************************************************************************)
EXTENDS Integers, FiniteSets, Sequences, SequencesExt

CONSTANTS Elements, None

VARIABLES items, out

\* The first conjunct spares TLC the evaluation of the others.
Returns(op, v, r) ==
    /\ out'.op = op /\ out'.arg = v
    /\ out' = [op |-> op, arg |-> v, result |-> r]

Init == items = <<>> /\ out = [op |-> "new", arg |-> None, result |-> None]

PushBack(v)  == Returns("push_back", v, Len(items) + 1) /\ items' = Append(items, v)
PushFront(v) == Returns("push_front", v, Len(items) + 1) /\ items' = Cons(v, items)
PopBack ==
    IF items = <<>> THEN Returns("pop_back", None, None) /\ items' = items
    ELSE Returns("pop_back", None, Last(items)) /\ items' = Front(items)
PopFront ==
    IF items = <<>> THEN Returns("pop_front", None, None) /\ items' = items
    ELSE Returns("pop_front", None, Head(items)) /\ items' = Tail(items)
Clear == Returns("clear", None, Len(items)) /\ items' = <<>>

\* As a bag the sequence is kept sorted.
Push(v) ==
    LET i == Cardinality({j \in DOMAIN items : items[j] < v})
    IN  Returns("push", v, Len(items) + 1) /\ items' = InsertAt(items, i + 1, v)
PopMin ==
    IF items = <<>> THEN Returns("pop", None, None) /\ items' = items
    ELSE Returns("pop", None, Head(items)) /\ items' = Tail(items)

Deque == \/ \E v \in Elements : PushBack(v) \/ PushFront(v)
         \/ PopBack \/ PopFront \/ Clear
Heap  == (\E v \in Elements : Push(v)) \/ PopMin \/ Clear
=============================================================================
