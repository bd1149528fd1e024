-------------------------------- MODULE IntVec --------------------------------
(***************************************************************************)
(* The calls on a Vec<i64>: sorting and searching in place, the heap calls *)
(* on a plain vector, and those that build a vector or a number from one.  *)
(* Apart from sorting the two emitters run the same loops.                 *)
(***************************************************************************)
EXTENDS Integers, Sequences, SequencesExt, FiniteSets, Bitwise

CONSTANTS
    None,
    Ints,          \* the numbers 0 .. n
    Others,        \* second arguments: sequences of them
    Predicates, Mappers, Comparators, \* functions a program passes
    AllOnes,       \* -1, in as many bits as Ints has
    Cutoff,        \* a piece is sorted by insertion if its ends are closer
    MaxLen,        \* bound
    Allowed        \* the combinations of this run the code does not handle

VARIABLES vec, out

Hazards == {"no order", "impure predicate", "index past end"}

\* A buffer of `capacity` slots; most calls allocate what they fill.
Holding(s, capacity) == [xs |-> s, capacity |-> capacity]
Exactly(s) == Holding(s, Len(s))
Lesser(a, b) == IF a < b THEN a ELSE b
Reversed(s) == [i \in DOMAIN s |-> s[Len(s) + 1 - i]]

-----------------------------------------------------------------------------
\* A comparator answers below, at or above 0.
Ascending == [p \in Ints \X Ints |-> p[1] - p[2]]
Orders(c) ==
    \A x, y, z \in Ints : /\ c[x, y] > 0 <=> c[y, x] < 0
                          /\ c[x, y] <= 0 /\ c[y, z] <= 0 => c[x, z] <= 0

\* Each element in turn moves below the larger ones of a[lo .. i - 1].
InsertionSort(a, lo, hi, cmp) ==
    FoldLeft(LAMBDA s, i :
                 LET above == {j \in lo .. i - 1 : \A k \in j .. i - 1 : cmp[s[k], s[i]] > 0}
                 IN  InsertAt(RemoveAt(s, i), i - Cardinality(above), s[i]),
             a, [n \in 1 .. hi - lo |-> lo + n])

\* The scans stop at an element that is not on their side of the pivot; None if
\* one leaves the array.
RECURSIVE Split(_, _, _, _, _)
Split(a, i, j, pivot, cmp) ==
    LET up == {k \in i + 1 .. Len(a) : cmp[a[k], pivot] >= 0}
        down == {k \in 1 .. j - 1 : cmp[a[k], pivot] <= 0}
        l == CHOOSE k \in up : \A m \in up : k <= m
        r == CHOOSE k \in down : \A m \in down : k >= m
    IN  CASE up = {} \/ down = {} -> None
          [] l >= r -> [a |-> a, j |-> r]
          [] OTHER -> Split([a EXCEPT ![l] = a[r], ![r] = a[l]], l, r, pivot, cmp)

\* The shorter side is sorted by a call, the other by the loop.
RECURSIVE Quicksort(_, _, _, _)
Quicksort(a, lo, hi, cmp) ==
    IF a = None \/ lo >= hi THEN a
    ELSE IF hi - lo < Cutoff THEN InsertionSort(a, lo, hi, cmp)
    ELSE LET s == Split(a, lo - 1, hi + 1, a[lo + (hi - lo) \div 2], cmp)
         IN  CASE s = None -> None
               [] s.j - lo < hi - (s.j + 1) -> Quicksort(Quicksort(s.a, lo, s.j, cmp), s.j + 1, hi, cmp)
               [] OTHER -> Quicksort(Quicksort(s.a, s.j + 1, hi, cmp), lo, s.j, cmp)

Sorted(backend, s, cmp) ==
    IF backend = "c" THEN Quicksort(s, 1, Len(s), cmp) ELSE InsertionSort(s, 1, Len(s), cmp)

-----------------------------------------------------------------------------
\* Searches.  Positions are numbered from 0.
binary_search(s, v) ==
    LET Search[lo \in 0 .. Len(s), hi \in -1 .. Len(s) - 1] ==
            LET mid == lo + (hi - lo) \div 2
            IN  CASE lo > hi -> None
                  [] s[mid + 1] = v -> mid
                  [] s[mid + 1] < v -> Search[mid + 1, hi]
                  [] OTHER -> Search[lo, mid - 1]
    IN  Search[0, Len(s) - 1]

contains(s, v) == \E i \in DOMAIN s : s[i] = v
First(hits) == CHOOSE i \in hits : \A j \in hits : i <= j
Hits(s, p) == {i \in DOMAIN s : p[s[i]]}
find(s, v) == IF contains(s, v) THEN First({i \in DOMAIN s : s[i] = v}) - 1 ELSE None
vec_index_of_value(s, v) == IF find(s, v) = None THEN -1 ELSE find(s, v)
vec_last_index_of_value(s, v) ==
    LET Back[i \in -1 .. Len(s) - 1] == IF i < 0 \/ s[i + 1] = v THEN i ELSE Back[i - 1]
    IN  Back[Len(s) - 1]
vec_position(s, p) == IF Hits(s, p) = {} THEN None ELSE First(Hits(s, p)) - 1
vec_count(s, p) == Cardinality(Hits(s, p))
vec_count_if(s, p) == FoldLeft(LAMBDA n, x : IF p[x] THEN n + 1 ELSE n, 0, s)
vec_count_value(s, v) == FoldLeft(LAMBDA n, x : IF x = v THEN n + 1 ELSE n, 0, s)
vec_any(s, p) == \E i \in DOMAIN s : p[s[i]]
vec_all(s, p) == \A i \in DOMAIN s : p[s[i]]

\* The first of the best, by value and position, or by key.
Best(s, Better(_, _)) ==
    FoldLeft(LAMBDA m, i : IF Better(s[i], s[m]) THEN i ELSE m, 1, [i \in 1 .. Len(s) - 1 |-> i + 1])
vec_argmin(s, default) == IF s = <<>> THEN default ELSE Best(s, <) - 1
vec_argmax(s, default) == IF s = <<>> THEN default ELSE Best(s, >) - 1
vec_min(s, default) == FoldLeft(LAMBDA m, x : IF x < m THEN x ELSE m, IF s = <<>> THEN default ELSE s[1], s)
vec_max(s, default) == FoldLeft(LAMBDA m, x : IF x > m THEN x ELSE m, IF s = <<>> THEN default ELSE s[1], s)
vec_max_by(s, k) == IF s = <<>> THEN None ELSE s[Best(s, LAMBDA x, y : k[x] > k[y])]
vec_min_by(s, k) == IF s = <<>> THEN None ELSE s[Best(s, LAMBDA x, y : k[x] < k[y])]

all_equal(s) == \A i \in 2 .. Len(s) : s[i] = s[1]
is_sorted_asc(s) == \A i \in 2 .. Len(s) : s[i] >= s[i - 1]
is_sorted_desc(s) == \A i \in 2 .. Len(s) : s[i] <= s[i - 1]
is_palindrome(s) == \A i \in 1 .. Len(s) \div 2 : s[i] = s[Len(s) + 1 - i]

-----------------------------------------------------------------------------
\* Numbers from vectors.  A combiner is named.
Combine(g, acc, x) == IF g = "sum" THEN acc + x ELSE 2 * acc + x
vec_fold(s, init, g) == FoldLeft(LAMBDA acc, x : Combine(g, acc, x), init, s)
vec_map_fold(s, init, f, g) == FoldLeft(LAMBDA acc, x : Combine(g, acc, f[x]), init, s)
vec_filter_fold(s, init, p, g) ==
    FoldLeft(LAMBDA acc, x : IF p[x] THEN Combine(g, acc, x) ELSE acc, init, s)
vec_map_filter_fold(s, init, f, p, g) ==
    FoldLeft(LAMBDA acc, x : IF p[f[x]] THEN Combine(g, acc, f[x]) ELSE acc, init, s)
vec_sum(s) == FoldLeft(+, 0, s)
vec_product(s) == FoldLeft(LAMBDA x, y : x * y, 1, s)
vec_dot(s, t) ==
    FoldLeft(LAMBDA acc, i : acc + s[i] * t[i], 0, [i \in 1 .. Lesser(Len(s), Len(t)) |-> i])

\* Vectors from vectors.
Running(Op(_, _), unit, s) ==
    Tail(FoldLeft(LAMBDA r, x : Append(r, Op(Last(r), x)), <<unit>>, s))
running_sum(s) == Exactly(Running(+, 0, s))
running_product(s) == Exactly(Running(LAMBDA x, y : x * y, 1, s))
running_xor(s) == Exactly(Running(LAMBDA x, y : x ^^ y, 0, s))
running_and(s) == Exactly(Running(LAMBDA x, y : x & y, AllOnes, s))
running_or(s) == Exactly(Running(LAMBDA x, y : x | y, 0, s))
cumulative(s, Better(_, _)) ==
    Exactly(Running(LAMBDA m, x : IF Better(x, m) THEN x ELSE m, s[1], s))
cumulative_max(s) == IF s = <<>> THEN Exactly(s) ELSE cumulative(s, >)
cumulative_min(s) == IF s = <<>> THEN Exactly(s) ELSE cumulative(s, <)

vec_range(lo, hi) == Exactly([i \in 1 .. hi - lo |-> lo + i - 1])
vec_repeat(v, n) == Exactly([i \in 1 .. n |-> v])
iota(n) == Exactly([i \in 1 .. n |-> i - 1])
concat(s, t) == Exactly(s \o t)
vec_chain(s, t) == Exactly(FoldLeft(Append, s, t))
first(s) == IF s = <<>> THEN None ELSE Head(s)
last(s) == IF s = <<>> THEN None ELSE s[Len(s)]
reverse_copy(s) == Exactly(Reversed(s))
vec_map(s, f) == Exactly([i \in DOMAIN s |-> f[s[i]]])
vec_zip_with(s, t) == Exactly([i \in 1 .. Lesser(Len(s), Len(t)) |-> s[i] * t[i]])

Within(n, s) == Lesser(IF n < 0 THEN 0 ELSE n, Len(s))
vec_take(s, n) == Exactly(SubSeq(s, 1, Within(n, s)))
vec_drop(s, n) == Exactly(SubSeq(s, Within(n, s) + 1, Len(s)))
Lead(s, p) == First({n \in 0 .. Len(s) : n = Len(s) \/ ~p[s[n + 1]]})
vec_take_while(s, p) == Exactly(SubSeq(s, 1, Lead(s, p)))
vec_drop_while(s, p) == Exactly(SubSeq(s, Lead(s, p) + 1, Len(s)))

\* Counted with one answer of the predicate, filled with the next.
vec_filter(s, p, again) == Holding(SelectSeq(s, LAMBDA x : again[x]), vec_count(s, p))
vec_map_filter(s, f, p, again) == vec_filter(vec_map(s, f).xs, p, again)

member_scan(s, v) == \E i \in DOMAIN s : s[i] = v
Collect(r, s, Keep(_)) ==
    FoldLeft(LAMBDA q, v : IF Keep(v) /\ ~member_scan(q, v) THEN Append(q, v) ELSE q, r, s)
vec_unique(s) == Holding(Collect(<<>>, s, LAMBDA v : TRUE), Len(s))
intersect(s, t) ==
    Holding(Collect(<<>>, s, LAMBDA v : member_scan(t, v)), Lesser(Len(s), Len(t)))
difference(s, t) == Holding(Collect(<<>>, s, LAMBDA v : ~member_scan(t, v)), Len(s))
union(s, t) ==
    Holding(Collect(Collect(<<>>, s, LAMBDA v : TRUE), t, LAMBDA v : TRUE), Len(s) + Len(t))

-----------------------------------------------------------------------------
\* A heap in a vector: BinaryHeap's walks.
Heap == INSTANCE BinaryHeap WITH Elements <- Ints, heap <- vec.xs
heap_sift_up(h, i) == Heap!SiftUp(h, i)
heap_sift_down(h, i) == Heap!SiftDown(h, i)
heap_peek(s) == IF s = <<>> THEN None ELSE s[1]
heap_push(s, v) == heap_sift_up(Append(s, v), Len(s))
heap_pop(s) == IF Len(s) < 2 THEN <<>> ELSE heap_sift_down([Front(s) EXCEPT ![1] = Last(s)], 0)
heapify(s) ==
    LET half == Len(s) \div 2
    IN  FoldLeft(LAMBDA h, i : heap_sift_down(h, i), s, [n \in 1 .. half |-> half - n])
IsHeap(s) == \A i \in 1 .. Len(s) - 1 : s[(i - 1) \div 2 + 1] <= s[i + 1]

dedup(s) == FoldLeft(LAMBDA r, x : IF r # <<>> /\ Last(r) = x THEN r ELSE Append(r, x), <<>>, s)

-----------------------------------------------------------------------------
\* The calls that change a vector.  `wrong`: a call went outside the buffer.
Init ==
    /\ \E b \in {"c", "llvm"} :
          vec = [backend |-> b, xs |-> <<>>, capacity |-> 0, wrong |-> FALSE]
    /\ out = [op |-> "new", arg |-> None, result |-> None]

Becomes(s) == vec' = [vec EXCEPT !.xs = s]
Fails == vec' = [vec EXCEPT !.wrong = TRUE]

\* sort, with Ascending; sort_by; sort_desc sorts and reverses.
SortBy(cmp) ==
    /\ "no order" \in Allowed \/ Orders(cmp)
    /\ LET s == Sorted(vec.backend, vec.xs, cmp) IN IF s = None THEN Fails ELSE Becomes(s)
SortDesc == Becomes(Reversed(Sorted(vec.backend, vec.xs, Ascending)))
InPlace == \E s \in {Reversed(vec.xs), dedup(vec.xs), heapify(vec.xs), heap_pop(vec.xs)} : Becomes(s)

HeapPush(v) ==
    /\ Len(vec.xs) < MaxLen
    /\ vec' = [vec EXCEPT !.xs = heap_push(@, v),
                          !.capacity = IF Len(vec.xs) < @ THEN @ ELSE IF @ = 0 THEN 1 ELSE 2 * @]

\* Doubled until both fit.
Extend(t) ==
    LET need == Len(vec.xs) + Len(t)
        Room[c \in Nat] == IF c >= need THEN c ELSE Room[2 * c]
    IN  /\ t # <<>> /\ need <= MaxLen
        /\ vec' = [vec EXCEPT !.xs = @ \o t,
                              !.capacity = IF need <= @ THEN @ ELSE Room[IF @ = 0 THEN 4 ELSE @]]

\* No index is checked.
Swap(i, j) ==
    IF i < Len(vec.xs) /\ j < Len(vec.xs)
    THEN Becomes([vec.xs EXCEPT ![i + 1] = vec.xs[j + 1], ![j + 1] = vec.xs[i + 1]])
    ELSE "index past end" \in Allowed /\ Fails
VecRemoveAt(i) ==
    IF i < Len(vec.xs) THEN Becomes(RemoveAt(vec.xs, i + 1))
    ELSE "index past end" \in Allowed /\ Fails
VecReplaceAll(old, new) ==
    Becomes([i \in DOMAIN vec.xs |-> IF vec.xs[i] = old THEN new ELSE vec.xs[i]])

\* let xs = vec_filter(ref xs, p), and the others.
Assign(r) ==
    /\ Len(r.xs) <= MaxLen
    /\ vec' = [vec EXCEPT !.xs = r.xs, !.capacity = r.capacity,
                          !.wrong = @ \/ Len(r.xs) > r.capacity]
Answers(p) == IF "impure predicate" \in Allowed THEN Predicates ELSE {p}
Results ==
    {vec_range(1, 3), vec_repeat(1, 3), iota(3), vec_take(vec.xs, 2), vec_drop(vec.xs, 2),
     reverse_copy(vec.xs), vec_unique(vec.xs)}
    \cup UNION {{concat(vec.xs, t), intersect(vec.xs, t), difference(vec.xs, t), union(vec.xs, t)} : t \in Others}
    \cup UNION {{vec_filter(vec.xs, p, again) : again \in Answers(p)} : p \in Predicates}
    \cup {vec_map(vec.xs, f) : f \in Mappers}

Next ==
    /\ UNCHANGED out
    /\ \/ \E c \in Comparators \cup {Ascending} : SortBy(c)
       \/ SortDesc
       \/ InPlace
       \/ \E v \in Ints : HeapPush(v)
       \/ \E t \in Others : Extend(t)
       \/ \E i, j \in 0 .. MaxLen : Swap(i, j)
       \/ \E i \in 0 .. MaxLen : VecRemoveAt(i)
       \/ \E old, new \in Ints : VecReplaceAll(old, new)
       \/ \E r \in Results : Assign(r)

-----------------------------------------------------------------------------
TypeOK ==
    /\ vec.xs \in Seq(Ints) /\ Len(vec.xs) <= MaxLen
    /\ Len(vec.xs) <= vec.capacity \/ vec.wrong

SameNumbers(s, t) == \A v \in Ints : vec_count_value(s, v) = vec_count_value(t, v)
InOrder(s, cmp) == \A i \in 2 .. Len(s) : cmp[s[i - 1], s[i]] <= 0
Sort(s) == Sorted("c", s, Ascending)

\* Either sort puts the same numbers in order; the two agree unless the
\* comparator takes different numbers for equal.
SortsSort(s) ==
    /\ \A c \in Comparators \cup {Ascending}, b \in {"c", "llvm"} :
          Orders(c) => InOrder(Sorted(b, s, c), c) /\ SameNumbers(Sorted(b, s, c), s)
    /\ Sorted("llvm", s, Ascending) = Sort(s)
    /\ is_sorted_asc(s) <=> s = Sort(s)
    /\ is_sorted_desc(s) <=> s = Reversed(Sort(s))
    /\ dedup(Sort(s)) = Sort(vec_unique(s).xs)
    /\ \A v \in Ints :
          LET i == binary_search(Sort(s), v)
          IN  IF v \in ToSet(s) THEN Sort(s)[i + 1] = v ELSE i = None

HeapsAreHeaps(s) ==
    /\ IsHeap(heapify(s)) /\ SameNumbers(heapify(s), s)
    /\ IsHeap(s) => /\ \A v \in Ints : IsHeap(heap_push(s, v)) /\ SameNumbers(heap_push(s, v), Append(s, v))
                    /\ IsHeap(heap_pop(s)) /\ heap_peek(s) = IF s = <<>> THEN None ELSE Sort(s)[1]
                    /\ s # <<>> => SameNumbers(Append(heap_pop(s), s[1]), s)

SearchesFind(s) ==
    /\ \A v \in Ints : LET i == vec_last_index_of_value(s, v)
                       IN  IF i = -1 THEN vec_index_of_value(s, v) = -1
                           ELSE i = Len(s) - 1 - vec_index_of_value(Reversed(s), v)
    /\ s # <<>> => /\ vec_argmin(s, -1) = find(s, vec_min(s, -1)) /\ vec_min(s, -1) = Sort(s)[1]
                   /\ vec_argmax(s, -1) = find(s, vec_max(s, -1)) /\ vec_max(s, -1) = Sort(s)[Len(s)]
    /\ \A k \in Mappers : s # <<>> =>
          /\ k[vec_max_by(s, k)] = vec_max(vec_map(s, k).xs, -1)
          /\ find(s, vec_min_by(s, k)) = vec_argmin(vec_map(s, k).xs, -1)
    /\ is_palindrome(s) <=> reverse_copy(s).xs = s
    /\ all_equal(s) <=> Len(vec_unique(s).xs) <= 1
    /\ \A p \in Predicates :
          LET not == [x \in Ints |-> ~p[x]]
          IN  /\ vec_any(s, p) <=> vec_count_if(s, p) > 0
              /\ vec_count(s, p) + vec_count_if(s, not) = Len(s)
              /\ vec_all(s, p) <=> vec_position(s, not) = None
              /\ ~vec_all(s, p) => vec_position(s, not) = Len(vec_take_while(s, p).xs)

\* A call in one pass answers what the calls it stands for answer in a row.
FusionsAgree(s) ==
    \A f \in Mappers, p \in Predicates, g \in {"sum", "digits"} :
        /\ vec_map_fold(s, 0, f, g) = vec_fold(vec_map(s, f).xs, 0, g)
        /\ vec_filter_fold(s, 0, p, g) = vec_fold(vec_filter(s, p, p).xs, 0, g)
        /\ vec_map_filter_fold(s, 0, f, p, g) = vec_fold(vec_map_filter(s, f, p, p).xs, 0, g)

\* What a call builds fits what it allocated, and is what its name says.
ResultsFit(s) ==
    /\ \A n \in -1 .. MaxLen + 1 : vec_take(s, n).xs \o vec_drop(s, n).xs = s
    /\ \A p \in Predicates :
          /\ vec_take_while(s, p).xs \o vec_drop_while(s, p).xs = s
          /\ vec_all(vec_take_while(s, p).xs, p)
    /\ \A n \in DOMAIN s : LET part == vec_take(s, n).xs
                           IN  /\ running_sum(s).xs[n] = vec_sum(part)
                               /\ running_product(s).xs[n] = vec_product(part)
                               /\ running_xor(part).xs[n] ^^ running_xor(s).xs[Len(s)] =
                                      IF n = Len(s) THEN 0
                                      ELSE Last(running_xor(vec_drop(s, n).xs).xs)
                               /\ LET flipped == [i \in DOMAIN s |-> AllOnes - s[i]]
                                  IN  running_or(s).xs[n] = AllOnes - running_and(flipped).xs[n]
                               /\ cumulative_max(s).xs[n] = vec_max(part, -1)
                               /\ cumulative_min(s).xs[n] = vec_min(part, -1)
    /\ \A t \in Others :
          /\ vec_chain(s, t) = concat(s, t)
          /\ t # <<>> => last(concat(s, t).xs) = first(Reversed(t))
          /\ vec_dot(s, t) = vec_sum(vec_zip_with(s, t).xs)
          /\ ToSet(intersect(s, t).xs) = ToSet(s) \cap ToSet(t)
          /\ ToSet(difference(s, t).xs) = ToSet(s) \ ToSet(t)
          /\ union(s, t).xs = vec_unique(concat(s, t).xs).xs
          /\ union(s, t).xs = union(s, difference(t, s).xs).xs
          /\ \A r \in {intersect(s, t), difference(s, t), union(s, t)} :
                IsInjective(r.xs) /\ Len(r.xs) <= r.capacity

LookupsAgree ==
    /\ ~vec.wrong
    /\ SortsSort(vec.xs) /\ HeapsAreHeaps(vec.xs) /\ SearchesFind(vec.xs)
    /\ FusionsAgree(vec.xs) /\ ResultsFit(vec.xs)
=============================================================================
