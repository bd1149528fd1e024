---------------------------- MODULE SortedTable ----------------------------
(***************************************************************************)
(* BTreeSet<i64> and BTreeMap<i64, i64>: parallel arrays of keys and       *)
(* values sorted by key, found by binary search, shifted by memmove.       *)
(***************************************************************************)
EXTENDS Integers, Sequences, SequencesExt

CONSTANTS Keys, Values, None,
    IsMap

VARIABLES arrays, out

Init ==
    /\ arrays = [keys |-> <<>>, values |-> <<>>, capacity |-> 0]
    /\ out = [op |-> "new", key |-> None, result |-> None]

Returns(op, k, r) == out' = [op |-> op, key |-> k, result |-> r]

\* __lower_bound: the slot (from 0) where k is or would be.
\* Faulty: stops one short when k is larger than the middle.
LowerBoundShort(a, k) ==
    LET find[lo, hi \in 0 .. Len(a.keys)] ==
            LET mid == lo + (hi - lo) \div 2
            IN  IF lo >= hi THEN lo
                ELSE IF a.keys[mid + 1] < k /\ mid > lo THEN find[mid, hi] ELSE find[lo, mid]
    IN  find[0, Len(a.keys)]
LowerBound(a, k) ==
    LET find[lo, hi \in 0 .. Len(a.keys)] ==
            LET mid == lo + (hi - lo) \div 2
            IN  IF lo >= hi THEN lo
                ELSE IF a.keys[mid + 1] < k THEN find[mid + 1, hi] ELSE find[lo, mid]
    IN  find[0, Len(a.keys)]

Member(a, k) ==
    LET i == LowerBound(a, k) IN i < Len(a.keys) /\ a.keys[i + 1] = k
Get(a, k) == IF Member(a, k) THEN a.values[LowerBound(a, k) + 1] ELSE None

Inserted(a, k, v) ==
    LET i == LowerBound(a, k) + 1
    IN  [keys |-> InsertAt(a.keys, i, k), values |-> InsertAt(a.values, i, v),
         capacity |-> IF Len(a.keys) < a.capacity THEN a.capacity
                      ELSE IF a.capacity = 0 THEN 4 ELSE 2 * a.capacity]

Removed(a, k) ==
    LET i == LowerBound(a, k) + 1
    IN  IF Member(a, k) THEN [a EXCEPT !.keys = RemoveAt(@, i), !.values = RemoveAt(@, i)]
                          ELSE a

Add(k) ==
    /\ ~IsMap
    /\ arrays' = IF Member(arrays, k) THEN arrays ELSE Inserted(arrays, k, TRUE)
    /\ Returns("add", k, ~Member(arrays, k))

Put(k, v) ==
    /\ IsMap
    /\ arrays' = IF Member(arrays, k)
                 THEN [arrays EXCEPT !.values[LowerBound(arrays, k) + 1] = v]
                 ELSE Inserted(arrays, k, v)
    /\ Returns("put", k, Get(arrays, k))

Discard(k) ==
    /\ ~IsMap
    /\ arrays' = Removed(arrays, k)
    /\ Returns("discard", k, Member(arrays, k))

Take(k) ==
    /\ IsMap
    /\ arrays' = Removed(arrays, k)
    /\ Returns("take", k, Get(arrays, k))

Clear ==
    /\ arrays' = [keys |-> <<>>, values |-> <<>>, capacity |-> 0]
    /\ Returns("clear", None, Len(arrays.keys))

Next ==
    \/ \E k \in Keys : Add(k) \/ Discard(k) \/ Take(k)
    \/ \E k \in Keys, v \in Values : Put(k, v)
    \/ Clear

\* range, range_keys, range_values: from the lower bound while keys are <= hi.
Between(a, column, lo, hi) ==
    LET i == LowerBound(a, lo)
        stop == SelectInSeq(a.keys, LAMBDA k : k > hi)
    IN  IF lo > hi THEN <<>> ELSE SubSeq(column, i + 1, IF stop = 0 THEN Len(a.keys) ELSE stop - 1)
Least(a) == IF a.keys = <<>> THEN None ELSE a.keys[1]
Greatest(a) == IF a.keys = <<>> THEN None ELSE a.keys[Len(a.keys)]

-----------------------------------------------------------------------------
Content(a) == [k \in ToSet(a.keys) |-> a.values[SelectInSeq(a.keys, LAMBDA x : x = k)]]

TypeOK ==
    /\ arrays.keys \in Seq(Keys) /\ arrays.values \in Seq(Values)
    /\ Len(arrays.keys) = Len(arrays.values) /\ Len(arrays.keys) <= arrays.capacity

\* The keys stay strictly sorted, so that lookups, ranges and the ends of the
\* arrays agree with the map they stand for.
LookupsAgree ==
    LET m == Content(arrays) IN
    /\ \A k \in Keys :
          /\ Member(arrays, k) = (k \in DOMAIN m)
          /\ Get(arrays, k) = IF k \in DOMAIN m THEN m[k] ELSE None
    /\ \A lo, hi \in Keys :
          LET inside == {k \in DOMAIN m : lo <= k /\ k <= hi}
              ks == Between(arrays, arrays.keys, lo, hi)
          IN  /\ ToSet(ks) = inside
              /\ \A i, j \in DOMAIN ks : i < j => ks[i] < ks[j]
              /\ Between(arrays, arrays.values, lo, hi) = [i \in DOMAIN ks |-> m[ks[i]]]
    /\ \A k \in DOMAIN m : Least(arrays) <= k /\ k <= Greatest(arrays)
=============================================================================
