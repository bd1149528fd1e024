---------------------------- MODULE AbstractMap ----------------------------
(***************************************************************************)
(* What every keyed container promises: a finite map, and the answer of    *)
(* each call that changes it.  A set is a map to TRUE.                     *)
(***************************************************************************)
EXTENDS FiniteSets

CONSTANTS Keys, Values, None

VARIABLES map, out

\* The first conjunct spares TLC the evaluation of the others.
Returns(op, k, r) ==
    /\ out'.op = op /\ out'.key = k
    /\ out' = [op |-> op, key |-> k, result |-> r]
Without(m, k) == [x \in DOMAIN m \ {k} |-> m[x]]
With(m, k, v) == [x \in DOMAIN m \cup {k} |-> IF x = k THEN v ELSE m[x]]
Has(k) == k \in DOMAIN map
Lookup(k) == IF Has(k) THEN map[k] ELSE None

Init ==
    /\ map = [k \in {} |-> None]
    /\ out = [op |-> "new", key |-> None, result |-> None]

\* Set insertion: an element that is there already stays.
Add(k) ==
    /\ Returns("add", k, ~Has(k))
    /\ map' = IF Has(k) THEN map ELSE With(map, k, TRUE)

\* Map insertion overwrites and returns the previous value.
Put(k, v) ==
    /\ Returns("put", k, Lookup(k))
    /\ map' = With(map, k, v)

Discard(k) ==
    /\ Returns("discard", k, Has(k))
    /\ map' = Without(map, k)

Take(k) ==
    /\ Returns("take", k, Lookup(k))
    /\ map' = Without(map, k)

\* clear returns how many entries there were.
Clear ==
    /\ Returns("clear", None, Cardinality(DOMAIN map))
    /\ map' = [k \in {} |-> None]

Next ==
    \/ \E k \in Keys : Add(k) \/ Discard(k) \/ Take(k) \/ \E v \in Values : Put(k, v)
    \/ Clear

Spec == Init /\ [][Next]_<<map, out>>
=============================================================================
