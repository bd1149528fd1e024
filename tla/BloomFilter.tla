---------------------------- MODULE BloomFilter ----------------------------
(***************************************************************************)
(* BloomFilter: a set of bits.  A key sets, and is looked up at, the bits  *)
(* first + k * step for k below the number of hashes.                      *)
(***************************************************************************)
EXTENDS Integers, FiniteSets

CONSTANTS
    None,
    Shapes,     \* arguments of bloom_filter_new: <<num_bits, num_hashes>>
    Keys,       \* of integers
    Hash, Step, \* the two hashes of a key
    Word,       \* arithmetic is modulo Word (2^64)
    MaxCount    \* bound

VARIABLES filter, out

\* `held` is what was inserted since the last clear; the program does not keep it.
Blank(shape) ==
    [bits |-> {}, count |-> 0, held |-> {},
     width |-> 8 * (((IF shape[1] <= 0 THEN 64 ELSE shape[1]) + 7) \div 8),
     hashes |-> IF shape[2] <= 0 THEN 1 ELSE shape[2]]

Positions(f, key) ==
    LET step == IF Step[key] = 0 THEN 1 ELSE Step[key]
    IN  {((Hash[key] + k * step) % Word) % f.width : k \in 0 .. f.hashes - 1}

Contains(f, key) == Positions(f, key) \subseteq f.bits

Returns(op, v, r) == out' = [op |-> op, arg |-> v, result |-> r]

Init ==
    /\ \E shape \in Shapes : filter = Blank(shape)
    /\ out = [op |-> "new", arg |-> None, result |-> None]

Insert(key) ==
    /\ filter.count < MaxCount
    /\ filter' = [filter EXCEPT !.bits = @ \cup Positions(filter, key),
                                !.count = @ + 1, !.held = @ \cup {key}]
    /\ Returns("insert", key, filter.count + 1)

Clear ==
    /\ filter' = [filter EXCEPT !.bits = {}, !.count = 0, !.held = {}]
    /\ Returns("clear", None, filter.count)

Next == (\E key \in Keys : Insert(key)) \/ Clear

-----------------------------------------------------------------------------
TypeOK ==
    /\ filter.width \in Nat \ {0} /\ filter.width % 8 = 0
    /\ filter.bits \subseteq 0 .. filter.width - 1
    /\ filter.count \in 0 .. MaxCount

\* A key that was inserted is found; an empty filter finds nothing; no key is
\* found that shares a bit with no key inserted.
LookupsAgree ==
    /\ \A key \in filter.held : Contains(filter, key)
    /\ \A key \in Keys :
          Contains(filter, key) =>
             \A p \in Positions(filter, key) : \E other \in filter.held : p \in Positions(filter, other)
    /\ Cardinality(filter.held) <= filter.count
=============================================================================
