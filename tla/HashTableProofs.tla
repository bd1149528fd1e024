-------------------------- MODULE HashTableProofs --------------------------
(***************************************************************************)
(* Proofs about the open-addressing table of HashSet<i64> and              *)
(* HashMap<i64, i64>, for any capacities and any hash.                     *)
(*                                                                         *)
(* The inductive invariant Table says of a table that its occupied slots   *)
(* hold distinct keys, that no slot between a key's own slot and the one   *)
(* it is in is empty (Reached), that len and tombstones count the slots,   *)
(* and that a slot is left over (Spare).  A walk then finds its key        *)
(* (WalkFinds) or an empty slot, and each change of the table does to its  *)
(* content what the call does to a finite map.                             *)
(***************************************************************************)
EXTENDS HashTable, Integers, FiniteSetTheorems, WellFoundedInduction, TLAPS

-----------------------------------------------------------------------------
(* Products keep the order of their factors.                                *)
LEMMA TimesMonotone ==
  ASSUME NEW c \in Int, NEW a \in Int, NEW b \in Int, 0 <= c, a <= b
  PROVE  a * c <= b * c
<1>1. (b - a) * c >= 0
  <2>. DEFINE d == b - a
  <2>1. d \in Int /\ d >= 0
    OBVIOUS
  <2>. HIDE DEF d
  <2>2. d * c >= 0
    BY <2>1
  <2>. QED
    BY <2>2 DEF d
<1>2. QED
  BY <1>1

(* Division of a number by a positive one, as quotient and remainder.       *)
LEMMA Division ==
  ASSUME NEW a \in Int, NEW b \in Int, 0 < b
  PROVE  /\ a \div b \in Int
         /\ (a \div b) * b <= a
         /\ a < (a \div b) * b + b
         /\ a % b = a - (a \div b) * b
OBVIOUS

(* Quotient and remainder are the only ones.                                *)
LEMMA DivisionUnique ==
  ASSUME NEW a \in Int, NEW b \in Int, 0 < b,
         NEW q \in Int, NEW r \in Int, a = q * b + r, 0 <= r, r < b
  PROVE  a % b = r
<1>. DEFINE p == a \div b
<1>1. p \in Int /\ p * b <= a /\ a < p * b + b /\ a % b = a - p * b
  BY Division
<1>. HIDE DEF p
<1>2. p = q
  <2>1. CASE p + 1 <= q
    <3>1. (p + 1) * b <= q * b
      BY <1>1, <2>1, TimesMonotone
    <3>2. (p + 1) * b = p * b + b /\ p * b \in Int /\ q * b \in Int
      BY <1>1
    <3>. QED
      BY <1>1, <3>1, <3>2
  <2>2. CASE q + 1 <= p
    <3>1. (q + 1) * b <= p * b
      BY <1>1, <2>2, TimesMonotone
    <3>2. (q + 1) * b = q * b + b /\ p * b \in Int /\ q * b \in Int
      BY <1>1
    <3>. QED
      BY <1>1, <3>1, <3>2
  <2>. QED
    BY <1>1, <2>1, <2>2
<1>3. a % b = a - q * b /\ q * b \in Int
  BY <1>1, <1>2
<1>. QED
  BY <1>3

Below == {p \in Nat \X Nat : p[1] < p[2]}

(* The order of the natural numbers is well founded.                        *)
LEMMA NatWellFounded == IsWellFoundedOn(Below, Nat)
<1>1. IsWellFoundedOn(OpToRel(<, Nat), Nat)
  BY NatLessThanWellFounded
<1>2. OpToRel(<, Nat) = Below
  BY DEF OpToRel, Below
<1>. QED
  BY <1>1, <1>2

(* A set of natural numbers has a least element.                            *)
LEMMA LeastNumber ==
  ASSUME NEW S \in SUBSET Nat, S # {}
  PROVE  \E m \in S : \A n \in S : m <= n
<1>1. IsWellFoundedOn(Below, Nat) /\ S \subseteq Nat
  BY NatWellFounded
<1>2. PICK m \in S : \A n \in S : ~(<<n, m>> \in Below)
  BY <1>1, WFMin
<1>3. ASSUME NEW n \in S PROVE m <= n
  <2>1. m \in Nat /\ n \in Nat
    OBVIOUS
  <2>2. n < m => <<n, m>> \in Below
    BY <2>1 DEF Below
  <2>. QED
    BY <1>2, <2>1, <2>2
<1>. QED
  BY <1>3

(* Induction up to a number, on the members of a set.                       *)
LEMMA UpTo ==
  ASSUME NEW k \in Nat, NEW S, 0 \in S,
         \A n \in Nat : n < k /\ n \in S => n + 1 \in S
  PROVE  \A n \in 0 .. k : n \in S
<1>. DEFINE Bad == {n \in 0 .. k : n \notin S}
<1>1. SUFFICES ASSUME Bad # {} PROVE FALSE
  OBVIOUS
<1>2. Bad \in SUBSET Nat
  OBVIOUS
<1>3. PICK m \in Bad : \A n \in Bad : m <= n
  <2>. HIDE DEF Bad
  <2>. QED
    BY <1>1, <1>2, LeastNumber
<1>4. m \in Nat /\ m <= k /\ m # 0 /\ m \notin S
  OBVIOUS
<1>5. m - 1 \in Nat /\ m - 1 < k /\ m - 1 \notin S
  <2>1. m - 1 \in Nat /\ m - 1 < k /\ (m - 1) + 1 = m
    BY <1>4
  <2>. QED
    BY <1>4, <2>1
<1>6. m - 1 \in Bad
  BY <1>4, <1>5
<1>7. m <= m - 1
  <2>. HIDE DEF Bad
  <2>. QED
    BY <1>3, <1>6
<1>. QED
  BY <1>4, <1>7


\* What the code's constants are.
Sized ==
    /\ FirstCapacity \in Nat /\ 2 <= FirstCapacity
    /\ \A k \in Keys : Hash[k] \in Nat
    /\ ~IsMap => TRUE \in Values

Slots(t) == 0 .. t.capacity - 1
Used(t) == Filled(t, "occupied")
Dead(t) == Filled(t, "tombstone")

Shaped(t) ==
    /\ t = [keys |-> t.keys, values |-> t.values, occ |-> t.occ, len |-> t.len,
            capacity |-> t.capacity, tombstones |-> t.tombstones]
    /\ t.capacity \in Nat /\ t.len \in Nat /\ t.tombstones \in Nat
    /\ t.keys \in [Slots(t) -> Keys \cup {None}]
    /\ t.values \in [Slots(t) -> Values \cup {None}]
    /\ t.occ \in [Slots(t) -> Tags]
    /\ \A i \in Used(t) : t.keys[i] \in Keys /\ t.values[i] \in Values

\* No key is in two slots.
Once(t) == \A i, j \in Used(t) : t.keys[i] = t.keys[j] => i = j

\* A walk for k passes the first j slots of its probe sequence.
Passes(t, k, j) == \A h \in 0 .. j - 1 : t.occ[Probe(t, k, h)] # "empty"
Reached(t) ==
    \A i \in Used(t) : \E j \in Slots(t) :
        Probe(t, t.keys[i], j) = i /\ Passes(t, t.keys[i], j)

Counted(t) == t.len = Cardinality(Used(t)) /\ t.tombstones = Cardinality(Dead(t))

\* Before an insertion and after it.
Spare(t) == t.capacity # 0 => 2 <= t.capacity /\ t.len + t.tombstones < t.capacity

Probed(t) == Shaped(t) /\ Once(t) /\ Reached(t) /\ Counted(t)
Table(t) == Probed(t) /\ Spare(t)

-----------------------------------------------------------------------------
(* First is the least number of a set that has one.                         *)
LEMMA FirstLeast ==
  ASSUME NEW S \in SUBSET Nat, S # {}
  PROVE  First(S) \in S /\ \A i \in S : First(S) <= i
<1>1. \E j \in S : \A i \in S : j <= i
  BY LeastNumber
<1>. QED
  BY <1>1 DEF First

(* The probe sequence of a key stays in the table and visits every slot.    *)
LEMMA ProbeIn ==
  ASSUME Sized, NEW t, t.capacity \in Nat \ {0}, NEW k \in Keys, NEW j \in Nat
  PROVE  Probe(t, k, j) \in Slots(t)
<1>. DEFINE a == Hash[k] + j
            c == t.capacity
<1>1. a \in Int /\ c \in Int /\ 0 < c
  BY DEF Sized
<1>. HIDE DEF a, c
<1>2. a % c \in 0 .. c - 1
  BY <1>1
<1>. QED
  BY <1>2 DEF Probe, Slots, a, c

LEMMA ProbeOnto ==
  ASSUME Sized, NEW t, t.capacity \in Nat \ {0}, NEW k \in Keys, NEW i \in Slots(t)
  PROVE  \E j \in Slots(t) : Probe(t, k, j) = i
<1>. DEFINE h == Hash[k]
            c == t.capacity
            q == h \div c
            r == h % c
<1>1. h \in Int /\ c \in Int /\ 0 < c /\ i \in Int /\ 0 <= i /\ i < c
  BY DEF Sized, Slots
<1>2. q \in Int /\ r \in Int /\ 0 <= r /\ r < c /\ h = q * c + r
  <2>. HIDE DEF h, c
  <2>. QED
    BY <1>1, Division
<1>. HIDE DEF h, c, q, r
<1>3. CASE r <= i
  <2>1. i - r \in 0 .. c - 1 /\ h + (i - r) = q * c + i /\ h + (i - r) \in Int
    BY <1>1, <1>2, <1>3
  <2>2. (h + (i - r)) % c = i
    BY <1>1, <1>2, <2>1, DivisionUnique
  <2>. QED
    BY <2>1, <2>2 DEF Probe, Slots, h, c
<1>4. CASE i < r
  <2>1. (q + 1) * c = q * c + c
    BY <1>1, <1>2
  <2>2. /\ (i - r) + c \in 0 .. c - 1 /\ h + ((i - r) + c) = (q + 1) * c + i
        /\ h + ((i - r) + c) \in Int /\ q + 1 \in Int
    BY <1>1, <1>2, <1>4, <2>1
  <2>3. (h + ((i - r) + c)) % c = i
    BY <1>1, <2>2, DivisionUnique
  <2>. QED
    BY <2>2, <2>3 DEF Probe, Slots, h, c
<1>. QED
  BY <1>1, <1>2, <1>3, <1>4

(* A table with a slot to spare has an empty one.                           *)
LEMMA EmptyLeft ==
  ASSUME NEW t, Shaped(t), Counted(t), t.len + t.tombstones < t.capacity
  PROVE  \E i \in Slots(t) : t.occ[i] = "empty"
<1>1. SUFFICES ASSUME \A i \in Slots(t) : t.occ[i] # "empty" PROVE FALSE
  OBVIOUS
<1>2. Used(t) \cup Dead(t) = Slots(t) /\ Used(t) \cap Dead(t) = {}
  BY <1>1 DEF Shaped, Used, Dead, Filled, Slots, Tags
<1>3. t.capacity \in Nat /\ t.len \in Nat /\ t.tombstones \in Nat
  BY DEF Shaped
<1>4. IsFiniteSet(Slots(t)) /\ Cardinality(Slots(t)) = t.capacity
  <2>. DEFINE c == t.capacity
  <2>1. 0 \in Int /\ c - 1 \in Int /\ c \in Nat
    BY <1>3
  <2>. HIDE DEF c
  <2>2. IsFiniteSet(0 .. c - 1) /\ Cardinality(0 .. c - 1) = IF 0 > c - 1 THEN 0 ELSE (c - 1) - 0 + 1
    BY <2>1, FS_Interval
  <2>3. IsFiniteSet(0 .. c - 1) /\ Cardinality(0 .. c - 1) = c
    BY <2>1, <2>2
  <2>. QED
    BY <2>3 DEF Slots, c
<1>5. IsFiniteSet(Used(t)) /\ IsFiniteSet(Dead(t))
  <2>1. Used(t) \in SUBSET Slots(t) /\ Dead(t) \in SUBSET Slots(t)
    BY <1>2
  <2>. QED
    BY <1>4, <2>1, FS_Subset
<1>6. Cardinality(Used(t) \cup Dead(t))
        = Cardinality(Used(t)) + Cardinality(Dead(t)) - Cardinality(Used(t) \cap Dead(t))
  BY <1>5, FS_Union
<1>7. Cardinality(Used(t) \cap Dead(t)) = 0
  BY <1>2, FS_EmptySet
<1>8. t.capacity = t.len + t.tombstones - 0
  BY <1>2, <1>4, <1>6, <1>7 DEF Counted
<1>. QED
  BY <1>3, <1>8

-----------------------------------------------------------------------------
(* Every walk stops: it comes to its key or to an empty slot, past slots    *)
(* that are not empty, and it comes to the key if a slot holds it.          *)
LEMMA WalkFinds ==
  ASSUME Sized, NEW t, Table(t), t.capacity # 0, NEW k \in Keys
  PROVE  /\ Stops(t, k) # {}
         /\ First(Stops(t, k)) \in Slots(t)
         /\ Passes(t, k, First(Stops(t, k)))
         /\ Walk(t, k) \in Slots(t)
         /\ t.occ[Walk(t, k)] = "empty" \/ Holds(t, Walk(t, k), k)
         /\ \A i \in Slots(t) : Holds(t, i, k) => i = Walk(t, k)
<1>. DEFINE f == First(Stops(t, k))
<1>1. t.capacity \in Nat \ {0} /\ Slots(t) \subseteq Nat
  BY DEF Table, Probed, Shaped, Slots
<1>2. Stops(t, k) # {} /\ Stops(t, k) \in SUBSET Slots(t)
  <2>1. PICK e \in Slots(t) : t.occ[e] = "empty"
    BY EmptyLeft DEF Table, Probed, Spare
  <2>2. PICK j \in Slots(t) : Probe(t, k, j) = e
    BY <1>1, ProbeOnto
  <2>. QED
    BY <2>1, <2>2 DEF Stops, Slots
<1>3. f \in Stops(t, k) /\ \A i \in Stops(t, k) : f <= i
  <2>1. Stops(t, k) \in SUBSET Nat
    BY <1>1, <1>2
  <2>. QED
    BY <1>2, <2>1, FirstLeast
<1>4. f \in Slots(t) /\ f \in Nat
  BY <1>1, <1>2, <1>3
<1>5. Walk(t, k) = Probe(t, k, f)
  BY DEF Walk
<1>. HIDE DEF f
<1>6. \A j \in Slots(t) : j < f => t.occ[Probe(t, k, j)] # "empty"
  <2>1. ASSUME NEW j \in Slots(t), j < f, t.occ[Probe(t, k, j)] = "empty" PROVE FALSE
    <3>1. j \in Stops(t, k)
      BY <2>1 DEF Stops, Slots
    <3>. QED
      BY <1>1, <1>3, <1>4, <2>1, <3>1
  <2>. QED
    BY <2>1
<1>7. Passes(t, k, f)
  <2>1. \A h \in 0 .. f - 1 : h \in Slots(t) /\ h < f
    BY <1>1, <1>4 DEF Slots
  <2>. QED
    BY <1>6, <2>1 DEF Passes
<1>8. Walk(t, k) \in Slots(t)
  BY <1>1, <1>4, <1>5, ProbeIn
<1>9. t.occ[Walk(t, k)] = "empty" \/ Holds(t, Walk(t, k), k)
  BY <1>3, <1>5 DEF Stops
<1>10. ASSUME NEW i \in Slots(t), Holds(t, i, k) PROVE i = Walk(t, k)
  <2>1. i \in Used(t) /\ t.keys[i] = k
    BY <1>10 DEF Used, Filled, Slots, Holds
  <2>2. PICK j \in Slots(t) : Probe(t, k, j) = i /\ Passes(t, k, j)
    BY <2>1 DEF Table, Probed, Reached
  <2>3. j \in Stops(t, k)
    BY <1>10, <2>2 DEF Stops, Slots
  <2>4. f <= j /\ j \in Nat
    BY <1>1, <1>3, <2>3
  <2>5. CASE f = j
    BY <1>5, <2>2, <2>5
  <2>6. CASE f < j
    <3>1. t.occ[Walk(t, k)] # "empty"
      BY <1>4, <1>5, <2>2, <2>4, <2>6 DEF Passes
    <3>2. Walk(t, k) \in Used(t) /\ t.keys[Walk(t, k)] = k
      BY <1>8, <1>9, <3>1 DEF Used, Filled, Slots, Holds
    <3>. QED
      BY <2>1, <3>2 DEF Table, Probed, Once
  <2>. QED
    BY <1>4, <2>4, <2>5, <2>6
<1>. QED
  BY <1>2, <1>4, <1>7, <1>8, <1>9, <1>10 DEF f

-----------------------------------------------------------------------------
Map == INSTANCE AbstractMap WITH map <- Content(table)

(* The content of a table: what its occupied slots say.                     *)
LEMMA ContentAt ==
  ASSUME NEW t, Once(t)
  PROVE  /\ DOMAIN Content(t) = {t.keys[i] : i \in Used(t)}
         /\ \A i \in Used(t) : Content(t)[t.keys[i]] = t.values[i]
         /\ Content(t) = [k \in {t.keys[i] : i \in Used(t)} |-> Content(t)[k]]
<1>. DEFINE D == {t.keys[i] : i \in Used(t)}
            at(k) == CHOOSE i \in Used(t) : t.keys[i] = k
<1>1. Content(t) = [k \in D |-> t.values[at(k)]]
  BY DEF Content, Used
<1>2. ASSUME NEW i \in Used(t) PROVE at(t.keys[i]) = i
  <2>1. at(t.keys[i]) \in Used(t) /\ t.keys[at(t.keys[i])] = t.keys[i]
    OBVIOUS
  <2>. QED
    BY <2>1 DEF Once
<1>3. \A i \in Used(t) : Content(t)[t.keys[i]] = t.values[i]
  <2>1. \A i \in Used(t) : t.keys[i] \in D
    OBVIOUS
  <2>. HIDE DEF D, at
  <2>. QED
    BY <1>1, <1>2, <2>1
<1>. HIDE DEF at
<1>. QED
  BY <1>1, <1>3

LEMMA ContentIs ==
  ASSUME NEW t, Once(t), NEW m, m = [k \in DOMAIN m |-> m[k]],
         DOMAIN m = {t.keys[i] : i \in Used(t)},
         \A i \in Used(t) : m[t.keys[i]] = t.values[i]
  PROVE  Content(t) = m
<1>. DEFINE c == Content(t)
            D == {t.keys[i] : i \in Used(t)}
<1>1. c = [k \in D |-> c[k]] /\ \A i \in Used(t) : c[t.keys[i]] = t.values[i]
  BY ContentAt
<1>2. m = [k \in D |-> m[k]]
  OBVIOUS
<1>3. \A k \in D : c[k] = m[k]
  BY <1>1
<1>. HIDE DEF c, D
<1>4. c = m
  BY <1>1, <1>2, <1>3
<1>. QED
  BY <1>4 DEF c

(* Lookups answer what the content says.                                    *)
LEMMA Answers ==
  ASSUME Sized, NEW t, Table(t), NEW k \in Keys
  PROVE  /\ Member(t, k) <=> k \in DOMAIN Content(t)
         /\ Get(t, k) = IF k \in DOMAIN Content(t) THEN Content(t)[k] ELSE None
         /\ Member(t, k) => /\ t.capacity # 0 /\ Walk(t, k) \in Used(t)
                            /\ t.keys[Walk(t, k)] = k
<1>1. /\ DOMAIN Content(t) = {t.keys[i] : i \in Used(t)}
      /\ \A i \in Used(t) : Content(t)[t.keys[i]] = t.values[i]
  BY ContentAt DEF Table, Probed
<1>2. ASSUME Member(t, k)
      PROVE  /\ t.capacity # 0 /\ Walk(t, k) \in Used(t) /\ t.keys[Walk(t, k)] = k
  <2>1. t.capacity # 0 /\ Holds(t, Walk(t, k), k)
    BY <1>2 DEF Member
  <2>2. Walk(t, k) \in Slots(t)
    BY <2>1, WalkFinds
  <2>. QED
    BY <2>1, <2>2 DEF Holds, Used, Filled, Slots
<1>3. ASSUME k \in DOMAIN Content(t) PROVE Member(t, k)
  <2>1. PICK i \in Used(t) : t.keys[i] = k
    BY <1>1, <1>3
  <2>2. i \in Slots(t) /\ Holds(t, i, k) /\ t.capacity # 0
    BY <2>1 DEF Used, Filled, Slots, Holds
  <2>3. i = Walk(t, k)
    BY <2>2, WalkFinds
  <2>. QED
    BY <2>2, <2>3 DEF Member
<1>4. Member(t, k) <=> k \in DOMAIN Content(t)
  BY <1>1, <1>2, <1>3
<1>5. Get(t, k) = IF k \in DOMAIN Content(t) THEN Content(t)[k] ELSE None
  BY <1>1, <1>2, <1>4 DEF Get
<1>. QED
  BY <1>2, <1>4, <1>5

-----------------------------------------------------------------------------
\* An entry is put into a slot that is not in use.
Stores(t, s, p, k, v) ==
    /\ s.keys = [t.keys EXCEPT ![p] = k]
    /\ s.values = [t.values EXCEPT ![p] = v]
    /\ s.occ = [t.occ EXCEPT ![p] = "occupied"]
    /\ s.len = t.len + 1
    /\ s.capacity = t.capacity
    /\ s.tombstones = IF t.occ[p] = "tombstone" THEN t.tombstones - 1 ELSE t.tombstones
    /\ s = [keys |-> s.keys, values |-> s.values, occ |-> s.occ, len |-> s.len,
            capacity |-> s.capacity, tombstones |-> s.tombstones]

(* It is found there, if no walk for its key stops before, and every other  *)
(* entry is found where it was.                                             *)
LEMMA Stored ==
  ASSUME Sized, NEW t, Probed(t), t.capacity # 0, NEW k \in Keys, NEW v \in Values,
         NEW j \in Slots(t), NEW p, p = Probe(t, k, j), Passes(t, k, j),
         t.occ[p] # "occupied", \A i \in Used(t) : t.keys[i] # k,
         NEW s, Stores(t, s, p, k, v)
  PROVE  /\ Probed(s) /\ s.capacity = t.capacity /\ s.len = t.len + 1
         /\ s.tombstones = IF t.occ[p] = "tombstone" THEN t.tombstones - 1 ELSE t.tombstones
         /\ Used(s) = Used(t) \cup {p} /\ p \notin Used(t) /\ p \in Slots(t)
         /\ \A i \in Used(t) : s.keys[i] = t.keys[i] /\ s.values[i] = t.values[i]
         /\ s.keys[p] = k /\ s.values[p] = v
         /\ Content(s) = Map!With(Content(t), k, v)
<1>1. /\ t.capacity \in Nat \ {0} /\ t.len \in Nat /\ t.tombstones \in Nat
      /\ t.keys \in [Slots(t) -> Keys \cup {None}]
      /\ t.values \in [Slots(t) -> Values \cup {None}]
      /\ t.occ \in [Slots(t) -> Tags]
      /\ \A i \in Used(t) : t.keys[i] \in Keys /\ t.values[i] \in Values
      /\ Slots(t) \subseteq Nat
  BY DEF Probed, Shaped, Slots
<1>2. p \in Slots(t)
  BY <1>1, ProbeIn
<1>3. /\ s.keys \in [Slots(t) -> Keys \cup {None}]
      /\ s.values \in [Slots(t) -> Values \cup {None}]
      /\ s.occ \in [Slots(t) -> Tags]
      /\ s.keys[p] = k /\ s.values[p] = v /\ s.occ[p] = "occupied"
      /\ \A i \in Slots(t) : i # p => /\ s.keys[i] = t.keys[i]
                                     /\ s.values[i] = t.values[i]
                                     /\ s.occ[i] = t.occ[i]
  BY <1>1, <1>2 DEF Stores, Tags
<1>4. Slots(s) = Slots(t) /\ s.capacity = t.capacity /\ s.len = t.len + 1
  BY DEF Stores, Slots
<1>5. Used(t) \subseteq Slots(t) /\ Dead(t) \subseteq Slots(t) /\ p \notin Used(t)
  BY DEF Used, Dead, Filled, Slots
<1>6. Used(s) = Used(t) \cup {p}
  BY <1>2, <1>3, <1>4, <1>5 DEF Used, Filled, Slots
<1>7. Dead(s) = Dead(t) \ {p}
  BY <1>2, <1>3, <1>4, <1>5 DEF Dead, Filled, Slots
<1>8. p \in Dead(t) <=> t.occ[p] = "tombstone"
  BY <1>2 DEF Dead, Filled, Slots
<1>9. IsFiniteSet(Used(t)) /\ IsFiniteSet(Dead(t))
  <2>1. 0 \in Int /\ t.capacity - 1 \in Int
    BY <1>1
  <2>2. IsFiniteSet(Slots(t))
    BY <2>1, FS_Interval DEF Slots
  <2>. QED
    BY <1>5, <2>2, FS_Subset
<1>10. s.len = Cardinality(Used(s)) /\ s.len \in Nat
  <2>1. Cardinality(Used(t) \cup {p}) = Cardinality(Used(t)) + 1
    BY <1>5, <1>9, FS_AddElement
  <2>. QED
    BY <1>1, <1>4, <1>6, <2>1 DEF Probed, Counted
<1>11. s.tombstones = Cardinality(Dead(s)) /\ s.tombstones \in Nat
  <2>1. /\ Cardinality(Dead(t) \ {p})
             = IF p \in Dead(t) THEN Cardinality(Dead(t)) - 1 ELSE Cardinality(Dead(t))
        /\ IsFiniteSet(Dead(t) \ {p})
    BY <1>9, FS_RemoveElement
  <2>2. Cardinality(Dead(s)) \in Nat
    BY <1>7, <2>1, FS_CardinalityType
  <2>3. s.tombstones = Cardinality(Dead(s))
    BY <1>7, <1>8, <2>1 DEF Probed, Counted, Stores
  <2>. QED
    BY <2>2, <2>3
<1>12. \A i \in Used(t) : i # p /\ i \in Slots(t) /\ s.keys[i] = t.keys[i] /\ s.values[i] = t.values[i]
  BY <1>3, <1>5
<1>13. \A i \in Used(s) : s.keys[i] \in Keys /\ s.values[i] \in Values
  BY <1>1, <1>3, <1>6, <1>12
<1>14. Shaped(s)
  BY <1>1, <1>3, <1>4, <1>10, <1>11, <1>13 DEF Shaped, Stores
<1>15. Once(s)
  <2>1. \A i \in Used(t) : s.keys[i] # k
    BY <1>12
  <2>2. \A i, h \in Used(t) : t.keys[i] = t.keys[h] => i = h
    BY DEF Probed, Once
  <2>. QED
    BY <1>3, <1>6, <1>12, <2>1, <2>2 DEF Once
<1>16. \A x, h : Probe(s, x, h) = Probe(t, x, h)
  BY <1>4 DEF Probe
<1>17. ASSUME NEW x \in Keys, NEW n \in Slots(t), Passes(t, x, n) PROVE Passes(s, x, n)
  <2>1. SUFFICES ASSUME NEW h \in 0 .. n - 1 PROVE s.occ[Probe(t, x, h)] # "empty"
    BY <1>16 DEF Passes
  <2>2. h \in Nat /\ Probe(t, x, h) \in Slots(t)
    BY <1>1, ProbeIn
  <2>3. t.occ[Probe(t, x, h)] # "empty"
    BY <1>17 DEF Passes
  <2>. QED
    BY <1>3, <2>2, <2>3
<1>18. Reached(s)
  <2>1. SUFFICES ASSUME NEW i \in Used(s)
                 PROVE  \E h \in Slots(t) : Probe(t, s.keys[i], h) = i /\ Passes(s, s.keys[i], h)
    BY <1>4, <1>16 DEF Reached
  <2>2. CASE i = p
    BY <1>3, <1>17, <2>2
  <2>3. CASE i \in Used(t)
    <3>1. PICK h \in Slots(t) : Probe(t, t.keys[i], h) = i /\ Passes(t, t.keys[i], h)
      BY <2>3 DEF Probed, Reached
    <3>2. t.keys[i] \in Keys /\ s.keys[i] = t.keys[i]
      BY <1>1, <1>12, <2>3
    <3>. QED
      BY <1>17, <3>1, <3>2
  <2>. QED
    BY <1>6, <2>2, <2>3
<1>19. Probed(s)
  BY <1>10, <1>11, <1>14, <1>15, <1>18 DEF Probed, Counted
<1>20. Content(s) = Map!With(Content(t), k, v)
  <2>. DEFINE m == Map!With(Content(t), k, v)
  <2>1. /\ DOMAIN Content(t) = {t.keys[i] : i \in Used(t)}
        /\ \A i \in Used(t) : Content(t)[t.keys[i]] = t.values[i]
    BY ContentAt DEF Probed
  <2>2. /\ m = [x \in DOMAIN m |-> m[x]]
        /\ DOMAIN m = DOMAIN Content(t) \cup {k}
        /\ \A x \in DOMAIN m : m[x] = IF x = k THEN v ELSE Content(t)[x]
    BY DEF Map!With
  <2>. HIDE DEF m
  <2>3. DOMAIN m = {s.keys[i] : i \in Used(s)}
    <3>1. \A x \in DOMAIN Content(t) : \E i \in Used(s) : s.keys[i] = x
      BY <1>6, <1>12, <2>1
    <3>2. \A i \in Used(t) : s.keys[i] \in DOMAIN Content(t)
      BY <1>12, <2>1
    <3>. QED
      BY <1>3, <1>6, <2>2, <3>1, <3>2
  <2>4. \A i \in Used(s) : m[s.keys[i]] = s.values[i]
    <3>1. ASSUME NEW i \in Used(t) PROVE m[s.keys[i]] = s.values[i]
      <4>1. s.keys[i] = t.keys[i] /\ s.values[i] = t.values[i] /\ t.keys[i] # k
        BY <1>12
      <4>2. t.keys[i] \in DOMAIN Content(t)
        BY <2>1
      <4>. QED
        BY <2>1, <2>2, <4>1, <4>2
    <3>2. m[s.keys[p]] = s.values[p]
      BY <1>3, <2>2
    <3>. QED
      BY <1>6, <3>1, <3>2
  <2>5. Content(s) = m
    BY <1>15, <2>2, <2>3, <2>4, ContentIs
  <2>. QED
    BY <2>5 DEF m
<1>. QED
  BY <1>2, <1>3, <1>4, <1>5, <1>6, <1>12, <1>19, <1>20 DEF Stores

(* A store changes one slot and counts it.                                  *)
LEMMA StoreFields ==
  ASSUME NEW t, Shaped(t), NEW p \in Slots(t), NEW k, NEW v
  PROVE  Store(t, p, k, v) =
           [keys |-> [t.keys EXCEPT ![p] = k], values |-> [t.values EXCEPT ![p] = v],
            occ |-> [t.occ EXCEPT ![p] = "occupied"], len |-> t.len + 1,
            capacity |-> t.capacity, tombstones |-> t.tombstones]
<1>. DEFINE a == [t EXCEPT !.keys[p] = k]
            b == [a EXCEPT !.values[p] = v]
            c == [b EXCEPT !.occ[p] = "occupied"]
            d == [c EXCEPT !.len = @ + 1]
<1>1. t = [keys |-> t.keys, values |-> t.values, occ |-> t.occ, len |-> t.len,
           capacity |-> t.capacity, tombstones |-> t.tombstones]
  BY DEF Shaped
<1>2. Store(t, p, k, v) = d
  BY DEF Store
<1>3. a = [keys |-> [t.keys EXCEPT ![p] = k], values |-> t.values, occ |-> t.occ,
           len |-> t.len, capacity |-> t.capacity, tombstones |-> t.tombstones]
  BY <1>1
<1>. HIDE DEF a
<1>4. b = [keys |-> [t.keys EXCEPT ![p] = k], values |-> [t.values EXCEPT ![p] = v],
           occ |-> t.occ, len |-> t.len, capacity |-> t.capacity,
           tombstones |-> t.tombstones]
  BY <1>3
<1>. HIDE DEF b
<1>5. c = [keys |-> [t.keys EXCEPT ![p] = k], values |-> [t.values EXCEPT ![p] = v],
           occ |-> [t.occ EXCEPT ![p] = "occupied"], len |-> t.len,
           capacity |-> t.capacity, tombstones |-> t.tombstones]
  BY <1>4
<1>. HIDE DEF c
<1>6. d = [keys |-> [t.keys EXCEPT ![p] = k], values |-> [t.values EXCEPT ![p] = v],
           occ |-> [t.occ EXCEPT ![p] = "occupied"], len |-> t.len + 1,
           capacity |-> t.capacity, tombstones |-> t.tombstones]
  BY <1>5
<1>. HIDE DEF d
<1>. QED
  BY <1>2, <1>6

LEMMA StoreStores ==
  ASSUME NEW t, Shaped(t), NEW p \in Slots(t), NEW k, NEW v
  PROVE  /\ t.occ[p] # "tombstone" => Stores(t, Store(t, p, k, v), p, k, v)
         /\ t.occ[p] = "tombstone" =>
              Stores(t, [Store(t, p, k, v) EXCEPT !.tombstones = @ - 1], p, k, v)
<1>. DEFINE s == Store(t, p, k, v)
            d == [s EXCEPT !.tombstones = @ - 1]
<1>1. s = [keys |-> [t.keys EXCEPT ![p] = k], values |-> [t.values EXCEPT ![p] = v],
           occ |-> [t.occ EXCEPT ![p] = "occupied"], len |-> t.len + 1,
           capacity |-> t.capacity, tombstones |-> t.tombstones]
  BY StoreFields
<1>. HIDE DEF s
<1>2. d = [keys |-> [t.keys EXCEPT ![p] = k], values |-> [t.values EXCEPT ![p] = v],
           occ |-> [t.occ EXCEPT ![p] = "occupied"], len |-> t.len + 1,
           capacity |-> t.capacity, tombstones |-> t.tombstones - 1]
  BY <1>1
<1>3. t.occ[p] # "tombstone" => Stores(t, s, p, k, v)
  BY <1>1 DEF Stores
<1>. HIDE DEF d
<1>4. t.occ[p] = "tombstone" => Stores(t, d, p, k, v)
  BY <1>2 DEF Stores
<1>. QED
  BY <1>3, <1>4 DEF s, d

\* Room for one more entry, in a table that has been allocated.
Roomy(t) ==
    Probed(t) /\ 2 <= t.capacity /\ t.len + t.tombstones + 1 < t.capacity

LEMMA RoomyTable ==
  ASSUME NEW t, Roomy(t)
  PROVE  Table(t) /\ t.capacity # 0
BY DEF Roomy, Table, Spare, Probed, Shaped

(* An absent key is placed where walks for it come by.                      *)
LEMMA PlacedSafe ==
  ASSUME Sized, NEW t, Roomy(t), NEW k \in Keys, NEW v \in Values, ~Member(t, k)
  PROVE  Table(Placed(t, k, v)) /\ Content(Placed(t, k, v)) = Map!With(Content(t), k, v)
<1>. DEFINE f == First(Stops(t, k))
            g == First(Tombs(t, k))
            s == Placed(t, k, v)
<1>1. Table(t) /\ t.capacity # 0 /\ Probed(t) /\ Shaped(t)
  BY RoomyTable DEF Roomy, Probed
<1>2. t.capacity \in Nat \ {0} /\ Slots(t) \subseteq Nat /\ t.len \in Nat /\ t.tombstones \in Nat
  BY <1>1 DEF Shaped, Slots
<1>3. /\ f \in Slots(t) /\ Passes(t, k, f) /\ Walk(t, k) \in Slots(t)
      /\ t.occ[Walk(t, k)] = "empty" \/ Holds(t, Walk(t, k), k)
      /\ Walk(t, k) = Probe(t, k, f)
  BY <1>1, WalkFinds DEF Walk
<1>4. \A i \in Used(t) : t.keys[i] # k
  <2>1. k \notin DOMAIN Content(t)
    BY <1>1, Answers
  <2>2. DOMAIN Content(t) = {t.keys[i] : i \in Used(t)}
    BY <1>1, ContentAt DEF Probed
  <2>. QED
    BY <2>1, <2>2
<1>5. \E j \in Slots(t) : \E p :
         /\ p = Probe(t, k, j) /\ Passes(t, k, j) /\ t.occ[p] # "occupied"
         /\ Stores(t, s, p, k, v)
  <2>. HIDE DEF f
  <2>1. CASE Tombs(t, k) # {}
    <3>1. Tombs(t, k) \in SUBSET Nat /\ Tombs(t, k) \subseteq 0 .. f
      BY <1>2, <1>3 DEF Tombs, f
    <3>2. g \in Tombs(t, k)
      BY <2>1, <3>1, FirstLeast
    <3>. HIDE DEF g
    <3>3. g \in Slots(t) /\ g <= f /\ g \in Nat /\ t.occ[Probe(t, k, g)] = "tombstone"
      BY <1>2, <1>3, <3>1, <3>2 DEF Tombs, Slots
    <3>4. Passes(t, k, g)
      <4>1. 0 .. g - 1 \subseteq 0 .. f - 1
        BY <1>2, <1>3, <3>3
      <4>. QED
        BY <1>3, <4>1 DEF Passes
    <3>5. Probe(t, k, g) \in Slots(t)
      BY <1>2, <3>3, ProbeIn
    <3>6. s = [Store(t, Probe(t, k, g), k, v) EXCEPT !.tombstones = @ - 1]
      BY <2>1 DEF Placed, g
    <3>. HIDE DEF s
    <3>7. Stores(t, s, Probe(t, k, g), k, v)
      BY <1>1, <3>3, <3>5, <3>6, StoreStores
    <3>. QED
      BY <3>3, <3>4, <3>7
  <2>2. CASE Tombs(t, k) = {}
    <3>1. t.occ[Walk(t, k)] = "empty"
      BY <1>1, <1>3 DEF Member
    <3>2. s = Store(t, Walk(t, k), k, v)
      BY <2>2 DEF Placed
    <3>. HIDE DEF s
    <3>3. Stores(t, s, Walk(t, k), k, v)
      BY <1>1, <1>3, <3>1, <3>2, StoreStores
    <3>. QED
      BY <1>3, <3>1, <3>3
  <2>. QED
    BY <2>1, <2>2
<1>6. PICK p : \E j \in Slots(t) :
         /\ p = Probe(t, k, j) /\ Passes(t, k, j) /\ t.occ[p] # "occupied"
         /\ Stores(t, s, p, k, v)
  BY <1>5
<1>. HIDE DEF s
<1>7. /\ Probed(s) /\ s.capacity = t.capacity /\ s.len = t.len + 1
      /\ s.tombstones = IF t.occ[p] = "tombstone" THEN t.tombstones - 1 ELSE t.tombstones
      /\ Content(s) = Map!With(Content(t), k, v)
  BY <1>1, <1>4, <1>6, Stored
<1>8. Spare(s)
  BY <1>2, <1>7 DEF Spare, Roomy
<1>9. Table(s) /\ Content(s) = Map!With(Content(t), k, v)
  BY <1>7, <1>8 DEF Table
<1>. QED
  BY <1>9 DEF s

-----------------------------------------------------------------------------
(* A new value for a key that is there.                                     *)
LEMMA Overwritten ==
  ASSUME Sized, NEW t, Table(t), NEW k \in Keys, NEW v \in Values, Member(t, k),
         NEW s, s = [t EXCEPT !.values[Walk(t, k)] = v]
  PROVE  Table(s) /\ Content(s) = Map!With(Content(t), k, v)
<1>. DEFINE p == Walk(t, k)
<1>1. Shaped(t) /\ Once(t) /\ Reached(t) /\ Counted(t) /\ Spare(t)
  BY DEF Table, Probed
<1>2. p \in Used(t) /\ t.keys[p] = k /\ p \in Slots(t)
  BY Answers DEF Used, Filled, Slots
<1>. HIDE DEF p
<1>3. s = [keys |-> t.keys, values |-> [t.values EXCEPT ![p] = v], occ |-> t.occ,
           len |-> t.len, capacity |-> t.capacity, tombstones |-> t.tombstones]
  <2>1. t = [keys |-> t.keys, values |-> t.values, occ |-> t.occ, len |-> t.len,
             capacity |-> t.capacity, tombstones |-> t.tombstones]
    BY <1>1 DEF Shaped
  <2>2. s = [t EXCEPT !.values[p] = v]
    BY DEF p
  <2>. QED
    BY <2>1, <2>2
<1>4. /\ s.keys = t.keys /\ s.occ = t.occ /\ s.len = t.len /\ s.capacity = t.capacity
      /\ s.tombstones = t.tombstones /\ s.values = [t.values EXCEPT ![p] = v]
  BY <1>3
<1>5. Slots(s) = Slots(t) /\ Used(s) = Used(t) /\ Dead(s) = Dead(t)
  BY <1>4 DEF Slots, Used, Dead, Filled
<1>6. t.values \in [Slots(t) -> Values \cup {None}]
  BY <1>1 DEF Shaped
<1>7. /\ s.values \in [Slots(t) -> Values \cup {None}] /\ s.values[p] = v
      /\ \A i \in Slots(t) : i # p => s.values[i] = t.values[i]
  BY ONLY <1>2, <1>4, <1>6
<1>8. \A i \in Used(t) : i \in Slots(t)
  BY DEF Used, Filled, Slots
<1>9. Shaped(s)
  <2>1. s = [keys |-> s.keys, values |-> s.values, occ |-> s.occ, len |-> s.len,
             capacity |-> s.capacity, tombstones |-> s.tombstones]
    BY <1>3
  <2>2. \A i \in Used(t) : s.values[i] \in Values
    BY <1>1, <1>7, <1>8 DEF Shaped
  <2>. QED
    BY <1>1, <1>4, <1>5, <1>7, <2>1, <2>2 DEF Shaped
<1>10. Once(s) /\ Counted(s) /\ Spare(s)
  BY <1>1, <1>4, <1>5 DEF Once, Counted, Spare
<1>11. Reached(s)
  BY <1>1, <1>4, <1>5 DEF Reached, Passes, Probe
<1>12. Content(s) = Map!With(Content(t), k, v)
  <2>. DEFINE m == Map!With(Content(t), k, v)
  <2>1. /\ DOMAIN Content(t) = {t.keys[i] : i \in Used(t)}
        /\ \A i \in Used(t) : Content(t)[t.keys[i]] = t.values[i]
    BY <1>1, ContentAt
  <2>2. /\ m = [x \in DOMAIN m |-> m[x]]
        /\ DOMAIN m = DOMAIN Content(t) \cup {k}
        /\ \A x \in DOMAIN m : m[x] = IF x = k THEN v ELSE Content(t)[x]
    BY DEF Map!With
  <2>. HIDE DEF m
  <2>3. DOMAIN m = {s.keys[i] : i \in Used(s)}
    BY <1>2, <1>4, <1>5, <2>1, <2>2
  <2>4. \A i \in Used(s) : m[s.keys[i]] = s.values[i]
    <3>1. ASSUME NEW i \in Used(t), i # p PROVE m[t.keys[i]] = s.values[i]
      <4>1. t.keys[i] # k
        BY <1>1, <1>2, <3>1 DEF Once
      <4>2. t.keys[i] \in DOMAIN Content(t)
        BY <2>1
      <4>. QED
        BY <1>7, <1>8, <2>1, <2>2, <3>1, <4>1, <4>2
    <3>2. m[t.keys[p]] = s.values[p]
      BY <1>2, <1>7, <2>2
    <3>. QED
      BY <1>4, <1>5, <3>1, <3>2
  <2>5. Content(s) = m
    BY ONLY <1>10, <2>2, <2>3, <2>4, ContentIs
  <2>. QED
    BY <2>5 DEF m
<1>. QED
  BY <1>9, <1>10, <1>11, <1>12 DEF Table, Probed

-----------------------------------------------------------------------------
(* Removal leaves a tombstone, which walks pass as they passed the entry.   *)
LEMMA RemovedSafe ==
  ASSUME Sized, NEW t, Table(t), NEW k \in Keys
  PROVE  Table(Removed(t, k)) /\ Content(Removed(t, k)) = Map!Without(Content(t), k)
<1>. DEFINE p == Walk(t, k)
            s == Removed(t, k)
<1>1. Shaped(t) /\ Once(t) /\ Reached(t) /\ Counted(t) /\ Spare(t)
  BY DEF Table, Probed
<1>2. /\ DOMAIN Content(t) = {t.keys[i] : i \in Used(t)}
      /\ \A i \in Used(t) : Content(t)[t.keys[i]] = t.values[i]
      /\ Content(t) = [x \in {t.keys[i] : i \in Used(t)} |-> Content(t)[x]]
  BY <1>1, ContentAt
<1>3. CASE ~Member(t, k)
  <2>1. s = t
    BY <1>3 DEF Removed
  <2>2. k \notin DOMAIN Content(t)
    BY <1>3, Answers
  <2>3. Map!Without(Content(t), k) = Content(t)
    <3>. DEFINE c == Content(t)
                D == {t.keys[i] : i \in Used(t)}
    <3>1. c = [x \in D |-> c[x]] /\ DOMAIN c = D /\ k \notin D
      BY <1>2, <2>2
    <3>2. Map!Without(c, k) = [x \in DOMAIN c \ {k} |-> c[x]]
      BY DEF Map!Without
    <3>3. DOMAIN c \ {k} = D
      BY <3>1
    <3>. HIDE DEF c, D
    <3>4. Map!Without(c, k) = c
      BY <3>1, <3>2, <3>3
    <3>. QED
      BY <3>4 DEF c
  <2>. QED
    BY <2>1, <2>3
<1>4. CASE Member(t, k)
  <2>1. p \in Used(t) /\ t.keys[p] = k /\ p \in Slots(t)
    BY <1>4, Answers DEF Used, Filled, Slots
  <2>. HIDE DEF p
  <2>. DEFINE a == [t EXCEPT !.occ[p] = "tombstone"]
              b == [a EXCEPT !.len = @ - 1]
              d == [b EXCEPT !.tombstones = @ + 1]
  <2>2. s = d
    BY <1>4 DEF Removed, p
  <2>. HIDE DEF s
  <2>3. t = [keys |-> t.keys, values |-> t.values, occ |-> t.occ, len |-> t.len,
             capacity |-> t.capacity, tombstones |-> t.tombstones]
    BY <1>1 DEF Shaped
  <2>4. a = [keys |-> t.keys, values |-> t.values,
             occ |-> [t.occ EXCEPT ![p] = "tombstone"], len |-> t.len,
             capacity |-> t.capacity, tombstones |-> t.tombstones]
    BY <2>3
  <2>. HIDE DEF a
  <2>5. b = [keys |-> t.keys, values |-> t.values,
             occ |-> [t.occ EXCEPT ![p] = "tombstone"], len |-> t.len - 1,
             capacity |-> t.capacity, tombstones |-> t.tombstones]
    BY <2>4
  <2>. HIDE DEF b
  <2>6. d = [keys |-> t.keys, values |-> t.values,
             occ |-> [t.occ EXCEPT ![p] = "tombstone"], len |-> t.len - 1,
             capacity |-> t.capacity, tombstones |-> t.tombstones + 1]
    BY <2>5
  <2>. HIDE DEF d
  <2>7. s = [keys |-> t.keys, values |-> t.values,
             occ |-> [t.occ EXCEPT ![p] = "tombstone"], len |-> t.len - 1,
             capacity |-> t.capacity, tombstones |-> t.tombstones + 1]
    BY <2>2, <2>6
  <2>8. /\ s.keys = t.keys /\ s.values = t.values /\ s.len = t.len - 1
        /\ s.capacity = t.capacity /\ s.tombstones = t.tombstones + 1
        /\ s.occ = [t.occ EXCEPT ![p] = "tombstone"]
    BY <2>7
  <2>9. /\ t.occ \in [Slots(t) -> Tags] /\ t.capacity \in Nat /\ t.len \in Nat
        /\ t.tombstones \in Nat /\ Slots(t) \subseteq Nat
    BY <1>1 DEF Shaped, Slots
  <2>10. /\ s.occ \in [Slots(t) -> Tags] /\ s.occ[p] = "tombstone"
         /\ \A i \in Slots(t) : i # p => s.occ[i] = t.occ[i]
    BY <2>1, <2>8, <2>9 DEF Tags
  <2>11. Slots(s) = Slots(t)
    BY <2>8 DEF Slots
  <2>12. Used(s) = Used(t) \ {p} /\ p \notin Dead(t) /\ Dead(s) = Dead(t) \cup {p}
    BY <2>1, <2>8, <2>10 DEF Used, Dead, Filled, Slots
  <2>13. Counted(s) /\ s.len \in Nat /\ s.tombstones \in Nat
    <3>1. 0 \in Int /\ t.capacity - 1 \in Int
      BY <2>9
    <3>2. IsFiniteSet(Slots(t))
      BY <3>1, FS_Interval DEF Slots
    <3>3. Used(t) \in SUBSET Slots(t) /\ Dead(t) \in SUBSET Slots(t)
      BY DEF Used, Dead, Filled, Slots
    <3>4. IsFiniteSet(Used(t)) /\ IsFiniteSet(Dead(t))
      BY <3>2, <3>3, FS_Subset
    <3>5. Cardinality(Used(t) \ {p}) = Cardinality(Used(t)) - 1 /\ IsFiniteSet(Used(t) \ {p})
      BY <2>1, <3>4, FS_RemoveElement
    <3>6. Cardinality(Dead(t) \cup {p}) = Cardinality(Dead(t)) + 1
      BY <2>12, <3>4, FS_AddElement
    <3>7. Cardinality(Used(t) \ {p}) \in Nat
      BY <3>5, FS_CardinalityType
    <3>. QED
      BY <1>1, <2>8, <2>9, <2>12, <3>5, <3>6, <3>7 DEF Counted
  <2>14. Shaped(s)
    <3>1. s = [keys |-> s.keys, values |-> s.values, occ |-> s.occ, len |-> s.len,
               capacity |-> s.capacity, tombstones |-> s.tombstones]
      BY <2>7
    <3>. QED
      BY <1>1, <2>8, <2>9, <2>10, <2>11, <2>12, <2>13, <3>1 DEF Shaped
  <2>15. Once(s)
    BY <1>1, <2>8, <2>12 DEF Once
  <2>16. Spare(s)
    BY <1>1, <2>8, <2>9 DEF Spare
  <2>17. \A x, h : Probe(s, x, h) = Probe(t, x, h)
    BY <2>8 DEF Probe
  <2>18. Reached(s)
    <3>1. SUFFICES ASSUME NEW i \in Used(s)
                   PROVE  \E j \in Slots(t) : Probe(t, t.keys[i], j) = i /\ Passes(s, t.keys[i], j)
      BY <2>8, <2>11, <2>17 DEF Reached
    <3>2. i \in Used(t) /\ t.keys[i] \in Keys
      BY <1>1, <2>12 DEF Shaped
    <3>3. PICK j \in Slots(t) : Probe(t, t.keys[i], j) = i /\ Passes(t, t.keys[i], j)
      BY <1>1, <3>2 DEF Reached
    <3>4. ASSUME NEW h \in 0 .. j - 1 PROVE s.occ[Probe(s, t.keys[i], h)] # "empty"
      <4>1. h \in Nat /\ t.capacity \in Nat \ {0}
        BY <2>1, <2>9 DEF Slots
      <4>2. Probe(t, t.keys[i], h) \in Slots(t)
        BY <3>2, <4>1, ProbeIn
      <4>3. t.occ[Probe(t, t.keys[i], h)] # "empty"
        BY <3>3 DEF Passes
      <4>. QED
        BY <2>10, <2>17, <4>2, <4>3
    <3>. QED
      BY <3>3, <3>4 DEF Passes
  <2>19. Content(s) = Map!Without(Content(t), k)
    <3>. DEFINE m == Map!Without(Content(t), k)
    <3>1. /\ m = [x \in DOMAIN m |-> m[x]]
          /\ DOMAIN m = DOMAIN Content(t) \ {k}
          /\ \A x \in DOMAIN m : m[x] = Content(t)[x]
      BY DEF Map!Without
    <3>. HIDE DEF m
    <3>2. \A i \in Used(s) : i \in Used(t) /\ t.keys[i] # k
      BY <1>1, <2>1, <2>12 DEF Once
    <3>3. DOMAIN m = {s.keys[i] : i \in Used(s)}
      <4>1. \A x \in DOMAIN m : \E i \in Used(s) : t.keys[i] = x
        BY <1>2, <2>1, <2>12, <3>1
      <4>2. \A i \in Used(s) : s.keys[i] = t.keys[i] /\ t.keys[i] \in DOMAIN m
        BY <1>2, <2>8, <3>1, <3>2
      <4>. QED
        BY <4>1, <4>2
    <3>4. \A i \in Used(s) : m[s.keys[i]] = s.values[i]
      BY <1>2, <2>8, <3>1, <3>2
    <3>5. Content(s) = m
      BY <2>15, <3>1, <3>3, <3>4, ContentIs
    <3>. QED
      BY <3>5 DEF m
  <2>20. Table(s) /\ Content(s) = Map!Without(Content(t), k)
    BY <2>13, <2>14, <2>15, <2>16, <2>18, <2>19 DEF Table, Probed
  <2>. QED
    BY <2>20 DEF s
<1>. QED
  BY <1>3, <1>4

-----------------------------------------------------------------------------
\* The entries of s are those of t and one for k.
Extends(t, s, k, v) ==
    \E p : /\ Used(s) = Used(t) \cup {p} /\ s.keys[p] = k /\ s.values[p] = v
           /\ \A i \in Used(t) : s.keys[i] = t.keys[i] /\ s.values[i] = t.values[i]

(* __insert_raw: into a table without tombstones, at its first free slot.   *)
LEMMA InsertRawSafe ==
  ASSUME Sized, NEW t, Probed(t), t.tombstones = 0, t.len < t.capacity,
         NEW k \in Keys, NEW v \in Values, \A i \in Used(t) : t.keys[i] # k
  PROVE  /\ Probed(InsertRaw(t, k, v)) /\ InsertRaw(t, k, v).capacity = t.capacity
         /\ InsertRaw(t, k, v).len = t.len + 1 /\ InsertRaw(t, k, v).tombstones = 0
         /\ Extends(t, InsertRaw(t, k, v), k, v)
<1>. DEFINE F == {j \in Slots(t) : t.occ[Probe(t, k, j)] # "occupied"}
            f == First(F)
            p == Probe(t, k, f)
            s == InsertRaw(t, k, v)
<1>1. /\ Shaped(t) /\ Counted(t) /\ t.capacity \in Nat \ {0} /\ t.len \in Nat
      /\ Slots(t) \subseteq Nat /\ t.occ \in [Slots(t) -> Tags]
  BY DEF Probed, Shaped, Slots
<1>2. F # {} /\ F \in SUBSET Nat
  <2>1. PICK e \in Slots(t) : t.occ[e] = "empty"
    BY <1>1, EmptyLeft
  <2>2. PICK j \in Slots(t) : Probe(t, k, j) = e
    BY <1>1, ProbeOnto
  <2>. QED
    BY <1>1, <2>1, <2>2
<1>3. f \in F /\ \A i \in F : f <= i
  <2>. HIDE DEF F
  <2>. QED
    BY <1>2, FirstLeast
<1>. HIDE DEF f
<1>4. f \in Slots(t) /\ f \in Nat /\ t.occ[p] # "occupied" /\ p \in Slots(t)
  <2>1. f \in Slots(t) /\ f \in Nat /\ t.occ[p] # "occupied"
    BY <1>1, <1>3
  <2>2. p \in Slots(t)
    BY <1>1, <2>1, ProbeIn
  <2>. QED
    BY <2>1, <2>2
<1>5. Passes(t, k, f)
  <2>1. ASSUME NEW h \in 0 .. f - 1, t.occ[Probe(t, k, h)] = "empty" PROVE FALSE
    <3>1. h \in Slots(t) /\ h < f
      BY <1>1, <1>4 DEF Slots
    <3>2. h \in F
      BY <2>1, <3>1
    <3>3. f <= h
      BY <1>3, <3>2
    <3>. QED
      BY <1>1, <1>4, <3>1, <3>3
  <2>. QED
    BY <2>1 DEF Passes
<1>6. t.occ[p] # "tombstone"
  <2>1. IsFiniteSet(Dead(t)) /\ Cardinality(Dead(t)) = 0
    <3>1. 0 \in Int /\ t.capacity - 1 \in Int
      BY <1>1
    <3>2. IsFiniteSet(Slots(t))
      BY <3>1, FS_Interval DEF Slots
    <3>3. Dead(t) \in SUBSET Slots(t)
      BY DEF Dead, Filled, Slots
    <3>4. IsFiniteSet(Dead(t))
      BY <3>2, <3>3, FS_Subset
    <3>. QED
      BY <1>1, <3>4 DEF Counted
  <2>2. Dead(t) = {}
    BY <2>1, FS_EmptySet
  <2>. QED
    BY <1>4, <2>2 DEF Dead, Filled, Slots
<1>7. s = Store(t, p, k, v)
  BY DEF InsertRaw, f, Slots
<1>. HIDE DEF s
<1>8. Stores(t, s, p, k, v)
  BY <1>1, <1>4, <1>6, <1>7, StoreStores
<1>. DEFINE q == p
<1>9. q = Probe(t, k, f) /\ q = p
  OBVIOUS
<1>. HIDE DEF q, F
<1>10. /\ Probed(s) /\ s.capacity = t.capacity /\ s.len = t.len + 1 /\ s.tombstones = 0
       /\ Used(s) = Used(t) \cup {q}
       /\ \A i \in Used(t) : s.keys[i] = t.keys[i] /\ s.values[i] = t.values[i]
       /\ s.keys[q] = k /\ s.values[q] = v
  <2>1. t.capacity # 0 /\ t.occ[q] # "occupied" /\ t.occ[q] # "tombstone" /\ Stores(t, s, q, k, v)
    BY <1>1, <1>4, <1>6, <1>8, <1>9
  <2>2. q = Probe(t, k, f) /\ f \in Slots(t) /\ Passes(t, k, f) /\ t.tombstones = 0
    BY <1>4, <1>5, <1>9
  <2>. HIDE DEF p
  <2>3. /\ Probed(s) /\ s.capacity = t.capacity /\ s.len = t.len + 1
        /\ s.tombstones = IF t.occ[q] = "tombstone" THEN t.tombstones - 1 ELSE t.tombstones
        /\ Used(s) = Used(t) \cup {q}
        /\ \A i \in Used(t) : s.keys[i] = t.keys[i] /\ s.values[i] = t.values[i]
        /\ s.keys[q] = k /\ s.values[q] = v
    BY <2>1, <2>2, Stored
  <2>. QED
    BY <2>1, <2>2, <2>3
<1>11. Extends(t, s, k, v)
  BY <1>10 DEF Extends
<1>. QED
  BY <1>10, <1>11 DEF s

-----------------------------------------------------------------------------
(* __grow reinserts slot after slot.                                        *)
LEMMA MovedIs ==
  ASSUME NEW t, t.capacity \in Nat, NEW fresh
  PROVE  /\ Moved(t, fresh)[0] = fresh
         /\ \A i \in 1 .. t.capacity :
              Moved(t, fresh)[i] =
                IF t.occ[i - 1] = "occupied"
                THEN InsertRaw(Moved(t, fresh)[i - 1], t.keys[i - 1], t.values[i - 1])
                ELSE Moved(t, fresh)[i - 1]
<1>. DEFINE C == t.capacity
            Next1(m, i) == IF t.occ[i] = "occupied" THEN InsertRaw(m, t.keys[i], t.values[i])
                           ELSE m
            Up(g, k) == g = [i \in 0 .. k |-> IF i = 0 THEN fresh
                                ELSE IF t.occ[i - 1] = "occupied"
                                THEN InsertRaw(g[i - 1], t.keys[i - 1], t.values[i - 1])
                                ELSE g[i - 1]]
            Built == {k \in Nat : \E g : Up(g, k)}
<1>1. \A g, k : Up(g, k) <=> g = [i \in 0 .. k |-> IF i = 0 THEN fresh ELSE Next1(g[i - 1], i - 1)]
  OBVIOUS
<1>2. 0 \in Built
  <2>. DEFINE g == [n \in 0 .. 0 |-> fresh]
  <2>1. g = [i \in 0 .. 0 |-> IF i = 0 THEN fresh ELSE Next1(g[i - 1], i - 1)]
    <3>. HIDE DEF Next1
    <3>. QED
      OBVIOUS
  <2>2. Up(g, 0)
    BY <1>1, <2>1
  <2>. HIDE DEF g, Up
  <2>. QED
    BY <2>2
<1>. HIDE DEF Next1, Up
<1>3. ASSUME NEW k \in Nat, k \in Built PROVE k + 1 \in Built
  <2>1. PICK g : Up(g, k)
    BY <1>3
  <2>2. g = [i \in 0 .. k |-> IF i = 0 THEN fresh ELSE Next1(g[i - 1], i - 1)]
    BY <1>1, <2>1
  <2>. DEFINE h == [n \in 0 .. k + 1 |-> IF n <= k THEN g[n] ELSE Next1(g[k], k)]
  <2>3. \A n \in 0 .. k : h[n] = g[n]
    OBVIOUS
  <2>4. h[k + 1] = Next1(g[k], k)
    OBVIOUS
  <2>5. \A n \in 0 .. k + 1 : h[n] = IF n = 0 THEN fresh ELSE Next1(h[n - 1], n - 1)
    <3>1. ASSUME NEW n \in 0 .. k PROVE h[n] = IF n = 0 THEN fresh ELSE Next1(h[n - 1], n - 1)
      <4>1. g[n] = IF n = 0 THEN fresh ELSE Next1(g[n - 1], n - 1)
        BY <2>2
      <4>2. n # 0 => n - 1 \in 0 .. k
        OBVIOUS
      <4>. HIDE DEF h
      <4>. QED
        BY <4>1, <4>2, <2>3
    <3>2. h[k + 1] = Next1(h[k + 1 - 1], k + 1 - 1) /\ k + 1 # 0
      <4>1. k + 1 - 1 = k /\ k \in 0 .. k /\ k + 1 # 0
        OBVIOUS
      <4>. HIDE DEF h
      <4>. QED
        BY <4>1, <2>3, <2>4
    <3>3. \A n \in 0 .. k + 1 : n \in 0 .. k \/ n = k + 1
      OBVIOUS
    <3>. HIDE DEF h
    <3>. QED
      BY <3>1, <3>2, <3>3
  <2>6. h = [n \in 0 .. k + 1 |-> h[n]]
    OBVIOUS
  <2>. HIDE DEF h
  <2>7. h = [i \in 0 .. k + 1 |-> IF i = 0 THEN fresh ELSE Next1(h[i - 1], i - 1)]
    BY <2>5, <2>6
  <2>8. Up(h, k + 1)
    BY <1>1, <2>7
  <2>. QED
    BY <2>8
<1>4. C \in Built
  <2>. HIDE DEF Built
  <2>1. \A n \in 0 .. C : n \in Built
    BY <1>2, <1>3, UpTo
  <2>. QED
    BY <2>1
<1>5. Up(Moved(t, fresh), C)
  <2>1. \E g : Up(g, C)
    BY <1>4
  <2>2. Moved(t, fresh) = CHOOSE g : Up(g, C)
    BY DEF Moved, Up
  <2>. HIDE DEF C
  <2>. QED
    BY <2>1, <2>2
<1>. DEFINE M == Moved(t, fresh)
<1>6. M = [i \in 0 .. C |-> IF i = 0 THEN fresh ELSE Next1(M[i - 1], i - 1)]
  BY <1>1, <1>5
<1>. HIDE DEF M
<1>7. M[0] = fresh /\ \A i \in 1 .. C : M[i] = Next1(M[i - 1], i - 1)
  <2>1. \A i \in 0 .. C : M[i] = IF i = 0 THEN fresh ELSE Next1(M[i - 1], i - 1)
    BY <1>6
  <2>2. 0 \in 0 .. C /\ \A i \in 1 .. C : i \in 0 .. C /\ i # 0
    OBVIOUS
  <2>. HIDE DEF C
  <2>. QED
    BY <2>1, <2>2
<1>. QED
  BY <1>7 DEF M, Next1

(* A fresh table has nothing in it.                                         *)
LEMMA FreshTable ==
  ASSUME NEW c \in Nat
  PROVE  /\ Probed(Fresh(c)) /\ Fresh(c).capacity = c /\ Fresh(c).len = 0
         /\ Fresh(c).tombstones = 0 /\ Used(Fresh(c)) = {}
         /\ Content(Fresh(c)) = [k \in {} |-> None]
<1>. DEFINE t == Fresh(c)
<1>1. t = [keys |-> [i \in 0 .. c - 1 |-> None], values |-> [i \in 0 .. c - 1 |-> None],
           occ |-> [i \in 0 .. c - 1 |-> "empty"], len |-> 0, capacity |-> c, tombstones |-> 0]
  BY DEF Fresh
<1>. HIDE DEF t
<1>2. /\ t.keys = [i \in 0 .. c - 1 |-> None] /\ t.values = [i \in 0 .. c - 1 |-> None]
      /\ t.occ = [i \in 0 .. c - 1 |-> "empty"] /\ t.len = 0 /\ t.capacity = c
      /\ t.tombstones = 0
  BY <1>1
<1>3. Slots(t) = 0 .. c - 1 /\ Used(t) = {} /\ Dead(t) = {}
  BY <1>2 DEF Slots, Used, Dead, Filled
<1>4. Shaped(t)
  <2>1. t = [keys |-> t.keys, values |-> t.values, occ |-> t.occ, len |-> t.len,
             capacity |-> t.capacity, tombstones |-> t.tombstones]
    BY <1>1
  <2>2. /\ t.keys \in [0 .. c - 1 -> Keys \cup {None}]
        /\ t.values \in [0 .. c - 1 -> Values \cup {None}]
        /\ t.occ \in [0 .. c - 1 -> Tags]
    BY <1>2 DEF Tags
  <2>. QED
    BY <1>2, <1>3, <2>1, <2>2 DEF Shaped
<1>5. Once(t) /\ Reached(t)
  BY <1>3 DEF Once, Reached
<1>6. Counted(t)
  BY <1>2, <1>3, FS_EmptySet DEF Counted
<1>7. Content(t) = [k \in {} |-> None]
  <2>1. Content(t) = [k \in {t.keys[i] : i \in Used(t)} |-> Content(t)[k]]
    BY <1>5, ContentAt
  <2>2. {t.keys[i] : i \in Used(t)} = {}
    BY <1>3
  <2>. QED
    BY <2>1, <2>2
<1>. QED
  BY <1>2, <1>3, <1>4, <1>5, <1>6, <1>7 DEF Probed, t

\* What has been moved after i slots: the entries of these.
Moves(t, m, i, c) ==
    /\ Probed(m) /\ m.capacity = c /\ m.len <= i /\ m.tombstones = 0
    /\ \A h \in Used(t) : h < i =>
         \E g \in Used(m) : m.keys[g] = t.keys[h] /\ m.values[g] = t.values[h]
    /\ \A g \in Used(m) : \E h \in Used(t) :
         h < i /\ m.keys[g] = t.keys[h] /\ m.values[g] = t.values[h]

LEMMA MovesOn ==
  ASSUME Sized, NEW t, Probed(t), NEW c \in Nat, t.capacity < c, NEW i \in Slots(t),
         NEW m, Moves(t, m, i, c),
         NEW n, n = IF t.occ[i] = "occupied" THEN InsertRaw(m, t.keys[i], t.values[i]) ELSE m
  PROVE  Moves(t, n, i + 1, c)
<1>. DEFINE k == t.keys[i]
            v == t.values[i]
<1>1. /\ t.capacity \in Nat /\ i \in Nat /\ i < t.capacity
      /\ \A h \in Used(t) : h \in Nat /\ t.keys[h] \in Keys /\ t.values[h] \in Values
      /\ \A h, g \in Used(t) : t.keys[h] = t.keys[g] => h = g
  BY DEF Probed, Shaped, Once, Slots, Used, Filled
<1>2. /\ Probed(m) /\ m.capacity = c /\ m.len <= i /\ m.tombstones = 0 /\ m.len \in Nat
      /\ \A h \in Used(t) : h < i =>
           \E g \in Used(m) : m.keys[g] = t.keys[h] /\ m.values[g] = t.values[h]
      /\ \A g \in Used(m) : \E h \in Used(t) :
           h < i /\ m.keys[g] = t.keys[h] /\ m.values[g] = t.values[h]
  BY DEF Moves, Probed, Shaped
<1>3. CASE t.occ[i] # "occupied"
  <2>1. n = m
    BY <1>3
  <2>2. i \notin Used(t)
    BY <1>3 DEF Used, Filled
  <2>3. \A h \in Used(t) : h < i + 1 <=> h < i
    BY <1>1, <2>2
  <2>. QED
    BY <1>1, <1>2, <2>1, <2>3 DEF Moves
<1>4. CASE t.occ[i] = "occupied"
  <2>1. i \in Used(t) /\ k \in Keys /\ v \in Values
    BY <1>1, <1>4 DEF Used, Filled, Slots
  <2>2. n = InsertRaw(m, k, v)
    BY <1>4
  <2>3. \A g \in Used(m) : m.keys[g] # k
    BY <1>1, <1>2, <2>1
  <2>4. m.len < m.capacity
    BY <1>1, <1>2
  <2>. HIDE DEF k, v
  <2>5. /\ Probed(n) /\ n.capacity = c /\ n.len = m.len + 1 /\ n.tombstones = 0
        /\ Extends(m, n, k, v)
    BY ONLY Sized, <1>2, <2>1, <2>2, <2>3, <2>4, InsertRawSafe
  <2>6. PICK p : /\ Used(n) = Used(m) \cup {p} /\ n.keys[p] = k /\ n.values[p] = v
                 /\ \A g \in Used(m) : n.keys[g] = m.keys[g] /\ n.values[g] = m.values[g]
    BY <2>5 DEF Extends
  <2>7. \A h \in Used(t) : h < i + 1 =>
          \E g \in Used(n) : n.keys[g] = t.keys[h] /\ n.values[g] = t.values[h]
    <3>1. \A h \in Used(t) : h < i + 1 => h < i \/ h = i
      BY <1>1
    <3>2. n.keys[p] = t.keys[i] /\ n.values[p] = t.values[i] /\ p \in Used(n)
      BY <2>6 DEF k, v
    <3>. QED
      BY ONLY <1>2, <2>6, <3>1, <3>2
  <2>8. \A g \in Used(n) : \E h \in Used(t) :
          h < i + 1 /\ n.keys[g] = t.keys[h] /\ n.values[g] = t.values[h]
    <3>1. \A h \in Used(t) : h < i => h < i + 1
      BY <1>1
    <3>2. n.keys[p] = t.keys[i] /\ n.values[p] = t.values[i] /\ i < i + 1
      BY <1>1, <2>6 DEF k, v
    <3>. QED
      BY ONLY <1>2, <2>1, <2>6, <3>1, <3>2
  <2>9. n.len <= i + 1
    BY <1>1, <1>2, <2>5
  <2>. QED
    BY <2>5, <2>7, <2>8, <2>9 DEF Moves
<1>. QED
  BY <1>3, <1>4

(* __grow: twice the room, the same entries, no tombstones.                 *)
LEMMA GrownSafe ==
  ASSUME Sized, NEW t, Table(t)
  PROVE  Roomy(Grown(t)) /\ Content(Grown(t)) = Content(t)
<1>. DEFINE c == IF t.capacity = 0 THEN FirstCapacity ELSE 2 * t.capacity
            M == Moved(t, Fresh(c))
            S == {i \in 0 .. t.capacity : Moves(t, M[i], i, c)}
<1>1. /\ Probed(t) /\ t.capacity \in Nat /\ Once(t) /\ Slots(t) = 0 .. t.capacity - 1
      /\ \A h \in Used(t) : h \in Nat /\ h < t.capacity
  BY DEF Table, Probed, Shaped, Slots, Used, Filled
<1>2. c \in Nat /\ 2 <= c /\ t.capacity + 1 < c
  BY <1>1 DEF Sized, Table, Spare
<1>3. Grown(t) = M[t.capacity]
  BY DEF Grown
<1>. HIDE DEF c
<1>4. /\ M[0] = Fresh(c)
      /\ \A i \in 1 .. t.capacity :
           M[i] = IF t.occ[i - 1] = "occupied"
                  THEN InsertRaw(M[i - 1], t.keys[i - 1], t.values[i - 1])
                  ELSE M[i - 1]
  BY <1>1, MovedIs
<1>. HIDE DEF M
<1>5. 0 \in S
  <2>1. /\ Probed(M[0]) /\ M[0].capacity = c /\ M[0].len = 0 /\ M[0].tombstones = 0
        /\ Used(M[0]) = {}
    BY <1>2, <1>4, FreshTable
  <2>2. Moves(t, M[0], 0, c)
    BY <1>1, <2>1 DEF Moves
  <2>. QED
    BY <1>1, <2>2
<1>6. ASSUME NEW i \in Nat, i < t.capacity, i \in S PROVE i + 1 \in S
  <2>1. i \in Slots(t) /\ i + 1 \in 1 .. t.capacity /\ (i + 1) - 1 = i /\ t.capacity < c
    BY <1>1, <1>2, <1>6
  <2>2. M[i + 1] = IF t.occ[i] = "occupied" THEN InsertRaw(M[i], t.keys[i], t.values[i])
                   ELSE M[i]
    <3>. DEFINE j == i + 1
    <3>1. j \in 1 .. t.capacity /\ j - 1 = i
      BY <2>1
    <3>. HIDE DEF j
    <3>2. M[j] = IF t.occ[i] = "occupied" THEN InsertRaw(M[i], t.keys[i], t.values[i])
                 ELSE M[i]
      BY <1>4, <3>1
    <3>. QED
      BY <3>2 DEF j
  <2>3. Moves(t, M[i], i, c)
    BY <1>6
  <2>4. Moves(t, M[i + 1], i + 1, c)
    <3>. HIDE DEF S
    <3>. QED
      BY <1>1, <1>2, <2>1, <2>2, <2>3, MovesOn
  <2>. QED
    BY <2>1, <2>4
<1>7. Moves(t, M[t.capacity], t.capacity, c)
  <2>. HIDE DEF S
  <2>1. \A i \in 0 .. t.capacity : i \in S
    BY <1>1, <1>5, <1>6, UpTo
  <2>2. t.capacity \in S
    BY <1>1, <2>1
  <2>. QED
    BY <2>2 DEF S
<1>. DEFINE m == M[t.capacity]
<1>. HIDE DEF m
<1>8. /\ Probed(m) /\ m.capacity = c /\ m.len <= t.capacity /\ m.tombstones = 0
      /\ m.len \in Nat
      /\ \A h \in Used(t) : h < t.capacity =>
           \E g \in Used(m) : m.keys[g] = t.keys[h] /\ m.values[g] = t.values[h]
      /\ \A g \in Used(m) : \E h \in Used(t) :
           h < t.capacity /\ m.keys[g] = t.keys[h] /\ m.values[g] = t.values[h]
  BY <1>7 DEF Moves, Probed, Shaped, m
<1>9. Roomy(m)
  BY <1>1, <1>2, <1>8 DEF Roomy
<1>10. Content(m) = Content(t)
  <2>. DEFINE w == Content(t)
              D == {t.keys[h] : h \in Used(t)}
  <2>1. w = [x \in D |-> w[x]] /\ \A h \in Used(t) : w[t.keys[h]] = t.values[h]
    BY <1>1, ContentAt
  <2>2. D = {m.keys[g] : g \in Used(m)}
    BY <1>1, <1>8
  <2>. HIDE DEF w, D
  <2>3. w = [x \in DOMAIN w |-> w[x]] /\ DOMAIN w = {m.keys[g] : g \in Used(m)}
    BY <2>1, <2>2
  <2>4. \A g \in Used(m) : w[m.keys[g]] = m.values[g]
    BY <1>8, <2>1
  <2>5. Content(m) = w
    BY <1>8, <2>3, <2>4, ContentIs DEF Probed
  <2>. QED
    BY <2>5 DEF w
<1>. QED
  BY <1>3, <1>9, <1>10 DEF m

(* An insertion finds room.                                                 *)
LEMMA RoomSafe ==
  ASSUME Sized, NEW t, Table(t)
  PROVE  Roomy(Room(t)) /\ Content(Room(t)) = Content(t)
<1>1. CASE Full(t)
  <2>1. Room(t) = Grown(t)
    BY <1>1 DEF Room
  <2>. QED
    BY <2>1, GrownSafe
<1>2. CASE ~Full(t)
  <2>1. Room(t) = t
    BY <1>2 DEF Room
  <2>2. Roomy(t)
    BY <1>2 DEF Full, Roomy, Table, Spare, Probed, Shaped
  <2>. QED
    BY <2>1, <2>2
<1>. QED
  BY <1>1, <1>2

(* len is the number of keys.                                               *)
LEMMA LenCounts ==
  ASSUME NEW t, Table(t)
  PROVE  t.len = Cardinality(DOMAIN Content(t))
<1>. DEFINE U == Used(t)
            D == {t.keys[i] : i \in U}
            f == [i \in U |-> t.keys[i]]
<1>1. f \in Bijection(U, D)
  BY DEF Table, Probed, Once, Bijection, Injection, Surjection, IsInjective
<1>2. ExistsBijection(U, D)
  <2>. HIDE DEF f, U, D
  <2>. QED
    BY <1>1 DEF ExistsBijection
<1>3. IsFiniteSet(U)
  <2>1. 0 \in Int /\ t.capacity - 1 \in Int
    BY DEF Table, Probed, Shaped
  <2>2. IsFiniteSet(Slots(t))
    BY <2>1, FS_Interval DEF Slots
  <2>3. U \in SUBSET Slots(t)
    BY DEF Used, Filled, Slots
  <2>. QED
    BY <2>2, <2>3, FS_Subset
<1>4. t.len = Cardinality(U) /\ DOMAIN Content(t) = D
  BY ContentAt DEF Table, Probed, Counted
<1>. HIDE DEF U, D
<1>5. Cardinality(D) = Cardinality(U)
  BY <1>2, <1>3, FS_Bijection
<1>. QED
  BY <1>4, <1>5

-----------------------------------------------------------------------------
(* A new table is an empty map.                                             *)
LEMMA TableInit ==
  ASSUME Sized, Init
  PROVE  Table(table) /\ Map!Init
<1>1. /\ Probed(Fresh(0)) /\ Fresh(0).capacity = 0
      /\ Content(Fresh(0)) = [k \in {} |-> None]
  BY FreshTable
<1>. QED
  BY <1>1 DEF Init, Map!Init, Table, Spare

(* Every call does to the content what it does to a map, and answers alike. *)
LEMMA AddStep ==
  ASSUME Sized, Table(table), NEW k \in Keys, Add(k)
  PROVE  Table(table') /\ Map!Add(k)
<1>. DEFINE t == Room(table)
<1>1. Roomy(t) /\ Table(t) /\ Content(t) = Content(table)
  BY RoomSafe, RoomyTable
<1>2. Member(t, k) <=> k \in DOMAIN Content(table)
  BY <1>1, Answers
<1>3. table' = IF Member(t, k) THEN t ELSE Placed(t, k, TRUE)
  BY DEF Add
<1>4. Map!Returns("add", k, ~Map!Has(k))
  <2>1. out' = [op |-> "add", key |-> k, result |-> ~Member(t, k)]
    BY DEF Add, Returns
  <2>2. (~Member(t, k)) = ~Map!Has(k)
    BY <1>2 DEF Map!Has
  <2>. HIDE DEF t
  <2>3. out' = [op |-> "add", key |-> k, result |-> ~Map!Has(k)]
    BY ONLY <2>1, <2>2
  <2>4. out'.op = "add" /\ out'.key = k
    BY <2>1
  <2>. QED
    BY <2>3, <2>4 DEF Map!Returns
<1>5. Table(table') /\ Content(table') = IF Map!Has(k) THEN Content(table)
                                         ELSE Map!With(Content(table), k, TRUE)
  <2>1. TRUE \in Values
    BY DEF Sized, Add
  <2>. HIDE DEF t
  <2>2. CASE Member(t, k)
    BY <1>1, <1>2, <1>3, <2>2 DEF Map!Has
  <2>3. CASE ~Member(t, k)
    <3>1. table' = Placed(t, k, TRUE)
      BY <1>3, <2>3
    <3>2. Table(Placed(t, k, TRUE)) /\ Content(Placed(t, k, TRUE)) = Map!With(Content(t), k, TRUE)
      BY <1>1, <2>1, <2>3, PlacedSafe
    <3>3. ~Map!Has(k)
      BY <1>2, <2>3 DEF Map!Has
    <3>. QED
      BY <1>1, <3>1, <3>2, <3>3
  <2>. QED
    BY <2>2, <2>3
<1>. QED
  BY <1>4, <1>5 DEF Map!Add

LEMMA PutStep ==
  ASSUME Sized, Table(table), NEW k \in Keys, NEW v \in Values, Put(k, v)
  PROVE  Table(table') /\ Map!Put(k, v)
<1>. DEFINE t == Room(table)
<1>1. Roomy(t) /\ Table(t) /\ Content(t) = Content(table)
  BY RoomSafe, RoomyTable
<1>2. Get(t, k) = Map!Lookup(k)
  BY <1>1, Answers DEF Map!Lookup, Map!Has
<1>3. /\ table' = IF Member(t, k) THEN [t EXCEPT !.values[Walk(t, k)] = v]
                  ELSE Placed(t, k, v)
      /\ out' = [op |-> "put", key |-> k, result |-> Get(t, k)]
  BY DEF Put, Returns
<1>. HIDE DEF t
<1>4. Map!Returns("put", k, Map!Lookup(k))
  BY <1>2, <1>3 DEF Map!Returns
<1>5. Table(table') /\ Content(table') = Map!With(Content(table), k, v)
  <2>1. CASE Member(t, k)
    <3>1. table' = [t EXCEPT !.values[Walk(t, k)] = v]
      BY <1>3, <2>1
    <3>. QED
      BY <1>1, <2>1, <3>1, Overwritten
  <2>2. CASE ~Member(t, k)
    <3>1. table' = Placed(t, k, v)
      BY <1>3, <2>2
    <3>2. Table(Placed(t, k, v)) /\ Content(Placed(t, k, v)) = Map!With(Content(t), k, v)
      BY <1>1, <2>2, PlacedSafe
    <3>. QED
      BY <1>1, <3>1, <3>2
  <2>. QED
    BY <2>1, <2>2
<1>. QED
  BY <1>4, <1>5 DEF Map!Put

LEMMA DiscardStep ==
  ASSUME Sized, Table(table), NEW k \in Keys, Discard(k)
  PROVE  Table(table') /\ Map!Discard(k)
<1>1. table' = Removed(table, k) /\ out' = [op |-> "discard", key |-> k, result |-> Member(table, k)]
  BY DEF Discard, Returns
<1>2. Table(Removed(table, k)) /\ Content(Removed(table, k)) = Map!Without(Content(table), k)
  BY RemovedSafe
<1>3. Member(table, k) = Map!Has(k)
  <2>1. Member(table, k) <=> Map!Has(k)
    BY Answers DEF Map!Has
  <2>. QED
    BY <2>1 DEF Member, Map!Has
<1>4. Map!Returns("discard", k, Map!Has(k))
  <2>1. out' = [op |-> "discard", key |-> k, result |-> Map!Has(k)]
    BY ONLY <1>1, <1>3
  <2>2. out'.op = "discard" /\ out'.key = k
    BY <1>1
  <2>. QED
    BY <2>1, <2>2 DEF Map!Returns
<1>5. Table(table') /\ Content(table') = Map!Without(Content(table), k)
  BY <1>1, <1>2
<1>. QED
  BY <1>4, <1>5 DEF Map!Discard

LEMMA TakeStep ==
  ASSUME Sized, Table(table), NEW k \in Keys, Take(k)
  PROVE  Table(table') /\ Map!Take(k)
<1>1. table' = Removed(table, k) /\ out' = [op |-> "take", key |-> k, result |-> Get(table, k)]
  BY DEF Take, Returns
<1>2. Table(Removed(table, k)) /\ Content(Removed(table, k)) = Map!Without(Content(table), k)
  BY RemovedSafe
<1>3. Get(table, k) = Map!Lookup(k)
  BY Answers DEF Map!Lookup, Map!Has
<1>4. Map!Returns("take", k, Map!Lookup(k))
  BY <1>1, <1>3 DEF Map!Returns
<1>5. Table(table') /\ Content(table') = Map!Without(Content(table), k)
  BY <1>1, <1>2
<1>. QED
  BY <1>4, <1>5 DEF Map!Take

LEMMA ClearStep ==
  ASSUME Sized, Table(table), Clear
  PROVE  Table(table') /\ Map!Clear
<1>1. table' = Fresh(0) /\ out' = [op |-> "clear", key |-> None, result |-> table.len]
  BY DEF Clear, Returns
<1>2. /\ Probed(Fresh(0)) /\ Fresh(0).capacity = 0
      /\ Content(Fresh(0)) = [k \in {} |-> None]
  BY FreshTable
<1>3. table.len = Cardinality(DOMAIN Content(table))
  BY LenCounts
<1>4. Map!Returns("clear", None, Map!Cardinality(DOMAIN Content(table)))
  <2>1. \A S : Map!Cardinality(S) = Cardinality(S)
    BY DEF Map!Cardinality, Cardinality
  <2>. QED
    BY <1>1, <1>3, <2>1 DEF Map!Returns
<1>5. Table(table') /\ Content(table') = [k \in {} |-> None]
  BY <1>1, <1>2 DEF Table, Spare
<1>. QED
  BY <1>4, <1>5 DEF Map!Clear

LEMMA Calls ==
  ASSUME Sized, Table(table), Next
  PROVE  Table(table') /\ Map!Next
<1>1. ASSUME NEW k \in Keys, Add(k) PROVE Table(table') /\ Map!Next
  BY <1>1, AddStep DEF Map!Next
<1>2. ASSUME NEW k \in Keys, Discard(k) PROVE Table(table') /\ Map!Next
  BY <1>2, DiscardStep DEF Map!Next
<1>3. ASSUME NEW k \in Keys, Take(k) PROVE Table(table') /\ Map!Next
  BY <1>3, TakeStep DEF Map!Next
<1>4. ASSUME NEW k \in Keys, NEW v \in Values, Put(k, v) PROVE Table(table') /\ Map!Next
  BY <1>4, PutStep DEF Map!Next
<1>5. CASE Clear
  BY <1>5, ClearStep DEF Map!Next
<1>. QED
  BY <1>1, <1>2, <1>3, <1>4, <1>5 DEF Next

(* What the invariant says of walks and lookups.                            *)
LEMMA TableLooks ==
  ASSUME Sized, Table(table)
  PROVE  TypeOK /\ WalksEnd /\ LookupsAgree
<1>1. TypeOK
  BY DEF Table, Probed, Shaped, Counted, TypeOK, Slots, Used, Dead
<1>2. WalksEnd
  BY WalkFinds DEF WalksEnd
<1>3. LookupsAgree
  <2>1. ASSUME NEW k \in Keys PROVE Member(table, k) = (k \in DOMAIN Content(table))
    <3>1. Member(table, k) <=> k \in DOMAIN Content(table)
      BY Answers
    <3>. QED
      BY <3>1 DEF Member
  <2>2. ASSUME NEW k \in Keys
        PROVE  Get(table, k) = IF k \in DOMAIN Content(table) THEN Content(table)[k] ELSE None
    BY Answers
  <2>. QED
    BY ONLY <2>1, <2>2 DEF LookupsAgree
<1>. QED
  BY <1>1, <1>2, <1>3

-----------------------------------------------------------------------------
(* Whatever calls a program makes of a hash table, of any capacity and with *)
(* any hash: its counters are right, a probe never runs around the table    *)
(* for ever, and lookups find every entry, past tombstones and around the   *)
(* end (backend_c.rs, hash set and hash map insert, remove, get, __grow).   *)
THEOREM TableSafe == ASSUME Sized PROVE Spec => [](TypeOK /\ WalksEnd /\ LookupsAgree)
<1>1. Init => Table(table)
  BY TableInit
<1>2. Table(table) /\ [Next]_<<table, out>> => Table(table)'
  <2>. SUFFICES ASSUME Table(table), [Next]_<<table, out>> PROVE Table(table')
    OBVIOUS
  <2>1. CASE Next
    BY <2>1, Calls
  <2>2. CASE UNCHANGED <<table, out>>
    BY <2>2
  <2>. QED
    BY <2>1, <2>2
<1>3. Table(table) => TypeOK /\ WalksEnd /\ LookupsAgree
  BY TableLooks
<1>. QED
  BY <1>1, <1>2, <1>3, PTL DEF Spec

(* A hash table is a finite map: every call changes what it holds, and      *)
(* answers, as the same call of a map does, whether it reuses a tombstone,  *)
(* grows the table or overwrites a value.                                   *)
THEOREM TableImplementsMap == ASSUME Sized PROVE Spec => Map!Spec
<1>1. Init => Table(table) /\ Map!Init
  BY TableInit
<1>2. Table(table) /\ [Next]_<<table, out>>
        => Table(table)' /\ [Map!Next]_<<Content(table), out>>
  <2>. SUFFICES ASSUME Table(table), [Next]_<<table, out>>
                PROVE  Table(table') /\ [Map!Next]_<<Content(table), out>>
    OBVIOUS
  <2>1. CASE Next
    BY <2>1, Calls
  <2>2. CASE UNCHANGED <<table, out>>
    <3>1. Content(table)' = Content(table)
      BY <2>2 DEF Content, Filled
    <3>. QED
      BY <2>2, <3>1
  <2>. QED
    BY <2>1, <2>2
<1>. QED
  BY <1>1, <1>2, PTL DEF Spec, Map!Spec
=============================================================================
