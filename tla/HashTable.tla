----------------------------- MODULE HashTable -----------------------------
(***************************************************************************)
(* HashSet<i64> and HashMap<i64, i64>: open addressing with linear         *)
(* probing, a tombstone for every removed entry, and a table that doubles  *)
(* when entries and tombstones fill half of it.  One call is one step.     *)
(***************************************************************************)
EXTENDS Integers, FiniteSets

CONSTANTS Keys, Values, None,
    IsMap,        \* the map, or the set (whose values are all TRUE)
    Hash,         \* key -> its FNV hash
    FirstCapacity,\* 8 in the code
    MaxCapacity   \* bound

VARIABLES table, out

Tags == {"empty", "occupied", "tombstone"}

Fresh(capacity) ==
    [keys |-> [i \in 0 .. capacity - 1 |-> None],
     values |-> [i \in 0 .. capacity - 1 |-> None],
     occ |-> [i \in 0 .. capacity - 1 |-> "empty"],
     len |-> 0, capacity |-> capacity, tombstones |-> 0]

Init == table = Fresh(0) /\ out = [op |-> "new", key |-> None, result |-> None]

Returns(op, k, r) == out' = [op |-> op, key |-> k, result |-> r]

-----------------------------------------------------------------------------
\* The j-th slot of the probe sequence; the capacity is a power of two.
Probe(t, k, j) == (Hash[k] + j) % t.capacity
First(S) == CHOOSE j \in S : \A i \in S : j <= i
Holds(t, i, k) == t.occ[i] = "occupied" /\ t.keys[i] = k

\* Where a walk for k stops: at k, or at the first empty slot.
\* Faulty: a walk stops at tombstones too.
StopsAtTombstone(t, k) ==
    {j \in 0 .. t.capacity - 1 : t.occ[Probe(t, k, j)] # "occupied" \/ Holds(t, Probe(t, k, j), k)}
Stops(t, k) ==
    {j \in 0 .. t.capacity - 1 : t.occ[Probe(t, k, j)] = "empty" \/ Holds(t, Probe(t, k, j), k)}
Walk(t, k) == Probe(t, k, First(Stops(t, k)))
Tombs(t, k) ==
    {j \in 0 .. First(Stops(t, k)) : t.occ[Probe(t, k, j)] = "tombstone"}

Member(t, k) == t.capacity # 0 /\ Holds(t, Walk(t, k), k)
Get(t, k) == IF Member(t, k) THEN t.values[Walk(t, k)] ELSE None

Store(t, i, k, v) ==
    [t EXCEPT !.keys[i] = k, !.values[i] = v, !.occ[i] = "occupied", !.len = @ + 1]

\* __insert_into, __insert_raw: into a table without k.
InsertRaw(t, k, v) ==
    Store(t, Probe(t, k, First({j \in 0 .. t.capacity - 1 :
                                    t.occ[Probe(t, k, j)] # "occupied"})), k, v)

\* __grow: a table of twice the size, the occupied slots reinserted in order.
Moved(t, fresh) ==
    LET moved[i \in 0 .. t.capacity] ==
            IF i = 0 THEN fresh
            ELSE IF t.occ[i - 1] = "occupied"
                 THEN InsertRaw(moved[i - 1], t.keys[i - 1], t.values[i - 1])
                 ELSE moved[i - 1]
    IN  moved
Grown(t) ==
    Moved(t, Fresh(IF t.capacity = 0 THEN FirstCapacity ELSE 2 * t.capacity))[t.capacity]

\* Faulty: tombstones do not count towards the load.
FullByEntries(t) == t.capacity = 0 \/ t.len * 2 >= t.capacity
Full(t) == t.capacity = 0 \/ (t.len + t.tombstones) * 2 >= t.capacity
Room(t) == IF Full(t) THEN Grown(t) ELSE t

\* An absent key goes to the first tombstone of its walk, or where it ended.
\* Faulty: the count of tombstones is left alone.
PlacedKeepsCount(t, k, v) ==
    IF Tombs(t, k) # {} THEN Store(t, Probe(t, k, First(Tombs(t, k))), k, v)
                        ELSE Store(t, Walk(t, k), k, v)
Placed(t, k, v) ==
    IF Tombs(t, k) # {}
    THEN [Store(t, Probe(t, k, First(Tombs(t, k))), k, v) EXCEPT !.tombstones = @ - 1]
    ELSE Store(t, Walk(t, k), k, v)

WithinBound == ~Full(table) \/ 2 * table.capacity <= MaxCapacity

\* hashset insert: the table may grow even if k is there.
Add(k) ==
    /\ ~IsMap /\ WithinBound
    /\ LET t == Room(table)
       IN  /\ table' = IF Member(t, k) THEN t ELSE Placed(t, k, TRUE)
           /\ Returns("add", k, ~Member(t, k))

\* hashmap insert
Put(k, v) ==
    /\ IsMap /\ WithinBound
    /\ LET t == Room(table)
       IN  /\ table' = IF Member(t, k) THEN [t EXCEPT !.values[Walk(t, k)] = v]
                                         ELSE Placed(t, k, v)
           /\ Returns("put", k, Get(t, k))

Removed(t, k) ==
    IF Member(t, k)
    THEN [t EXCEPT !.occ[Walk(t, k)] = "tombstone", !.len = @ - 1, !.tombstones = @ + 1]
    ELSE t

Discard(k) ==
    /\ ~IsMap
    /\ table' = Removed(table, k)
    /\ Returns("discard", k, Member(table, k))

Take(k) ==
    /\ IsMap
    /\ table' = Removed(table, k)
    /\ Returns("take", k, Get(table, k))

\* clear frees the arrays; the next insert allocates again.
Clear ==
    /\ table' = Fresh(0)
    /\ Returns("clear", None, table.len)

Next ==
    \/ \E k \in Keys : Add(k) \/ Discard(k) \/ Take(k)
    \/ \E k \in Keys, v \in Values : Put(k, v)
    \/ Clear

Spec == Init /\ [][Next]_<<table, out>>

-----------------------------------------------------------------------------
Filled(t, tag) == {i \in 0 .. t.capacity - 1 : t.occ[i] = tag}

\* The map the table stands for.
Content(t) ==
    [k \in {t.keys[i] : i \in Filled(t, "occupied")} |->
        t.values[CHOOSE i \in Filled(t, "occupied") : t.keys[i] = k]]

TypeOK ==
    /\ table.keys \in [0 .. table.capacity - 1 -> Keys \cup {None}]
    /\ table.values \in [0 .. table.capacity - 1 -> Values \cup {None}]
    /\ table.occ \in [0 .. table.capacity - 1 -> Tags]
    /\ table.len = Cardinality(Filled(table, "occupied"))
    /\ table.tombstones = Cardinality(Filled(table, "tombstone"))

\* Every walk ends: no loop of the code runs around a table without an empty slot.
WalksEnd == table.capacity # 0 => \A k \in Keys : Stops(table, k) # {}

\* A walk finds every entry, past tombstones and around the end of the table.
LookupsAgree ==
    \A k \in Keys :
        /\ Member(table, k) = (k \in DOMAIN Content(table))
        /\ Get(table, k) = IF k \in DOMAIN Content(table) THEN Content(table)[k] ELSE None
=============================================================================
