------------------------------- MODULE Tables -------------------------------
(***************************************************************************)
(* The containers that live in one array of slots or cells: the hash set   *)
(* and the hash map, the deque and the union-find.  `kind` is the          *)
(* container a program uses, `st` its memory, `out` the answer of the last *)
(* call.                                                                   *)
(***************************************************************************)
EXTENDS Integers, FiniteSets, Sequences

CONSTANTS
    Kinds,             \* the containers of the run
    Keys,              \* integers
    Values,            \* BOOLEAN, as a set maps its elements to TRUE
    Elements,          \* what the queues hold
    N,                 \* elements of the union-find
    Hash,              \* key -> hash
    TableCapacities,   \* first and largest capacity of a hash table
    RingCapacities,    \* first and largest capacity of a deque
    None

\* In the code a table has at first 8 slots and a deque 4.
ASSUME TablesAssumption ==
    /\ None \notin Values /\ None \notin Elements /\ TRUE \in Values
    /\ TableCapacities[1] \in Nat /\ 2 <= TableCapacities[1]
    /\ RingCapacities[1] \in Nat \ {0}
    /\ \A k \in Keys : Hash[k] \in Nat
    /\ N \in Nat \ {0}

VARIABLES kind, st, out
vars == <<kind, st, out>>

HS == INSTANCE HashTable WITH table <- st, IsMap <- FALSE,
        FirstCapacity <- TableCapacities[1], MaxCapacity <- TableCapacities[2]
HM == INSTANCE HashTable WITH table <- st, IsMap <- TRUE,
        FirstCapacity <- TableCapacities[1], MaxCapacity <- TableCapacities[2]
DQ == INSTANCE Deque WITH ring <- st,
        FirstCapacity <- RingCapacities[1], MaxCapacity <- RingCapacities[2]
UF == INSTANCE UnionFind WITH uf <- st

TableKinds == {"hashset", "hashmap", "deque", "unionfind"}

NewTable ==
    \/ kind = "hashset" /\ HS!Init
    \/ kind = "hashmap" /\ HM!Init
    \/ kind = "deque" /\ DQ!Init
    \/ kind = "unionfind" /\ UF!Init

TableCall ==
    \/ kind = "hashset" /\ HS!Next
    \/ kind = "hashmap" /\ HM!Next
    \/ kind = "deque" /\ DQ!Next
    \/ kind = "unionfind" /\ UF!Next

TableInit == kind \in Kinds /\ NewTable
TableNext == UNCHANGED kind /\ TableCall
TableSpec == TableInit /\ [][TableNext]_vars

-----------------------------------------------------------------------------
TablesTyped ==
    /\ kind = "hashset" => HS!TypeOK
    /\ kind = "hashmap" => HM!TypeOK
    /\ kind = "deque" => DQ!TypeOK
    /\ kind = "unionfind" => UF!TypeOK

\* Every walk ends, and where it should.  No probe of a hash table runs around
\* it for ever: an empty slot is left, however many tombstones there are
\* (backend_c.rs, __grow and its callers); it finds every entry, past tombstones
\* and around the end.  The peeks of a deque show its ends.  The links of a
\* union-find form trees whose ranks bound their height, so that find comes to a
\* root (union_find_find).
WalksEnd ==
    /\ kind = "hashset" => HS!WalksEnd /\ HS!LookupsAgree
    /\ kind = "hashmap" => HM!WalksEnd /\ HM!LookupsAgree
    /\ kind = "deque" => DQ!LookupsAgree
    /\ kind = "unionfind" => UF!Forest

\* A union-find call joins no other sets than those of its two arguments.
JoinsOnlyThese == [][kind = "unionfind" => UF!JoinsOnlyThese]_vars

-----------------------------------------------------------------------------
\* A container of another kind is an unused one.
Unused == [op |-> "new", key |-> None, result |-> None]
UnusedQueue == [op |-> "new", arg |-> None, result |-> None]
NoEntries == [k \in {} |-> None]

Entries == IF kind \in {"hashset", "hashmap"} THEN HS!Content(st) ELSE NoEntries
EntryAnswer == IF kind \in {"hashset", "hashmap"} THEN out ELSE Unused
Items == IF kind = "deque" THEN DQ!Content(st) ELSE <<>>
ItemAnswer == IF kind = "deque" THEN out ELSE UnusedQueue

TableMap == INSTANCE AbstractMap WITH map <- Entries, out <- EntryAnswer
Queue == INSTANCE AbstractQueue WITH items <- Items, out <- ItemAnswer

\* Every call of a hash set or hash map changes what it holds, and answers, as
\* the same call of a finite map does, and every call of a deque does what it
\* does to a sequence, whatever the table or the ring went through.
TablesImplemented ==
    /\ TableMap!Spec
    /\ Queue!Init /\ [][kind = "deque" => Queue!Deque]_vars
=============================================================================
