----------------------------- MODULE Containers -----------------------------
(***************************************************************************)
(* The container runtimes side by side: to those of Tables come the sorted *)
(* arrays, the trees, the trie, the heap, the graph, the Bloom filter and  *)
(* the vectors.  Of kind "number" is a plain i64 given to the number calls.*)
(***************************************************************************)
EXTENDS Tables

CONSTANTS
    TreeKeys,          \* keys of the AVL tree
    Words, Letters,    \* of the trie
    GraphSizes, GraphEdges, Heuristics, \* arguments of the graph calls
    Shapes, Step, Word, \* of the Bloom filter, whose first hash is Hash
    GraphBounds,       \* largest number of edges, first node number past the stored ones
    ArenaSizes,        \* first capacity of a tree, path length, largest skip list
    MaxLen,            \* largest heap
    SlotReuse,         \* follow the tree past the reuse of a slot in use
    VecNames, VecTypes, \* vectors of elements that own memory
    MaxCells,          \* largest number of elements alive at once
    Ints, IntArguments, \* vectors of integers, what their calls are given
    SortCutoff,        \* pieces below it are sorted by insertion
    NumberArguments,   \* what the number calls are given
    Allowed            \* what vectors and numbers may be that the code does not handle

BS == INSTANCE SortedTable WITH arrays <- st, IsMap <- FALSE
BM == INSTANCE SortedTable WITH arrays <- st, IsMap <- TRUE
TR == INSTANCE AvlTree WITH tree <- st, Keys <- TreeKeys,
        FirstCapacity <- ArenaSizes[1],
        PathLength <- ArenaSizes[2]
SL == INSTANCE SkipList WITH list <- st, MaxLevel <- 8, MaxNodes <- ArenaSizes[3]
PT == INSTANCE Trie WITH trie <- st
BH == INSTANCE BinaryHeap WITH heap <- st
BL == INSTANCE BloomFilter WITH filter <- st, MaxCount <- MaxLen
GR == INSTANCE Graph WITH graph <- st, Sizes <- GraphSizes, Edges <- GraphEdges,
        MaxEdges <- GraphBounds[1], IndexHalf <- GraphBounds[2]
VC == INSTANCE OwnedVec WITH mem <- st, ElementTypes <- VecTypes, MaxLen <- 3
IV == INSTANCE IntVec WITH vec <- st, Others <- IntArguments.others,
        Predicates <- IntArguments.predicates, Mappers <- IntArguments.mappers,
        Comparators <- IntArguments.comparators, AllOnes <- 3, Cutoff <- SortCutoff
IM == INSTANCE IntMath WITH num <- st, Bits <- 8, MaxFactorial <- 5, MaxFibonacci <- 11,
        Arguments <- NumberArguments

Init ==
    /\ kind \in Kinds
    /\ CASE kind \in TableKinds -> NewTable
         [] kind = "btreeset" -> BS!Init [] kind = "btreemap" -> BM!Init
         [] kind = "bst" -> TR!Init [] kind = "skiplist" -> SL!Init
         [] kind = "trie" -> PT!Init [] kind = "heap" -> BH!Init
         [] kind = "graph" -> GR!Init [] kind = "bloom" -> BL!Init
         [] kind = "vec" -> VC!Init [] kind = "intvec" -> IV!Init
         [] kind = "number" -> IM!Init

Next ==
    /\ UNCHANGED kind
    /\ \/ TableCall
       \/ kind = "btreeset" /\ BS!Next
       \/ kind = "btreemap" /\ BM!Next
       \/ kind = "bst" /\ TR!Next
       \/ kind = "skiplist" /\ SL!Next
       \/ kind = "trie" /\ PT!Next
       \/ kind = "heap" /\ BH!Next
       \/ kind = "graph" /\ GR!Next
       \/ kind = "bloom" /\ BL!Next
       \/ kind = "vec" /\ VC!Next
       \/ kind = "intvec" /\ IV!Next
       \/ kind = "number" /\ IM!Next

Spec == Init /\ [][Next]_vars

-----------------------------------------------------------------------------
TypeOK ==
    /\ kind \in Kinds
    /\ CASE kind \in TableKinds -> TablesTyped
         [] kind = "btreeset" -> BS!TypeOK [] kind = "btreemap" -> BM!TypeOK
         [] kind = "bst" -> TR!TypeOK [] kind = "skiplist" -> SL!TypeOK
         [] kind = "trie" -> PT!TypeOK [] kind = "heap" -> BH!TypeOK
         [] kind = "graph" -> GR!TypeOK [] kind = "bloom" -> BL!TypeOK
         [] kind = "vec" -> VC!TypeOK [] kind = "intvec" -> IV!TypeOK
         [] kind = "number" -> IM!TypeOK

\* The query calls (contains, get, range, min, max, peek, starts_with, the
\* graph algorithms on tables built earlier or now, the sorts, searches and
\* passes over a Vec<i64>) answer what the contents say, in every state a
\* sequence of calls can reach; the number calls answer what the integers say
\* wherever the answer fits the word.
LookupsAgree ==
    CASE kind = "btreeset" -> BS!LookupsAgree [] kind = "btreemap" -> BM!LookupsAgree
      [] kind = "bst" -> TR!LookupsAgree [] kind = "skiplist" -> SL!LookupsAgree
      [] kind = "trie" -> PT!LookupsAgree [] kind = "heap" -> BH!LookupsAgree
      [] kind = "graph" -> GR!LookupsAgree
      [] kind = "bloom" -> BL!LookupsAgree [] kind = "intvec" -> IV!LookupsAgree
      [] kind = "number" -> IM!LookupsAgree
      [] OTHER -> TRUE

\* Every element of a vector that owns memory has one owner, whatever calls
\* move, replace, copy and drop it: it is freed once, and nothing leaks
\* (backend_c.rs, c_element_drop_old, c_element_deep_clone and their callers).
OneOwner == kind = "vec" => VC!OneOwner

\* Every node of a trie's arena is on the tree or on the free list, never on
\* both (backend_c.rs, trie new_node and delete).  No search path reaches the
\* end of the 64-entry path arrays of the AVL tree, since insertions and
\* removals leave it balanced (__rebalance).
ArenasKept ==
    /\ kind = "trie" => PT!ArenaSplit
    /\ kind = "bst" => TR!Balanced

-----------------------------------------------------------------------------
IntKeyed == {"btreeset", "btreemap", "bst", "skiplist"}

Map == INSTANCE AbstractMap WITH
    Keys <- Keys \cup TreeKeys,
    map <- CASE kind \in {"btreeset", "btreemap"} -> BS!Content(st)
             [] kind = "bst" -> TR!Content(st)
             [] kind = "skiplist" -> SL!Content(st)
             [] OTHER -> NoEntries,
    out <- IF kind \in IntKeyed THEN out ELSE Unused

WordMap == INSTANCE AbstractMap WITH
    Keys <- Words,
    map <- IF kind = "trie" THEN PT!Content(st) ELSE NoEntries,
    out <- IF kind = "trie" THEN out ELSE Unused

Bag == INSTANCE AbstractQueue WITH
    items <- IF kind = "heap" THEN BH!Content(st) ELSE <<>>,
    out <- IF kind = "heap" THEN out ELSE UnusedQueue

\* Every call of a sorted table, a tree, a skip list or a trie changes what it
\* holds, and answers, as the same call of a finite map does, and every call of
\* a heap does what it does to a sorted bag.
TreesImplemented ==
    /\ Map!Spec /\ WordMap!Spec
    /\ Bag!Init /\ [][kind = "heap" => Bag!Heap]_vars
=============================================================================
