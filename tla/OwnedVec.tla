------------------------------ MODULE OwnedVec ------------------------------
(***************************************************************************)
(* Vec<T> for elements that own heap memory: which calls free an element,  *)
(* duplicate it, or hand it over.  The helpers are emitted once for every  *)
(* element type; what they free and duplicate is decided by walking the    *)
(* type, and the two backends walk differently.                            *)
(***************************************************************************)
EXTENDS Integers, Sequences, SequencesExt, FiniteSets

CONSTANTS
    None,
    VecNames,
    ElementTypes,  \* a type is the path to the memory it owns, <<>> for a Copy type
    MaxLen,        \* bound
    MaxCells,      \* bound
    Allowed        \* the combinations of this run the code does not handle

VARIABLES mem, out

Hazards == {"clear leaks", "shallow clone", "enum field", "set past end"}

\* The part of a type below its structs.
Inside(t) ==
    LET structs == {i \in DOMAIN t : \A j \in 1 .. i : t[j] = "struct"}
    IN  SubSeq(t, Cardinality(structs) + 1, Len(t))

\* c_element_drop_old and its LLVM twin: an enum is freed as an element, not
\* as a field of a struct.
Drops(t) == Inside(t) \in {<<"str">>, <<"vec">>} \/ t \in {<<"enum", "str">>, <<"enum", "vec">>}

\* What clear frees.
Clears(b, t) == IF b = "c" THEN Drops(t) ELSE t \in {<<"str">>, <<"vec">>}

\* What clone and clone_at duplicate; the rest they copy with its pointer.
\* Faulty: a struct is copied as it is.
DuplicatesFlat(b, t) == t \in {<<"str">>, <<"vec">>, <<"enum", "str">>}
Duplicates(b, t) ==
    IF b = "c" THEN Inside(t) \in {<<"str">>, <<"vec">>, <<"enum", "str">>}
               ELSE t \in {<<"str">>, <<"vec">>, <<"enum", "str">>, <<"struct", "str">>}

-----------------------------------------------------------------------------
\* `slots` are those in use.  `live` holds the allocated cells and `wrong` that
\* one was freed twice.  `held` is an element moved out into a binding.
Unborn == [slots |-> <<>>, capacity |-> 0]
Init ==
    /\ \E b \in {"c", "llvm"}, t \in ElementTypes :
          mem = [backend |-> b, type |-> t, vecs |-> [n \in VecNames |-> Unborn],
                 held |-> <<>>, live |-> {}, wrong |-> FALSE]
    /\ out = [op |-> "new", arg |-> None, result |-> None]

Slots(n) == mem.vecs[n].slots
Size(n) == Len(Slots(n))
Alive(n) == mem.vecs[n].capacity # 0

\* An element is the cell it owns, or None.
Owned(s) == SelectSeq(s, LAMBDA e : e # None)
Freed(m, s) ==
    [m EXCEPT !.live = @ \ ToSet(s),
              !.wrong = @ \/ ~IsInjective(s) \/ ~(ToSet(s) \subseteq m.live)]
Dropping(m, s) == IF Drops(m.type) THEN Freed(m, Owned(s)) ELSE m
Owning(m, s) == [m EXCEPT !.live = @ \cup ToSet(Owned(s))]

\* Free cells, to be given out in this order; one may have been in use before.
Available == SetToSortSeq((1 .. MaxCells) \ mem.live, <)
\* A new element; an enum may be of a variant without payload.
Fresh ==
    (IF mem.type = <<>> \/ "enum" \in ToSet(mem.type) THEN {None} ELSE {}) \cup
    (IF mem.type = <<>> \/ Available = <<>> THEN {} ELSE {Available[1]})
\* An argument passed by value: a new element, or the one that is held.
Arguments == [e : Fresh, held : {mem.held}] \cup
             (IF mem.held = <<>> THEN {} ELSE {[e |-> mem.held[1], held |-> <<>>]})
Passing(a) == [Owning(mem, <<a.e>>) EXCEPT !.held = a.held]

\* vec and clone allocate at least one slot; a full buffer is doubled.
Made(s) == [slots |-> s, capacity |-> IF s = <<>> THEN 1 ELSE Len(s)]
Roomy(v) ==
    IF Len(v.slots) < v.capacity THEN v.capacity ELSE IF v.capacity = 0 THEN 1 ELSE 2 * v.capacity

-----------------------------------------------------------------------------
New(n, s) ==
    /\ ~Alive(n)
    /\ mem' = [Owning(mem, s) EXCEPT !.vecs[n] = Made(s)]

Insert(n, i, a) ==
    /\ Alive(n) /\ i <= Size(n) /\ Size(n) < MaxLen
    /\ mem' = [Passing(a) EXCEPT !.vecs[n] = [slots |-> InsertAt(Slots(n), i + 1, a.e),
                                              capacity |-> Roomy(mem.vecs[n])]]
\* Both forms, push(xs, v) and push(mut ref xs, v).
Push(n, a) == Insert(n, Size(n), a)

\* The last element takes the place of the removed one.  An index out of bounds
\* aborts the program, here and in insert, as pop does of an empty vector.
SwapRemove(n, i) ==
    /\ Alive(n) /\ i \in 0 .. Size(n) - 1 /\ mem.held = <<>>
    /\ mem' = [mem EXCEPT !.held = <<Slots(n)[i + 1]>>,
                          !.vecs[n].slots = Front(ReplaceAt(@, i + 1, Last(@)))]
Pop(n) == SwapRemove(n, Size(n) - 1)

\* The old element is freed first.  LLVM emits no check of the index: in the
\* spare slots it frees and loses what happens to be there.
Set(n, i, a) ==
    /\ Alive(n)
    /\ IF i < Size(n)
       THEN mem' = [Dropping(Passing(a), <<Slots(n)[i + 1]>>) EXCEPT !.vecs[n].slots[i + 1] = a.e]
       ELSE /\ "set past end" \in Allowed /\ mem.backend = "llvm" /\ i < mem.vecs[n].capacity
            /\ mem' = [Passing(a) EXCEPT !.wrong = @ \/ Drops(mem.type)]

Clear(n) ==
    /\ Alive(n)
    /\ "clear leaks" \in Allowed \/ mem.backend = "c" \/ mem.type \in {<<>>, <<"str">>, <<"vec">>}
    /\ mem' = [(IF Clears(mem.backend, mem.type) THEN Freed(mem, Owned(Slots(n))) ELSE mem)
                  EXCEPT !.vecs[n].slots = <<>>]

Copies(s) ==
    [i \in DOMAIN s |->
        IF s[i] = None \/ ~Duplicates(mem.backend, mem.type) THEN s[i]
        ELSE Available[Len(Owned(SubSeq(s, 1, i)))]]
Clonable(s) ==
    /\ Len(Owned(s)) <= Len(Available)
    /\ "shallow clone" \in Allowed \/
           /\ mem.type # <<"enum", "vec">>
           /\ mem.backend = "llvm" => mem.type \notin {<<"struct", "vec">>, <<"struct", "struct", "str">>}

\* let n = clone(of);
Clone(n, of) ==
    /\ Alive(of) /\ ~Alive(n) /\ Clonable(Slots(of))
    /\ mem' = [Owning(mem, Copies(Slots(of))) EXCEPT !.vecs[n] = Made(Copies(Slots(of)))]
\* let held = clone_at(n, i);
CloneAt(n, i) ==
    /\ Alive(n) /\ i < Size(n) /\ mem.held = <<>>
    /\ LET slot == <<Slots(n)[i + 1]>>
       IN  /\ Clonable(slot)
           /\ mem' = [Owning(mem, Copies(slot)) EXCEPT !.held = Copies(slot)]

\* The drops at the end of a scope, of a vector and of the held element.
Free(n) ==
    /\ Alive(n)
    /\ mem' = [Dropping(mem, Slots(n)) EXCEPT !.vecs[n] = Unborn]
DropHeld ==
    /\ mem.held # <<>>
    /\ mem' = [Dropping(mem, mem.held) EXCEPT !.held = <<>>]

Next ==
    /\ UNCHANGED out
    /\ "enum field" \in Allowed \/ mem.type # <<"struct", "enum", "str">>
    /\ \/ \E n \in VecNames :
             \/ Pop(n) \/ Clear(n) \/ Free(n)
             \/ \E s \in {<<>>} \cup {<<e>> : e \in Fresh} : New(n, s)
             \/ \E of \in VecNames : Clone(n, of)
             \/ \E a \in Arguments : Push(n, a)
             \/ \E i \in 0 .. MaxLen :
                   \/ SwapRemove(n, i) \/ CloneAt(n, i)
                   \/ \E a \in Arguments : Insert(n, i, a) \/ Set(n, i, a)
       \/ DropHeld

-----------------------------------------------------------------------------
TypeOK ==
    /\ mem.live \subseteq 1 .. MaxCells
    /\ \A n \in VecNames : Size(n) <= mem.vecs[n].capacity
    /\ Len(mem.held) <= 1
    /\ mem.type = <<>> => mem.live = {}

\* Every cell has one owner, a slot or the binding, and nothing that was freed
\* is owned: nothing is freed twice and nothing leaks.
OneOwner ==
    LET owners == Owned(FoldLeft(LAMBDA s, n : s \o Slots(n), mem.held, SetToSeq(VecNames)))
    IN  ~mem.wrong /\ IsInjective(owners) /\ ToSet(owners) = mem.live
=============================================================================
