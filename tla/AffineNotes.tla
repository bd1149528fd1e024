---------------------------- MODULE AffineNotes ----------------------------
(***************************************************************************)
(* What the ownership checker knows at every instruction of the body it    *)
(* wrote.  A note is the Env the checker had there, one scope for each     *)
(* block the instruction stands in, and what waits besides: the value of a *)
(* return, the buffer of a consumed collection (Notes).  A cell is an      *)
(* instruction with the note before and the note after it.  CellOK says    *)
(* what the instruction does to the Env, PairOK and MergeOK how it fits    *)
(* the other instructions of its block, Stand that a note stands in the    *)
(* bodies it is in, at the head of a loop with the Env that the loop       *)
(* started from.                                                           *)
(*                                                                         *)
(* State is the invariant of the pass: the cells written so far fit, every *)
(* open statement is well walked, and the note where the pass is about to  *)
(* write stands.  Each operation of the checker keeps it.  Here are those  *)
(* that write where the body ends; the end of a conditional, which also    *)
(* writes into the middle, and the run of the body are in AffineProofs.    *)
(***************************************************************************)
EXTENDS AffineProgram, SequenceTheorems, FiniteSetTheorems, TLAPS

-----------------------------------------------------------------------------
(* Envs                                                                     *)
Kinds == {"vec", "pair", "nest"}

(* A struct alone loses its field; a view is never moved.                   *)
InfoOK(v) == /\ v.moved_field => v.ty = "pair"
             /\ v.no_drop => v.ty = "vec" /\ ~v.moved

Infos == {v \in VarInfo : InfoOK(v)}

Scope == UNION {[S -> Infos] : S \in SUBSET Names}

Distinct(E) == \A d, e \in DOMAIN E : \A n \in DOMAIN E[d] : n \in DOMAIN E[e] => d = e

EnvOK(E) == E \in Seq(Scope) /\ Len(E) > 0 /\ Distinct(E)

(* Nothing is left to drop; nothing was taken.                              *)
Gone(v) == v.moved \/ v.no_drop
Whole(v) == ~v.moved /\ ~v.no_drop /\ ~v.moved_field

Has(E, n) == \E d \in DOMAIN E : n \in DOMAIN E[d]

(* The bindings of S moved.                                                 *)
Moving(E, S) ==
  [d \in DOMAIN E |-> [n \in DOMAIN E[d] |->
     IF <<d, n>> \in S THEN [E[d][n] EXCEPT !.moved = TRUE] ELSE E[d][n]]]

(* The binding n of scope d replaced.                                       *)
Put(E, d, n, v) ==
  [b \in DOMAIN E |-> [m \in DOMAIN E[b] |-> IF b = d /\ m = n THEN v ELSE E[b][m]]]

(* What a use of the operands of e does to an Env.                          *)
Taken(E, e) ==
  [d \in DOMAIN E |-> [n \in DOMAIN E[d] |->
     IF n \in Operands(e)
       THEN IF e.k = "field" THEN [E[d][n] EXCEPT !.moved_field = TRUE]
                             ELSE [E[d][n] EXCEPT !.moved = TRUE]
       ELSE E[d][n]]]

CanTake(E, e) ==
  \A n \in Operands(e) : \E d \in DOMAIN E :
    /\ n \in DOMAIN E[d] /\ Whole(E[d][n]) /\ E[d][n].ty # "task"
    /\ e.k \in {"push", "cond"} => E[d][n].ty = "vec"
    /\ e.k = "field" => E[d][n].ty = "pair" /\ d = Len(E)

Expr == [k : {"new"}, ty : Kinds]
          \cup [k : {"var"}, n : Names]
          \cup [k : {"push"}, n : Names]
          \cup [k : {"field"}, n : Names]
          \cup [k : {"cond"}, n : Names, m : Names]
          \cup [k : {"mutex_lock"}, m : Mutexes]
          \cup {[k |-> "int"]}

(* What an expression names.                                                *)
LEMMA ExprCases ==
  ASSUME NEW e \in Expr
  PROVE  /\ e.k \in {"new", "var", "push", "field", "cond", "mutex_lock", "int"}
         /\ e.k \in {"new", "mutex_lock", "int"} => Operands(e) = {}
         /\ e.k \in {"var", "push", "field"} => Operands(e) = {e.n}
         /\ e.k = "cond" => Operands(e) = {e.n, e.m}
         /\ Operands(e) \subseteq Names
         /\ e.k = "new" => e.ty \in Kinds
         /\ e.k = "mutex_lock" => e.m \in Mutexes
BY DEF Expr, Operands

(* The expressions that the pass takes are those of the lemmas.             *)
LEMMA ExprsAre == Exprs \cup {[k |-> "int"]} \subseteq Expr
BY DEF Exprs, Expr, HeapTypes, Kinds

(* The fields of a binding, and what moving it changes.                     *)
LEMMA InfoIs ==
  ASSUME NEW v \in Infos
  PROVE  /\ v = [ty |-> v.ty, moved |-> v.moved, moved_field |-> v.moved_field,
                 no_drop |-> v.no_drop, guarded_mutex |-> v.guarded_mutex]
         /\ v.ty \in {"vec", "pair", "nest", "task", "guard"}
         /\ v.moved \in BOOLEAN /\ v.moved_field \in BOOLEAN /\ v.no_drop \in BOOLEAN
         /\ v.guarded_mutex \in Mutexes \cup {NoMutex}
         /\ InfoOK(v)
         /\ ~v.no_drop => [v EXCEPT !.moved = TRUE] \in Infos
         /\ [v EXCEPT !.moved = FALSE] \in Infos
         /\ v.ty = "pair" => [v EXCEPT !.moved_field = TRUE] \in Infos
BY DEF VarInfo, Infos, InfoOK

(* A scope binds names.                                                     *)
LEMMA ScopeIs ==
  ASSUME NEW s \in Scope
  PROVE  /\ DOMAIN s \subseteq Names
         /\ s = [n \in DOMAIN s |-> s[n]]
         /\ \A n \in DOMAIN s : s[n] \in Infos
BY DEF Scope

(* What binds names is a scope.                                             *)
LEMMA IsScope ==
  ASSUME NEW S \in SUBSET Names, NEW s, s = [n \in S |-> s[n]], \A n \in S : s[n] \in Infos
  PROVE  s \in Scope
<1>1. s \in [S -> Infos]
  OBVIOUS
<1>. QED
  BY <1>1 DEF Scope

(* The scopes of an Env, and where a name is bound: once.                   *)
LEMMA EnvIs ==
  ASSUME NEW E, EnvOK(E)
  PROVE  /\ Len(E) \in Nat \ {0} /\ DOMAIN E = 1 .. Len(E) /\ E = [d \in DOMAIN E |-> E[d]]
         /\ \A d \in DOMAIN E : E[d] \in Scope
         /\ \A d \in DOMAIN E : /\ DOMAIN E[d] \subseteq Names
                                /\ E[d] = [n \in DOMAIN E[d] |-> E[d][n]]
                                /\ \A n \in DOMAIN E[d] : E[d][n] \in Infos
         /\ \A d, e \in DOMAIN E : \A n \in DOMAIN E[d] : n \in DOMAIN E[e] => d = e
BY ScopeIs DEF EnvOK, Distinct

(* With every name bound once, the scope of a name is the one it is in.     *)
LEMMA HomeIs ==
  ASSUME NEW E, EnvOK(E), NEW d \in DOMAIN E, NEW n \in DOMAIN E[d]
  PROVE  /\ Home(E, n) = d /\ Lookup(E, n) = E[d][n] /\ Bound(E, n) /\ n \in Names
         /\ \A info : SetInfo(E, n, info) = [E EXCEPT ![d][n] = info]
<1>1. Len(E) \in Nat /\ DOMAIN E = 1 .. Len(E) /\ n \in Names
  BY EnvIs
<1>2. \A e \in DOMAIN E : n \in DOMAIN E[e] => e = d
  BY DEF EnvOK, Distinct
<1>3. \A e \in (d + 1) .. Len(E) : n \notin DOMAIN E[e]
  <2>1. \A e \in (d + 1) .. Len(E) : e \in DOMAIN E /\ e # d
    BY <1>1
  <2>. QED
    BY <1>2, <2>1
<1>4. Home(E, n) = d
  BY <1>2, <1>3 DEF Home
<1>. QED
  BY <1>1, <1>4 DEF Lookup, SetInfo, Bound

(* An Env changed scope by scope and name by name.                          *)
LEMMA EnvMapped ==
  ASSUME NEW E, EnvOK(E), NEW F,
         F = [d \in DOMAIN E |-> [n \in DOMAIN E[d] |-> F[d][n]]],
         \A d \in DOMAIN E : \A n \in DOMAIN E[d] : F[d][n] \in Infos
  PROVE  /\ EnvOK(F) /\ Len(F) = Len(E) /\ DOMAIN F = DOMAIN E
         /\ \A d \in DOMAIN E : DOMAIN F[d] = DOMAIN E[d]
<1>1. /\ Len(E) \in Nat /\ DOMAIN E = 1 .. Len(E) /\ Len(E) > 0
      /\ \A d \in DOMAIN E : DOMAIN E[d] \subseteq Names
  BY EnvIs
<1>2. \A d \in DOMAIN E : F[d] = [n \in DOMAIN E[d] |-> F[d][n]]
  OBVIOUS
<1>3. \A d \in DOMAIN E : F[d] \in Scope
  BY <1>1, <1>2, IsScope
<1>4. F = [d \in 1 .. Len(E) |-> F[d]]
  BY <1>1
<1>5. F \in Seq(Scope) /\ Len(F) = Len(E)
  BY <1>1, <1>3, <1>4
<1>6. Distinct(F)
  BY <1>1, <1>2 DEF EnvOK, Distinct
<1>. QED
  BY <1>1, <1>2, <1>5, <1>6 DEF EnvOK

(* Moving some bindings changes their moved flag and nothing else.          *)
LEMMA MovingOK ==
  ASSUME NEW E, EnvOK(E), NEW S,
         \A d \in DOMAIN E : \A n \in DOMAIN E[d] : <<d, n>> \in S => ~E[d][n].no_drop
  PROVE  LET F == Moving(E, S) IN
         /\ EnvOK(F) /\ Len(F) = Len(E) /\ DOMAIN F = DOMAIN E
         /\ \A d \in DOMAIN E : DOMAIN F[d] = DOMAIN E[d]
         /\ \A d \in DOMAIN E : \A n \in DOMAIN E[d] :
              F[d][n] = IF <<d, n>> \in S THEN [E[d][n] EXCEPT !.moved = TRUE] ELSE E[d][n]
<1>. DEFINE F == Moving(E, S)
<1>1. \A d \in DOMAIN E : \A n \in DOMAIN E[d] :
        F[d][n] = IF <<d, n>> \in S THEN [E[d][n] EXCEPT !.moved = TRUE] ELSE E[d][n]
  BY DEF Moving
<1>2. F = [d \in DOMAIN E |-> [n \in DOMAIN E[d] |-> F[d][n]]]
  BY DEF Moving
<1>3. \A d \in DOMAIN E : \A n \in DOMAIN E[d] : E[d][n] \in Infos
  BY EnvIs
<1>. HIDE DEF F
<1>4. \A d \in DOMAIN E : \A n \in DOMAIN E[d] : F[d][n] \in Infos
  BY <1>1, <1>3, InfoIs
<1>5. /\ EnvOK(F) /\ Len(F) = Len(E) /\ DOMAIN F = DOMAIN E
      /\ \A d \in DOMAIN E : DOMAIN F[d] = DOMAIN E[d]
  BY <1>2, <1>4, EnvMapped
<1>. QED
  BY <1>1, <1>5 DEF F

(* Replacing one binding changes that binding alone.                        *)
LEMMA PutOK ==
  ASSUME NEW E, EnvOK(E), NEW d \in DOMAIN E, NEW n \in DOMAIN E[d], NEW v \in Infos
  PROVE  LET F == Put(E, d, n, v) IN
         /\ EnvOK(F) /\ Len(F) = Len(E) /\ DOMAIN F = DOMAIN E
         /\ \A b \in DOMAIN E : DOMAIN F[b] = DOMAIN E[b]
         /\ \A b \in DOMAIN E : \A m \in DOMAIN E[b] :
              F[b][m] = IF b = d /\ m = n THEN v ELSE E[b][m]
         /\ F = [E EXCEPT ![d][n] = v]
         /\ d = Len(E) => F = InsertCurrent(E, n, v)
<1>. DEFINE F == Put(E, d, n, v)
<1>1. \A b \in DOMAIN E : \A m \in DOMAIN E[b] :
              F[b][m] = IF b = d /\ m = n THEN v ELSE E[b][m]
  BY DEF Put
<1>2. F = [b \in DOMAIN E |-> [m \in DOMAIN E[b] |-> F[b][m]]]
  BY DEF Put
<1>3. \A b \in DOMAIN E : \A m \in DOMAIN E[b] : E[b][m] \in Infos
  BY EnvIs
<1>0. /\ E = [b \in DOMAIN E |-> E[b]]
      /\ \A b \in DOMAIN E : E[b] = [m \in DOMAIN E[b] |-> E[b][m]]
  BY EnvIs
<1>4. \A b \in DOMAIN E : F[b] = IF b = d THEN [E[d] EXCEPT ![n] = v] ELSE E[b]
  BY <1>0 DEF Put
<1>5. F = [E EXCEPT ![d][n] = v]
  BY <1>0, <1>2, <1>4
<1>6. d = Len(E) => F = InsertCurrent(E, n, v)
  <2>1. [E[d] EXCEPT ![n] = v] = Bind(E[d], n, v)
    BY <1>0 DEF Bind
  <2>2. InsertCurrent(E, n, v) = [E EXCEPT ![Len(E)] = Bind(E[Len(E)], n, v)]
    BY DEF InsertCurrent
  <2>3. F = [b \in DOMAIN E |-> IF b = d THEN [E[d] EXCEPT ![n] = v] ELSE E[b]]
    BY <1>2, <1>4
  <2>. HIDE DEF F
  <2>4. [E EXCEPT ![d] = [E[d] EXCEPT ![n] = v]] = [b \in DOMAIN E |-> IF b = d THEN [E[d] EXCEPT ![n] = v] ELSE E[b]]
    OBVIOUS
  <2>. QED
    BY <2>1, <2>2, <2>3, <2>4
<1>. HIDE DEF F
<1>7. \A b \in DOMAIN E : \A m \in DOMAIN E[b] : F[b][m] \in Infos
  BY <1>1, <1>3
<1>8. /\ EnvOK(F) /\ Len(F) = Len(E) /\ DOMAIN F = DOMAIN E
      /\ \A b \in DOMAIN E : DOMAIN F[b] = DOMAIN E[b]
  BY <1>2, <1>7, EnvMapped
<1>. QED
  BY <1>1, <1>5, <1>6, <1>8 DEF F

(* A use of whole bindings.                                                 *)
LEMMA TakenOK ==
  ASSUME NEW E, EnvOK(E), NEW e \in Expr, CanTake(E, e)
  PROVE  LET F == Taken(E, e) IN
         /\ EnvOK(F) /\ Len(F) = Len(E) /\ DOMAIN F = DOMAIN E
         /\ \A d \in DOMAIN E : DOMAIN F[d] = DOMAIN E[d]
         /\ \A d \in DOMAIN E : \A n \in DOMAIN E[d] :
              F[d][n] = IF n \in Operands(e)
                          THEN IF e.k = "field" THEN [E[d][n] EXCEPT !.moved_field = TRUE]
                                                ELSE [E[d][n] EXCEPT !.moved = TRUE]
                          ELSE E[d][n]
         /\ \A d \in DOMAIN E : \A n \in DOMAIN E[d] : n \in Operands(e) =>
              /\ Whole(E[d][n]) /\ E[d][n].ty # "task"
              /\ e.k \in {"push", "cond"} => E[d][n].ty = "vec"
              /\ e.k = "field" => E[d][n].ty = "pair" /\ d = Len(E)
<1>. DEFINE F == Taken(E, e)
<1>1. \A d \in DOMAIN E : \A n \in DOMAIN E[d] :
              F[d][n] = IF n \in Operands(e)
                          THEN IF e.k = "field" THEN [E[d][n] EXCEPT !.moved_field = TRUE]
                                                ELSE [E[d][n] EXCEPT !.moved = TRUE]
                          ELSE E[d][n]
  BY DEF Taken
<1>2. F = [d \in DOMAIN E |-> [n \in DOMAIN E[d] |-> F[d][n]]]
  BY DEF Taken
<1>3. \A d \in DOMAIN E : \A n \in DOMAIN E[d] : E[d][n] \in Infos
  BY EnvIs
<1>4. \A d \in DOMAIN E : \A n \in DOMAIN E[d] : n \in Operands(e) =>
              /\ Whole(E[d][n]) /\ E[d][n].ty # "task"
              /\ e.k \in {"push", "cond"} => E[d][n].ty = "vec"
              /\ e.k = "field" => E[d][n].ty = "pair" /\ d = Len(E)
  BY EnvIs DEF CanTake
<1>. HIDE DEF F
<1>5. ASSUME NEW d \in DOMAIN E, NEW n \in DOMAIN E[d] PROVE F[d][n] \in Infos
  <2>1. E[d][n] \in Infos
    BY <1>3
  <2>2. CASE n \notin Operands(e)
    BY <1>1, <2>1, <2>2
  <2>3. CASE n \in Operands(e) /\ e.k = "field"
    <3>1. E[d][n].ty = "pair"
      BY <1>4, <2>3
    <3>2. F[d][n] = [E[d][n] EXCEPT !.moved_field = TRUE]
      BY <1>1, <2>3
    <3>. QED
      BY <2>1, <3>1, <3>2, InfoIs
  <2>4. CASE n \in Operands(e) /\ e.k # "field"
    <3>1. ~E[d][n].no_drop
      BY <1>4, <2>4 DEF Whole
    <3>2. F[d][n] = [E[d][n] EXCEPT !.moved = TRUE]
      BY <1>1, <2>4
    <3>. QED
      BY <2>1, <3>1, <3>2, InfoIs
  <2>. QED
    BY <2>2, <2>3, <2>4
<1>6. /\ EnvOK(F) /\ Len(F) = Len(E) /\ DOMAIN F = DOMAIN E
      /\ \A d \in DOMAIN E : DOMAIN F[d] = DOMAIN E[d]
  BY <1>2, <1>5, EnvMapped
<1>. QED
  BY <1>1, <1>4, <1>6 DEF F

(* consume_if_moved_var and its like take what their operands name.         *)
LEMMA ConsumeIs ==
  ASSUME NEW E, EnvOK(E), NEW e \in Expr, \A n \in Operands(e) : Has(E, n)
  PROVE  Consume(E, e) = Taken(E, e)
<1>. USE ExprCases
<1>0. /\ E = [b \in DOMAIN E |-> E[b]]
      /\ \A b \in DOMAIN E : E[b] = [m \in DOMAIN E[b] |-> E[b][m]]
      /\ \A d, f \in DOMAIN E : \A n \in DOMAIN E[d] : n \in DOMAIN E[f] => d = f
  BY EnvIs
<1>1. CASE Operands(e) = {}
  <2>1. Consume(E, e) = E
    BY <1>1 DEF Consume
  <2>. QED
    BY <1>0, <1>1, <2>1 DEF Taken
<1>2. CASE e.k \in {"var", "push", "field"}
  <2>1. PICK d \in DOMAIN E : e.n \in DOMAIN E[d]
    BY <1>2 DEF Has
  <2>. DEFINE v == IF e.k = "field" THEN [E[d][e.n] EXCEPT !.moved_field = TRUE]
                                    ELSE [E[d][e.n] EXCEPT !.moved = TRUE]
  <2>2. Lookup(E, e.n) = E[d][e.n] /\ \A info : SetInfo(E, e.n, info) = [E EXCEPT ![d][e.n] = info]
    BY <2>1, HomeIs
  <2>3. Consume(E, e) = [E EXCEPT ![d][e.n] = v]
    BY <1>2, <2>2 DEF Consume
  <2>. DEFINE F == Taken(E, e)
  <2>4. \A b \in DOMAIN E : F[b] = [m \in DOMAIN E[b] |->
           IF m = e.n THEN IF e.k = "field" THEN [E[b][m] EXCEPT !.moved_field = TRUE]
                                           ELSE [E[b][m] EXCEPT !.moved = TRUE]
                      ELSE E[b][m]]
    BY <1>2 DEF Taken
  <2>5. F = [b \in DOMAIN E |-> F[b]]
    BY DEF Taken
  <2>. HIDE DEF F
  <2>6. F[d] = [E[d] EXCEPT ![e.n] = v]
    <3>1. F[d] = [m \in DOMAIN E[d] |-> IF m = e.n THEN v ELSE E[d][m]]
      BY <2>1, <2>4 DEF v
    <3>. HIDE DEF v
    <3>2. [E[d] EXCEPT ![e.n] = v] = [m \in DOMAIN E[d] |-> IF m = e.n THEN v ELSE E[d][m]]
      OBVIOUS
    <3>. QED
      BY <3>1, <3>2
  <2>7. ASSUME NEW b \in DOMAIN E, b # d PROVE F[b] = E[b]
    <3>1. e.n \notin DOMAIN E[b]
      BY <1>0, <2>1, <2>7
    <3>2. F[b] = [m \in DOMAIN E[b] |-> E[b][m]]
      BY <2>4, <3>1
    <3>. QED
      BY <1>0, <3>2
  <2>. HIDE DEF v
  <2>8. [E EXCEPT ![d][e.n] = v] = [b \in DOMAIN E |-> IF b = d THEN [E[d] EXCEPT ![e.n] = v] ELSE E[b]]
    OBVIOUS
  <2>9. F = [b \in DOMAIN E |-> IF b = d THEN [E[d] EXCEPT ![e.n] = v] ELSE E[b]]
    BY <2>5, <2>6, <2>7
  <2>. QED
    BY <2>3, <2>8, <2>9 DEF F
<1>3. CASE e.k = "cond"
  <2>1. \A d \in DOMAIN E : \A n \in DOMAIN E[d] : Home(E, n) = d
    BY HomeIs
  <2>2. Consume(E, e) = [d \in DOMAIN E |-> [n \in DOMAIN E[d] |->
            IF n \in Operands(e) /\ d = Home(E, n)
              THEN [E[d][n] EXCEPT !.moved = TRUE] ELSE E[d][n]]]
    BY <1>3 DEF Consume
  <2>. QED
    BY <1>3, <2>1, <2>2 DEF Taken
<1>. QED
  BY <1>1, <1>2, <1>3

(* A new binding in the current scope.                                      *)
LEMMA InsertOK ==
  ASSUME NEW E, EnvOK(E), NEW n \in Names, ~Has(E, n), NEW v \in Infos
  PROVE  LET F == InsertCurrent(E, n, v) IN
         /\ EnvOK(F) /\ Len(F) = Len(E) /\ DOMAIN F = DOMAIN E
         /\ \A d \in DOMAIN E : d # Len(E) => F[d] = E[d]
         /\ DOMAIN F[Len(E)] = DOMAIN E[Len(E)] \cup {n}
         /\ F[Len(E)][n] = v
         /\ \A m \in DOMAIN E[Len(E)] : F[Len(E)][m] = E[Len(E)][m]
<1>. DEFINE F == InsertCurrent(E, n, v)
            top == Len(E)
<1>0. /\ top \in DOMAIN E /\ DOMAIN E = 1 .. top /\ top \in Nat \ {0} /\ E \in Seq(Scope)
      /\ \A b \in DOMAIN E : DOMAIN E[b] \subseteq Names /\ E[b] \in Scope
      /\ \A m \in DOMAIN E[top] : E[top][m] \in Infos
  BY EnvIs DEF EnvOK
<1>1. /\ F = [E EXCEPT ![top] = Bind(E[top], n, v)]
      /\ DOMAIN F = DOMAIN E
      /\ \A d \in DOMAIN E : d # top => F[d] = E[d]
      /\ F[top] = Bind(E[top], n, v)
  BY <1>0 DEF InsertCurrent, EnvOK
<1>2. /\ DOMAIN F[top] = DOMAIN E[top] \cup {n}
      /\ F[top][n] = v
      /\ \A m \in DOMAIN E[top] : m # n => F[top][m] = E[top][m]
      /\ n \notin DOMAIN E[top]
      /\ F[top] = [m \in DOMAIN E[top] \cup {n} |-> F[top][m]]
  BY <1>0, <1>1 DEF Bind, Has
<1>3. F[top] \in Scope
  <2>. HIDE DEF F, top
  <2>1. DOMAIN E[top] \cup {n} \in SUBSET Names
    BY <1>0
  <2>2. \A m \in DOMAIN E[top] \cup {n} : F[top][m] \in Infos
    BY <1>0, <1>2
  <2>. QED
    BY <1>2, <2>1, <2>2, IsScope
<1>4. F \in Seq(Scope) /\ Len(F) = Len(E)
  BY <1>0, <1>1, <1>3
<1>5. Distinct(F)
  <2>1. \A d, e \in DOMAIN E : \A m \in DOMAIN E[d] : m \in DOMAIN E[e] => d = e
    BY EnvIs
  <2>2. \A d \in DOMAIN E : n \notin DOMAIN E[d]
    BY DEF Has
  <2>. HIDE DEF F
  <2>. QED
    BY <1>1, <1>2, <2>1, <2>2 DEF Distinct
<1>. HIDE DEF F
<1>. QED
  BY <1>0, <1>1, <1>2, <1>4, <1>5 DEF EnvOK, F

(* The scope of a new body.                                                 *)
LEMMA PushOK ==
  ASSUME NEW E, EnvOK(E), NEW s \in Scope, \A n \in DOMAIN s : ~Has(E, n)
  PROVE  LET F == Append(E, s) IN
         /\ EnvOK(F) /\ Len(F) = Len(E) + 1 /\ DOMAIN F = 1 .. Len(E) + 1
         /\ \A d \in DOMAIN E : F[d] = E[d]
         /\ F[Len(E) + 1] = s
<1>1. E \in Seq(Scope) /\ Len(E) \in Nat /\ Len(E) > 0 /\ DOMAIN E = 1 .. Len(E)
  BY EnvIs DEF EnvOK
<1>2. \A d, e \in DOMAIN E : \A m \in DOMAIN E[d] : m \in DOMAIN E[e] => d = e
  BY EnvIs
<1>. DEFINE F == Append(E, s)
<1>3. /\ F \in Seq(Scope) /\ Len(F) = Len(E) + 1 /\ DOMAIN F = 1 .. Len(E) + 1
      /\ \A d \in DOMAIN E : F[d] = E[d]
      /\ F[Len(E) + 1] = s
  BY <1>1
<1>. HIDE DEF F
<1>4. Distinct(F)
  <2>. SUFFICES ASSUME NEW d \in 1 .. Len(E) + 1, NEW e \in 1 .. Len(E) + 1, NEW n \in DOMAIN F[d],
                       n \in DOMAIN F[e]
                PROVE  d = e
    BY <1>3 DEF Distinct
  <2>1. (d \in DOMAIN E \/ d = Len(E) + 1) /\ (e \in DOMAIN E \/ e = Len(E) + 1)
    BY <1>1
  <2>. QED
    BY <1>2, <1>3, <2>1 DEF Has
<1>. QED
  BY <1>1, <1>3, <1>4 DEF EnvOK, F

(* The scope of a body before its first statement.                          *)
LEMMA EmptyScope == << >> \in Scope /\ DOMAIN << >> = {}
<1>1. << >> \in [{} -> Infos] /\ DOMAIN << >> = {}
  OBVIOUS
<1>. QED
  BY <1>1 DEF Scope

-----------------------------------------------------------------------------
(* Notes: what the checker knew where an instruction stands, the scopes it  *)
(* had, the block of each, and what the C code holds besides.               *)
Body == [block |-> 0, kind |-> "body"]

Note(E, p) == [live |-> TRUE, env |-> E, path |-> p, extra |-> {}]
Dead == [live |-> FALSE, env |-> << >>, path |-> << >>, extra |-> {}]
WithExtra(E, p, X) == [live |-> TRUE, env |-> E, path |-> p, extra |-> X]

PlaceKinds == {"body", "then", "else", "while", "for ref", "for own"}

Places == [block : Nat, kind : PlaceKinds]

NoteOK(x) ==
  x.live => /\ EnvOK(x.env)
            /\ x.path \in Seq(Places) /\ Len(x.path) = Len(x.env)
            /\ x.path[1] = Body
            /\ \A d, e \in DOMAIN x.path : x.path[d].block = x.path[e].block => d = e
            /\ x = WithExtra(x.env, x.path, x.extra)
            /\ x.extra \subseteq Names \cup {"ret"}

Opens == {"if", "while", "for"}
Closers == {"else", "endif", "endloop"}
Exits == {"break", "continue"}
Ends == Closers \cup Exits
Straights == {"let", "set", "drop", "use", "call", "spawn", "join", "freebuf"}

Cell3(i, a, z) == [ins |-> i, a |-> a, z |-> z]

Cells(c, g) == {Cell3(c[i], g[i], g[i + 1]) : i \in DOMAIN c}

KindOf(ins) == CASE ins.op = "if" -> "then"
                 [] ins.op = "while" -> "while"
                 [] ins.op = "for" -> IF ins.own THEN "for own" ELSE "for ref"

Kind(ins, k) == k = KindOf(ins) \/ (ins.op = "if" /\ k = "else")

Owning(ins) == ins.op = "for" /\ ins.own

Named(E, n) == {b \in (DOMAIN E) \X Names : b[2] = n}

(* The Env around the body that h opens.                                    *)
Base(h) == IF Owning(h.ins) THEN Moving(h.a.env, Named(h.a.env, h.ins.coll)) ELSE h.a.env

Pushed(h, kind, s) == Note(Append(Base(h), s), Append(h.a.path, [block |-> h.ins.block, kind |-> kind]))

FirstScope(ins) == IF ins.op = "for" THEN Bind(<< >>, ins.n, Slot(ins.own)) ELSE << >>

InfoLet(v, t) == v \in Infos /\ ~v.moved /\ ~v.moved_field /\ ~v.no_drop /\ v.ty = t

At1(c, f) == c.ins.in = f.block /\ c.ins.branch = f.kind

LetOK(c) ==
  LET E == c.a.env e == c.ins.e IN
  /\ c.a.extra = {} /\ e \in Expr /\ CanTake(E, e)
  /\ IF c.ins.n = "ret"
       THEN /\ e.k # "int" => TypeOf(E, e) = "vec"
            /\ c.z = WithExtra(Taken(E, e), c.a.path, {"ret"})
       ELSE /\ c.ins.n \in Names /\ ~Has(E, c.ins.n) /\ e.k # "int"
            /\ \E v \in Infos : /\ InfoLet(v, TypeOf(E, e))
                                /\ c.z = Note(InsertCurrent(Taken(E, e), c.ins.n, v), c.a.path)

SetOK(c) ==
  LET E == c.a.env e == c.ins.e T == Taken(E, e) IN
  /\ c.a.extra = {} /\ e \in Expr /\ CanTake(E, e) /\ e.k # "int" /\ c.ins.n \in Names
  /\ \E d \in DOMAIN E :
       /\ c.ins.n \in DOMAIN E[d]
       /\ ~E[d][c.ins.n].moved_field /\ ~E[d][c.ins.n].no_drop
       /\ E[d][c.ins.n].ty = TypeOf(E, e) /\ E[d][c.ins.n].ty # "task"
       /\ c.ins.drop_old = ~T[d][c.ins.n].moved
       /\ \E v \in Infos : /\ InfoLet(v, TypeOf(E, e))
                           /\ d < Len(E) => v.guarded_mutex = E[d][c.ins.n].guarded_mutex
                           /\ c.z = Note(Put(T, d, c.ins.n, v), c.a.path)

DropSet(of) == {<<r.depth, r.n>> : r \in of}

DropOK(c) ==
  LET E == c.a.env IN
  /\ \A r \in c.ins.of : /\ r.depth \in DOMAIN E /\ r.n \in DOMAIN E[r.depth]
                         /\ ~Gone(E[r.depth][r.n]) /\ E[r.depth][r.n].ty # "task"
                         /\ r.skip = E[r.depth][r.n].moved_field
                         /\ r = [n |-> r.n, depth |-> r.depth, skip |-> r.skip]
  /\ c.z = WithExtra(Moving(E, DropSet(c.ins.of)), c.a.path, c.a.extra)
  /\ c.a.extra \in {{}, {"ret"}}

UseOK(c) ==
  LET E == c.a.env IN
  /\ c.a.extra = {}
  /\ \E d \in DOMAIN E : /\ c.ins.n \in DOMAIN E[d] /\ ~E[d][c.ins.n].moved /\ ~E[d][c.ins.n].moved_field
                         /\ E[d][c.ins.n].ty # "task"
  /\ c.z = c.a

SpawnOK(c) ==
  LET E == c.a.env IN
  /\ c.a.extra = {} /\ c.ins.n \in Names /\ ~Has(E, c.ins.n)
  /\ At1(c, c.a.path[Len(c.a.path)])
  /\ c.z = Note(InsertCurrent(E, c.ins.n, Fresh("task")), c.a.path)

JoinOK(c) ==
  LET E == c.a.env IN
  /\ c.a.extra = {} /\ c.ins.n \in DOMAIN E[Len(E)]
  /\ E[Len(E)][c.ins.n].ty = "task" /\ ~E[Len(E)][c.ins.n].moved
  /\ At1(c, c.a.path[Len(c.a.path)])
  /\ c.z = Note(Moving(E, {<<Len(E), c.ins.n>>}), c.a.path)

FreeOK(c) ==
  /\ c.a.extra = {c.ins.n} /\ c.ins.n \in Names
  /\ \E d \in DOMAIN c.a.env : /\ c.ins.n \in DOMAIN c.a.env[d] /\ c.a.env[d][c.ins.n].moved
                               /\ c.a.env[d][c.ins.n].ty = "nest"
  /\ c.z = Note(c.a.env, c.a.path)

OpenOK(c) ==
  LET E == c.a.env IN
  /\ c.a.extra = {} /\ c.ins.block \in Nat \ {0}
  /\ c.ins.op = "for" =>
       /\ c.ins.n \in Names /\ ~Has(E, c.ins.n) /\ c.ins.own \in BOOLEAN
       /\ \E d \in DOMAIN E : /\ c.ins.coll \in DOMAIN E[d] /\ Whole(E[d][c.ins.coll])
                              /\ E[d][c.ins.coll].ty = "nest"
  /\ c.z = Pushed(c, KindOf(c.ins), FirstScope(c.ins))

ReturnOK(c) ==
  /\ c.a.extra = {"ret"}
  /\ \A d \in DOMAIN c.a.env : \A n \in DOMAIN c.a.env[d] : Gone(c.a.env[d][n])
  /\ \A d \in DOMAIN c.a.path : c.a.path[d].kind # "for own"
  /\ c.z = Dead

CellOK(c) ==
  /\ c = Cell3(c.ins, c.a, c.z)
  /\ NoteOK(c.a) /\ NoteOK(c.z)
  /\ c.ins.op \in Straights \cup {"return"} \cup Opens \cup Ends
  /\ c.ins.op \notin Closers => c.a.live
  /\ c.ins.op \in Ends /\ c.a.live => c.a.extra = {}
  /\ c.ins.op = "let" => LetOK(c)
  /\ c.ins.op = "set" => SetOK(c)
  /\ c.ins.op = "drop" => DropOK(c)
  /\ c.ins.op = "use" => UseOK(c)
  /\ c.ins.op = "call" => c.a.extra = {} /\ c.z = c.a
  /\ c.ins.op = "spawn" => SpawnOK(c)
  /\ c.ins.op = "join" => JoinOK(c)
  /\ c.ins.op = "freebuf" => FreeOK(c)
  /\ c.ins.op \in Opens => OpenOK(c)
  /\ c.ins.op = "return" => ReturnOK(c)
  /\ c.ins.op \in Exits => c.z = Dead

(* The scopes of x from D on have nothing left to drop, and the others are  *)
(* those of E.                                                              *)
Sealed(x, D, E) ==
  /\ Len(E) = D - 1 /\ D <= Len(x.env)
  /\ \A d \in DOMAIN E : x.env[d] = E[d]
  /\ \A d \in D .. Len(x.env) : \A n \in DOMAIN x.env[d] : Gone(x.env[d][n])

SealedButTasks(x, E) ==
  /\ Len(x.env) = Len(E) + 1
  /\ \A d \in DOMAIN E : x.env[d] = E[d]
  /\ \A n \in DOMAIN x.env[Len(x.env)] : Gone(x.env[Len(x.env)][n]) \/ x.env[Len(x.env)][n].ty = "task"

In(x, h, kind) == x.path = Append(h.a.path, [block |-> h.ins.block, kind |-> kind])

ElseOK(h, c) ==
  /\ c.z = Pushed(h, "else", << >>)
  /\ c.a.live => In(c.a, h, "then") /\ Len(c.a.env) = Len(h.a.env) + 1

EndIfOK(h, c) ==
  /\ c.a.live => c.z.live /\ In(c.a, h, "else") /\ SealedButTasks(c.a, c.z.env)
  /\ c.z.live => c.z = Note(c.z.env, h.a.path)

EndLoopOK(h, c) ==
  /\ c.a.live => In(c.a, h, KindOf(h.ins)) /\ SealedButTasks(c.a, Base(h))
  /\ c.z = WithExtra(Base(h), h.a.path, IF Owning(h.ins) THEN {h.ins.coll} ELSE {})

ExitOK(h, c) ==
  /\ Len(h.a.path) < Len(c.a.path)
  /\ \A d \in DOMAIN h.a.path : c.a.path[d] = h.a.path[d]
  /\ c.a.path[Len(h.a.path) + 1] = [block |-> h.ins.block, kind |-> KindOf(h.ins)]
  /\ Sealed(c.a, Len(h.a.path) + 1, Base(h))
  /\ \A d \in Len(h.a.path) + 2 .. Len(c.a.path) : c.a.path[d].kind \in {"then", "else"}
  /\ c.ins.op = "break" => ~Owning(h.ins)

(* h opens the block that c closes or leaves.                               *)
PairOK(h, c) ==
  (h.ins.op \in Opens /\ c.ins.op \in Ends /\ h.ins.block = c.ins.block) =>
    /\ c.ins.op \in {"else", "endif"} <=> h.ins.op = "if"
    /\ c.ins.op = "else" => ElseOK(h, c)
    /\ c.ins.op = "endif" => EndIfOK(h, c)
    /\ c.ins.op = "endloop" => EndLoopOK(h, c)
    /\ c.ins.op \in Exits => ExitOK(h, c)

(* c ends a branch of a conditional and e its else branch.                  *)
MergeOK(c, e) ==
  (c.ins.op \in {"else", "endif"} /\ e.ins.op = "endif" /\ c.ins.block = e.ins.block /\ c.a.live) =>
    e.z.live /\ SealedButTasks(c.a, e.z.env)

(* E is B but for what was moved since.                                     *)
Since(B, E) ==
  \A d \in DOMAIN B :
    /\ DOMAIN B[d] = DOMAIN E[d]
    /\ \A n \in DOMAIN B[d] : /\ E[d][n] = [B[d][n] EXCEPT !.moved = E[d][n].moved]
                              /\ B[d][n].ty = "task" \/ B[d][n].moved_field => E[d][n] = B[d][n]

(* x, in scope D, stands in the body that h opens.                          *)
InBody(x, h, D) ==
  /\ Len(h.a.path) = D - 1 /\ \A d \in DOMAIN h.a.path : x.path[d] = h.a.path[d]
  /\ Kind(h.ins, x.path[D].kind)
  /\ Since(Base(h), x.env)
  /\ h.ins.op = "for" => \A d \in DOMAIN h.a.env : h.ins.coll \in DOMAIN h.a.env[d] =>
                            x.env[d][h.ins.coll].moved = h.ins.own
  /\ \A n \in DOMAIN x.env[D] : x.env[D][n].no_drop => h.ins.op = "for" /\ h.ins.n = n

Inside(x, h) ==
  \A D \in DOMAIN x.path :
    (x.live /\ x.extra = {} /\ h.ins.op \in Opens /\ x.path[D].block = h.ins.block) => InBody(x, h, D)

(* Blocks, views and tasks of x are accounted for in C.                     *)
Placed(x, C) ==
  x.live =>
    /\ \A D \in DOMAIN x.path : D > 1 =>
         \E h \in C : h.ins.op \in Opens /\ h.ins.block = x.path[D].block
    /\ \A n \in DOMAIN x.env[1] : ~x.env[1][n].no_drop
    /\ \A D \in DOMAIN x.env : \A n \in DOMAIN x.env[D] : x.env[D][n].ty = "task" =>
         \E s \in C : s.ins.op = "spawn" /\ s.ins.n = n /\ At1(s, x.path[D])

Sits(x, C) == Placed(x, C) /\ \A h \in C : Inside(x, h)

(* What was spawned and joined directly in scope d of x, so far.            *)
Accounted(x, C, d) ==
  \A c \in C : c.ins.op \in {"spawn", "join"} /\ At1(c, x.path[d]) =>
    /\ c.ins.n \in DOMAIN x.env[d]
    /\ c.ins.op = "join" => x.env[d][c.ins.n].ty = "task" /\ x.env[d][c.ins.n].moved

Stand(x, C) == Sits(x, C) /\ (x.live /\ x.extra = {} => \A d \in DOMAIN x.path : Accounted(x, C, d))

HasOpen(C, b) == \E h \in C : h.ins.op \in Opens /\ h.ins.block = b

Fit(c, C) ==
  /\ CellOK(c) /\ Sits(c.a, C)
  /\ c.ins.op \in Closers /\ c.a.live => Accounted(c.a, C, Len(c.a.path))
  /\ c.ins.op \in Ends => HasOpen(C, c.ins.block)
  /\ \A h \in C : PairOK(h, c) /\ MergeOK(h, c)

Typed(C) == \A c \in C : Fit(c, C)

OneOpen(C) == \A h, k \in C : h.ins.op \in Opens /\ k.ins.op \in Opens /\ h.ins.block = k.ins.block => h = k

HasMark(C, op, b) == \E c \in C : c.ins.op = op /\ c.ins.block = b

Shut(C, h) == IF h.ins.op = "if" THEN HasMark(C, "else", h.ins.block) /\ HasMark(C, "endif", h.ins.block)
                                 ELSE HasMark(C, "endloop", h.ins.block)

-----------------------------------------------------------------------------
(* The pass                                                                 *)
PathOf(o) == [d \in 1 .. Len(o) + 1 |-> IF d = 1 THEN Body ELSE [block |-> o[d - 1].block, kind |-> o[d - 1].kind]]

Until(p, m) == [d \in 1 .. m |-> p[d]]

(* The opening instruction of the body that f walks, which stands at p.     *)
Heads(f, p, h) ==
  /\ h.ins.op \in Opens /\ h.ins.block = f.block
  /\ Base(h) = f.pre /\ h.a.path = p
  /\ Kind(h.ins, f.kind)
  /\ h.ins.op = "for" => f.coll = h.ins.coll

ThenOK(C, f) ==
  /\ ~HasMark(C, "else", f.block) /\ ~HasMark(C, "endif", f.block)
  /\ \A c \in C : c.ins.op \in {"spawn", "join"} => ~At1(c, [block |-> f.block, kind |-> "else"])

InElseOK(C, f, p) ==
  /\ HasMark(C, "else", f.block) /\ ~HasMark(C, "endif", f.block)
  /\ f.then_closed \in BOOLEAN
  /\ \A e \in C : e.ins.op = "else" /\ e.ins.block = f.block =>
       /\ e.a.live <=> ~f.then_closed
       /\ e.a.live => SealedButTasks(e.a, f.then_env)
  /\ ~f.then_closed => /\ EnvOK(f.then_env) /\ Len(f.then_env) = Len(p)
                       /\ Since(f.pre, f.then_env)
                       /\ Stand(Note(f.then_env, p), C)

FrameOK(C, f, p) ==
  /\ f.block \in Nat \ {0}
  /\ EnvOK(f.pre) /\ Len(f.pre) = Len(p)
  /\ Stand(Note(f.pre, p), C)
  /\ \E h \in C : Heads(f, p, h)
  /\ f.kind = "then" => ThenOK(C, f)
  /\ f.kind = "else" => InElseOK(C, f, p)
  /\ f.kind \notin {"then", "else"} => ~HasMark(C, "endloop", f.block) /\ f.depth = Len(p) + 1

IsSeq(s) == Len(s) \in Nat /\ s = [i \in 1 .. Len(s) |-> s[i]]

State(C, x, o) ==
  /\ Typed(C) /\ OneOpen(C)
  /\ IsSeq(o)
  /\ NoteOK(x) /\ (x.live => x.path = PathOf(o)) /\ Stand(x, C)
  /\ \A m \in DOMAIN o : FrameOK(C, o[m], Until(PathOf(o), m))
  /\ \A m, k \in DOMAIN o : o[m].block = o[k].block => m = k
  /\ \A h \in C : h.ins.op \in Opens => (\E m \in DOMAIN o : o[m].block = h.ins.block) \/ Shut(C, h)

Current == IF closed THEN Dead ELSE Note(scopes, PathOf(open))
-----------------------------------------------------------------------------
(* What follows from a note, a cell, an opening instruction                 *)

(* The parts of a note.                                                     *)
LEMMA NoteIs ==
  ASSUME NEW E, NEW p, NEW X
  PROVE  /\ Note(E, p).live = TRUE /\ Note(E, p).env = E /\ Note(E, p).path = p /\ Note(E, p).extra = {}
         /\ Note(E, p) = WithExtra(E, p, {})
         /\ WithExtra(E, p, X).live = TRUE /\ WithExtra(E, p, X).env = E
         /\ WithExtra(E, p, X).path = p /\ WithExtra(E, p, X).extra = X
         /\ ~Dead.live
BY DEF Note, WithExtra, Dead

(* The parts of a cell.                                                     *)
LEMMA CellIs ==
  ASSUME NEW i, NEW a, NEW z
  PROVE  Cell3(i, a, z).ins = i /\ Cell3(i, a, z).a = a /\ Cell3(i, a, z).z = z
BY DEF Cell3

(* A binding with its moved flag set.                                       *)
LEMMA MovedInfo ==
  ASSUME NEW v \in Infos
  PROVE  LET w == [v EXCEPT !.moved = TRUE] IN
         /\ [v EXCEPT !.moved = v.moved] = v
         /\ w.moved = TRUE /\ w.ty = v.ty /\ w.moved_field = v.moved_field /\ w.no_drop = v.no_drop
         /\ w.guarded_mutex = v.guarded_mutex
         /\ w = [v EXCEPT !.moved = w.moved]
BY InfoIs, ZenonT(60)

(* A binding with its own moved flag.                                       *)
LEMMA SameInfo ==
  ASSUME NEW E, EnvOK(E), NEW d \in DOMAIN E, NEW n \in DOMAIN E[d]
  PROVE  [E[d][n] EXCEPT !.moved = E[d][n].moved] = E[d][n]
<1>1. E[d][n] \in Infos
  BY EnvIs
<1>. QED
  BY <1>1, MovedInfo

(* A live note has one block for each scope, the body of the function       *)
(* first.                                                                   *)
LEMMA PathIs ==
  ASSUME NEW x, NoteOK(x), x.live
  PROVE  /\ Len(x.env) \in Nat \ {0} /\ DOMAIN x.env = 1 .. Len(x.env)
         /\ DOMAIN x.path = 1 .. Len(x.env) /\ Len(x.path) = Len(x.env)
         /\ x.path = [d \in 1 .. Len(x.env) |-> x.path[d]]
         /\ \A d \in DOMAIN x.path : x.path[d] \in Places /\ x.path[d].block \in Nat
         /\ EnvOK(x.env)
         /\ x.path[1] = Body
         /\ \A d, e \in DOMAIN x.path : x.path[d].block = x.path[e].block => d = e
<1>1. /\ EnvOK(x.env) /\ x.path \in Seq(Places) /\ Len(x.path) = Len(x.env)
      /\ x.path[1] = Body
      /\ \A d, e \in DOMAIN x.path : x.path[d].block = x.path[e].block => d = e
  BY DEF NoteOK
<1>2. Len(x.env) \in Nat \ {0} /\ DOMAIN x.env = 1 .. Len(x.env)
  BY <1>1, EnvIs
<1>3. /\ DOMAIN x.path = 1 .. Len(x.env) /\ x.path = [d \in 1 .. Len(x.env) |-> x.path[d]]
      /\ \A d \in DOMAIN x.path : x.path[d] \in Places
  BY <1>1, <1>2
<1>4. \A f \in Places : f.block \in Nat
  BY DEF Places, PlaceKinds
<1>. QED
  BY <1>1, <1>2, <1>3, <1>4

(* The Env around a body.                                                   *)
LEMMA BaseIs ==
  ASSUME NEW h, CellOK(h), h.ins.op \in Opens
  PROVE  /\ h.a.live /\ h.a.extra = {} /\ NoteOK(h.a) /\ EnvOK(h.a.env)
         /\ Len(Base(h)) = Len(h.a.env) /\ Len(h.a.path) = Len(h.a.env) /\ DOMAIN Base(h) = DOMAIN h.a.env
         /\ DOMAIN h.a.path = DOMAIN h.a.env
         /\ EnvOK(Base(h))
         /\ \A d \in DOMAIN h.a.env : DOMAIN Base(h)[d] = DOMAIN h.a.env[d]
         /\ \A d \in DOMAIN h.a.env : \A n \in DOMAIN h.a.env[d] :
              /\ ~(Owning(h.ins) /\ n = h.ins.coll) => Base(h)[d][n] = h.a.env[d][n]
              /\ Base(h)[d][n] = [h.a.env[d][n] EXCEPT !.moved = Base(h)[d][n].moved]
              /\ Owning(h.ins) /\ n = h.ins.coll => Base(h)[d][n].moved = TRUE
         /\ h.ins.op = "for" => \A d \in DOMAIN h.a.env : h.ins.coll \in DOMAIN h.a.env[d] =>
              /\ Base(h)[d][h.ins.coll].moved = h.ins.own
              /\ Whole(h.a.env[d][h.ins.coll]) /\ h.a.env[d][h.ins.coll].ty = "nest"
              /\ Base(h)[d][h.ins.coll].ty = "nest"
         /\ h.ins.op = "for" => \E d \in DOMAIN h.a.env : h.ins.coll \in DOMAIN h.a.env[d]
<1>. DEFINE E == h.a.env
            c == h.ins.coll
<1>1. /\ h.a.live /\ NoteOK(h.a) /\ OpenOK(h)
  BY DEF CellOK, Opens, Closers
<1>2. /\ EnvOK(E) /\ Len(h.a.path) = Len(E) /\ DOMAIN h.a.path = DOMAIN E
      /\ \A d \in DOMAIN E : DOMAIN E[d] \subseteq Names
      /\ \A d \in DOMAIN E : \A n \in DOMAIN E[d] : E[d][n] \in Infos
      /\ \A d, e \in DOMAIN E : \A n \in DOMAIN E[d] : n \in DOMAIN E[e] => d = e
  <2>1. EnvOK(E) /\ Len(h.a.path) = Len(E) /\ DOMAIN h.a.path = DOMAIN E
    BY <1>1, PathIs
  <2>. QED
    BY <2>1, EnvIs
<1>3. /\ h.a.extra = {}
      /\ h.ins.op = "for" => h.ins.own \in BOOLEAN
      /\ h.ins.op = "for" => \E d \in DOMAIN E : c \in DOMAIN E[d]
      /\ h.ins.op = "for" => \A d \in DOMAIN E : c \in DOMAIN E[d] => Whole(E[d][c]) /\ E[d][c].ty = "nest"
  BY <1>1, <1>2 DEF OpenOK
<1>4. \A d \in DOMAIN E : \A n \in DOMAIN E[d] : [E[d][n] EXCEPT !.moved = E[d][n].moved] = E[d][n]
  BY <1>2, SameInfo
<1>. HIDE DEF E
<1>5. CASE ~Owning(h.ins)
  <2>1. Base(h) = E
    BY <1>5 DEF Base, E
  <2>. HIDE DEF c
  <2>2. h.ins.op = "for" => h.ins.own = FALSE
    BY <1>3, <1>5 DEF Owning
  <2>3. h.ins.op = "for" => \A d \in DOMAIN E : c \in DOMAIN E[d] =>
              E[d][c].moved = h.ins.own /\ Whole(E[d][c]) /\ E[d][c].ty = "nest"
    BY <1>3, <2>2, <1>2, InfoIs DEF Whole
  <2>. QED
    BY ONLY <1>1, <1>2, <1>3, <1>4, <1>5, <2>1, <2>3, SMTT(60) DEF E, c
<1>6. CASE Owning(h.ins)
  <2>1. Base(h) = Moving(E, Named(E, c)) /\ h.ins.op = "for" /\ h.ins.own = TRUE
    BY <1>3, <1>6 DEF Base, E, c, Owning
  <2>2. \A d \in DOMAIN E : \A n \in DOMAIN E[d] : <<d, n>> \in Named(E, c) <=> n = c
    BY <1>2 DEF Named
  <2>3. \A d \in DOMAIN E : \A n \in DOMAIN E[d] : <<d, n>> \in Named(E, c) => ~E[d][n].no_drop
    BY <2>1, <2>2, <1>3 DEF Whole
  <2>. DEFINE F == Moving(E, Named(E, c))
  <2>4. /\ EnvOK(F) /\ Len(F) = Len(E) /\ DOMAIN F = DOMAIN E
        /\ \A d \in DOMAIN E : DOMAIN F[d] = DOMAIN E[d]
        /\ \A d \in DOMAIN E : \A n \in DOMAIN E[d] :
              F[d][n] = IF <<d, n>> \in Named(E, c) THEN [E[d][n] EXCEPT !.moved = TRUE] ELSE E[d][n]
    BY ONLY <1>2, <2>3, MovingOK
  <2>. HIDE DEF F
  <2>5. \A d \in DOMAIN E : \A n \in DOMAIN E[d] :
          /\ n # c => F[d][n] = E[d][n]
          /\ n = c => F[d][n] = [E[d][n] EXCEPT !.moved = TRUE]
    BY <2>2, <2>4
  <2>6. \A v \in Infos : LET w == [v EXCEPT !.moved = TRUE] IN w.moved = TRUE /\ w.ty = v.ty
    BY InfoIs
  <2>7. \A d \in DOMAIN E : \A n \in DOMAIN E[d] : F[d][n] = [E[d][n] EXCEPT !.moved = F[d][n].moved]
    <3>. TAKE d \in DOMAIN E
    <3>. TAKE n \in DOMAIN E[d]
    <3>1. CASE n # c
      <4>1. F[d][n] = E[d][n]
        BY <2>5, <3>1
      <4>. QED
        BY <1>4, <4>1
    <3>2. CASE n = c
      <4>1. F[d][n] = [E[d][n] EXCEPT !.moved = TRUE] /\ E[d][n] \in Infos
        BY <1>2, <2>5, <3>2
      <4>2. F[d][n].moved = TRUE
        BY <2>6, <4>1
      <4>. QED
        BY <4>1, <4>2
    <3>. QED
      BY <3>1, <3>2
  <2>8. \A d \in DOMAIN E : c \in DOMAIN E[d] => F[d][c].moved = TRUE /\ F[d][c].ty = "nest"
    <3>. SUFFICES ASSUME NEW d \in DOMAIN E, c \in DOMAIN E[d] PROVE F[d][c].moved = TRUE /\ F[d][c].ty = "nest"
      OBVIOUS
    <3>1. E[d][c] \in Infos /\ E[d][c].ty = "nest" /\ F[d][c] = [E[d][c] EXCEPT !.moved = TRUE]
      BY <1>2, <1>3, <2>1, <2>5
    <3>. QED
      BY <3>1, <2>6
  <2>9. F = Base(h)
    BY <2>1 DEF F
  <2>10. \A d \in DOMAIN E : \A n \in DOMAIN E[d] : n = c => F[d][n].moved = TRUE
    BY <2>8
  <2>. DEFINE B == Base(h)
  <2>11. /\ EnvOK(B) /\ Len(B) = Len(E) /\ DOMAIN B = DOMAIN E
         /\ \A d \in DOMAIN E : DOMAIN B[d] = DOMAIN E[d]
         /\ \A d \in DOMAIN E : \A n \in DOMAIN E[d] :
              /\ n # c => B[d][n] = E[d][n]
              /\ B[d][n] = [E[d][n] EXCEPT !.moved = B[d][n].moved]
              /\ n = c => B[d][n].moved = TRUE
         /\ \A d \in DOMAIN E : c \in DOMAIN E[d] => B[d][c].moved = TRUE /\ B[d][c].ty = "nest"
    BY <2>4, <2>5, <2>7, <2>8, <2>9, <2>10
  <2>. HIDE DEF c, B
  <2>12. /\ h.ins.op = "for" => \A d \in DOMAIN E : c \in DOMAIN E[d] =>
              /\ B[d][c].moved = h.ins.own
              /\ Whole(E[d][c]) /\ E[d][c].ty = "nest"
              /\ B[d][c].ty = "nest"
         /\ h.ins.op = "for" => \E d \in DOMAIN E : c \in DOMAIN E[d]
    BY <1>3, <2>1, <2>11
  <2>13. \A d \in DOMAIN E : \A n \in DOMAIN E[d] :
              /\ ~(Owning(h.ins) /\ n = c) => B[d][n] = E[d][n]
              /\ B[d][n] = [E[d][n] EXCEPT !.moved = B[d][n].moved]
              /\ Owning(h.ins) /\ n = c => B[d][n].moved = TRUE
    BY <1>6, <2>11
  <2>14. /\ EnvOK(B) /\ Len(B) = Len(E) /\ DOMAIN B = DOMAIN E
         /\ \A d \in DOMAIN E : DOMAIN B[d] = DOMAIN E[d]
    BY <2>11
  <2>. QED
    BY ONLY <1>1, <1>2, <1>3, <2>12, <2>13, <2>14 DEF E, c, B
<1>. QED
  BY <1>5, <1>6

(* New cells that open nothing x stands in, and neither spawn nor join      *)
(* where x stands, change nothing for x.                                    *)
LEMMA SitsMono ==
  ASSUME NEW C, NEW D, NEW x, Sits(x, C),
         \A c \in C : c.ins.op \in Opens \cup {"spawn"} => c \in D,
         \A c \in D \ C : c.ins.op \in Opens =>
            \A d \in DOMAIN x.path : x.path[d].block # c.ins.block
  PROVE  Sits(x, D)
<1>1. Placed(x, D)
  BY DEF Sits, Placed
<1>2. ASSUME NEW h \in D PROVE Inside(x, h)
  <2>1. CASE h \in C
    BY <2>1 DEF Sits
  <2>2. CASE h \notin C
    BY <2>2 DEF Inside
  <2>. QED
    BY <2>1, <2>2
<1>. QED
  BY <1>1, <1>2 DEF Sits

(* New cells elsewhere leave the tasks of a scope accounted for.            *)
LEMMA AccountedMono ==
  ASSUME NEW C, NEW D, NEW x, NEW d, Accounted(x, C, d),
         \A c \in D \ C : c.ins.op \in {"spawn", "join"} => ~At1(c, x.path[d])
  PROVE  Accounted(x, D, d)
BY DEF Accounted

(* A note that stands among some cells stands among more, when the new ones *)
(* neither open one of its blocks nor spawn or join in one.                 *)
LEMMA StandMono ==
  ASSUME NEW C, NEW D, NEW x, Stand(x, C),
         \A c \in C : c.ins.op \in Opens \cup {"spawn"} => c \in D,
         \A c \in D \ C : c.ins.op \in Opens =>
            \A d \in DOMAIN x.path : x.path[d].block # c.ins.block,
         \A c \in D \ C : c.ins.op \in {"spawn", "join"} =>
            \A d \in DOMAIN x.path : ~At1(c, x.path[d])
  PROVE  Stand(x, D)
<1>1. Sits(x, D)
  BY SitsMono DEF Stand
<1>2. ASSUME x.live, x.extra = {}, NEW d \in DOMAIN x.path PROVE Accounted(x, D, d)
  BY <1>2, AccountedMono DEF Stand
<1>. QED
  BY <1>1, <1>2 DEF Stand

(* How an instruction changes what the pass knows: nothing is dropped below *)
(* but what is moved, tasks stay, and no view appears.                      *)
Moves(E, F) ==
  /\ Len(F) = Len(E)
  /\ \A d \in DOMAIN E : d # Len(E) =>
       /\ DOMAIN F[d] = DOMAIN E[d]
       /\ \A n \in DOMAIN E[d] :
            /\ F[d][n] = [E[d][n] EXCEPT !.moved = F[d][n].moved]
            /\ E[d][n].ty = "task" \/ E[d][n].moved_field => F[d][n] = E[d][n]
  /\ \A n \in DOMAIN E[Len(E)] :
       /\ n \in DOMAIN F[Len(E)]
       /\ E[Len(E)][n].ty = "task" => /\ F[Len(E)][n].ty = "task"
                                      /\ E[Len(E)][n].moved => F[Len(E)][n].moved
  /\ \A d \in DOMAIN E : \A n \in DOMAIN F[d] : F[d][n].no_drop => n \in DOMAIN E[d] /\ E[d][n].no_drop

(* A note after an instruction sits where the note before it did.           *)
LEMMA SitsStep ==
  ASSUME NEW C, NEW D, NEW x, NEW y,
         NoteOK(x), x.live, x.extra = {}, NoteOK(y), y.live, y.extra = {}, y.path = x.path,
         \A h \in C : CellOK(h),
         Sits(x, C), Moves(x.env, y.env), C \subseteq D,
         \A h \in C : h.ins.op = "for" => \A e \in DOMAIN x.path : x.path[e].block = h.ins.block =>
           \A d \in DOMAIN h.a.env : h.ins.coll \in DOMAIN h.a.env[d] =>
             y.env[d][h.ins.coll].moved = x.env[d][h.ins.coll].moved,
         \A d \in DOMAIN y.env : \A n \in DOMAIN y.env[d] : y.env[d][n].ty = "task" =>
           \/ n \in DOMAIN x.env[d] /\ x.env[d][n].ty = "task"
           \/ \E s \in D : s.ins.op = "spawn" /\ s.ins.n = n /\ At1(s, x.path[d]),
         \A c \in D \ C : c.ins.op \notin Opens
  PROVE  Sits(y, D)
<1>. DEFINE E == x.env
            F == y.env
            p == x.path
            top == Len(x.env)
<1>0. /\ top \in Nat \ {0} /\ DOMAIN E = 1 .. top /\ DOMAIN F = 1 .. top /\ DOMAIN p = 1 .. top /\ Len(F) = top
      /\ DOMAIN y.path = 1 .. top
  <2>1. Len(F) = top
    BY DEF Moves
  <2>2. top \in Nat \ {0} /\ DOMAIN E = 1 .. top /\ DOMAIN p = 1 .. top
    BY PathIs
  <2>3. DOMAIN F = 1 .. Len(F)
    BY PathIs
  <2>. QED
    BY <2>1, <2>2, <2>3
<1>1. Placed(y, D)
  <2>1. \A d \in DOMAIN p : d > 1 => \E h \in D : h.ins.op \in Opens /\ h.ins.block = p[d].block
    BY DEF Sits, Placed
  <2>2. \A n \in DOMAIN F[1] : ~F[1][n].no_drop
    BY <1>0 DEF Sits, Placed, Moves
  <2>3. ASSUME NEW d \in DOMAIN F, NEW n \in DOMAIN F[d], F[d][n].ty = "task"
        PROVE  \E s \in D : s.ins.op = "spawn" /\ s.ins.n = n /\ At1(s, p[d])
    <3>1. CASE n \in DOMAIN E[d] /\ E[d][n].ty = "task"
      BY <1>0, <3>1 DEF Sits, Placed
    <3>. QED
      BY <2>3, <3>1
  <2>. QED
    BY <2>1, <2>2, <2>3 DEF Placed
<1>2. ASSUME NEW h \in D, h.ins.op \in Opens, NEW e \in DOMAIN p, p[e].block = h.ins.block
      PROVE  InBody(y, h, e)
  <2>1. h \in C
    BY <1>2
  <2>2. InBody(x, h, e)
    BY <1>2, <2>1 DEF Sits, Inside
  <2>3. /\ DOMAIN h.a.env = 1 .. e - 1 /\ DOMAIN Base(h) = 1 .. e - 1
    <3>1. Len(h.a.path) = e - 1
      BY <2>2 DEF InBody
    <3>2. EnvOK(h.a.env) /\ Len(h.a.path) = Len(h.a.env) /\ DOMAIN Base(h) = DOMAIN h.a.env
      BY <1>2, <2>1, BaseIs
    <3>. QED
      BY <3>1, <3>2, EnvIs
  <2>4. Since(Base(h), F)
    <3>. SUFFICES ASSUME NEW d \in DOMAIN Base(h)
                  PROVE  /\ DOMAIN Base(h)[d] = DOMAIN F[d]
                         /\ \A n \in DOMAIN Base(h)[d] :
                              /\ F[d][n] = [Base(h)[d][n] EXCEPT !.moved = F[d][n].moved]
                              /\ Base(h)[d][n].ty = "task" \/ Base(h)[d][n].moved_field => F[d][n] = Base(h)[d][n]
      BY DEF Since
    <3>1. d \in DOMAIN E /\ d # top
      BY <1>0, <1>2, <2>3
    <3>2. /\ DOMAIN Base(h)[d] = DOMAIN E[d]
          /\ \A n \in DOMAIN Base(h)[d] :
                              /\ E[d][n] = [Base(h)[d][n] EXCEPT !.moved = E[d][n].moved]
                              /\ Base(h)[d][n].ty = "task" \/ Base(h)[d][n].moved_field => E[d][n] = Base(h)[d][n]
      BY <2>2 DEF InBody, Since
    <3>3. DOMAIN F[d] = DOMAIN E[d]
      BY <3>1 DEF Moves
    <3>4. ASSUME NEW n \in DOMAIN Base(h)[d]
          PROVE /\ F[d][n] = [Base(h)[d][n] EXCEPT !.moved = F[d][n].moved]
                /\ Base(h)[d][n].ty = "task" \/ Base(h)[d][n].moved_field => F[d][n] = Base(h)[d][n]
      <4>. DEFINE b == Base(h)[d][n]
                  u == E[d][n]
                  v == F[d][n]
      <4>1. u = [b EXCEPT !.moved = u.moved] /\ (b.ty = "task" \/ b.moved_field => u = b)
        BY <3>2
      <4>2. v = [u EXCEPT !.moved = v.moved] /\ (u.ty = "task" \/ u.moved_field => v = u)
        BY <3>1, <3>2, ZenonT(60) DEF Moves
      <4>. HIDE DEF b, u, v
      <4>3. v = [b EXCEPT !.moved = v.moved] /\ (b.ty = "task" \/ b.moved_field => v = b)
        BY ONLY <4>1, <4>2
      <4>. QED
        BY <4>3 DEF b, v
    <3>. QED
      BY <3>2, <3>3, <3>4
  <2>5. h.ins.op = "for" => \A d \in DOMAIN h.a.env : h.ins.coll \in DOMAIN h.a.env[d] =>
                            F[d][h.ins.coll].moved = h.ins.own
    BY <1>2, <2>1, <2>2 DEF InBody
  <2>6. \A n \in DOMAIN F[e] : F[e][n].no_drop => h.ins.op = "for" /\ h.ins.n = n
    BY <1>0, <1>2, <2>2 DEF InBody, Moves
  <2>. QED
    BY <2>2, <2>4, <2>5, <2>6 DEF InBody
<1>. QED
  BY <1>1, <1>2 DEF Sits, Inside

(* The tasks of a scope stay accounted for over an instruction that writes  *)
(* what it changes.                                                         *)
LEMMA AccountedStep ==
  ASSUME NEW C, NEW D, NEW x, NEW y, NoteOK(x), x.live, NoteOK(y), y.live, y.path = x.path,
         Moves(x.env, y.env), NEW d \in DOMAIN x.path, Accounted(x, C, d),
         \A c \in D \ C : c.ins.op \in {"spawn", "join"} /\ At1(c, x.path[d]) =>
              /\ c.ins.n \in DOMAIN y.env[d]
              /\ c.ins.op = "join" => y.env[d][c.ins.n].ty = "task" /\ y.env[d][c.ins.n].moved
  PROVE  Accounted(y, D, d)
<1>. DEFINE E == x.env
            F == y.env
            p == x.path
            top == Len(x.env)
<1>0. /\ top \in Nat \ {0} /\ DOMAIN E = 1 .. top /\ DOMAIN F = 1 .. top /\ DOMAIN p = 1 .. top /\ Len(F) = top
      /\ DOMAIN y.path = 1 .. top
  <2>1. Len(F) = top
    BY DEF Moves
  <2>2. top \in Nat \ {0} /\ DOMAIN E = 1 .. top /\ DOMAIN p = 1 .. top
    BY PathIs
  <2>3. DOMAIN F = 1 .. Len(F)
    BY PathIs
  <2>. QED
    BY <2>1, <2>2, <2>3
<1>. SUFFICES ASSUME NEW c \in D, c.ins.op \in {"spawn", "join"}, At1(c, p[d])
              PROVE  /\ c.ins.n \in DOMAIN F[d]
                     /\ c.ins.op = "join" => F[d][c.ins.n].ty = "task" /\ F[d][c.ins.n].moved
  BY DEF Accounted
<1>1. CASE c \in C
  <2>1. /\ c.ins.n \in DOMAIN E[d]
        /\ c.ins.op = "join" => E[d][c.ins.n].ty = "task" /\ E[d][c.ins.n].moved
    BY <1>1 DEF Accounted
  <2>2. CASE d = top
    BY <2>1, <2>2 DEF Moves
  <2>3. CASE d # top
    <3>. DEFINE u == E[d][c.ins.n]
                v == F[d][c.ins.n]
    <3>1. /\ c.ins.n \in DOMAIN F[d]
          /\ u.ty = "task" => v = u
      <4>1. d \in DOMAIN E /\ d # Len(E) /\ c.ins.n \in DOMAIN E[d]
        BY <1>0, <2>1, <2>3
      <4>2. Moves(E, F)
        OBVIOUS
      <4>. HIDE DEF E, F
      <4>. QED
        BY <4>1, <4>2 DEF Moves
    <3>. HIDE DEF u, v
    <3>2. c.ins.op = "join" => u.ty = "task" /\ u.moved
      BY <2>1 DEF u
    <3>3. c.ins.op = "join" => v.ty = "task" /\ v.moved
      BY <3>1, <3>2
    <3>. QED
      BY <3>1, <3>3 DEF v
  <2>. QED
    BY <2>2, <2>3
<1>2. CASE c \notin C
  BY <1>2
<1>. QED
  BY <1>1, <1>2

(* So a note after an instruction stands where the note before it did.      *)
LEMMA StandStep ==
  ASSUME NEW C, NEW D, NEW x, NEW y,
         NoteOK(x), x.live, x.extra = {}, NoteOK(y), y.live, y.extra = {}, y.path = x.path,
         \A h \in C : CellOK(h),
         Stand(x, C), Moves(x.env, y.env), C \subseteq D,
         \A h \in C : h.ins.op = "for" => \A e \in DOMAIN x.path : x.path[e].block = h.ins.block =>
           \A d \in DOMAIN h.a.env : h.ins.coll \in DOMAIN h.a.env[d] =>
             y.env[d][h.ins.coll].moved = x.env[d][h.ins.coll].moved,
         \A d \in DOMAIN y.env : \A n \in DOMAIN y.env[d] : y.env[d][n].ty = "task" =>
           \/ n \in DOMAIN x.env[d] /\ x.env[d][n].ty = "task"
           \/ \E s \in D : s.ins.op = "spawn" /\ s.ins.n = n /\ At1(s, x.path[d]),
         \A c \in D \ C : c.ins.op \notin Opens,
         \A c \in D \ C : c.ins.op \in {"spawn", "join"} =>
            \A d \in DOMAIN x.path : At1(c, x.path[d]) =>
              /\ c.ins.n \in DOMAIN y.env[d]
              /\ c.ins.op = "join" => y.env[d][c.ins.n].ty = "task" /\ y.env[d][c.ins.n].moved
  PROVE  Stand(y, D)
<1>1. Sits(y, D)
  BY SitsStep DEF Stand
<1>2. ASSUME NEW d \in DOMAIN x.path PROVE Accounted(y, D, d)
  BY AccountedStep DEF Stand
<1>. QED
  BY <1>1, <1>2 DEF Stand

(* The scopes outside the innermost ones.                                   *)
LEMMA PopStand ==
  ASSUME NEW C, NEW x, NoteOK(x), x.live, x.extra = {}, Stand(x, C), \A h \in C : CellOK(h),
         NEW m \in Nat \ {0}, m <= Len(x.env), NEW F, NEW q,
         DOMAIN F = 1 .. m, DOMAIN q = 1 .. m,
         \A d \in 1 .. m : F[d] = x.env[d] /\ q[d] = x.path[d]
  PROVE  Stand(Note(F, q), C)
<1>. DEFINE y == Note(F, q)
<1>0. /\ DOMAIN x.env = 1 .. Len(x.env) /\ DOMAIN x.path = 1 .. Len(x.env) /\ Len(x.env) \in Nat
      /\ y.live /\ y.env = F /\ y.path = q /\ y.extra = {}
  <2>1. /\ DOMAIN x.env = 1 .. Len(x.env) /\ DOMAIN x.path = 1 .. Len(x.env) /\ Len(x.env) \in Nat
    BY PathIs
  <2>. QED
    BY <2>1 DEF Note
<1>. HIDE DEF y
<1>1. Placed(y, C)
  BY <1>0 DEF Stand, Sits, Placed
<1>2. ASSUME NEW h \in C, h.ins.op \in Opens, NEW e \in DOMAIN q, q[e].block = h.ins.block
      PROVE  InBody(y, h, e)
  <2>2. InBody(x, h, e)
    BY <1>0, <1>2 DEF Stand, Sits, Inside
  <2>3. /\ DOMAIN h.a.env = 1 .. e - 1 /\ DOMAIN Base(h) = 1 .. e - 1 /\ DOMAIN h.a.path = 1 .. e - 1
    <3>1. Len(h.a.path) = e - 1
      BY <2>2 DEF InBody
    <3>2. EnvOK(h.a.env) /\ Len(h.a.path) = Len(h.a.env) /\ DOMAIN Base(h) = DOMAIN h.a.env /\ DOMAIN h.a.path = DOMAIN h.a.env
      BY <1>2, BaseIs
    <3>. QED
      BY <3>1, <3>2, EnvIs
  <2>4. Since(Base(h), F)
    BY <1>2, <2>2, <2>3 DEF InBody, Since
  <2>. QED
    BY <1>0, <1>2, <2>2, <2>3, <2>4 DEF InBody
<1>3. ASSUME NEW d \in DOMAIN q PROVE Accounted(y, C, d)
  BY <1>0, <1>3 DEF Stand, Accounted
<1>. QED
  BY <1>0, <1>1, <1>2, <1>3 DEF Stand, Sits, Inside, y

(* The first scope of a body.                                               *)
LEMMA PushStand ==
  ASSUME NEW C, \A c \in C : CellOK(c), OneOpen(C),
         NEW h \in C, h.ins.op \in Opens, NEW kind, Kind(h.ins, kind),
         Stand(Note(Base(h), h.a.path), C),
         \A d \in DOMAIN h.a.path : h.a.path[d].block # h.ins.block,
         \A c \in C : c.ins.op \in {"spawn", "join"} => ~At1(c, [block |-> h.ins.block, kind |-> kind]),
         NEW s, \A n \in DOMAIN s : /\ s[n].ty # "task"
                                    /\ s[n].no_drop => h.ins.op = "for" /\ h.ins.n = n
  PROVE  Stand(Pushed(h, kind, s), C)
<1>. DEFINE B == Base(h)
            p == h.a.path
            pl == [block |-> h.ins.block, kind |-> kind]
            x == Note(B, p)
            y == Pushed(h, kind, s)
            top == Len(B) + 1
<1>0. /\ EnvOK(B) /\ Len(B) \in Nat /\ DOMAIN B = 1 .. Len(B) /\ DOMAIN p = 1 .. Len(B) /\ Len(p) = Len(B)
      /\ p \in Seq(Places) /\ B \in Seq(Scope) /\ Len(B) > 0
  <2>1. NoteOK(h.a) /\ h.a.live /\ EnvOK(B) /\ DOMAIN B = DOMAIN h.a.env /\ DOMAIN p = DOMAIN h.a.env /\ Len(B) = Len(h.a.env)
    BY BaseIs
  <2>. QED
    BY <2>1, EnvIs DEF NoteOK, EnvOK
<1>1. /\ y.live /\ y.extra = {} /\ y.env = Append(B, s) /\ y.path = Append(p, pl)
      /\ x.live /\ x.extra = {} /\ x.env = B /\ x.path = p
  <2>1. y = Note(Append(B, s), Append(p, pl))
    BY DEF Pushed
  <2>. HIDE DEF y, B, p, pl
  <2>. QED
    BY <2>1 DEF Note
<1>2. /\ DOMAIN y.env = 1 .. top /\ DOMAIN y.path = 1 .. top
      /\ \A d \in 1 .. Len(B) : y.env[d] = B[d] /\ y.path[d] = p[d]
      /\ y.env[top] = s /\ y.path[top] = pl
  BY <1>0, <1>1
<1>. HIDE DEF y
<1>. USE DEF pl
<1>3. Placed(y, C)
  <2>1. \A d \in DOMAIN y.path : d > 1 =>
         \E k \in C : k.ins.op \in Opens /\ k.ins.block = y.path[d].block
    <3>. TAKE d \in DOMAIN y.path
    <3>1. CASE d \in 1 .. Len(B)
      BY <1>0, <1>1, <1>2, <3>1 DEF Stand, Sits, Placed
    <3>2. CASE d = top
      BY <1>2, <3>2
    <3>. QED
      BY <1>0, <1>2, <3>1, <3>2
  <2>2. \A n \in DOMAIN y.env[1] : ~y.env[1][n].no_drop
    BY <1>0, <1>1, <1>2 DEF Stand, Sits, Placed
  <2>3. ASSUME NEW d \in DOMAIN y.env, NEW n \in DOMAIN y.env[d], y.env[d][n].ty = "task"
        PROVE  \E t \in C : t.ins.op = "spawn" /\ t.ins.n = n /\ At1(t, y.path[d])
    <3>1. d # top
      BY <1>2, <2>3
    <3>2. d \in 1 .. Len(B)
      BY <1>0, <1>2, <3>1
    <3>. QED
      BY <1>0, <1>1, <1>2, <2>3, <3>2 DEF Stand, Sits, Placed
  <2>. QED
    BY <2>1, <2>2, <2>3 DEF Placed
<1>4. ASSUME NEW k \in C, k.ins.op \in Opens, NEW e \in DOMAIN y.path, y.path[e].block = k.ins.block
      PROVE  InBody(y, k, e)
  <2>1. CASE e = top
    <3>1. k = h
      BY <1>2, <1>4, <2>1 DEF OneOpen
    <3>2. Since(B, y.env)
      <4>1. \A d \in DOMAIN B : \A n \in DOMAIN B[d] : [B[d][n] EXCEPT !.moved = B[d][n].moved] = B[d][n]
        BY <1>0, SameInfo
      <4>. QED
        BY <1>0, <1>2, <4>1 DEF Since
    <3>3. h.ins.op = "for" => \A d \in DOMAIN h.a.env : h.ins.coll \in DOMAIN h.a.env[d] =>
                                 y.env[d][h.ins.coll].moved = h.ins.own
      <4>1. DOMAIN h.a.env = 1 .. Len(B)
        BY <1>0, BaseIs
      <4>2. h.ins.op = "for" => \A d \in DOMAIN h.a.env : h.ins.coll \in DOMAIN h.a.env[d] =>
                                 B[d][h.ins.coll].moved = h.ins.own
        BY BaseIs
      <4>. HIDE DEF B
      <4>. QED
        BY <1>2, <4>1, <4>2
    <3>. QED
      BY <1>0, <1>2, <2>1, <3>1, <3>2, <3>3 DEF InBody
  <2>2. CASE e \in 1 .. Len(B)
    <3>2. InBody(x, k, e)
      BY <1>0, <1>1, <1>2, <1>4, <2>2 DEF Stand, Sits, Inside
    <3>3. /\ DOMAIN k.a.env = 1 .. e - 1 /\ DOMAIN Base(k) = 1 .. e - 1 /\ DOMAIN k.a.path = 1 .. e - 1
      <4>1. Len(k.a.path) = e - 1
        BY <3>2 DEF InBody
      <4>2. EnvOK(k.a.env) /\ Len(k.a.path) = Len(k.a.env) /\ DOMAIN Base(k) = DOMAIN k.a.env /\ DOMAIN k.a.path = DOMAIN k.a.env
        BY <1>4, BaseIs
      <4>. QED
        BY <4>1, <4>2, EnvIs
    <3>4. \A d \in 1 .. e - 1 : d \in 1 .. Len(B)
      BY <1>0, <2>2
    <3>5. Since(Base(k), y.env)
      BY <1>1, <1>2, <3>2, <3>3, <3>4 DEF InBody, Since
    <3>. HIDE DEF B, p, x, top, pl
    <3>. QED
      BY <1>1, <1>2, <2>2, <3>2, <3>3, <3>4, <3>5 DEF InBody
  <2>. QED
    BY <1>0, <1>2, <2>1, <2>2
<1>5. ASSUME NEW d \in DOMAIN y.path PROVE Accounted(y, C, d)
  <2>1. CASE d = top
    BY <1>2, <2>1 DEF Accounted
  <2>2. CASE d \in 1 .. Len(B)
    BY <1>0, <1>1, <1>2, <2>2 DEF Stand, Accounted
  <2>. QED
    BY <1>0, <1>2, <1>5, <2>1, <2>2
<1>. QED
  BY <1>1, <1>3, <1>4, <1>5 DEF Stand, Sits, Inside, y

-----------------------------------------------------------------------------
(* Sequences, and the path of the open statements                           *)

(* A sequence has its elements at 1 .. Len.                                 *)
LEMMA SeqIs ==
  ASSUME NEW s, IsSeq(s)
  PROVE  /\ s \in Seq({s[i] : i \in 1 .. Len(s)}) /\ DOMAIN s = 1 .. Len(s) /\ Len(s) \in Nat
BY DEF IsSeq

(* A member of Seq is a sequence.                                           *)
LEMMA SeqIsSeq ==
  ASSUME NEW S, NEW s \in Seq(S)
  PROVE  IsSeq(s)
<1>1. s \in [1 .. Len(s) -> S] /\ Len(s) \in Nat
  BY ElementOfSeq, LenProperties
<1>. QED
  BY <1>1 DEF IsSeq

(* A sequence and one element more.                                         *)
LEMMA SeqAppend ==
  ASSUME NEW s, IsSeq(s), NEW x
  PROVE  LET t == Append(s, x) IN
         /\ IsSeq(t) /\ Len(t) = Len(s) + 1 /\ DOMAIN t = 1 .. Len(s) + 1
         /\ \A i \in 1 .. Len(s) : t[i] = s[i]
         /\ t[Len(s) + 1] = x
<1>1. PICK S : s \in Seq(S)
  BY SeqIs
<1>2. s \in Seq(S \cup {x}) /\ x \in S \cup {x}
  BY <1>1
<1>3. /\ Append(s, x) \in Seq(S \cup {x}) /\ Len(Append(s, x)) = Len(s) + 1
      /\ \A i \in 1 .. Len(s) : Append(s, x)[i] = s[i]
      /\ Append(s, x)[Len(s) + 1] = x
  BY <1>2
<1>4. IsSeq(Append(s, x))
  BY <1>3, SeqIsSeq
<1>5. DOMAIN Append(s, x) = 1 .. Len(s) + 1
  BY <1>3, <1>4, SeqIs
<1>. QED
  BY <1>3, <1>4, <1>5

(* A sequence without its last element.                                     *)
LEMMA SeqFront ==
  ASSUME NEW s, IsSeq(s), s # << >>
  PROVE  LET t == Front(s) IN
         /\ Len(s) \in Nat \ {0} /\ Last(s) = s[Len(s)] /\ Len(s) \in DOMAIN s
         /\ IsSeq(t) /\ Len(t) = Len(s) - 1 /\ DOMAIN t = 1 .. Len(s) - 1
         /\ \A i \in 1 .. Len(s) - 1 : t[i] = s[i]
<1>1. PICK S : s \in Seq(S)
  BY SeqIs
<1>2. /\ Front(s) \in Seq(S) /\ Len(Front(s)) = Len(s) - 1 /\ Len(s) \in Nat \ {0}
      /\ \A i \in 1 .. Len(s) - 1 : Front(s)[i] = s[i]
  <2>1. Len(s) \in Nat \ {0}
    BY <1>1
  <2>2. 1 \in 1 .. Len(s) + 1 /\ Len(s) - 1 \in 0 .. Len(s) /\ Len(s) - 1 \in (1 - 1) .. Len(s)
    BY <2>1
  <2>3. Front(s) = SubSeq(s, 1, Len(s) - 1)
    BY DEF Front
  <2>4. /\ SubSeq(s, 1, Len(s) - 1) \in Seq(S)
        /\ Len(SubSeq(s, 1, Len(s) - 1)) = Len(s) - 1
        /\ \A i \in 1 .. Len(s) - 1 : SubSeq(s, 1, Len(s) - 1)[i] = s[i]
    <3>1. \A i \in 1 .. Len(s) - 1 : s[i] \in S
      BY <1>1, <2>1
    <3>2. 1 \in Int /\ Len(s) - 1 \in Int
      BY <2>1
    <3>. DEFINE t == SubSeq(s, 1, Len(s) - 1)
    <3>3. /\ t \in Seq(S)
          /\ Len(t) = IF 1 <= Len(s) - 1 THEN Len(s) - 1 - 1 + 1 ELSE 0
          /\ \A i \in 1 .. Len(s) - 1 - 1 + 1 : t[i] = s[1 + i - 1]
      BY <3>1, <3>2, SubSeqProperties
    <3>4. Len(s) - 1 - 1 + 1 = Len(s) - 1 /\ \A i \in 1 .. Len(s) - 1 : 1 + i - 1 = i
      BY <2>1
    <3>. HIDE DEF t
    <3>5. Len(t) = Len(s) - 1
      <4>1. CASE Len(s) = 1
        BY <3>3, <4>1
      <4>2. CASE Len(s) # 1
        <5>1. 1 <= Len(s) - 1
          <6>. DEFINE n == Len(s)
          <6>1. n \in Nat \ {0} /\ n # 1
            BY <2>1, <4>2
          <6>. HIDE DEF n
          <6>2. 1 <= n - 1
            BY ONLY <6>1
          <6>. QED
            BY <6>2 DEF n
        <5>2. Len(t) = Len(s) - 1 - 1 + 1
          BY <3>3, <5>1
        <5>. QED
          BY <3>4, <5>2
      <4>. QED
        BY <4>1, <4>2
    <3>6. \A i \in 1 .. Len(s) - 1 : t[i] = s[i]
      BY <3>3, <3>4
    <3>. QED
      BY <3>3, <3>5, <3>6 DEF t
  <2>. QED
    BY <2>1, <2>3, <2>4
<1>3. IsSeq(Front(s)) /\ DOMAIN Front(s) = 1 .. Len(Front(s)) /\ DOMAIN s = 1 .. Len(s)
  BY <1>1, <1>2, SeqIsSeq
<1>. QED
  BY <1>2, <1>3 DEF Last

(* The path of the open statements.                                         *)
LEMMA PathOfIs ==
  ASSUME NEW o, IsSeq(o)
  PROVE  /\ Len(o) \in Nat /\ DOMAIN o = 1 .. Len(o)
         /\ PathOf(o) \in [1 .. Len(o) + 1 -> {PathOf(o)[d] : d \in 1 .. Len(o) + 1}]
         /\ DOMAIN PathOf(o) = 1 .. Len(o) + 1 /\ Len(PathOf(o)) = Len(o) + 1 /\ IsSeq(PathOf(o))
         /\ PathOf(o)[1] = Body
         /\ \A m \in 1 .. Len(o) : PathOf(o)[m + 1] = [block |-> o[m].block, kind |-> o[m].kind]
         /\ \A m \in 1 .. Len(o) + 1 :
              /\ DOMAIN Until(PathOf(o), m) = 1 .. m /\ IsSeq(Until(PathOf(o), m)) /\ Len(Until(PathOf(o), m)) = m
              /\ \A d \in 1 .. m : Until(PathOf(o), m)[d] = PathOf(o)[d]
         /\ Until(PathOf(o), Len(o) + 1) = PathOf(o)
<1>1. Len(o) \in Nat /\ DOMAIN o = 1 .. Len(o)
  BY SeqIs
<1>2. /\ DOMAIN PathOf(o) = 1 .. Len(o) + 1 /\ PathOf(o)[1] = Body
      /\ PathOf(o) = [d \in 1 .. Len(o) + 1 |-> PathOf(o)[d]]
      /\ \A m \in 1 .. Len(o) : PathOf(o)[m + 1] = [block |-> o[m].block, kind |-> o[m].kind]
  BY <1>1 DEF PathOf
<1>. DEFINE P == PathOf(o)
<1>. HIDE DEF P
<1>3. Len(P) = Len(o) + 1 /\ IsSeq(P)
  BY <1>1, <1>2 DEF IsSeq, P
<1>4. \A m \in 1 .. Len(o) + 1 :
              /\ DOMAIN Until(P, m) = 1 .. m /\ IsSeq(Until(P, m)) /\ Len(Until(P, m)) = m
              /\ \A d \in 1 .. m : Until(P, m)[d] = P[d]
  BY <1>1 DEF Until, IsSeq
<1>5. Until(P, Len(o) + 1) = P
  BY <1>1, <1>2 DEF Until, P
<1>. QED
  BY <1>1, <1>2, <1>3, <1>4, <1>5 DEF P

(* The path when a statement is opened.                                     *)
LEMMA PathAppend ==
  ASSUME NEW o, IsSeq(o), NEW f
  PROVE  LET q == Append(o, f) IN
         /\ PathOf(q) = Append(PathOf(o), [block |-> f.block, kind |-> f.kind])
         /\ \A m \in 1 .. Len(o) + 1 : Until(PathOf(q), m) = Until(PathOf(o), m)
<1>. DEFINE q == Append(o, f)
            pl == [block |-> f.block, kind |-> f.kind]
<1>1. /\ IsSeq(q) /\ Len(q) = Len(o) + 1 /\ Len(o) \in Nat
      /\ \A i \in 1 .. Len(o) : q[i] = o[i]
      /\ q[Len(o) + 1] = f
  BY SeqAppend, SeqIs
<1>2. /\ IsSeq(PathOf(o)) /\ Len(PathOf(o)) = Len(o) + 1 /\ PathOf(o)[1] = Body
      /\ \A m \in 1 .. Len(o) : PathOf(o)[m + 1] = [block |-> o[m].block, kind |-> o[m].kind]
  BY PathOfIs
<1>. DEFINE P == PathOf(o)
            t == Append(P, pl)
<1>3. /\ IsSeq(t) /\ Len(t) = Len(o) + 2
      /\ \A i \in 1 .. Len(o) + 1 : t[i] = P[i]
      /\ t[Len(o) + 2] = pl
  <2>. HIDE DEF P, pl
  <2>1. /\ IsSeq(t) /\ Len(t) = Len(P) + 1
        /\ \A i \in 1 .. Len(P) : t[i] = P[i]
        /\ t[Len(P) + 1] = pl
    BY <1>2, SeqAppend DEF P
  <2>. QED
    BY <1>1, <1>2, <2>1 DEF P
<1>. HIDE DEF q, t
<1>4. /\ DOMAIN PathOf(q) = 1 .. Len(o) + 2 /\ PathOf(q)[1] = Body
      /\ PathOf(q) = [d \in 1 .. Len(o) + 2 |-> PathOf(q)[d]]
      /\ \A m \in 1 .. Len(o) + 1 : PathOf(q)[m + 1] = [block |-> q[m].block, kind |-> q[m].kind]
  <2>1. Len(q) + 1 = Len(o) + 2 /\ Len(q) = Len(o) + 1
    BY <1>1
  <2>. QED
    BY <1>1, <2>1 DEF PathOf
<1>5. ASSUME NEW d \in 1 .. Len(o) + 1 PROVE PathOf(q)[d] = P[d]
  <2>1. CASE d = 1
    BY <1>2, <1>4, <2>1
  <2>2. CASE d > 1
    <3>1. PICK i \in 1 .. Len(o) : i \in 1 .. Len(o) + 1 /\ i + 1 = d
      <4>1. d - 1 \in 1 .. Len(o) /\ d - 1 \in 1 .. Len(o) + 1 /\ (d - 1) + 1 = d
        BY <1>1, <2>2
      <4>. QED
        BY <4>1
    <3>2. PathOf(q)[i + 1] = [block |-> q[i].block, kind |-> q[i].kind]
      BY <1>4, <3>1
    <3>3. P[i + 1] = [block |-> o[i].block, kind |-> o[i].kind]
      BY <1>2
    <3>. QED
      BY <1>1, <3>1, <3>2, <3>3
  <2>. QED
    BY <1>1, <2>1, <2>2
<1>6. PathOf(q)[Len(o) + 2] = pl
  <2>1. Len(o) + 1 \in 1 .. Len(o) + 1 /\ (Len(o) + 1) + 1 = Len(o) + 2
    BY <1>1
  <2>. QED
    BY <1>1, <1>4, <2>1
<1>7. PathOf(q) = t
  <2>1. t = [d \in 1 .. Len(o) + 2 |-> t[d]]
    BY <1>3 DEF IsSeq
  <2>2. \A d \in 1 .. Len(o) + 2 : PathOf(q)[d] = t[d]
    BY <1>1, <1>3, <1>5, <1>6
  <2>. QED
    BY <1>4, <2>1, <2>2
<1>8. \A m \in 1 .. Len(o) + 1 : Until(PathOf(q), m) = Until(P, m)
  BY <1>1, <1>5 DEF Until
<1>. QED
  BY <1>7, <1>8 DEF t, q

(* The path when the innermost statement is closed.                         *)
LEMMA PathFront ==
  ASSUME NEW o, IsSeq(o), o # << >>
  PROVE  LET q == Front(o) IN
         /\ PathOf(q) = Until(PathOf(o), Len(o))
         /\ \A m \in 1 .. Len(o) : Until(PathOf(q), m) = Until(PathOf(o), m)
<1>. DEFINE q == Front(o)
<1>1. /\ IsSeq(q) /\ Len(q) = Len(o) - 1 /\ Len(o) \in Nat \ {0} /\ Len(q) + 1 = Len(o)
      /\ \A i \in 1 .. Len(o) - 1 : q[i] = o[i]
  BY SeqFront
<1>. HIDE DEF q
<1>2. PathOf(q) = [d \in 1 .. Len(o) |-> PathOf(o)[d]]
  BY <1>1 DEF PathOf
<1>. QED
  BY <1>1, <1>2 DEF Until, q

-----------------------------------------------------------------------------
(* More cells                                                               *)

(* Cells that fit stay so when others are written that leave their blocks   *)
(* alone.                                                                   *)
LEMMA TypedMono ==
  ASSUME NEW C, NEW D, Typed(C),
         \A c \in C : c.ins.op \in Opens \cup {"spawn"} => c \in D,
         \A c \in D \ C : c.ins.op \in Opens => c.ins.block # 0 /\ ~HasOpen(C, c.ins.block),
         \A c \in D \ C : c.ins.op \in {"spawn", "join"} =>
           \A e \in C : e.ins.op \in Closers /\ e.a.live => ~At1(c, e.a.path[Len(e.a.path)]),
         \A c \in D \ C : Fit(c, D),
         \A c \in D \ C : \A e \in C \cap D : MergeOK(c, e)
  PROVE  Typed(D)
<1>. SUFFICES ASSUME NEW e \in C, e \in D PROVE Fit(e, D)
  BY DEF Typed
<1>1. Fit(e, C)
  BY DEF Typed
<1>2. CellOK(e) /\ NoteOK(e.a)
  BY <1>1 DEF Fit, CellOK
<1>3. Sits(e.a, D)
  <2>1. CASE ~e.a.live
    BY <2>1 DEF Sits, Placed, Inside
  <2>2. CASE e.a.live
    <3>0. e.a.path[1] = Body /\ Body.block = 0 /\ DOMAIN e.a.path = 1 .. Len(e.a.env) /\ Len(e.a.env) \in Nat
      BY <1>2, <2>2, PathIs DEF Body
    <3>1. ASSUME NEW c \in D \ C, c.ins.op \in Opens, NEW d \in DOMAIN e.a.path
          PROVE  e.a.path[d].block # c.ins.block
      <4>1. CASE d = 1
        BY <3>0, <3>1, <4>1
      <4>2. CASE d # 1
        <5>1. d > 1
          BY <3>0, <4>2
        <5>2. HasOpen(C, e.a.path[d].block)
          BY <1>1, <2>2, <5>1 DEF Fit, Sits, Placed, HasOpen
        <5>. QED
          BY <3>1, <5>2
      <4>. QED
        BY <4>1, <4>2
    <3>. QED
      BY <1>1, <3>1, SitsMono DEF Fit
  <2>. QED
    BY <2>1, <2>2
<1>4. e.ins.op \in Closers /\ e.a.live => Accounted(e.a, D, Len(e.a.path))
  BY <1>1, AccountedMono DEF Fit
<1>5. e.ins.op \in Ends => HasOpen(D, e.ins.block)
  BY <1>1 DEF Fit, HasOpen
<1>6. ASSUME NEW h \in D PROVE PairOK(h, e) /\ MergeOK(h, e)
  <2>1. CASE h \in C
    BY <1>1, <2>1 DEF Fit
  <2>2. CASE h \notin C
    <3>1. MergeOK(h, e)
      BY <2>2
    <3>2. PairOK(h, e)
      BY <1>1, <2>2 DEF PairOK, Fit
    <3>. QED
      BY <3>1, <3>2
  <2>. QED
    BY <2>1, <2>2
<1>. QED
  BY <1>2, <1>3, <1>4, <1>5, <1>6 DEF Fit

(* So does an open statement stay well walked.                              *)
LEMMA FrameMono ==
  ASSUME NEW C, NEW D, NEW f, NEW p, FrameOK(C, f, p),
         \A c \in C : c.ins.op \in Opens \cup {"spawn"} => c \in D,
         \A c \in C : c.ins.op = "else" /\ c.ins.block = f.block => c \in D,
         \A c \in D \ C : c.ins.op \in Opens => \A d \in DOMAIN p : p[d].block # c.ins.block,
         \A c \in D \ C : c.ins.op \in {"spawn", "join"} => \A d \in DOMAIN p : ~At1(c, p[d]),
         \A c \in D \ C : c.ins.op \in {"spawn", "join"} /\ f.kind = "then" => ~At1(c, [block |-> f.block, kind |-> "else"]),
         \A c \in D \ C : c.ins.op \in Closers => c.ins.block # f.block
  PROVE  FrameOK(D, f, p)
<1>1. \A E : Stand(Note(E, p), C) => Stand(Note(E, p), D)
  <2>1. \A E : Note(E, p).path = p
    BY DEF Note
  <2>. QED
    BY <2>1, StandMono
<1>2. \E h \in D : Heads(f, p, h)
  BY DEF FrameOK, Heads
<1>3. \A op \in Closers : HasMark(D, op, f.block) => HasMark(C, op, f.block)
  BY DEF HasMark
<1>4. f.kind = "then" => ThenOK(D, f)
  BY <1>3 DEF FrameOK, ThenOK, Closers
<1>5. f.kind = "else" => InElseOK(D, f, p)
  <2>. HAVE f.kind = "else"
  <2>1. HasMark(D, "else", f.block) /\ ~HasMark(D, "endif", f.block)
    BY <1>3 DEF FrameOK, InElseOK, Closers, HasMark
  <2>2. \A e \in D : e.ins.op = "else" /\ e.ins.block = f.block => e \in C
    BY DEF Closers
  <2>. QED
    BY <1>1, <2>1, <2>2 DEF FrameOK, InElseOK
<1>6. f.kind \notin {"then", "else"} => ~HasMark(D, "endloop", f.block) /\ f.depth = Len(p) + 1
  BY <1>3 DEF FrameOK, Closers
<1>. QED
  BY <1>1, <1>2, <1>4, <1>5, <1>6 DEF FrameOK

-----------------------------------------------------------------------------
(* States of the pass                                                       *)

(* A note at the path around the body of a frame.                           *)
LEMMA FrameNote ==
  ASSUME NEW C, Typed(C), NEW f, NEW p, FrameOK(C, f, p), NEW F, EnvOK(F), Len(F) = Len(p)
  PROVE  NoteOK(Note(F, p))
<1>1. PICK h \in C : Heads(f, p, h)
  BY DEF FrameOK
<1>2. NoteOK(h.a) /\ h.a.live /\ h.a.path = p
  <2>1. CellOK(h) /\ h.ins.op \in Opens
    BY <1>1 DEF Typed, Fit, Heads
  <2>. QED
    BY <1>1, <2>1, BaseIs DEF Heads
<1>3. /\ p \in Seq(Places) /\ p[1] = Body
      /\ \A d, e \in DOMAIN p : p[d].block = p[e].block => d = e
  BY <1>2 DEF NoteOK
<1>. QED
  BY <1>3 DEF NoteOK, Note, WithExtra

(* The frames of a state, and their blocks.                                 *)
LEMMA FramesAre ==
  ASSUME NEW C, NEW x, NEW o, State(C, x, o)
  PROVE  /\ \A c \in C : Fit(c, C) /\ CellOK(c)
         /\ IsSeq(o) /\ Len(o) \in Nat /\ DOMAIN o = 1 .. Len(o)
         /\ \A m \in DOMAIN o : /\ o[m].block \in Nat \ {0} /\ HasOpen(C, o[m].block)
                                /\ EnvOK(o[m].pre) /\ Len(o[m].pre) = m
         /\ \A d \in DOMAIN PathOf(o) : d > 1 => PathOf(o)[d].block # 0 /\ HasOpen(C, PathOf(o)[d].block)
         /\ \A d, e \in DOMAIN PathOf(o) : PathOf(o)[d].block = PathOf(o)[e].block => d = e
<1>1. IsSeq(o) /\ Len(o) \in Nat /\ DOMAIN o = 1 .. Len(o) /\ \A c \in C : Fit(c, C) /\ CellOK(c)
  BY SeqIs DEF State, Typed, Fit
<1>2. \A m \in DOMAIN o : /\ o[m].block \in Nat \ {0} /\ HasOpen(C, o[m].block)
                          /\ EnvOK(o[m].pre) /\ Len(o[m].pre) = Len(Until(PathOf(o), m))
  BY DEF State, FrameOK, Heads, HasOpen
<1>3. /\ DOMAIN PathOf(o) = 1 .. Len(o) + 1
      /\ PathOf(o)[1] = Body
      /\ \A m \in 1 .. Len(o) : PathOf(o)[m + 1] = [block |-> o[m].block, kind |-> o[m].kind]
      /\ \A m \in DOMAIN o : Len(Until(PathOf(o), m)) = m
  <2>1. \A m \in DOMAIN o : m \in 1 .. Len(o) + 1
    BY <1>1
  <2>. QED
    BY <1>1, <2>1, PathOfIs
<1>4. ASSUME NEW d \in DOMAIN PathOf(o), d > 1
      PROVE  d - 1 \in DOMAIN o /\ PathOf(o)[d].block = o[d - 1].block
  <2>1. d - 1 \in 1 .. Len(o) /\ (d - 1) + 1 = d
    BY <1>1, <1>3, <1>4
  <2>2. PathOf(o)[d] = [block |-> o[d - 1].block, kind |-> o[d - 1].kind]
    BY <1>3, <2>1
  <2>. QED
    BY <1>1, <2>1, <2>2
<1>5. \A d, e \in DOMAIN PathOf(o) : PathOf(o)[d].block = PathOf(o)[e].block => d = e
  <2>. SUFFICES ASSUME NEW d \in DOMAIN PathOf(o), NEW e \in DOMAIN PathOf(o), PathOf(o)[d].block = PathOf(o)[e].block
                PROVE  d = e
    OBVIOUS
  <2>0. d \in Nat /\ e \in Nat /\ d > 0 /\ e > 0 /\ PathOf(o)[1].block = 0
    BY <1>1, <1>3 DEF Body
  <2>1. CASE d = 1 /\ e = 1
    BY <2>1
  <2>2. CASE d > 1 /\ e > 1
    BY <1>4, <2>0, <2>2 DEF State
  <2>3. CASE d = 1 /\ e > 1
    BY <1>2, <1>4, <2>0, <2>3
  <2>4. CASE d > 1 /\ e = 1
    BY <1>2, <1>4, <2>0, <2>4
  <2>. QED
    BY <2>0, <2>1, <2>2, <2>3, <2>4
<1>. QED
  BY <1>1, <1>2, <1>3, <1>4, <1>5

(* A block that was closed is not open any more.                            *)
LEMMA ClosedPlace ==
  ASSUME NEW C, NEW x, NEW o, State(C, x, o), NEW e \in C, e.ins.op \in Closers, e.a.live,
         NEW d \in DOMAIN PathOf(o), NEW c, At1(c, PathOf(o)[d])
  PROVE  ~At1(c, e.a.path[Len(e.a.path)])
<1>. DEFINE pl == e.a.path[Len(e.a.path)]
<1>1. PICK h \in C : h.ins.op \in Opens /\ h.ins.block = e.ins.block
  BY DEF State, Typed, Fit, HasOpen, Ends
<1>2. PairOK(h, e) /\ CellOK(h) /\ CellOK(e)
  BY DEF State, Typed, Fit
<1>3. h.ins.block \in Nat \ {0}
  BY <1>1, <1>2 DEF CellOK, OpenOK
<1>4. /\ e.ins.op \in {"else", "endif"} <=> h.ins.op = "if"
      /\ e.ins.op = "else" => In(e.a, h, "then")
      /\ e.ins.op = "endif" => In(e.a, h, "else")
      /\ e.ins.op = "endloop" => In(e.a, h, KindOf(h.ins))
  BY <1>1, <1>2 DEF PairOK, ElseOK, EndIfOK, EndLoopOK, Ends
<1>5. \A kind : In(e.a, h, kind) => pl = [block |-> h.ins.block, kind |-> kind]
  <2>1. IsSeq(h.a.path)
    <3>1. NoteOK(h.a) /\ h.a.live
      BY <1>1, <1>2, BaseIs
    <3>. QED
      BY <3>1, SeqIsSeq DEF NoteOK
  <2>2. ASSUME NEW kind, In(e.a, h, kind) PROVE pl = [block |-> h.ins.block, kind |-> kind]
    BY <2>1, <2>2, SeqAppend DEF In
  <2>. QED
    BY <2>2
<1>. HIDE DEF pl
<1>6. /\ pl.block = h.ins.block
      /\ e.ins.op = "else" => pl.kind = "then"
      /\ e.ins.op = "endif" => pl.kind = "else"
      /\ e.ins.op = "endloop" => h.ins.op # "if"
  BY <1>4, <1>5 DEF Closers
<1>7. SUFFICES ASSUME PathOf(o)[d].block = pl.block, PathOf(o)[d].kind = pl.kind PROVE FALSE
  BY DEF At1, pl
<1>8. /\ DOMAIN PathOf(o) = 1 .. Len(o) + 1 /\ Len(o) \in Nat /\ DOMAIN o = 1 .. Len(o)
      /\ PathOf(o)[1] = Body
      /\ \A m \in 1 .. Len(o) : PathOf(o)[m + 1] = [block |-> o[m].block, kind |-> o[m].kind]
  BY PathOfIs DEF State
<1>9. d # 1
  BY <1>3, <1>6, <1>7, <1>8 DEF Body
<1>10. PICK m \in DOMAIN o : d = m + 1
  <2>1. d - 1 \in 1 .. Len(o) /\ d = (d - 1) + 1
    BY <1>8, <1>9
  <2>. QED
    BY <1>8, <2>1
<1>11. PathOf(o)[d] = [block |-> o[m].block, kind |-> o[m].kind]
  BY <1>8, <1>10
<1>12. o[m].block = h.ins.block /\ o[m].block = e.ins.block /\ o[m].kind = pl.kind
  BY <1>1, <1>6, <1>7, <1>11
<1>13. FrameOK(C, o[m], Until(PathOf(o), m))
  BY DEF State
<1>14. Kind(h.ins, o[m].kind)
  <2>1. PICK k \in C : Heads(o[m], Until(PathOf(o), m), k)
    BY <1>13 DEF FrameOK
  <2>2. k = h
    BY <1>1, <1>12, <2>1 DEF State, OneOpen, Heads
  <2>. QED
    BY <2>1, <2>2 DEF Heads
<1>15. HasMark(C, e.ins.op, o[m].block)
  BY <1>12 DEF HasMark
<1>16. CASE h.ins.op = "if"
  <2>1. o[m].kind \in {"then", "else"}
    BY <1>14, <1>16 DEF Kind, KindOf
  <2>2. e.ins.op \in {"else", "endif"}
    BY <1>4, <1>16
  <2>3. CASE o[m].kind = "then"
    BY <1>13, <1>15, <2>2, <2>3 DEF FrameOK, ThenOK
  <2>4. CASE o[m].kind = "else"
    <3>1. e.ins.op # "endif"
      BY <1>13, <1>15, <2>4 DEF FrameOK, InElseOK
    <3>. QED
      BY <1>6, <1>12, <2>2, <2>4, <3>1
  <2>. QED
    BY <2>1, <2>3, <2>4
<1>17. CASE h.ins.op # "if"
  <2>1. o[m].kind \notin {"then", "else"}
    BY <1>1, <1>14, <1>17 DEF Kind, KindOf, Opens
  <2>2. e.ins.op = "endloop"
    BY <1>4, <1>17 DEF Closers
  <2>. QED
    BY <1>13, <1>15, <2>1, <2>2 DEF FrameOK
<1>. QED
  BY <1>16, <1>17

-----------------------------------------------------------------------------
(* How the state of the pass grows                                          *)

(* What stands in the innermost body stands in none of the others.          *)
LEMMA TopPlace ==
  ASSUME NEW C, NEW x, NEW o, State(C, x, o), NEW c, At1(c, PathOf(o)[Len(o) + 1]), NEW m \in DOMAIN o
  PROVE  /\ \A d \in 1 .. m : ~At1(c, PathOf(o)[d])
         /\ o[m].kind = "then" => ~At1(c, [block |-> o[m].block, kind |-> "else"])
<1>1. /\ Len(o) \in Nat /\ DOMAIN o = 1 .. Len(o) /\ DOMAIN PathOf(o) = 1 .. Len(o) + 1 /\ IsSeq(o)
      /\ \A i \in 1 .. Len(o) : PathOf(o)[i + 1] = [block |-> o[i].block, kind |-> o[i].kind]
  BY FramesAre, PathOfIs
<1>2. \A d, e \in DOMAIN PathOf(o) : PathOf(o)[d].block = PathOf(o)[e].block => d = e
  BY FramesAre
<1>3. \A d \in 1 .. m : d \in DOMAIN PathOf(o) /\ d # Len(o) + 1
  BY <1>1
<1>4. \A d \in 1 .. m : ~At1(c, PathOf(o)[d])
  BY <1>1, <1>2, <1>3 DEF At1
<1>5. ASSUME o[m].kind = "then", At1(c, [block |-> o[m].block, kind |-> "else"]) PROVE FALSE
  <2>1. c.ins.in = o[m].block /\ c.ins.branch = "else"
    BY <1>5 DEF At1
  <2>2. Len(o) \in 1 .. Len(o)
    BY <1>1
  <2>3. c.ins.in = o[Len(o)].block /\ c.ins.branch = o[Len(o)].kind
    <3>1. PathOf(o)[Len(o) + 1] = [block |-> o[Len(o)].block, kind |-> o[Len(o)].kind]
      BY <1>1, <2>2
    <3>. QED
      BY <3>1 DEF At1
  <2>4. m = Len(o)
    BY <1>1, <2>1, <2>2, <2>3 DEF State
  <2>. QED
    BY <1>5, <2>1, <2>3, <2>4
<1>. QED
  BY <1>4, <1>5

(* A cell that opens, closes and leaves nothing.                            *)
LEMMA FitStraight ==
  ASSUME NEW C, NEW x, NEW o, State(C, x, o), NEW c, c.a = x,
         c.ins.op \in Straights \cup {"return"}, CellOK(c)
  PROVE  Fit(c, C \cup {c})
<1>. DEFINE D == C \cup {c}
<1>1. c.ins.op \notin Opens /\ c.ins.op \notin Ends /\ c.ins.op \notin Closers
  BY DEF Straights, Opens, Ends, Closers, Exits
<1>2. Sits(x, D)
  BY <1>1, SitsMono DEF State, Stand
<1>3. \A h \in D : PairOK(h, c) /\ MergeOK(h, c)
  BY <1>1 DEF PairOK, MergeOK, Ends, Closers
<1>. QED
  BY <1>1, <1>2, <1>3 DEF Fit

(* The frames, and what is open, after an instruction that opens and closes *)
(* nothing; if it spawns or joins, then in the innermost block.             *)
LEMMA FramesStay ==
  ASSUME NEW C, NEW x, NEW o, State(C, x, o), NEW c, c.ins.op \notin Opens \cup Closers,
         c.ins.op \in {"spawn", "join"} => At1(c, PathOf(o)[Len(o) + 1]), Fit(c, C \cup {c})
  PROVE  LET D == C \cup {c} IN
         /\ Typed(D) /\ OneOpen(D)
         /\ \A m \in DOMAIN o : FrameOK(D, o[m], Until(PathOf(o), m))
         /\ \A h \in D : h.ins.op \in Opens => (\E m \in DOMAIN o : o[m].block = h.ins.block) \/ Shut(D, h)
<1>. DEFINE D == C \cup {c}
<1>0. /\ Len(o) \in Nat /\ DOMAIN o = 1 .. Len(o) /\ DOMAIN PathOf(o) = 1 .. Len(o) + 1 /\ IsSeq(o)
      /\ \A m \in 1 .. Len(o) + 1 :
              /\ DOMAIN Until(PathOf(o), m) = 1 .. m
              /\ \A d \in 1 .. m : Until(PathOf(o), m)[d] = PathOf(o)[d]
  BY FramesAre, PathOfIs
<1>1. Typed(D)
  <2>1. c.ins.op \in {"spawn", "join"} =>
           \A e \in C : e.ins.op \in Closers /\ e.a.live => ~At1(c, e.a.path[Len(e.a.path)])
    <3>1. Len(o) + 1 \in DOMAIN PathOf(o)
      BY <1>0
    <3>. QED
      BY <3>1, ClosedPlace
  <2>2. \A e \in C : MergeOK(c, e)
    BY DEF MergeOK, Closers
  <2>3. Typed(C)
    BY DEF State
  <2>. QED
    BY <2>1, <2>2, <2>3, TypedMono
<1>2. OneOpen(D)
  BY DEF State, OneOpen
<1>3. ASSUME NEW m \in DOMAIN o PROVE FrameOK(D, o[m], Until(PathOf(o), m))
  <2>1. FrameOK(C, o[m], Until(PathOf(o), m))
    BY DEF State
  <2>2. m \in 1 .. Len(o) + 1
    BY <1>0
  <2>3. c.ins.op \in {"spawn", "join"} => \A d \in DOMAIN Until(PathOf(o), m) : ~At1(c, Until(PathOf(o), m)[d])
    BY <1>0, <2>2, TopPlace
  <2>4. c.ins.op \in {"spawn", "join"} /\ o[m].kind = "then" => ~At1(c, [block |-> o[m].block, kind |-> "else"])
    BY TopPlace
  <2>. QED
    BY <2>1, <2>3, <2>4, FrameMono
<1>4. \A h \in D : h.ins.op \in Opens => (\E m \in DOMAIN o : o[m].block = h.ins.block) \/ Shut(D, h)
  BY DEF State, Shut, HasMark
<1>. QED
  BY <1>1, <1>2, <1>3, <1>4

(* An instruction that neither opens nor closes a block keeps the state of  *)
(* the pass.                                                                *)
LEMMA Straight ==
  ASSUME NEW C, NEW x, NEW o, State(C, x, o), NEW c, c.a = x, x.live,
         c.ins.op \in Straights, CellOK(c), c.z.live, c.z.path = x.path, Stand(c.z, C \cup {c})
  PROVE  State(C \cup {c}, c.z, o)
<1>1. c.ins.op \notin Opens \cup Closers
  BY DEF Straights, Opens, Closers
<1>2. c.ins.op \in {"spawn", "join"} => At1(c, PathOf(o)[Len(o) + 1])
  <2>1. x.path = PathOf(o) /\ Len(PathOf(o)) = Len(o) + 1
    BY PathOfIs DEF State
  <2>. QED
    BY <2>1 DEF CellOK, SpawnOK, JoinOK
<1>3. Fit(c, C \cup {c})
  BY FitStraight
<1>4. NoteOK(c.z)
  BY DEF CellOK
<1>. QED
  BY <1>1, <1>2, <1>3, <1>4, FramesStay DEF State

(* Nothing follows a return.                                                *)
LEMMA Returning ==
  ASSUME NEW C, NEW x, NEW o, State(C, x, o), NEW c, c.a = x, c.ins.op = "return", CellOK(c)
  PROVE  State(C \cup {c}, Dead, o)
<1>1. c.ins.op \notin Opens \cup Closers /\ c.ins.op \notin {"spawn", "join"}
  BY DEF Opens, Closers
<1>2. Fit(c, C \cup {c})
  BY FitStraight
<1>3. NoteOK(Dead) /\ Stand(Dead, C \cup {c}) /\ ~Dead.live
  BY DEF Dead, NoteOK, Stand, Sits, Placed, Inside
<1>. QED
  BY <1>1, <1>2, <1>3, FramesStay DEF State

(* Nothing follows a break or a continue.                                   *)
LEMMA Exiting ==
  ASSUME NEW C, NEW x, NEW o, State(C, x, o), NEW c, c.a = x, c.ins.op \in Exits, CellOK(c),
         HasOpen(C, c.ins.block), \A h \in C : PairOK(h, c)
  PROVE  State(C \cup {c}, Dead, o)
<1>. DEFINE D == C \cup {c}
<1>1. c.ins.op \notin Opens \cup Closers /\ c.ins.op \notin {"spawn", "join"}
  BY DEF Opens, Closers, Exits
<1>2. Fit(c, D)
  <2>1. Sits(x, D)
    BY <1>1, SitsMono DEF State, Stand
  <2>2. HasOpen(D, c.ins.block)
    BY DEF HasOpen
  <2>3. PairOK(c, c) /\ \A h \in D : MergeOK(h, c)
    BY <1>1 DEF PairOK, MergeOK, Closers
  <2>. QED
    BY <1>1, <2>1, <2>2, <2>3 DEF Fit
<1>3. NoteOK(Dead) /\ Stand(Dead, D) /\ ~Dead.live
  BY DEF Dead, NoteOK, Stand, Sits, Placed, Inside
<1>. QED
  BY <1>1, <1>2, <1>3, FramesStay DEF State

(* Nothing written so far is in a new block.                                *)
LEMMA NewBlockPlaces ==
  ASSUME NEW C, NEW x, NEW o, State(C, x, o), NEW b, b # 0, ~HasOpen(C, b)
  PROVE  /\ \A d \in DOMAIN PathOf(o) : PathOf(o)[d].block # b
         /\ \A m \in DOMAIN o : o[m].block # b
         /\ \A c \in C : c.ins.op \in {"spawn", "join"} => c.ins.in # b
         /\ \A c \in C : c.ins.op \in Ends => c.ins.block # b
<1>1. \A m \in DOMAIN o : o[m].block # b
  BY FramesAre
<1>2. \A d \in DOMAIN PathOf(o) : PathOf(o)[d].block # b
  <2>1. DOMAIN PathOf(o) = 1 .. Len(o) + 1 /\ Len(o) \in Nat /\ PathOf(o)[1] = Body
    BY PathOfIs, FramesAre
  <2>2. \A d \in DOMAIN PathOf(o) : d > 1 => HasOpen(C, PathOf(o)[d].block)
    BY FramesAre
  <2>3. \A d \in DOMAIN PathOf(o) : d = 1 \/ d > 1
    BY <2>1
  <2>. QED
    BY <2>1, <2>2, <2>3 DEF Body
<1>3. ASSUME NEW c \in C, c.ins.op \in {"spawn", "join"} PROVE c.ins.in # b
  <2>. DEFINE top == Len(c.a.path)
  <2>1. Fit(c, C) /\ CellOK(c)
    BY FramesAre
  <2>2. At1(c, c.a.path[top]) /\ NoteOK(c.a) /\ c.a.live
    BY <1>3, <2>1 DEF CellOK, SpawnOK, JoinOK, Closers
  <2>3. DOMAIN c.a.path = 1 .. top /\ top \in Nat \ {0} /\ c.a.path[1] = Body
    BY <2>2, PathIs
  <2>4. CASE top = 1
    BY <2>2, <2>3, <2>4 DEF At1, Body
  <2>5. CASE top > 1
    <3>1. HasOpen(C, c.a.path[top].block)
      BY <2>1, <2>2, <2>3, <2>5 DEF Fit, Sits, Placed, HasOpen
    <3>. QED
      BY <2>2, <3>1 DEF At1
  <2>6. top = 1 \/ top > 1
    <3>. HIDE DEF top
    <3>. QED
      BY <2>3
  <2>. QED
    BY <2>4, <2>5, <2>6
<1>4. \A c \in C : c.ins.op \in Ends => c.ins.block # b
  BY FramesAre DEF Fit
<1>. QED
  BY <1>1, <1>2, <1>3, <1>4

(* A body is opened.                                                        *)
LEMMA Opening ==
  ASSUME NEW C, NEW x, NEW o, State(C, x, o), NEW c, c.a = x, x.live, c.ins.op \in Opens, CellOK(c),
         ~HasOpen(C, c.ins.block), Stand(Note(Base(c), x.path), C),
         NEW f, f.block = c.ins.block, f.pre = Base(c), f.kind = KindOf(c.ins),
         c.ins.op = "for" => f.coll = c.ins.coll,
         c.ins.op # "if" => f.depth = Len(x.env) + 1
  PROVE  State(C \cup {c}, c.z, Append(o, f))
<1>. DEFINE D == C \cup {c}
            b == c.ins.block
            p == PathOf(o)
            q == Append(o, f)
            n == Len(o) + 1
<1>0. /\ OpenOK(c) /\ b \in Nat \ {0} /\ NoteOK(c.z) /\ x.path = p /\ x.extra = {} /\ NoteOK(x)
      /\ c.z = Pushed(c, KindOf(c.ins), FirstScope(c.ins))
  BY DEF CellOK, State, OpenOK
<1>1. /\ \A d \in DOMAIN p : p[d].block # b
      /\ \A m \in DOMAIN o : o[m].block # b
      /\ \A k \in C : k.ins.op \in {"spawn", "join"} => k.ins.in # b
      /\ \A k \in C : k.ins.op \in Ends => k.ins.block # b
  BY <1>0, NewBlockPlaces
<1>2. /\ Len(o) \in Nat /\ DOMAIN o = 1 .. Len(o) /\ DOMAIN p = 1 .. n /\ IsSeq(o) /\ Len(p) = n
      /\ \A m \in 1 .. n :
              /\ DOMAIN Until(p, m) = 1 .. m
              /\ \A d \in 1 .. m : Until(p, m)[d] = p[d]
      /\ Until(p, n) = p
  BY FramesAre, PathOfIs
<1>3. c.ins.op \notin Ends /\ c.ins.op \notin Closers /\ c.ins.op \notin {"spawn", "join"}
  BY DEF Opens, Ends, Closers, Exits
<1>4. Sits(x, D)
  BY <1>0, <1>1, <1>3, SitsMono DEF State, Stand
<1>5. Fit(c, D)
  <2>1. \A h \in D : PairOK(h, c) /\ MergeOK(h, c)
    BY <1>3 DEF PairOK, MergeOK, Ends, Closers
  <2>. QED
    BY <1>3, <1>4, <2>1 DEF Fit
<1>6. Typed(D)
  <2>1. \A e \in C : MergeOK(c, e)
    BY <1>3 DEF MergeOK, Closers
  <2>2. Typed(C)
    BY DEF State
  <2>. QED
    BY <1>0, <1>3, <1>5, <2>1, <2>2, TypedMono
<1>7. OneOpen(D)
  BY DEF OneOpen, State, HasOpen
<1>8. /\ IsSeq(q) /\ Len(q) = n /\ DOMAIN q = 1 .. n
      /\ \A i \in 1 .. Len(o) : q[i] = o[i]
      /\ q[n] = f
      /\ PathOf(q) = Append(p, [block |-> b, kind |-> KindOf(c.ins)])
      /\ \A m \in 1 .. n : Until(PathOf(q), m) = Until(p, m)
  BY <1>2, SeqAppend, PathAppend
<1>9. c.z.live /\ c.z.path = PathOf(q)
  BY <1>0, <1>8 DEF Pushed, Note
<1>10. Stand(Note(Base(c), p), D)
  <2>1. Note(Base(c), p).path = p
    BY DEF Note
  <2>. QED
    BY <1>0, <1>1, <1>3, <2>1, StandMono
<1>11. Stand(c.z, D)
  <2>1. Kind(c.ins, KindOf(c.ins))
    BY DEF Kind
  <2>2. \A k \in D : k.ins.op \in {"spawn", "join"} => ~At1(k, [block |-> b, kind |-> KindOf(c.ins)])
    BY <1>1, <1>3 DEF At1
  <2>3. \A v \in DOMAIN FirstScope(c.ins) :
           /\ FirstScope(c.ins)[v].ty # "task"
           /\ FirstScope(c.ins)[v].no_drop => c.ins.op = "for" /\ c.ins.n = v
    BY DEF FirstScope, Bind, Slot, Fresh
  <2>4. \A k \in D : CellOK(k)
    BY <1>6 DEF Typed, Fit
  <2>. HIDE DEF b, p
  <2>5. c \in D /\ Stand(Note(Base(c), c.a.path), D) /\ \A d \in DOMAIN c.a.path : c.a.path[d].block # c.ins.block
    BY <1>0, <1>1, <1>10 DEF b
  <2>. QED
    BY <1>0, <1>7, <2>1, <2>2, <2>3, <2>4, <2>5, PushStand DEF b
<1>12. ASSUME NEW m \in DOMAIN o PROVE FrameOK(D, o[m], Until(p, m))
  <2>1. FrameOK(C, o[m], Until(p, m))
    BY DEF State
  <2>2. m \in 1 .. n /\ \A d \in 1 .. m : d \in DOMAIN p
    BY <1>2
  <2>3. \A d \in DOMAIN Until(p, m) : Until(p, m)[d].block # b
    BY <1>1, <1>2, <2>2
  <2>. HIDE DEF p
  <2>. QED
    BY <1>3, <2>1, <2>3, FrameMono, ZenonT(60)
<1>13. FrameOK(D, f, p)
  <2>1. EnvOK(Base(c)) /\ Len(Base(c)) = Len(p)
    <3>1. EnvOK(Base(c)) /\ Len(Base(c)) = Len(c.a.env) /\ Len(c.a.path) = Len(c.a.env)
      BY BaseIs
    <3>. QED
      BY <1>0, <3>1
  <2>2. Heads(f, p, c)
    BY <1>0 DEF Heads, Kind
  <2>3. ~HasMark(D, "else", b) /\ ~HasMark(D, "endif", b) /\ ~HasMark(D, "endloop", b)
    BY <1>1, <1>3 DEF HasMark, Ends, Closers
  <2>4. \A k \in D : k.ins.op \in {"spawn", "join"} => ~At1(k, [block |-> b, kind |-> "else"])
    BY <1>1, <1>3 DEF At1
  <2>5. f.kind # "else" /\ (f.kind = "then" <=> c.ins.op = "if")
    BY DEF KindOf, Opens
  <2>6. Len(x.env) = Len(p)
    BY <1>0 DEF NoteOK
  <2>. HIDE DEF p
  <2>. QED
    BY <1>0, <1>10, <2>1, <2>2, <2>3, <2>4, <2>5, <2>6 DEF FrameOK, ThenOK
<1>14. \A m \in DOMAIN q : FrameOK(D, q[m], Until(PathOf(q), m))
  <2>. TAKE m \in DOMAIN q
  <2>1. CASE m \in 1 .. Len(o)
    BY <1>2, <1>8, <1>12, <2>1
  <2>2. CASE m = n
    BY <1>2, <1>8, <1>13, <2>2
  <2>. QED
    BY <1>2, <1>8, <2>1, <2>2
<1>15. \A m, k \in DOMAIN q : q[m].block = q[k].block => m = k
  BY <1>1, <1>2, <1>8 DEF State
<1>16. \A h \in D : h.ins.op \in Opens => (\E m \in DOMAIN q : q[m].block = h.ins.block) \/ Shut(D, h)
  <2>1. \A h \in C : h.ins.op \in Opens => (\E m \in DOMAIN o : o[m].block = h.ins.block) \/ Shut(C, h)
    BY DEF State
  <2>2. \A h \in C : Shut(C, h) => Shut(D, h)
    BY DEF Shut, HasMark
  <2>3. \A m \in DOMAIN o : m \in DOMAIN q /\ q[m] = o[m]
    BY <1>2, <1>8
  <2>4. n \in DOMAIN q /\ q[n].block = b
    BY <1>2, <1>8
  <2>. QED
    BY <2>1, <2>2, <2>3, <2>4
<1>. QED
  BY <1>0, <1>6, <1>7, <1>8, <1>9, <1>11, <1>14, <1>15, <1>16 DEF State

-----------------------------------------------------------------------------
(* The end of a body                                                        *)
Outer(C, D, o) ==
  LET q == Front(o) n == Len(o) IN
  /\ n \in Nat \ {0} /\ Last(o) = o[n] /\ n \in DOMAIN o /\ DOMAIN o = 1 .. n /\ IsSeq(o)
  /\ IsSeq(q) /\ Len(q) = n - 1 /\ DOMAIN q = 1 .. n - 1
  /\ \A m \in 1 .. n - 1 : q[m] = o[m] /\ o[m].block # Last(o).block
  /\ PathOf(q) = Until(PathOf(o), n)
  /\ \A m \in 1 .. n : Until(PathOf(q), m) = Until(PathOf(o), m)
  /\ \A m \in DOMAIN q : FrameOK(D, q[m], Until(PathOf(q), m))
  /\ \A m, k \in DOMAIN q : q[m].block = q[k].block => m = k
  /\ \A h \in C : h.ins.op \in Opens /\ h.ins.block # Last(o).block =>
         (\E m \in DOMAIN q : q[m].block = h.ins.block) \/ Shut(D, h)
  /\ OneOpen(D)

(* The statements around the one that is closed.                            *)
LEMMA OuterFrames ==
  ASSUME NEW C, NEW x, NEW o, State(C, x, o), o # << >>, NEW D,
         \A c \in C : c.ins.op \in Opens \cup {"spawn", "endif", "endloop"} => c \in D,
         \A c \in C : c.ins.op = "else" /\ c.ins.block # Last(o).block => c \in D,
         \A c \in D \ C : c.ins.op \notin Opens \cup {"spawn", "join"},
         \A c \in D \ C : c.ins.op \in Closers => c.ins.block = Last(o).block
  PROVE  Outer(C, D, o)
<1>. DEFINE q == Front(o)
            n == Len(o)
<1>1. /\ n \in Nat \ {0} /\ Last(o) = o[n] /\ n \in DOMAIN o /\ DOMAIN o = 1 .. n
      /\ IsSeq(o) /\ IsSeq(q) /\ Len(q) = n - 1 /\ DOMAIN q = 1 .. n - 1
      /\ \A m \in 1 .. n - 1 : q[m] = o[m]
  BY FramesAre, SeqFront
<1>2. /\ PathOf(q) = Until(PathOf(o), n)
      /\ \A m \in 1 .. n : Until(PathOf(q), m) = Until(PathOf(o), m)
  BY <1>1, PathFront
<1>3. \A m, k \in DOMAIN o : o[m].block = o[k].block => m = k
  BY DEF State
<1>. HIDE DEF q, n
<1>4. \A m \in 1 .. n - 1 : m \in 1 .. n /\ m \in DOMAIN o /\ m # n
  BY ONLY <1>1
<1>. USE DEF n
<1>5. \A m \in 1 .. n - 1 : o[m].block # Last(o).block
  BY <1>1, <1>3, <1>4
<1>6. ASSUME NEW m \in 1 .. n - 1 PROVE FrameOK(D, o[m], Until(PathOf(o), m))
  <2>1. FrameOK(C, o[m], Until(PathOf(o), m))
    BY <1>4 DEF State
  <2>2. o[m].block # Last(o).block
    BY <1>5
  <2>. DEFINE f == o[m]
              p == Until(PathOf(o), m)
  <2>. HIDE DEF f, p
  <2>3. FrameOK(C, f, p) /\ f.block # Last(o).block
    BY <2>1, <2>2 DEF f, p
  <2>4. FrameOK(D, f, p)
    BY <2>3, FrameMono DEF Closers
  <2>. QED
    BY <2>4 DEF f, p
<1>7. ASSUME NEW h \in C, h.ins.op \in Opens, h.ins.block # Last(o).block
      PROVE  (\E m \in DOMAIN q : q[m].block = h.ins.block) \/ Shut(D, h)
  <2>1. CASE Shut(C, h)
    <3>1. ASSUME NEW op \in Closers, HasMark(C, op, h.ins.block) PROVE HasMark(D, op, h.ins.block)
      BY <1>7, <3>1 DEF HasMark, Closers
    <3>. QED
      BY <2>1, <3>1 DEF Shut, Closers
  <2>2. ASSUME NEW m \in DOMAIN o, o[m].block = h.ins.block PROVE m \in DOMAIN q /\ q[m] = o[m]
    <3>1. m # n
      BY <1>1, <1>7, <2>2
    <3>. QED
      BY <1>1, <3>1
  <2>. QED
    BY <1>7, <2>1, <2>2 DEF State
<1>8. OneOpen(D)
  BY DEF State, OneOpen
<1>9. \A m, k \in DOMAIN q : q[m].block = q[k].block => m = k
  BY <1>1, <1>3, <1>4
<1>10. \A m \in DOMAIN q : FrameOK(D, q[m], Until(PathOf(q), m))
  BY <1>1, <1>2, <1>4, <1>6
<1>. QED
  BY <1>1, <1>2, <1>5, <1>7, <1>8, <1>9, <1>10 DEF q, Outer

(* The innermost frame, and the instruction that opened its body.           *)
LEMMA LastFrame ==
  ASSUME NEW C, NEW x, NEW o, State(C, x, o), o # << >>
  PROVE  LET f == Last(o) n == Len(o) p == Until(PathOf(o), n) IN
         /\ FrameOK(C, f, p) /\ f.block \in Nat \ {0} /\ EnvOK(f.pre) /\ Len(f.pre) = n /\ n \in Nat \ {0}
         /\ IsSeq(p) /\ Len(p) = n /\ DOMAIN p = 1 .. n
         /\ PathOf(o) = Append(p, [block |-> f.block, kind |-> f.kind])
         /\ Stand(Note(f.pre, p), C)
         /\ \A d \in DOMAIN p : p[d].block # f.block
         /\ \E h \in C : Heads(f, p, h) /\ CellOK(h)
<1>. DEFINE f == Last(o)
            n == Len(o)
            p == Until(PathOf(o), n)
<1>1. /\ n \in Nat \ {0} /\ f = o[n] /\ n \in DOMAIN o /\ DOMAIN o = 1 .. n /\ IsSeq(o)
  BY FramesAre, SeqFront
<1>2. FrameOK(C, f, p)
  BY <1>1 DEF State
<1>3. /\ f.block \in Nat \ {0} /\ EnvOK(f.pre) /\ Len(f.pre) = n
  BY <1>1, FramesAre
<1>4. /\ DOMAIN PathOf(o) = 1 .. n + 1 /\ IsSeq(PathOf(o)) /\ Len(PathOf(o)) = n + 1
      /\ PathOf(o)[n + 1] = [block |-> f.block, kind |-> f.kind]
      /\ IsSeq(p) /\ Len(p) = n /\ DOMAIN p = 1 .. n
      /\ \A d \in 1 .. n : p[d] = PathOf(o)[d]
  <2>1. n \in 1 .. n /\ n \in 1 .. n + 1
    BY <1>1
  <2>. QED
    BY <1>1, <2>1, PathOfIs, ZenonT(60)
<1>. HIDE DEF p
<1>5. PathOf(o) = Append(p, [block |-> f.block, kind |-> f.kind])
  <2>. DEFINE pl == [block |-> f.block, kind |-> f.kind]
              t == Append(p, pl)
  <2>. HIDE DEF pl
  <2>1. IsSeq(t) /\ Len(t) = n + 1 /\ (\A i \in 1 .. n : t[i] = p[i]) /\ t[n + 1] = pl
    BY <1>4, SeqAppend
  <2>. HIDE DEF t
  <2>2. \A i \in 1 .. n + 1 : t[i] = PathOf(o)[i]
    BY <1>1, <1>4, <2>1 DEF pl
  <2>3. t = [i \in 1 .. n + 1 |-> t[i]] /\ PathOf(o) = [i \in 1 .. n + 1 |-> PathOf(o)[i]]
    BY <1>4, <2>1 DEF IsSeq
  <2>. QED
    BY <2>2, <2>3 DEF t, pl
<1>6. \A d \in DOMAIN p : p[d].block # f.block
  <2>1. \A d, e \in DOMAIN PathOf(o) : PathOf(o)[d].block = PathOf(o)[e].block => d = e
    BY FramesAre
  <2>2. n + 1 \in DOMAIN PathOf(o) /\ PathOf(o)[n + 1].block = f.block
    BY <1>1, <1>4
  <2>3. \A d \in 1 .. n : d \in DOMAIN PathOf(o) /\ d # n + 1
    BY <1>1, <1>4
  <2>. QED
    BY <1>4, <2>1, <2>2, <2>3
<1>7. \E h \in C : Heads(f, p, h) /\ CellOK(h)
  BY <1>2, FramesAre DEF FrameOK
<1>. QED
  BY <1>1, <1>2, <1>3, <1>4, <1>5, <1>6, <1>7 DEF p, FrameOK

(* What a closing instruction owes, whatever it closes.                     *)
LEMMA FitCloser ==
  ASSUME NEW C, NEW x, NEW o, State(C, x, o), o # << >>, NEW c, c.a = x, c.ins.op \in Closers, CellOK(c),
         c.ins.block = Last(o).block,
         \A h \in C : Heads(Last(o), Until(PathOf(o), Len(o)), h) => PairOK(h, c),
         \A h \in C : MergeOK(h, c), \A e \in C : MergeOK(c, e)
  PROVE  /\ Fit(c, C \cup {c}) /\ Typed(C \cup {c})
<1>. DEFINE D == C \cup {c}
            f == Last(o)
            p == Until(PathOf(o), Len(o))
<1>1. c.ins.op \notin Opens /\ c.ins.op \in Ends /\ c.ins.op \notin {"spawn", "join"}
  BY DEF Opens, Ends, Closers
<1>2. PICK k \in C : Heads(f, p, k)
  BY LastFrame
<1>3. Sits(x, D)
  BY <1>1, SitsMono DEF State, Stand
<1>4. x.live => Accounted(x, D, Len(x.path))
  <2>. HAVE x.live
  <2>1. NoteOK(x) /\ x.extra = {}
    BY <1>1 DEF CellOK
  <2>2. Len(x.path) \in DOMAIN x.path
    <3>1. Len(x.env) \in Nat \ {0} /\ DOMAIN x.path = 1 .. Len(x.env) /\ Len(x.path) = Len(x.env)
      BY <2>1, PathIs
    <3>. QED
      BY ONLY <3>1
  <2>3. Accounted(x, C, Len(x.path))
    BY <2>1, <2>2 DEF State, Stand
  <2>. QED
    BY <1>1, <2>3, AccountedMono
<1>5. HasOpen(D, c.ins.block)
  BY <1>2 DEF HasOpen, Heads
<1>6. ASSUME NEW h \in D PROVE PairOK(h, c) /\ MergeOK(h, c)
  <2>1. CASE h = c
    <3>1. PairOK(k, c) /\ k.ins.op \in Opens /\ k.ins.block = c.ins.block
      BY <1>2 DEF Heads
    <3>2. c.ins.op = "endif" => EndIfOK(k, c)
      BY <1>1, <3>1 DEF PairOK
    <3>. QED
      BY <1>1, <2>1, <3>2 DEF PairOK, MergeOK, EndIfOK
  <2>2. CASE h \in C
    <3>1. CASE h.ins.op \in Opens /\ h.ins.block = c.ins.block
      <4>1. h = k
        BY <1>2, <2>2, <3>1 DEF State, OneOpen, Heads
      <4>. QED
        BY <1>2, <2>2, <4>1
    <3>2. CASE ~(h.ins.op \in Opens /\ h.ins.block = c.ins.block)
      BY <2>2, <3>2 DEF PairOK
    <3>. QED
      BY <3>1, <3>2
  <2>. QED
    BY <2>1, <2>2
<1>7. Fit(c, D)
  BY <1>3, <1>4, <1>5, <1>6 DEF Fit
<1>8. Typed(D)
  BY <1>1, <1>7, TypedMono DEF State
<1>. QED
  BY <1>7, <1>8

(* The end of a loop's body.                                                *)
LEMMA PlacedSame ==
  ASSUME NEW C, NEW x, NEW y, Placed(x, C), y.path = x.path, y.env = x.env, x.live
  PROVE  Placed(y, C)
BY DEF Placed

(* A note with something in it besides its bindings stands where the bare   *)
(* one does.                                                                *)
LEMMA ExtraStand ==
  ASSUME NEW C, NEW E, NEW p, NEW X, X # {}, Stand(Note(E, p), C)
  PROVE  Stand(WithExtra(E, p, X), C)
<1>. DEFINE y == WithExtra(E, p, X)
            x == Note(E, p)
<1>1. /\ y.extra = X /\ y.path = p /\ y.env = E
      /\ x.path = p /\ x.env = E /\ x.live
  BY DEF WithExtra, Note
<1>2. Placed(x, C)
  BY DEF Stand, Sits
<1>. HIDE DEF x, y
<1>3. Placed(y, C)
  BY <1>1, <1>2, PlacedSame
<1>4. Stand(y, C)
  BY <1>1, <1>3 DEF Stand, Sits, Inside
<1>. QED
  BY <1>4 DEF y

(* The end of a loop body keeps the state of the pass.                      *)
LEMMA EndLooping ==
  ASSUME NEW C, NEW x, NEW o, State(C, x, o), o # << >>, NEW c, c.a = x, c.ins.op = "endloop", CellOK(c),
         c.ins.block = Last(o).block, Last(o).kind \notin {"then", "else"},
         x.live => SealedButTasks(x, Last(o).pre),
         c.z = WithExtra(Last(o).pre, Until(PathOf(o), Len(o)),
                         IF Last(o).kind = "for own" THEN {Last(o).coll} ELSE {})
  PROVE  /\ State(C \cup {c}, c.z, Front(o))
         /\ Stand(Note(Last(o).pre, Until(PathOf(o), Len(o))), C \cup {c})
<1>. DEFINE D == C \cup {c}
            f == Last(o)
            n == Len(o)
            p == Until(PathOf(o), n)
            q == Front(o)
<1>1. /\ FrameOK(C, f, p) /\ PathOf(o) = Append(p, [block |-> f.block, kind |-> f.kind])
      /\ Stand(Note(f.pre, p), C) /\ EnvOK(f.pre) /\ Len(f.pre) = n /\ Len(p) = n
  BY LastFrame
<1>2. c.ins.op \notin Opens /\ c.ins.op \in Closers /\ c.ins.op \notin {"spawn", "join"} /\ c.ins.op # "else"
  BY DEF Opens, Closers
<1>3. ASSUME NEW h \in C, Heads(f, p, h) PROVE PairOK(h, c)
  <2>1. f.kind = KindOf(h.ins) /\ h.ins.op # "if" /\ h.ins.op \in {"while", "for"}
    BY <1>3 DEF Heads, Kind, KindOf, Opens
  <2>2. Base(h) = f.pre /\ h.a.path = p /\ h.ins.block = f.block
    BY <1>3 DEF Heads
  <2>3. CellOK(h) /\ (h.ins.op = "for" => h.ins.own \in BOOLEAN)
    BY <1>3, FramesAre DEF CellOK, OpenOK, Heads
  <2>4. Owning(h.ins) <=> f.kind = "for own"
    BY <2>1, <2>3 DEF Owning, KindOf
  <2>5. Owning(h.ins) => f.coll = h.ins.coll
    BY <1>3 DEF Heads, Owning
  <2>6. x.live => In(x, h, KindOf(h.ins)) /\ SealedButTasks(x, Base(h))
    BY <1>1, <2>1, <2>2 DEF In, State
  <2>7. c.z = WithExtra(Base(h), h.a.path, IF Owning(h.ins) THEN {h.ins.coll} ELSE {})
    BY <2>2, <2>4, <2>5
  <2>8. EndLoopOK(h, c)
    BY <2>6, <2>7 DEF EndLoopOK
  <2>. QED
    BY <2>1, <2>8 DEF PairOK, Exits
<1>4. Typed(D)
  <2>1. \A h \in C : MergeOK(h, c)
    BY DEF MergeOK
  <2>2. \A e \in C : MergeOK(c, e)
    BY DEF MergeOK
  <2>. HIDE DEF f, p, n
  <2>. QED
    BY <1>2, <1>3, <2>1, <2>2, FitCloser DEF f, p, n
<1>5. /\ n \in Nat \ {0} /\ n \in DOMAIN o
      /\ IsSeq(q) /\ Len(q) = n - 1
      /\ PathOf(q) = p
      /\ \A m \in DOMAIN q : FrameOK(D, q[m], Until(PathOf(q), m))
      /\ \A m, k \in DOMAIN q : q[m].block = q[k].block => m = k
      /\ \A h \in C : h.ins.op \in Opens /\ h.ins.block # f.block =>
              (\E m \in DOMAIN q : q[m].block = h.ins.block) \/ Shut(D, h)
      /\ OneOpen(D)
  <2>1. /\ \A e \in C : e \in D
        /\ \A e \in D \ C : e = c
    OBVIOUS
  <2>2. c.ins.op \notin Opens \cup {"spawn", "join"}
    BY <1>2
  <2>3. c.ins.block = Last(o).block
    OBVIOUS
  <2>. HIDE DEF D, f, p, q, n
  <2>4. /\ Len(o) \in Nat \ {0} /\ Len(o) \in DOMAIN o
        /\ IsSeq(Front(o)) /\ Len(Front(o)) = Len(o) - 1
        /\ PathOf(Front(o)) = Until(PathOf(o), Len(o))
        /\ \A m \in DOMAIN Front(o) : FrameOK(D, Front(o)[m], Until(PathOf(Front(o)), m))
        /\ \A m, k \in DOMAIN Front(o) : Front(o)[m].block = Front(o)[k].block => m = k
        /\ \A h \in C : h.ins.op \in Opens /\ h.ins.block # Last(o).block =>
              (\E m \in DOMAIN Front(o) : Front(o)[m].block = h.ins.block) \/ Shut(D, h)
        /\ OneOpen(D)
    <3>1. /\ \A e \in C : e.ins.op \in Opens \cup {"spawn", "endif", "endloop"} => e \in D
          /\ \A e \in C : e.ins.op = "else" /\ e.ins.block # Last(o).block => e \in D
          /\ \A e \in D \ C : e.ins.op \notin Opens \cup {"spawn", "join"}
          /\ \A e \in D \ C : e.ins.op \in Closers => e.ins.block = Last(o).block
      BY <2>1, <2>2, <2>3
    <3>2. Outer(C, D, o)
      BY <3>1, OuterFrames
    <3>. QED
      BY <3>2 DEF Outer
  <2>. QED
    BY <2>4 DEF f, p, q, n
<1>6. Stand(Note(f.pre, p), D)
  BY <1>1, <1>2, StandMono
<1>a. c.z = WithExtra(f.pre, p, IF f.kind = "for own" THEN {f.coll} ELSE {})
  OBVIOUS
<1>. HIDE DEF f, p, n, q
<1>7. c.z.live /\ c.z.path = p /\ c.z.env = f.pre
  <2>. DEFINE X == IF f.kind = "for own" THEN {f.coll} ELSE {}
  <2>1. c.z = WithExtra(f.pre, p, X)
    BY <1>a
  <2>. HIDE DEF X
  <2>. QED
    BY ONLY <2>1 DEF WithExtra
<1>8. Stand(c.z, D)
  <2>1. CASE f.kind = "for own"
    <3>1. c.z = WithExtra(f.pre, p, {f.coll}) /\ {f.coll} # {}
      BY <1>a, <2>1
    <3>. QED
      BY ONLY <1>6, <3>1, ExtraStand
  <2>2. CASE f.kind # "for own"
    <3>1. c.z = Note(f.pre, p)
      BY <1>a, <2>2 DEF Note, WithExtra
    <3>. QED
      BY <1>6, <3>1
  <2>. QED
    BY <2>1, <2>2
<1>9. \A h \in D : h.ins.op \in Opens => (\E m \in DOMAIN q : q[m].block = h.ins.block) \/ Shut(D, h)
  <2>. SUFFICES ASSUME NEW h \in C, h.ins.op \in Opens, h.ins.block = f.block PROVE Shut(D, h)
    BY <1>2, <1>5
  <2>1. HasMark(D, "endloop", h.ins.block)
    BY DEF HasMark, f
  <2>2. h.ins.op # "if"
    <3>1. PICK k \in C : Heads(f, p, k)
      BY LastFrame DEF f, p, n
    <3>3. f.kind \notin {"then", "else"}
      BY DEF f
    <3>2. k = h
      BY <3>1 DEF State, OneOpen, Heads
    <3>. QED
      BY <3>1, <3>2, <3>3 DEF Heads, Kind, KindOf
  <2>. QED
    BY <2>1, <2>2 DEF Shut
<1>10. NoteOK(c.z)
  BY DEF CellOK
<1>11. State(D, c.z, q)
  BY <1>4, <1>5, <1>7, <1>8, <1>9, <1>10 DEF State
<1>. QED
  BY <1>6, <1>11 DEF f, p, q, n

-----------------------------------------------------------------------------
(* The end of a branch                                                      *)

(* A note stands among more cells that open no block and neither spawn nor  *)
(* join.                                                                    *)
LEMMA StandGrow ==
  ASSUME NEW C, NEW D, NEW x, Stand(x, C),
         \A c \in C : c.ins.op \in Opens \cup {"spawn"} => c \in D,
         \A c \in D \ C : c.ins.op \notin Opens \cup {"spawn", "join"}
  PROVE  Stand(x, D)
BY StandMono

(* The instruction that opened a branch is a conditional.                   *)
LEMMA IfHead ==
  ASSUME NEW f, NEW p, NEW h, Heads(f, p, h), f.kind \in {"then", "else"}
  PROVE  h.ins.op = "if" /\ Base(h) = f.pre /\ h.a.path = p /\ h.ins.block = f.block
<1>1. h.ins.op \in {"if", "while", "for"} /\ Kind(h.ins, f.kind)
  BY DEF Heads, Opens
<1>2. h.ins.op = "if"
  BY <1>1 DEF Kind, KindOf
<1>. QED
  BY <1>2 DEF Heads

(* The rest of State, for a stack whose innermost frame is replaced.        *)
LEMMA Replaced ==
  ASSUME NEW C, NEW x, NEW o, State(C, x, o), o # << >>, NEW D, NEW y, NEW f2,
         Typed(D), Outer(C, D, o), \A h \in D : h.ins.op \in Opens => h \in C,
         f2.block = Last(o).block, FrameOK(D, f2, Until(PathOf(o), Len(o))),
         NoteOK(y), Stand(y, D),
         y.live => y.path = Append(Until(PathOf(o), Len(o)), [block |-> f2.block, kind |-> f2.kind])
  PROVE  State(D, y, Append(Front(o), f2))
<1>. DEFINE q == Front(o)
            n == Len(o)
            p == Until(PathOf(o), n)
            r == Append(q, f2)
<1>1. /\ n \in Nat \ {0} /\ IsSeq(q) /\ Len(q) = n - 1 /\ DOMAIN q = 1 .. n - 1
      /\ \A m \in 1 .. n - 1 : q[m] = o[m] /\ o[m].block # Last(o).block
      /\ PathOf(q) = p
      /\ OneOpen(D)
  BY DEF Outer
<1>2. /\ \A m \in DOMAIN q : FrameOK(D, q[m], Until(PathOf(q), m))
      /\ \A m, k \in DOMAIN q : q[m].block = q[k].block => m = k
      /\ \A h \in C : h.ins.op \in Opens /\ h.ins.block # Last(o).block =>
              (\E m \in DOMAIN q : q[m].block = h.ins.block) \/ Shut(D, h)
  BY DEF Outer
<1>3. Until(PathOf(q), n) = p
  <2>1. n \in 1 .. n
    BY <1>1
  <2>. QED
    BY <2>1 DEF Outer
<1>. HIDE DEF q, n, p, r
<1>4. /\ IsSeq(r) /\ Len(r) = Len(q) + 1 /\ DOMAIN r = 1 .. Len(q) + 1
      /\ \A i \in 1 .. Len(q) : r[i] = q[i]
      /\ r[Len(q) + 1] = f2
  BY <1>1, SeqAppend DEF r
<1>5. /\ PathOf(r) = Append(PathOf(q), [block |-> f2.block, kind |-> f2.kind])
      /\ \A m \in 1 .. Len(q) + 1 : Until(PathOf(r), m) = Until(PathOf(q), m)
  BY <1>1, PathAppend DEF r
<1>6. Len(q) + 1 = n /\ Len(q) = n - 1
  BY ONLY <1>1
<1>7. /\ DOMAIN r = 1 .. n /\ r[n] = f2 /\ DOMAIN q = 1 .. n - 1
      /\ \A i \in 1 .. n - 1 : r[i] = q[i] /\ i \in DOMAIN q /\ q[i].block # f2.block
      /\ \A i \in 1 .. n : i = n \/ i \in 1 .. n - 1
      /\ n \in 1 .. n
  <2>1. /\ \A i \in 1 .. n : i = n \/ i \in 1 .. n - 1
        /\ n \in 1 .. n
    BY ONLY <1>1
  <2>. QED
    BY <1>1, <1>4, <1>6, <2>1
<1>8. \A m \in DOMAIN r : FrameOK(D, r[m], Until(PathOf(r), m))
  <2>1. Until(PathOf(r), n) = p /\ \A m \in 1 .. n : Until(PathOf(r), m) = Until(PathOf(q), m)
    BY <1>3, <1>5, <1>6, <1>7
  <2>2. FrameOK(D, f2, p)
    BY DEF p, n
  <2>3. ASSUME NEW m \in 1 .. n - 1 PROVE FrameOK(D, r[m], Until(PathOf(r), m))
    <3>1. m \in 1 .. n
      BY <1>1
    <3>. QED
      BY <1>2, <1>7, <2>1, <3>1
  <2>. QED
    BY <1>7, <2>1, <2>2, <2>3
<1>9. \A m, k \in DOMAIN r : r[m].block = r[k].block => m = k
  <2>. SUFFICES ASSUME NEW m \in 1 .. n, NEW k \in 1 .. n, r[m].block = r[k].block PROVE m = k
    BY <1>7
  <2>1. CASE m = n \/ k = n
    BY <1>7, <2>1
  <2>2. CASE m \in 1 .. n - 1 /\ k \in 1 .. n - 1
    BY <1>2, <1>7, <2>2
  <2>. QED
    BY <1>7, <2>1, <2>2
<1>10. \A h \in D : h.ins.op \in Opens => (\E m \in DOMAIN r : r[m].block = h.ins.block) \/ Shut(D, h)
  <2>. SUFFICES ASSUME NEW h \in C, h.ins.op \in Opens
                PROVE  (\E m \in DOMAIN r : r[m].block = h.ins.block) \/ Shut(D, h)
    OBVIOUS
  <2>1. CASE h.ins.block = Last(o).block
    BY <1>7, <2>1
  <2>2. CASE h.ins.block # Last(o).block
    <3>1. ASSUME NEW m \in DOMAIN q, q[m].block = h.ins.block PROVE \E i \in DOMAIN r : r[i].block = h.ins.block
      <4>1. m \in DOMAIN r /\ r[m] = q[m]
        BY <1>1, <1>4, <1>6, <1>7
      <4>. QED
        BY <3>1, <4>1
    <3>. QED
      BY <1>2, <2>2, <3>1
  <2>. QED
    BY <2>1, <2>2
<1>11. y.live => y.path = PathOf(r)
  BY <1>1, <1>5 DEF p, n
<1>. QED
  BY <1>1, <1>4, <1>8, <1>9, <1>10, <1>11 DEF State, r, q

(* The end of the then branch.                                              *)
LEMMA Elsing ==
  ASSUME NEW C, NEW x, NEW o, State(C, x, o), o # << >>, NEW c, c.a = x, c.ins.op = "else", CellOK(c),
         c.ins.block = Last(o).block, Last(o).kind = "then",
         NEW T, x.live => SealedButTasks(x, T) /\ EnvOK(T) /\ Len(T) = Len(o),
         NEW f2, f2.kind = "else", f2.block = Last(o).block, f2.pre = Last(o).pre,
         f2.then_closed = ~x.live, f2.then_env = T,
         c.z = Note(Append(f2.pre, << >>), Append(Until(PathOf(o), Len(o)), [block |-> f2.block, kind |-> "else"]))
  PROVE  State(C \cup {c}, c.z, Append(Front(o), f2))
<1>. DEFINE D == C \cup {c}
            f == Last(o)
            n == Len(o)
            p == Until(PathOf(o), n)
<1>1. /\ FrameOK(C, f, p) /\ PathOf(o) = Append(p, [block |-> f.block, kind |-> f.kind])
      /\ Stand(Note(f.pre, p), C) /\ EnvOK(f.pre) /\ Len(f.pre) = n /\ Len(p) = n /\ n \in Nat \ {0}
      /\ f.block \in Nat \ {0} /\ DOMAIN p = 1 .. n
      /\ \A d \in DOMAIN p : p[d].block # f.block
  BY LastFrame
<1>2. c.ins.op \notin Opens /\ c.ins.op \in Closers /\ c.ins.op \notin {"spawn", "join"} /\ c.ins.op # "endif"
  BY DEF Opens, Closers
<1>3. PICK k \in C : Heads(f, p, k) /\ CellOK(k)
  BY LastFrame
<1>4. ThenOK(C, f)
  BY <1>1 DEF FrameOK
<1>5. ASSUME NEW h \in C, Heads(f, p, h) PROVE PairOK(h, c)
  <2>1. h.ins.op = "if" /\ Base(h) = f.pre /\ h.a.path = p /\ h.ins.block = f.block
    BY <1>5, IfHead
  <2>2. CellOK(h) /\ h.ins.op \in Opens
    BY <1>5, FramesAre DEF Heads
  <2>3. Len(Base(h)) = Len(h.a.env)
    BY <2>2, BaseIs
  <2>4. c.z = Pushed(h, "else", << >>)
    BY <2>1 DEF Pushed
  <2>5. x.live => In(x, h, "then") /\ Len(x.env) = Len(h.a.env) + 1
    <3>1. x.live => x.path = PathOf(o)
      BY DEF State
    <3>2. x.live => Len(x.env) = n + 1
      BY DEF SealedButTasks
    <3>. QED
      BY <1>1, <2>1, <2>3, <3>1, <3>2 DEF In
  <2>. QED
    BY <2>1, <2>4, <2>5 DEF PairOK, ElseOK, Exits
<1>6. Typed(D)
  <2>1. \A h \in C : MergeOK(h, c)
    BY DEF MergeOK
  <2>2. \A e \in C : MergeOK(c, e)
    BY <1>4 DEF MergeOK, ThenOK, HasMark
  <2>. HIDE DEF f, p, n
  <2>. QED
    BY <1>2, <1>5, <2>1, <2>2, FitCloser DEF f, p, n
<1>. HIDE DEF f, n, p
<1>7. Outer(C, D, o)
  <2>1. \A e \in D \ C : e = c
    OBVIOUS
  <2>2. /\ \A e \in C : e.ins.op \in Opens \cup {"spawn", "endif", "endloop"} => e \in D
        /\ \A e \in C : e.ins.op = "else" /\ e.ins.block # Last(o).block => e \in D
        /\ \A e \in D \ C : e.ins.op \notin Opens \cup {"spawn", "join"}
        /\ \A e \in D \ C : e.ins.op \in Closers => e.ins.block = Last(o).block
    BY <1>2, <2>1
  <2>. QED
    BY <2>2, OuterFrames
<1>8. Stand(Note(f.pre, p), D)
  BY <1>1, <1>2, StandGrow
<1>9. k.ins.op = "if" /\ Base(k) = f.pre /\ k.a.path = p /\ k.ins.block = f.block /\ k.ins.op \in Opens
  BY <1>3, IfHead DEF f, Heads
<1>10. OneOpen(D) /\ \A e \in D : CellOK(e)
  BY <1>6, <1>7 DEF Outer, Typed, Fit
<1>11. Stand(c.z, D)
  <2>1. c.z = Pushed(k, "else", << >>)
    BY <1>9 DEF Pushed, f, p, n
  <2>2. \A e \in D : e.ins.op \in {"spawn", "join"} => ~At1(e, [block |-> k.ins.block, kind |-> "else"])
    BY <1>2, <1>4, <1>9 DEF ThenOK
  <2>3. Kind(k.ins, "else")
    BY <1>9 DEF Kind
  <2>4. \A d \in DOMAIN k.a.path : k.a.path[d].block # k.ins.block
    BY <1>1, <1>9
  <2>5. \A i \in DOMAIN << >> : << >>[i].ty # "task" /\ (<< >>[i].no_drop => k.ins.op = "for" /\ k.ins.n = i)
    BY EmptyScope
  <2>6. Stand(Note(Base(k), k.a.path), D) /\ k \in D
    BY <1>8, <1>9
  <2>. HIDE DEF D
  <2>. QED
    BY <1>9, <1>10, <2>1, <2>2, <2>3, <2>4, <2>5, <2>6, PushStand
<1>12. FrameOK(D, f2, p)
  <2>1. f2.block = f.block /\ f2.pre = f.pre /\ f2.kind = "else"
    BY DEF f
  <2>2. Heads(f2, p, k)
    BY <1>9, <2>1 DEF Heads, Kind
  <2>3. HasMark(D, "else", f2.block) /\ ~HasMark(D, "endif", f2.block)
    BY <1>2, <1>4, <2>1 DEF HasMark, ThenOK, f
  <2>4. ASSUME NEW e \in D, e.ins.op = "else", e.ins.block = f2.block PROVE e = c
    BY <1>4, <2>1, <2>4 DEF ThenOK, HasMark
  <2>5. ASSUME x.live
        PROVE  EnvOK(T) /\ Len(T) = Len(p) /\ Since(f.pre, T) /\ Stand(Note(T, p), D)
    <3>1. NoteOK(x) /\ x.extra = {} /\ x.path = PathOf(o) /\ Stand(x, C) /\ \A h \in C : CellOK(h)
      <4>1. x.extra = {}
        BY <2>5 DEF CellOK, Ends, Closers
      <4>. QED
        BY <2>5, <4>1, FramesAre DEF State
    <3>2. EnvOK(T) /\ Len(T) = n /\ SealedButTasks(x, T)
      BY <2>5 DEF n
    <3>3. DOMAIN T = 1 .. n /\ Len(x.env) = n + 1 /\ \A d \in 1 .. n : T[d] = x.env[d]
      BY <3>2, EnvIs DEF SealedButTasks
    <3>4. /\ \A d \in 1 .. n : p[d] = x.path[d]
          /\ n + 1 \in DOMAIN x.path /\ x.path[n + 1].block = f.block
      <4>1. n \in 1 .. Len(o) + 1 /\ Len(o) \in DOMAIN o
        BY <1>1, FramesAre DEF n
      <4>2. IsSeq(o)
        BY FramesAre
      <4>3. /\ \A d \in 1 .. n : p[d] = PathOf(o)[d]
            /\ DOMAIN PathOf(o) = 1 .. n + 1
        BY <4>1, <4>2, PathOfIs DEF n, p
      <4>4. n + 1 \in 1 .. n + 1
        BY <1>1
      <4>5. PathOf(o)[n + 1].block = f.block
        <5>1. PathOf(o)[Len(o) + 1] = [block |-> o[Len(o)].block, kind |-> o[Len(o)].kind]
          <6>1. Len(o) \in 1 .. Len(o)
            BY <4>1, <4>2, PathOfIs
          <6>. QED
            BY <4>2, <6>1, PathOfIs
        <5>2. Last(o) = o[Len(o)]
          BY <4>2, SeqFront
        <5>. QED
          BY <5>1, <5>2 DEF n, f
      <4>. QED
        BY <3>1, <4>3, <4>4, <4>5
    <3>5. Stand(Note(T, p), C)
      <4>1. n <= Len(x.env)
        BY <1>1, <3>3
      <4>2. DOMAIN T = 1 .. n /\ DOMAIN p = 1 .. n
        BY <1>1, <3>3
      <4>3. \A d \in 1 .. n : T[d] = x.env[d] /\ p[d] = x.path[d]
        BY <3>3, <3>4
      <4>4. n \in Nat \ {0}
        BY <1>1
      <4>. HIDE DEF D
      <4>. QED
        BY ONLY <2>5, <3>1, <4>1, <4>2, <4>3, <4>4, PopStand
    <3>6. Stand(Note(T, p), D)
      BY <1>2, <3>5, StandGrow
    <3>7. Since(f.pre, T)
      <4>1. InBody(x, k, n + 1)
        BY <1>9, <2>5, <3>1, <3>4 DEF Stand, Sits, Inside
      <4>2. Since(f.pre, x.env)
        BY <1>9, <4>1 DEF InBody
      <4>3. DOMAIN f.pre = 1 .. n
        BY <1>1, EnvIs
      <4>4. \A d \in 1 .. n : T[d] = x.env[d]
        BY <3>3
      <4>. HIDE DEF D
      <4>. QED
        BY ONLY <4>2, <4>3, <4>4 DEF Since
    <3>. QED
      BY <1>1, <3>2, <3>6, <3>7
  <2>6. InElseOK(D, f2, p)
    BY <2>1, <2>3, <2>4, <2>5 DEF InElseOK
  <2>. QED
    BY <1>1, <1>3, <1>8, <2>1, <2>2, <2>6 DEF FrameOK
<1>13. NoteOK(c.z) /\ c.z.path = Append(p, [block |-> f2.block, kind |-> f2.kind])
  BY DEF CellOK, Note, p, n
<1>14. \A h \in D : h.ins.op \in Opens => h \in C
  BY <1>2
<1>. HIDE DEF D
<1>15. State(D, c.z, Append(Front(o), f2))
  BY <1>6, <1>7, <1>11, <1>12, <1>13, <1>14, Replaced DEF p, n
<1>. QED
  BY <1>15 DEF D

-----------------------------------------------------------------------------
(* The merge of two branches                                                *)

(* What is not reached stands anywhere.                                     *)
LEMMA DeadStand ==
  ASSUME NEW C, NEW x, ~x.live
  PROVE  Stand(x, C)
BY DEF Stand, Sits, Placed, Inside

(* In an enclosing loop's body, its collection is as moved in x as in y.    *)
LEMMA SameColl ==
  ASSUME NEW C, NEW x, NEW y, Sits(x, C), Sits(y, C), x.live, y.live, x.extra = {}, y.extra = {},
         NEW h \in C, h.ins.op = "for", NEW e \in DOMAIN x.path, e \in DOMAIN y.path,
         x.path[e].block = h.ins.block, y.path[e].block = h.ins.block,
         NEW d \in DOMAIN h.a.env, h.ins.coll \in DOMAIN h.a.env[d]
  PROVE  x.env[d][h.ins.coll].moved = y.env[d][h.ins.coll].moved
<1>1. InBody(x, h, e) /\ InBody(y, h, e)
  BY DEF Sits, Inside, Opens
<1>. QED
  BY <1>1 DEF InBody

(* The merge of two branches stands where they do.                          *)
LEMMA MergeStand ==
  ASSUME NEW C, NEW T, NEW F, NEW p, \A h \in C : CellOK(h),
         NoteOK(Note(T, p)), NoteOK(Note(F, p)), Stand(Note(T, p), C), Stand(Note(F, p), C),
         NEW M, NoteOK(Note(M, p)), Moves(T, M),
         \A d \in DOMAIN T : \A n \in DOMAIN T[d] : T[d][n].moved = F[d][n].moved => M[d][n].moved = T[d][n].moved,
         \A d \in DOMAIN M : \A n \in DOMAIN M[d] : M[d][n].ty = "task" => n \in DOMAIN T[d] /\ T[d][n].ty = "task"
  PROVE  Stand(Note(M, p), C)
<1>. DEFINE x == Note(T, p)
            w == Note(F, p)
            y == Note(M, p)
<1>1. /\ x.live /\ x.extra = {} /\ x.path = p /\ x.env = T
      /\ y.live /\ y.extra = {} /\ y.path = p /\ y.env = M
      /\ w.live /\ w.extra = {} /\ w.path = p /\ w.env = F
  BY DEF Note
<1>2. NoteOK(x) /\ NoteOK(y) /\ Stand(x, C) /\ Stand(w, C)
  OBVIOUS
<1>. HIDE DEF x, y, w
<1>3. ASSUME NEW h \in C, h.ins.op = "for", NEW e \in DOMAIN x.path, x.path[e].block = h.ins.block,
             NEW d \in DOMAIN h.a.env, h.ins.coll \in DOMAIN h.a.env[d]
      PROVE  y.env[d][h.ins.coll].moved = x.env[d][h.ins.coll].moved
  <2>1. T[d][h.ins.coll].moved = F[d][h.ins.coll].moved
    BY <1>1, <1>2, <1>3, SameColl DEF Stand
  <2>2. InBody(x, h, e)
    BY <1>1, <1>2, <1>3 DEF Stand, Sits, Inside, Opens
  <2>3. CellOK(h) /\ h.ins.op \in Opens
    BY <1>3 DEF Opens
  <2>4. DOMAIN Base(h) = DOMAIN h.a.env /\ DOMAIN Base(h)[d] = DOMAIN h.a.env[d]
    <3>1. /\ DOMAIN Base(h) = DOMAIN h.a.env
          /\ \A i \in DOMAIN h.a.env : DOMAIN Base(h)[i] = DOMAIN h.a.env[i]
      BY <2>3, BaseIs
    <3>. QED
      BY <3>1
  <2>5. h.ins.coll \in DOMAIN T[d]
    BY <1>1, <1>3, <2>2, <2>4 DEF InBody, Since
  <2>6. d \in DOMAIN T
    <3>1. Len(h.a.path) = e - 1 /\ Len(h.a.env) = Len(h.a.path) /\ d \in 1 .. Len(h.a.env) /\ Len(h.a.env) \in Nat
      <4>1. EnvOK(h.a.env) /\ Len(h.a.path) = Len(h.a.env)
        BY <2>3, BaseIs
      <4>2. Len(h.a.env) \in Nat \ {0} /\ DOMAIN h.a.env = 1 .. Len(h.a.env)
        BY <4>1, EnvIs
      <4>. QED
        BY <2>2, <4>1, <4>2 DEF InBody
    <3>2. DOMAIN T = 1 .. Len(T) /\ DOMAIN x.path = 1 .. Len(T) /\ Len(T) \in Nat
      BY <1>1, <1>2, PathIs
    <3>3. e \in 1 .. Len(T)
      BY <3>2
    <3>. QED
      BY ONLY <3>1, <3>2, <3>3
  <2>. QED
    BY <1>1, <2>1, <2>5, <2>6
<1>4. Stand(y, C)
  <2>1. Moves(x.env, y.env)
    BY <1>1
  <2>2. C \subseteq C /\ C \ C = {}
    OBVIOUS
  <2>3. \A d \in DOMAIN y.env : \A n \in DOMAIN y.env[d] : y.env[d][n].ty = "task" =>
           \/ n \in DOMAIN x.env[d] /\ x.env[d][n].ty = "task"
           \/ \E s \in C : s.ins.op = "spawn" /\ s.ins.n = n /\ At1(s, x.path[d])
    BY <1>1
  <2>4. \A h \in C : h.ins.op = "for" => \A e \in DOMAIN x.path : x.path[e].block = h.ins.block =>
           \A d \in DOMAIN h.a.env : h.ins.coll \in DOMAIN h.a.env[d] =>
             y.env[d][h.ins.coll].moved = x.env[d][h.ins.coll].moved
    BY <1>3
  <2>. QED
    BY <1>1, <1>2, <2>1, <2>2, <2>3, <2>4, StandStep
<1>. QED
  BY <1>4 DEF y

(* Drops written at the end of the then branch, when the else branch ends.  *)
LEMMA Balancing ==
  ASSUME NEW C, NEW x, NEW o, State(C, x, o), o # << >>, Last(o).kind = "else",
         NEW k \in C, k.ins.op = "else", k.ins.block = Last(o).block, k.a.live,
         \A e \in C : e.ins.op = "else" /\ e.ins.block = Last(o).block => e = k,
         NEW M, EnvOK(M), Len(M) = Len(o), Since(Last(o).pre, M), Stand(Note(M, Until(PathOf(o), Len(o))), C),
         NEW dr, dr.a = k.a, dr.ins.op = "drop", CellOK(dr), dr.z.live, dr.z.path = k.a.path, dr.z.extra = {},
         SealedButTasks(dr.z, M), Moves(k.a.env, dr.z.env),
         \A d \in DOMAIN dr.z.env : \A n \in DOMAIN dr.z.env[d] : dr.z.env[d][n].ty = "task" =>
            n \in DOMAIN k.a.env[d] /\ k.a.env[d][n].ty = "task",
         NEW k2, k2 = Cell3(k.ins, dr.z, k.z),
         NEW f2, f2.kind = "else", f2.block = Last(o).block, f2.pre = Last(o).pre,
         f2.then_closed = FALSE, f2.then_env = M
  PROVE  State((C \ {k}) \cup {dr, k2}, x, Append(Front(o), f2))
<1>. DEFINE D == (C \ {k}) \cup {dr, k2}
            f == Last(o)
            n == Len(o)
            p == Until(PathOf(o), n)
<1>1. /\ FrameOK(C, f, p) /\ PathOf(o) = Append(p, [block |-> f.block, kind |-> f.kind])
      /\ Stand(Note(f.pre, p), C) /\ EnvOK(f.pre) /\ Len(f.pre) = n /\ Len(p) = n /\ n \in Nat \ {0}
      /\ f.block \in Nat \ {0} /\ DOMAIN p = 1 .. n
      /\ \A d \in DOMAIN p : p[d].block # f.block
  BY LastFrame
<1>2. PICK h0 \in C : Heads(f, p, h0) /\ CellOK(h0)
  BY LastFrame
<1>3. h0.ins.op = "if" /\ Base(h0) = f.pre /\ h0.a.path = p /\ h0.ins.block = f.block /\ h0.ins.op \in Opens
  BY <1>2, IfHead DEF f, Heads
<1>4. InElseOK(C, f, p)
  BY <1>1 DEF FrameOK
<1>. HIDE DEF f, n, p
<1>5. k2.ins = k.ins /\ k2.a = dr.z /\ k2.z = k.z
  BY CellIs
<1>6. /\ \A e \in D \ C : e = dr \/ e = k2
      /\ dr.ins.op \notin Opens \cup Closers \cup {"spawn", "join"}
      /\ k2.ins.op = "else" /\ k2.ins.op \notin Opens \cup {"spawn", "join"} /\ k2.ins.block = f.block
      /\ k \notin {c \in C : c.ins.op \in Opens \cup {"spawn", "endif", "endloop"}}
  BY <1>5 DEF Opens, Closers, f
<1>7. /\ \A c \in C : c.ins.op \in Opens \cup {"spawn", "endif", "endloop"} => c \in D
      /\ \A c \in D : c.ins.op \in Opens => c \in C
      /\ \A c \in D \ C : c.ins.op \notin Opens \cup {"spawn", "join"}
  BY <1>6
<1>8. Fit(k, C) /\ CellOK(k) /\ Sits(k.a, C) /\ Accounted(k.a, C, Len(k.a.path)) /\ HasOpen(C, k.ins.block)
  <2>1. Fit(k, C)
    BY FramesAre
  <2>. QED
    BY <2>1 DEF Fit, Closers, Ends
<1>9. NoteOK(k.a) /\ NoteOK(dr.z) /\ k.a.extra = {} /\ (\A h \in C : CellOK(h))
  <2>1. \A h \in C : CellOK(h)
    BY FramesAre
  <2>2. k.ins.op \in Ends
    BY DEF Ends, Closers
  <2>. QED
    BY <1>8, <2>1, <2>2 DEF CellOK
<1>10. PairOK(h0, k) /\ In(k.a, h0, "then") /\ Len(k.a.env) = Len(h0.a.env) + 1
  <2>1. PairOK(h0, k)
    BY <1>8 DEF Fit
  <2>. QED
    BY <1>3, <1>6, <2>1 DEF PairOK, ElseOK, Ends, Closers, f
<1>11. Len(k.a.env) = n + 1 /\ k.a.path = Append(p, [block |-> f.block, kind |-> "then"])
  <2>1. Len(Base(h0)) = Len(h0.a.env)
    BY ONLY <1>2, <1>3, BaseIs
  <2>. QED
    BY <1>1, <1>3, <1>10, <2>1 DEF In
<1>12. /\ DOMAIN k.a.path = 1 .. n + 1 /\ Len(k.a.path) = n + 1 /\ \A d \in 1 .. n : k.a.path[d] = p[d]
       /\ k.a.path[n + 1].block = f.block
  <2>1. IsSeq(p)
    BY LastFrame DEF p, n
  <2>. DEFINE pl == [block |-> f.block, kind |-> "then"]
  <2>3. k.a.path = Append(p, pl) /\ pl.block = f.block
    BY <1>11
  <2>. HIDE DEF pl
  <2>2. /\ DOMAIN Append(p, pl) = 1 .. n + 1 /\ Len(Append(p, pl)) = n + 1
        /\ (\A d \in 1 .. n : Append(p, pl)[d] = p[d]) /\ Append(p, pl)[n + 1] = pl
    BY <1>1, <2>1, SeqAppend
  <2>. QED
    BY <2>2, <2>3, ZenonT(60)
<1>. DEFINE w == Note(M, p)
<1>13. /\ w.live /\ w.extra = {} /\ w.path = p /\ w.env = M
       /\ Stand(w, C)
  BY DEF Note, p, n
<1>. HIDE DEF w
<1>14. \A d \in 1 .. n : M[d] = dr.z.env[d]
  <2>1. DOMAIN M = 1 .. n
    BY EnvIs DEF n
  <2>. QED
    BY <2>1 DEF SealedButTasks
<1>15. ASSUME NEW h \in C, h.ins.op = "for", NEW e \in DOMAIN k.a.path, k.a.path[e].block = h.ins.block,
              NEW d \in DOMAIN h.a.env, h.ins.coll \in DOMAIN h.a.env[d]
       PROVE  dr.z.env[d][h.ins.coll].moved = k.a.env[d][h.ins.coll].moved
  <2>1. CASE e = n + 1
    <3>1. h = h0
      BY <1>3, <1>12, <1>15, <2>1 DEF State, OneOpen, Opens
    <3>. QED
      BY <1>3, <1>15, <3>1
  <2>2. CASE e # n + 1
    <3>1. e \in 1 .. n
      BY <1>1, <1>12, <2>2
    <3>2. e \in DOMAIN w.path /\ w.path[e].block = h.ins.block
      BY <1>1, <1>12, <1>13, <1>15, <3>1
    <3>3. k.a.env[d][h.ins.coll].moved = M[d][h.ins.coll].moved
      <4>1. Sits(k.a, C) /\ Sits(w, C) /\ k.a.live /\ w.live /\ k.a.extra = {} /\ w.extra = {}
        BY <1>8, <1>9, <1>13 DEF Stand
      <4>2. e \in DOMAIN k.a.path /\ k.a.path[e].block = h.ins.block
        BY <1>15
      <4>3. k.a.env[d][h.ins.coll].moved = w.env[d][h.ins.coll].moved
        BY <1>15, <3>2, <4>1, <4>2, SameColl, SMTT(60)
      <4>. QED
        BY <1>13, <4>3
    <3>4. d \in 1 .. n
      <4>1. InBody(k.a, h, e)
        BY <1>8, <1>9, <1>15 DEF Sits, Inside, Opens
      <4>2. EnvOK(h.a.env) /\ Len(h.a.path) = Len(h.a.env)
        <5>1. CellOK(h) /\ h.ins.op \in Opens
          BY <1>9, <1>15 DEF Opens
        <5>. QED
          BY ONLY <5>1, BaseIs
      <4>3. Len(h.a.env) \in Nat /\ DOMAIN h.a.env = 1 .. Len(h.a.env) /\ Len(h.a.env) = e - 1
        BY <4>1, <4>2, EnvIs DEF InBody
      <4>4. n \in Nat
        BY <1>1
      <4>. QED
        BY <1>15, <3>1, <4>3, <4>4
    <3>. QED
      BY <1>14, <3>3, <3>4
  <2>. QED
    BY <2>1, <2>2
<1>16. Sits(dr.z, C)
  <2>1. C \subseteq C /\ C \ C = {}
    OBVIOUS
  <2>2. \A h \in C : h.ins.op = "for" => \A e \in DOMAIN k.a.path : k.a.path[e].block = h.ins.block =>
           \A d \in DOMAIN h.a.env : h.ins.coll \in DOMAIN h.a.env[d] =>
             dr.z.env[d][h.ins.coll].moved = k.a.env[d][h.ins.coll].moved
    BY <1>15
  <2>3. \A d \in DOMAIN dr.z.env : \A i \in DOMAIN dr.z.env[d] : dr.z.env[d][i].ty = "task" =>
           \/ i \in DOMAIN k.a.env[d] /\ k.a.env[d][i].ty = "task"
           \/ \E s \in C : s.ins.op = "spawn" /\ s.ins.n = i /\ At1(s, k.a.path[d])
    OBVIOUS
  <2>. QED
    BY <1>8, <1>9, <2>1, <2>2, <2>3, SitsStep
<1>17. Fit(dr, D)
  <2>1. Sits(dr.a, D)
    BY <1>7, <1>8, SitsMono
  <2>2. \A h \in D : PairOK(h, dr) /\ MergeOK(h, dr)
    BY DEF PairOK, MergeOK, Ends, Closers, Exits
  <2>. QED
    BY <2>1, <2>2 DEF Fit, Closers, Ends, Exits
<1>18. Fit(k2, D)
  <2>1. CellOK(k2)
    <3>1. k2.ins.op \in Ends /\ k2.ins.op \in Closers /\ k2.ins.op \notin Straights \cup {"return"} \cup Opens \cup Exits
      BY <1>6 DEF Ends, Closers, Straights, Opens, Exits
    <3>2. k2 = Cell3(k2.ins, k2.a, k2.z) /\ NoteOK(k2.a) /\ NoteOK(k2.z)
      BY <1>5, <1>8, <1>9 DEF CellOK
    <3>. QED
      BY <1>5, <1>6, <3>1, <3>2 DEF CellOK, Straights
  <2>2. Sits(dr.z, D)
    BY <1>7, <1>16, SitsMono
  <2>3. Accounted(dr.z, D, Len(dr.z.path))
    <3>1. Len(k.a.path) \in DOMAIN k.a.path
      <4>1. n \in Nat
        BY <1>1
      <4>. QED
        BY ONLY <1>12, <4>1
    <3>2. \A c \in D \ C : c.ins.op \in {"spawn", "join"} /\ At1(c, k.a.path[Len(k.a.path)]) => FALSE
      BY <1>7
    <3>. QED
      BY <1>8, <1>9, <3>1, <3>2, AccountedStep
  <2>4. HasOpen(D, k2.ins.block)
    BY <1>5, <1>7, <1>8 DEF HasOpen
  <2>5. ASSUME NEW h \in D PROVE PairOK(h, k2) /\ MergeOK(h, k2)
    <3>1. MergeOK(h, k2)
      BY <1>6 DEF MergeOK
    <3>2. PairOK(h, k2)
      <4>. SUFFICES ASSUME h.ins.op \in Opens, h.ins.block = k2.ins.block PROVE PairOK(h, k2)
        BY DEF PairOK
      <4>1. h \in C /\ PairOK(h, k)
        BY <1>7, <1>8 DEF Fit
      <4>2. h.ins.op = "if" /\ ElseOK(h, k)
        BY <1>5, <1>6, <4>1 DEF PairOK, Ends, Closers
      <4>3. ElseOK(h, k2)
        <5>1. Len(dr.z.env) = Len(k.a.env)
          <6>1. NoteOK(dr.z) /\ dr.z.live /\ NoteOK(k.a) /\ k.a.live /\ dr.z.path = k.a.path
            BY <1>9
          <6>2. Len(dr.z.path) = Len(dr.z.env) /\ Len(k.a.path) = Len(k.a.env)
            BY <6>1, PathIs
          <6>. QED
            BY <6>1, <6>2
        <5>. QED
          BY <1>5, <4>2, <5>1 DEF ElseOK, In
      <4>. QED
        BY <1>6, <4>2, <4>3 DEF PairOK, Exits
    <3>. QED
      BY <3>1, <3>2
  <2>. QED
    BY <1>5, <1>6, <2>1, <2>2, <2>3, <2>4, <2>5 DEF Fit
<1>. HIDE DEF D
<1>19. Typed(D)
  <2>1. \A c \in D \ C : Fit(c, D)
    BY <1>6, <1>17, <1>18
  <2>2. \A c \in D \ C : \A e \in C \cap D : MergeOK(c, e)
    <3>1. \A e \in C : MergeOK(k2, e) /\ MergeOK(dr, e)
      BY <1>4, <1>6 DEF MergeOK, InElseOK, HasMark
    <3>. QED
      BY <1>6, <3>1
  <2>3. Typed(C)
    BY DEF State
  <2>. QED
    BY <1>7, <2>1, <2>2, <2>3, TypedMono
<1>20. Outer(C, D, o)
  <2>1. \A e \in C : e.ins.op = "else" /\ e.ins.block # Last(o).block => e \in D
    BY DEF D
  <2>2. \A e \in D \ C : e.ins.op \in Closers => e.ins.block = Last(o).block
    BY <1>6 DEF f
  <2>. QED
    BY <1>7, <2>1, <2>2, OuterFrames
<1>21. FrameOK(D, f2, p)
  <2>1. f2.block = f.block /\ f2.pre = f.pre /\ f2.kind = "else"
    BY DEF f
  <2>2. Heads(f2, p, h0) /\ h0 \in D
    BY <1>3, <1>7, <2>1 DEF Heads, Kind
  <2>3. HasMark(D, "else", f2.block) /\ ~HasMark(D, "endif", f2.block)
    BY <1>4, <1>6, <2>1 DEF HasMark, InElseOK, D
  <2>4. ASSUME NEW e \in D, e.ins.op = "else", e.ins.block = f2.block PROVE e = k2
    BY <1>6, <2>4 DEF D, f
  <2>5. Stand(Note(M, p), D) /\ Stand(Note(f.pre, p), D)
    BY <1>1, <1>7, <1>13, StandGrow DEF w
  <2>6. InElseOK(D, f2, p)
    <3>1. EnvOK(M) /\ Len(M) = Len(p) /\ Since(f2.pre, M)
      BY <1>1 DEF n, f
    <3>2. k2.a.live /\ SealedButTasks(k2.a, M)
      BY <1>5
    <3>. QED
      BY <2>1, <2>3, <2>4, <2>5, <3>1, <3>2 DEF InElseOK
  <2>. QED
    BY <1>1, <2>1, <2>2, <2>5, <2>6 DEF FrameOK
<1>22. NoteOK(x) /\ Stand(x, D) /\ (x.live => x.path = Append(p, [block |-> f2.block, kind |-> f2.kind]))
  <2>1. Stand(x, D)
    BY <1>7, StandGrow DEF State
  <2>. QED
    BY <1>1, <2>1 DEF State, f
<1>23. State(D, x, Append(Front(o), f2))
  BY <1>7, <1>19, <1>20, <1>21, <1>22, Replaced DEF p, n
<1>. QED
  BY <1>23 DEF D

(* The end of the else branch.                                              *)
LEMMA EndIfing ==
  ASSUME NEW C, NEW x, NEW o, State(C, x, o), o # << >>, Last(o).kind = "else",
         NEW c, c.a = x, c.ins.op = "endif", CellOK(c), c.ins.block = Last(o).block,
         NEW M, c.z.live => c.z = Note(M, Until(PathOf(o), Len(o))) /\ Stand(c.z, C),
         x.live => c.z.live /\ SealedButTasks(x, M),
         ~Last(o).then_closed => c.z.live /\ M = Last(o).then_env
  PROVE  State(C \cup {c}, c.z, Front(o))
<1>. DEFINE D == C \cup {c}
            f == Last(o)
            n == Len(o)
            p == Until(PathOf(o), n)
            q == Front(o)
<1>1. /\ FrameOK(C, f, p) /\ PathOf(o) = Append(p, [block |-> f.block, kind |-> f.kind])
  BY LastFrame
<1>2. c.ins.op \notin Opens /\ c.ins.op \in Closers /\ c.ins.op \notin {"spawn", "join"} /\ c.ins.op # "else"
  BY DEF Opens, Closers
<1>3. PICK k \in C : Heads(f, p, k) /\ CellOK(k)
  BY LastFrame
<1>4. InElseOK(C, f, p)
  BY <1>1 DEF FrameOK
<1>5. c.z.live => c.z.env = M /\ c.z.path = p
  BY DEF Note
<1>6. ASSUME NEW h \in C, Heads(f, p, h) PROVE PairOK(h, c)
  <2>1. h.ins.op = "if" /\ Base(h) = f.pre /\ h.a.path = p /\ h.ins.block = f.block
    BY <1>6, IfHead
  <2>2. x.live => In(x, h, "else")
    <3>1. x.live => x.path = PathOf(o)
      BY DEF State
    <3>. QED
      BY <1>1, <2>1, <3>1 DEF In
  <2>3. EndIfOK(h, c)
    BY <1>5, <2>1, <2>2 DEF EndIfOK
  <2>. QED
    BY <2>1, <2>3 DEF PairOK, Exits
<1>7. Typed(D)
  <2>1. \A h \in C : MergeOK(h, c)
    BY <1>4, <1>5 DEF MergeOK, InElseOK, HasMark
  <2>2. \A e \in C : MergeOK(c, e)
    BY <1>4, <1>5 DEF MergeOK, InElseOK, HasMark
  <2>. HIDE DEF f, p, n
  <2>. QED
    BY <1>2, <1>6, <2>1, <2>2, FitCloser DEF f, p, n
<1>. HIDE DEF f, n, p, q
<1>8. Outer(C, D, o)
  <2>1. \A e \in D \ C : e = c
    OBVIOUS
  <2>2. /\ \A e \in C : e.ins.op \in Opens \cup {"spawn", "endif", "endloop"} => e \in D
        /\ \A e \in C : e.ins.op = "else" /\ e.ins.block # Last(o).block => e \in D
        /\ \A e \in D \ C : e.ins.op \notin Opens \cup {"spawn", "join"}
        /\ \A e \in D \ C : e.ins.op \in Closers => e.ins.block = Last(o).block
    BY <1>2, <2>1
  <2>. QED
    BY <2>2, OuterFrames
<1>9. Stand(c.z, D)
  <2>1. CASE c.z.live
    BY <1>2, <2>1, StandGrow
  <2>2. CASE ~c.z.live
    BY <2>2, DeadStand
  <2>. QED
    BY <2>1, <2>2
<1>10. k.ins.op = "if" /\ k.ins.block = f.block /\ k.ins.op \in Opens
  BY <1>3, IfHead DEF f, Heads
<1>11. \A h \in D : h.ins.op \in Opens => (\E m \in DOMAIN q : q[m].block = h.ins.block) \/ Shut(D, h)
  <2>1. ASSUME NEW h \in C, h.ins.op \in Opens, h.ins.block # Last(o).block
        PROVE  (\E m \in DOMAIN q : q[m].block = h.ins.block) \/ Shut(D, h)
    BY <1>8, <2>1 DEF Outer, q
  <2>2. ASSUME NEW h \in C, h.ins.op \in Opens, h.ins.block = Last(o).block
        PROVE  Shut(D, h)
    <3>1. h = k
      BY <1>10, <2>2 DEF State, OneOpen, f
    <3>2. HasMark(D, "else", f.block) /\ HasMark(D, "endif", f.block)
      BY <1>4 DEF InElseOK, HasMark, f
    <3>. QED
      BY <1>10, <3>1, <3>2 DEF Shut
  <2>. QED
    BY <1>2, <2>1, <2>2
<1>12. NoteOK(c.z)
  BY DEF CellOK
<1>13. /\ IsSeq(q) /\ PathOf(q) = p /\ OneOpen(D)
       /\ \A m \in DOMAIN q : FrameOK(D, q[m], Until(PathOf(q), m))
       /\ \A m, i \in DOMAIN q : q[m].block = q[i].block => m = i
  BY <1>8 DEF Outer, q, p, n
<1>. HIDE DEF D
<1>14. State(D, c.z, q)
  BY <1>5, <1>7, <1>9, <1>11, <1>12, <1>13 DEF State
<1>. QED
  BY <1>14 DEF D, q

-----------------------------------------------------------------------------
(* The typed body and its notes                                             *)
BlocksOf(cs) == {cs[i].block : i \in {j \in DOMAIN cs : cs[j].op \in {"if", "while", "for"}}}

OneElse(cs) ==
  \A i, j \in DOMAIN cs : cs[i].op = "else" /\ cs[j].op = "else" /\ cs[i].block = cs[j].block => i = j

(* A join in a block that did not spawn the task: verify_task_affine will   *)
(* reject the program.                                                      *)
Stray(cs) ==
  \E j \in DOMAIN cs : cs[j].op = "join" /\
    \A i \in DOMAIN cs : ~(i < j /\ cs[i].op = "spawn" /\ cs[i].n = cs[j].n
                             /\ cs[i].in = cs[j].in /\ cs[i].branch = cs[j].branch)

(* g tells what the pass knew before each instruction of cs and after the   *)
(* last one, when it knew x with the statements o open.                     *)
Trace(cs, g, x, o) ==
  /\ IsSeq(cs) /\ IsSeq(g) /\ Len(g) = Len(cs) + 1
  /\ g[1] = Note(<< << >> >>, <<Body>>) /\ g[Len(g)] = x
  /\ \E n \in Nat : BlocksOf(cs) = 1 .. n
  /\ OneElse(cs)
  /\ State(Cells(cs, g), x, o)

Good == \E g : Trace(code, g, Current, open)

(* The cells of one instruction more.                                       *)
LEMMA CellsAppend ==
  ASSUME NEW cs, IsSeq(cs), NEW g, IsSeq(g), Len(g) = Len(cs) + 1, NEW i, NEW z
  PROVE  Cells(Append(cs, i), Append(g, z)) = Cells(cs, g) \cup {Cell3(i, g[Len(g)], z)}
<1>. DEFINE ds == Append(cs, i)
            h == Append(g, z)
            n == Len(cs)
<1>1. /\ n \in Nat /\ DOMAIN cs = 1 .. n /\ DOMAIN g = 1 .. n + 1
  BY SeqIs
<1>2. /\ DOMAIN ds = 1 .. n + 1 /\ ds[n + 1] = i /\ \A j \in 1 .. n : ds[j] = cs[j]
  BY SeqAppend
<1>3. /\ h[Len(g) + 1] = z /\ \A j \in 1 .. Len(g) : h[j] = g[j]
  BY SeqAppend
<1>. HIDE DEF ds, h, n
<1>a. Len(g) = n + 1
  BY DEF n
<1>4. \A j \in 1 .. n : j \in 1 .. n + 1 /\ j \in 1 .. Len(g) /\ j + 1 \in 1 .. Len(g)
  BY ONLY <1>1, <1>a
<1>5. n + 1 \in 1 .. n + 1 /\ n + 1 \in 1 .. Len(g) /\ (n + 1) + 1 = Len(g) + 1 /\ \A j \in 1 .. n + 1 : j = n + 1 \/ j \in 1 .. n
  BY ONLY <1>1, <1>a
<1>6. \A j \in 1 .. n : Cell3(ds[j], h[j], h[j + 1]) = Cell3(cs[j], g[j], g[j + 1])
  BY <1>2, <1>3, <1>4
<1>7. Cell3(ds[n + 1], h[n + 1], h[(n + 1) + 1]) = Cell3(i, g[Len(g)], z)
  BY <1>2, <1>3, <1>5, <1>a
<1>8. ASSUME NEW c \in Cells(ds, h) PROVE c \in Cells(cs, g) \cup {Cell3(i, g[Len(g)], z)}
  <2>1. PICK j \in 1 .. n + 1 : c = Cell3(ds[j], h[j], h[j + 1])
    BY <1>2 DEF Cells
  <2>2. CASE j = n + 1
    BY <1>7, <2>1, <2>2
  <2>3. CASE j \in 1 .. n
    BY <1>1, <1>6, <2>1, <2>3 DEF Cells
  <2>. QED
    BY <1>5, <2>2, <2>3
<1>9. ASSUME NEW c \in Cells(cs, g) PROVE c \in Cells(ds, h)
  <2>1. PICK j \in 1 .. n : c = Cell3(cs[j], g[j], g[j + 1])
    BY <1>1 DEF Cells
  <2>. QED
    BY <1>2, <1>4, <1>6, <2>1 DEF Cells
<1>10. Cell3(i, g[Len(g)], z) \in Cells(ds, h)
  BY <1>2, <1>5, <1>7 DEF Cells
<1>. QED
  BY <1>8, <1>9, <1>10 DEF ds, h

(* One more instruction.                                                    *)
LEMMA BlocksAppend ==
  ASSUME NEW cs, IsSeq(cs), NEW i
  PROVE  /\ i.op \notin Opens => BlocksOf(Append(cs, i)) = BlocksOf(cs)
         /\ i.op \in Opens => BlocksOf(Append(cs, i)) = BlocksOf(cs) \cup {i.block}
         /\ OneElse(cs) /\ i.op # "else" => OneElse(Append(cs, i))
         /\ OneElse(cs) /\ (\A j \in DOMAIN cs : cs[j].op = "else" => cs[j].block # i.block) => OneElse(Append(cs, i))
         /\ Stray(cs) => Stray(Append(cs, i))
<1>. DEFINE ds == Append(cs, i)
            n == Len(cs)
<1>1. /\ n \in Nat /\ DOMAIN cs = 1 .. n
  BY SeqIs
<1>2. /\ DOMAIN ds = 1 .. n + 1 /\ ds[n + 1] = i /\ \A j \in 1 .. n : ds[j] = cs[j]
  BY SeqAppend
<1>. HIDE DEF ds, n
<1>3. (\A j \in 1 .. n : j \in 1 .. n + 1 /\ j # n + 1 /\ j < n + 1) /\ n + 1 \in 1 .. n + 1 /\ \A j \in 1 .. n + 1 : j = n + 1 \/ j \in 1 .. n
  BY ONLY <1>1
<1>4. /\ i.op \notin Opens => BlocksOf(ds) = BlocksOf(cs)
      /\ i.op \in Opens => BlocksOf(ds) = BlocksOf(cs) \cup {i.block}
  <2>1. ASSUME NEW b \in BlocksOf(ds) PROVE b \in BlocksOf(cs) \/ (i.op \in Opens /\ b = i.block)
    <3>1. PICK j \in 1 .. n + 1 : ds[j].op \in Opens /\ b = ds[j].block
      BY <1>2 DEF BlocksOf, Opens
    <3>2. CASE j = n + 1
      BY <1>2, <3>1, <3>2
    <3>3. CASE j \in 1 .. n
      BY <1>1, <1>2, <3>1, <3>3 DEF BlocksOf, Opens
    <3>. QED
      BY <1>3, <3>2, <3>3
  <2>2. ASSUME NEW b \in BlocksOf(cs) PROVE b \in BlocksOf(ds)
    <3>1. PICK j \in 1 .. n : cs[j].op \in Opens /\ b = cs[j].block
      BY <1>1 DEF BlocksOf, Opens
    <3>. QED
      BY <1>2, <1>3, <3>1 DEF BlocksOf, Opens
  <2>3. i.op \in Opens => i.block \in BlocksOf(ds)
    BY <1>2, <1>3 DEF BlocksOf, Opens
  <2>. QED
    BY <2>1, <2>2, <2>3
<1>5. ASSUME OneElse(cs), i.op # "else" \/ (\A j \in DOMAIN cs : cs[j].op = "else" => cs[j].block # i.block)
      PROVE  OneElse(ds)
  <2>. SUFFICES ASSUME NEW j \in 1 .. n + 1, NEW k \in 1 .. n + 1,
                       ds[j].op = "else" /\ ds[k].op = "else" /\ ds[j].block = ds[k].block
                PROVE  j = k
    BY <1>2 DEF OneElse
  <2>1. CASE j \in 1 .. n /\ k \in 1 .. n
    BY <1>1, <1>2, <1>5, <2>1 DEF OneElse
  <2>2. CASE j = n + 1 /\ k \in 1 .. n
    BY <1>1, <1>2, <1>5, <2>2
  <2>3. CASE k = n + 1 /\ j \in 1 .. n
    BY <1>1, <1>2, <1>5, <2>3
  <2>. QED
    BY <1>3, <2>1, <2>2, <2>3
<1>6. ASSUME Stray(cs) PROVE Stray(ds)
  <2>1. PICK j \in 1 .. n : cs[j].op = "join" /\
           \A k \in 1 .. n : ~(k < j /\ cs[k].op = "spawn" /\ cs[k].n = cs[j].n
                             /\ cs[k].in = cs[j].in /\ cs[k].branch = cs[j].branch)
    BY <1>1, <1>6 DEF Stray
  <2>2. \A k \in 1 .. n + 1 : k < j => k \in 1 .. n
    BY <1>1
  <2>. QED
    BY <1>2, <1>3, <2>1, <2>2 DEF Stray
<1>. QED
  BY <1>4, <1>5, <1>6 DEF ds

(* A trace goes on by one instruction.                                      *)
LEMMA Written ==
  ASSUME NEW cs, NEW g, NEW x, NEW o, Trace(cs, g, x, o), NEW i, NEW z, NEW r,
         State(Cells(cs, g) \cup {Cell3(i, x, z)}, z, r), i.op \notin Opens,
         i.op = "else" => ~HasMark(Cells(cs, g), "else", i.block)
  PROVE  Trace(Append(cs, i), Append(g, z), z, r)
<1>1. /\ IsSeq(cs) /\ IsSeq(g) /\ Len(g) = Len(cs) + 1 /\ g[Len(g)] = x /\ OneElse(cs)
      /\ \E n \in Nat : BlocksOf(cs) = 1 .. n
      /\ g[1] = Note(<< << >> >>, <<Body>>)
  BY DEF Trace
<1>. DEFINE ds == Append(cs, i)
            h == Append(g, z)
<1>2. Cells(ds, h) = Cells(cs, g) \cup {Cell3(i, x, z)}
  BY <1>1, CellsAppend
<1>3. IsSeq(ds) /\ Len(ds) = Len(cs) + 1
  BY <1>1, SeqAppend
<1>4. IsSeq(h) /\ Len(h) = Len(g) + 1 /\ h[Len(h)] = z /\ h[1] = g[1]
  <2>1. IsSeq(h) /\ Len(h) = Len(g) + 1 /\ h[Len(g) + 1] = z /\ \A j \in 1 .. Len(g) : h[j] = g[j]
    BY <1>1, SeqAppend
  <2>2. 1 \in 1 .. Len(g)
    <3>1. Len(cs) \in Nat
      BY <1>1, SeqIs
    <3>. QED
      BY <1>1, <3>1
  <2>. QED
    BY <2>1, <2>2
<1>5. BlocksOf(ds) = BlocksOf(cs)
  BY <1>1, BlocksAppend
<1>6. OneElse(ds)
  <2>1. i.op = "else" => \A j \in DOMAIN cs : cs[j].op = "else" => cs[j].block # i.block
    <3>. SUFFICES ASSUME i.op = "else", NEW j \in DOMAIN cs, cs[j].op = "else" PROVE cs[j].block # i.block
      OBVIOUS
    <3>1. Cell3(cs[j], g[j], g[j + 1]) \in Cells(cs, g) /\ Cell3(cs[j], g[j], g[j + 1]).ins = cs[j]
      BY CellIs DEF Cells
    <3>. QED
      BY <3>1 DEF HasMark
  <2>. QED
    BY <1>1, <2>1, BlocksAppend
<1>. HIDE DEF ds, h
<1>7. State(Cells(ds, h), z, r)
  BY <1>2
<1>8. Trace(ds, h, z, r)
  BY <1>1, <1>3, <1>4, <1>5, <1>6, <1>7 DEF Trace
<1>. QED
  BY <1>8 DEF ds, h

(* A trace goes on by an instruction that opens a block.                    *)
LEMMA WrittenOpen ==
  ASSUME NEW cs, NEW g, NEW x, NEW o, Trace(cs, g, x, o), NEW i, NEW z, NEW r,
         State(Cells(cs, g) \cup {Cell3(i, x, z)}, z, r), i.op \in Opens,
         i.block = Cardinality(BlocksOf(cs)) + 1
  PROVE  Trace(Append(cs, i), Append(g, z), z, r)
<1>1. /\ IsSeq(cs) /\ IsSeq(g) /\ Len(g) = Len(cs) + 1 /\ g[Len(g)] = x /\ OneElse(cs)
      /\ g[1] = Note(<< << >> >>, <<Body>>)
  BY DEF Trace
<1>. DEFINE ds == Append(cs, i)
            h == Append(g, z)
<1>2. Cells(ds, h) = Cells(cs, g) \cup {Cell3(i, x, z)}
  BY <1>1, CellsAppend
<1>3. IsSeq(ds) /\ Len(ds) = Len(cs) + 1
  BY <1>1, SeqAppend
<1>4. IsSeq(h) /\ Len(h) = Len(g) + 1 /\ h[Len(h)] = z /\ h[1] = g[1]
  <2>1. IsSeq(h) /\ Len(h) = Len(g) + 1 /\ h[Len(g) + 1] = z /\ \A j \in 1 .. Len(g) : h[j] = g[j]
    BY <1>1, SeqAppend
  <2>2. 1 \in 1 .. Len(g)
    <3>1. Len(cs) \in Nat
      BY <1>1, SeqIs
    <3>. QED
      BY <1>1, <3>1
  <2>. QED
    BY <2>1, <2>2
<1>5. BlocksOf(ds) = BlocksOf(cs) \cup {i.block}
  BY <1>1, BlocksAppend
<1>6. OneElse(ds)
  BY <1>1, BlocksAppend DEF Opens
<1>. HIDE DEF ds, h
<1>7. State(Cells(ds, h), z, r)
  BY <1>2
<1>8. \E n \in Nat : BlocksOf(ds) = 1 .. n
  <2>1. PICK n \in Nat : BlocksOf(cs) = 1 .. n
    BY DEF Trace
  <2>2. Cardinality(1 .. n) = n
    BY <2>1, FS_Interval
  <2>3. (1 .. n) \cup {n + 1} = 1 .. n + 1
    BY <2>1
  <2>4. BlocksOf(ds) = 1 .. n + 1 /\ n + 1 \in Nat
    BY <1>5, <2>1, <2>2, <2>3
  <2>. QED
    BY <2>4
<1>9. Trace(ds, h, z, r)
  BY <1>1, <1>3, <1>4, <1>6, <1>7, <1>8 DEF Trace
<1>. QED
  BY <1>9 DEF ds, h

-----------------------------------------------------------------------------
(* Writing an instruction that opens and closes nothing                     *)

(* How sequences are concatenated.                                          *)
LEMMA CatIs ==
  ASSUME NEW s, IsSeq(s), NEW t, IsSeq(t)
  PROVE  /\ IsSeq(s \o t) /\ s \o << >> = s
         /\ \A i : s \o <<i>> = Append(s, i)
         /\ \A i : s \o (<<i>> \o t) = Append(s, i) \o t
         /\ \A u : IsSeq(u) => s \o (t \o u) = (s \o t) \o u
<1>1. ASSUME NEW u, IsSeq(u), NEW i
      PROVE  \E S : s \in Seq(S) /\ t \in Seq(S) /\ u \in Seq(S) /\ <<i>> \in Seq(S) /\ i \in S
  <2>1. PICK S1 : s \in Seq(S1)
    BY SeqIs
  <2>2. PICK S2 : t \in Seq(S2)
    BY SeqIs
  <2>3. PICK S3 : u \in Seq(S3)
    BY <1>1, SeqIs
  <2>. DEFINE S == S1 \cup S2 \cup S3 \cup {i}
  <2>4. s \in Seq(S) /\ t \in Seq(S) /\ u \in Seq(S) /\ <<i>> \in Seq(S) /\ i \in S
    BY <2>1, <2>2, <2>3
  <2>. QED
    BY <2>4
<1>2. ASSUME NEW u, IsSeq(u), NEW i
      PROVE  /\ IsSeq(s \o t) /\ s \o << >> = s /\ s \o <<i>> = Append(s, i)
             /\ s \o (<<i>> \o t) = Append(s, i) \o t
             /\ s \o (t \o u) = (s \o t) \o u
  <2>1. PICK S : s \in Seq(S) /\ t \in Seq(S) /\ u \in Seq(S) /\ <<i>> \in Seq(S) /\ i \in S
    BY <1>1, <1>2
  <2>2. s \o t \in Seq(S) /\ s \o << >> = s
    BY <2>1, ConcatProperties, ConcatEmptySeq
  <2>3. Append(s, i) = s \o <<i>>
    BY <2>1, AppendIsConcat
  <2>4. s \o (<<i>> \o t) = (s \o <<i>>) \o t /\ s \o (t \o u) = (s \o t) \o u
    BY <2>1, ConcatAssociative, SMTT(60)
  <2>. QED
    BY <2>2, <2>3, <2>4, SeqIsSeq
<1>. QED
  BY <1>2

(* Concatenation is associative.                                            *)
LEMMA CatAssoc ==
  ASSUME NEW s, IsSeq(s), NEW t, IsSeq(t), NEW u, IsSeq(u)
  PROVE  s \o (t \o u) = (s \o t) \o u
<1>1. PICK S1 : s \in Seq(S1)
  BY SeqIs
<1>2. PICK S2 : t \in Seq(S2)
  BY SeqIs
<1>3. PICK S3 : u \in Seq(S3)
  BY SeqIs
<1>. DEFINE S == S1 \cup S2 \cup S3
<1>4. s \in Seq(S) /\ t \in Seq(S) /\ u \in Seq(S)
  BY <1>1, <1>2, <1>3
<1>. HIDE DEF S
<1>. QED
  BY <1>4, ConcatAssociative

(* One element between two sequences.                                       *)
LEMMA CatPush ==
  ASSUME NEW s, IsSeq(s), NEW t, IsSeq(t), NEW i
  PROVE  s \o (<<i>> \o t) = Append(s, i) \o t
<1>. DEFINE k == <<i>>
<1>1. IsSeq(k)
  BY DEF IsSeq
<1>2. Append(s, i) = s \o k
  BY <1>1, CatIs
<1>. HIDE DEF k
<1>3. s \o (k \o t) = (s \o k) \o t
  BY <1>1, CatAssoc
<1>4. s \o (k \o t) = Append(s, i) \o t
  BY <1>2, <1>3
<1>. QED
  BY <1>4 DEF k

(* The instruction that opened the body of the frame m.                     *)
HeadIs(o, m, h) ==
  /\ Heads(o[m], Until(PathOf(o), m), h) /\ CellOK(h) /\ h.a.path = Until(PathOf(o), m)
  /\ Len(h.a.env) = m /\ Len(h.a.path) = m /\ Base(h) = o[m].pre
  /\ h.ins.op = "for" => /\ o[m].kind \in {"for ref", "for own"} /\ o[m].coll = h.ins.coll
                         /\ h.ins.own <=> o[m].kind = "for own"
  /\ o[m].kind \in {"then", "else"} => h.ins.op = "if"
  /\ o[m].kind \notin {"then", "else"} => h.ins.op # "if" /\ o[m].depth = m + 1

(* The instruction that opened an open statement.                           *)
LEMMA HeadOf ==
  ASSUME NEW C, NEW x, NEW o, State(C, x, o), NEW m \in DOMAIN o,
         NEW h \in C, h.ins.op \in Opens, h.ins.block = o[m].block
  PROVE  HeadIs(o, m, h)
<1>1. FrameOK(C, o[m], Until(PathOf(o), m)) /\ CellOK(h)
  BY FramesAre DEF State
<1>2. PICK k \in C : Heads(o[m], Until(PathOf(o), m), k)
  BY <1>1 DEF FrameOK
<1>3. k = h
  BY <1>2 DEF Heads, State, OneOpen
<1>4. Heads(o[m], Until(PathOf(o), m), h)
  BY <1>2, <1>3
<1>5. h.a.path = Until(PathOf(o), m) /\ Base(h) = o[m].pre
  BY <1>4 DEF Heads
<1>6. Len(Until(PathOf(o), m)) = m
  <2>1. m \in 1 .. Len(o) /\ IsSeq(o) /\ Len(o) \in Nat
    BY FramesAre
  <2>2. m \in 1 .. Len(o) + 1
    BY <2>1
  <2>. QED
    BY <2>1, <2>2, PathOfIs
<1>7. Len(h.a.path) = Len(h.a.env)
  BY <1>1, BaseIs
<1>8. h.ins.op = "for" => /\ o[m].kind \in {"for ref", "for own"} /\ o[m].coll = h.ins.coll
                          /\ h.ins.own <=> o[m].kind = "for own"
  BY <1>4 DEF Heads, Kind, KindOf
<1>9. o[m].kind \in {"then", "else"} => h.ins.op = "if"
  BY <1>4, IfHead
<1>10. o[m].kind \notin {"then", "else"} => h.ins.op # "if" /\ o[m].depth = m + 1
  <2>1. h.ins.op = "if" => o[m].kind \in {"then", "else"}
    BY <1>4 DEF Heads, Kind, KindOf
  <2>. QED
    BY <1>1, <1>6, <2>1 DEF FrameOK
<1>. QED
  BY <1>1, <1>4, <1>5, <1>6, <1>7, <1>8, <1>9, <1>10 DEF HeadIs

(* A block that a note stands in is that of an open statement.              *)
LEMMA LoopOf ==
  ASSUME NEW C, NEW x, NEW o, State(C, x, o), x.live,
         NEW h \in C, h.ins.op \in Opens, NEW e \in DOMAIN x.path, x.path[e].block = h.ins.block
  PROVE  \E m \in DOMAIN o : e = m + 1 /\ h.ins.block = o[m].block
<1>1. /\ x.path = PathOf(o) /\ IsSeq(o) /\ Len(o) \in Nat /\ DOMAIN o = 1 .. Len(o)
      /\ DOMAIN PathOf(o) = 1 .. Len(o) + 1 /\ PathOf(o)[1] = Body
      /\ \A m \in 1 .. Len(o) : PathOf(o)[m + 1] = [block |-> o[m].block, kind |-> o[m].kind]
  BY FramesAre, PathOfIs DEF State
<1>2. h.ins.block # 0
  BY FramesAre DEF CellOK, OpenOK
<1>3. e # 1
  BY <1>1, <1>2 DEF Body
<1>4. PICK m \in 1 .. Len(o) : e = m + 1
  <2>1. e \in 1 .. Len(o) + 1 /\ Len(o) \in Nat
    BY <1>1
  <2>2. e - 1 \in 1 .. Len(o) /\ e = (e - 1) + 1
    BY <1>3, <2>1
  <2>. QED
    BY <2>2
<1>5. h.ins.block = o[m].block
  <2>1. PathOf(o)[m + 1] = [block |-> o[m].block, kind |-> o[m].kind]
    BY <1>1
  <2>2. PathOf(o)[m + 1].block = h.ins.block
    BY <1>1, <1>4
  <2>. QED
    BY <2>1, <2>2
<1>. QED
  BY <1>1, <1>4, <1>5

(* What stays as it is while loops iterate over it.                         *)
LoopsKeep(o, E, F) ==
  \A m \in DOMAIN o : o[m].kind \in {"for ref", "for own"} =>
    \A d \in DOMAIN E : d <= m /\ o[m].coll \in DOMAIN E[d] => F[d][o[m].coll].moved = E[d][o[m].coll].moved

(* What leaves the collections of the open loops alone leaves those of the  *)
(* cells alone.                                                             *)
LEMMA CollsKeep ==
  ASSUME NEW C, NEW x, NEW o, State(C, x, o), x.live, x.extra = {}, NEW F, LoopsKeep(o, x.env, F),
         NEW h \in C, h.ins.op = "for", NEW e \in DOMAIN x.path, x.path[e].block = h.ins.block,
         NEW d \in DOMAIN h.a.env, h.ins.coll \in DOMAIN h.a.env[d]
  PROVE  F[d][h.ins.coll].moved = x.env[d][h.ins.coll].moved
<1>1. h.ins.op \in Opens
  BY DEF Opens
<1>2. PICK m \in DOMAIN o : e = m + 1 /\ h.ins.block = o[m].block
  BY <1>1, LoopOf
<1>3. CellOK(h) /\ Len(h.a.env) = m /\ o[m].kind \in {"for ref", "for own"} /\ o[m].coll = h.ins.coll
  <2>1. HeadIs(o, m, h)
    BY <1>1, <1>2, HeadOf
  <2>. QED
    BY <2>1 DEF HeadIs
<1>4. EnvOK(h.a.env) /\ DOMAIN Base(h) = DOMAIN h.a.env /\ \A i \in DOMAIN h.a.env : DOMAIN Base(h)[i] = DOMAIN h.a.env[i]
  BY ONLY <1>1, <1>3, BaseIs
<1>5. d \in 1 .. m
  <2>1. DOMAIN h.a.env = 1 .. Len(h.a.env)
    BY <1>4, EnvIs
  <2>. QED
    BY <1>3, <2>1
<1>6. InBody(x, h, e)
  BY <1>1 DEF State, Stand, Sits, Inside
<1>7. h.ins.coll \in DOMAIN x.env[d]
  BY <1>4, <1>6 DEF InBody, Since
<1>8. d \in DOMAIN x.env /\ d <= m
  <2>1. x.path = PathOf(o) /\ IsSeq(o) /\ Len(o) \in Nat /\ DOMAIN o = 1 .. Len(o)
        /\ Len(PathOf(o)) = Len(o) + 1
    BY FramesAre, PathOfIs DEF State
  <2>2. NoteOK(x)
    BY DEF State
  <2>3. DOMAIN x.env = 1 .. Len(x.env) /\ Len(x.path) = Len(x.env)
    BY <2>2, PathIs
  <2>4. m \in 1 .. Len(o) /\ Len(x.env) = Len(o) + 1
    BY <2>1, <2>3
  <2>. QED
    BY ONLY <1>5, <2>1, <2>3, <2>4
<1>. QED
  BY <1>3, <1>7, <1>8 DEF LoopsKeep

(* A trace goes on by an instruction that neither opens nor closes a block  *)
(* and leaves the collections of the enclosing loops alone.                 *)
LEMMA Stepping ==
  ASSUME NEW cs, NEW g, NEW x, NEW o, Trace(cs, g, x, o), x.live, x.extra = {},
         NEW i, i.op \in Straights, NEW y, CellOK(Cell3(i, x, y)),
         y.live, y.extra = {}, y.path = x.path, Moves(x.env, y.env), LoopsKeep(o, x.env, y.env),
         \A d \in DOMAIN y.env : \A n \in DOMAIN y.env[d] : y.env[d][n].ty = "task" =>
           \/ n \in DOMAIN x.env[d] /\ x.env[d][n].ty = "task"
           \/ i.op = "spawn" /\ i.n = n /\ d = Len(x.env),
         i.op \in {"spawn", "join"} => i.n \in DOMAIN y.env[Len(x.env)],
         i.op = "join" => y.env[Len(x.env)][i.n].ty = "task" /\ y.env[Len(x.env)][i.n].moved
  PROVE  Trace(Append(cs, i), Append(g, y), y, o)
<1>. DEFINE C == Cells(cs, g)
            c == Cell3(i, x, y)
            D == C \cup {c}
<1>1. State(C, x, o)
  BY DEF Trace
<1>2. c.ins = i /\ c.a = x /\ c.z = y
  BY CellIs
<1>3. i.op \notin Opens /\ i.op # "else"
  BY DEF Straights, Opens
<1>. HIDE DEF C, c
<1>4. NoteOK(x) /\ NoteOK(y) /\ \A h \in C : CellOK(h)
  BY <1>1, <1>2, FramesAre DEF CellOK, c
<1>5. i.op \in {"spawn", "join"} => At1(c, x.path[Len(x.path)]) /\ Len(x.path) = Len(x.env)
  <2>1. i.op \in {"spawn", "join"} => At1(c, x.path[Len(x.path)])
    BY <1>2 DEF CellOK, SpawnOK, JoinOK, c
  <2>2. Len(x.path) = Len(x.env)
    BY <1>4, PathIs
  <2>. QED
    BY <2>1, <2>2
<1>6. \A d \in DOMAIN x.path : \A e \in DOMAIN x.path : At1(c, x.path[d]) /\ At1(c, x.path[e]) => d = e
  <2>1. \A d, e \in DOMAIN x.path : x.path[d].block = x.path[e].block => d = e
    BY <1>4, PathIs
  <2>2. \A d \in DOMAIN x.path : At1(c, x.path[d]) => c.ins.in = x.path[d].block
    BY DEF At1
  <2>. QED
    BY ONLY <2>1, <2>2
<1>7. Len(x.env) \in DOMAIN x.path
  <2>1. Len(x.env) \in Nat \ {0} /\ DOMAIN x.path = 1 .. Len(x.env)
    BY <1>4, PathIs
  <2>. QED
    BY ONLY <2>1
<1>8. Stand(y, D)
  <2>1. Stand(x, C)
    BY <1>1 DEF State
  <2>2. \A h \in C : h.ins.op = "for" => \A e \in DOMAIN x.path : x.path[e].block = h.ins.block =>
           \A d \in DOMAIN h.a.env : h.ins.coll \in DOMAIN h.a.env[d] =>
             y.env[d][h.ins.coll].moved = x.env[d][h.ins.coll].moved
    BY <1>1, CollsKeep
  <2>3. ASSUME NEW d \in DOMAIN y.env, NEW n \in DOMAIN y.env[d], y.env[d][n].ty = "task"
        PROVE  \/ n \in DOMAIN x.env[d] /\ x.env[d][n].ty = "task"
               \/ \E s \in D : s.ins.op = "spawn" /\ s.ins.n = n /\ At1(s, x.path[d])
    <3>1. CASE i.op = "spawn" /\ i.n = n /\ d = Len(x.env)
      BY <1>2, <1>5, <3>1
    <3>. QED
      BY <2>3, <3>1
  <2>4. C \subseteq D /\ \A e \in D \ C : e.ins.op \notin Opens
    BY <1>2, <1>3
  <2>5. \A e \in D \ C : e.ins.op \in {"spawn", "join"} =>
            \A d \in DOMAIN x.path : At1(e, x.path[d]) =>
              /\ e.ins.n \in DOMAIN y.env[d]
              /\ e.ins.op = "join" => y.env[d][e.ins.n].ty = "task" /\ y.env[d][e.ins.n].moved
    <3>1. ASSUME i.op \in {"spawn", "join"}, NEW d \in DOMAIN x.path, At1(c, x.path[d]) PROVE d = Len(x.env)
      BY <1>5, <1>6, <1>7, <3>1
    <3>. QED
      BY <1>2, <3>1
  <2>. HIDE DEF D
  <2>. QED
    BY <1>4, <2>1, <2>2, <2>3, <2>4, <2>5, StandStep
<1>9. State(D, y, o)
  BY <1>1, <1>2, <1>8, Straight DEF c
<1>10. State(Cells(cs, g) \cup {Cell3(i, x, y)}, y, o)
  BY <1>9 DEF C, c
<1>. QED
  BY <1>3, <1>10, Written

(* The same for the instructions between an initializer and its return.     *)
LEMMA SteppingExtra ==
  ASSUME NEW cs, NEW g, NEW x, NEW o, Trace(cs, g, x, o), x.live,
         NEW i, i.op \in Straights, i.op # "spawn", NEW y, CellOK(Cell3(i, x, y)),
         y.live, y.extra # {}, y.path = x.path,
         \A n \in DOMAIN y.env[1] : y.env[1][n].no_drop => n \in DOMAIN x.env[1] /\ x.env[1][n].no_drop,
         \A d \in DOMAIN y.env : \A n \in DOMAIN y.env[d] : y.env[d][n].ty = "task" =>
            d \in DOMAIN x.env /\ n \in DOMAIN x.env[d] /\ x.env[d][n].ty = "task"
  PROVE  Trace(Append(cs, i), Append(g, y), y, o)
<1>. DEFINE C == Cells(cs, g)
            c == Cell3(i, x, y)
            D == C \cup {c}
<1>1. State(C, x, o)
  BY DEF Trace
<1>2. c.ins = i /\ c.a = x /\ c.z = y
  BY CellIs
<1>3. i.op \notin Opens /\ i.op # "else"
  BY DEF Straights, Opens
<1>. HIDE DEF C, c
<1>4. Placed(x, C)
  BY <1>1 DEF State, Stand, Sits
<1>5. Placed(y, D)
  BY <1>4 DEF Placed
<1>6. Stand(y, D)
  BY <1>5 DEF Stand, Sits, Inside
<1>9. State(D, y, o)
  BY <1>1, <1>2, <1>6, Straight DEF c
<1>10. State(Cells(cs, g) \cup {Cell3(i, x, y)}, y, o)
  BY <1>9 DEF C, c
<1>. QED
  BY <1>3, <1>10, Written

-----------------------------------------------------------------------------
(* What instructions do to the Env                                          *)
Kept(o, E, F) ==
  /\ Moves(E, F) /\ LoopsKeep(o, E, F)
  /\ \A d \in DOMAIN F : \A n \in DOMAIN F[d] : F[d][n].ty = "task" => n \in DOMAIN E[d] /\ E[d][n].ty = "task"

(* n is a collection that a loop iterates over.                             *)
Looped(o, n) == \E m \in DOMAIN o : o[m].kind \in {"for ref", "for own"} /\ o[m].coll = n

(* A note with another Env of as many scopes.                               *)
LEMMA NoteFrom ==
  ASSUME NEW x, NoteOK(x), x.live, NEW F, EnvOK(F), Len(F) = Len(x.env), NEW X, X \subseteq Names \cup {"ret"}
  PROVE  NoteOK(WithExtra(F, x.path, X)) /\ NoteOK(Note(F, x.path))
<1>. DEFINE y == WithExtra(F, x.path, X)
            z == Note(F, x.path)
<1>1. /\ y.env = F /\ y.path = x.path /\ y.extra = X /\ y = WithExtra(y.env, y.path, y.extra)
      /\ z.env = F /\ z.path = x.path /\ z.extra = {} /\ z = WithExtra(z.env, z.path, z.extra)
  BY DEF WithExtra, Note
<1>. HIDE DEF y, z
<1>2. NoteOK(y) /\ NoteOK(z)
  BY <1>1 DEF NoteOK
<1>. QED
  BY <1>2 DEF y, z

(* A use keeps what the open loops iterate over, unless it names it.        *)
LEMMA TakenKept ==
  ASSUME NEW E, EnvOK(E), NEW e \in Expr, CanTake(E, e), NEW o, \A n \in Operands(e) : ~Looped(o, n)
  PROVE  Kept(o, E, Taken(E, e))
<1>. DEFINE F == Taken(E, e)
<1>1. /\ EnvOK(F) /\ Len(F) = Len(E) /\ DOMAIN F = DOMAIN E
      /\ \A d \in DOMAIN E : DOMAIN F[d] = DOMAIN E[d]
      /\ \A d \in DOMAIN E : \A n \in DOMAIN E[d] :
           F[d][n] = IF n \in Operands(e)
                       THEN IF e.k = "field" THEN [E[d][n] EXCEPT !.moved_field = TRUE]
                                             ELSE [E[d][n] EXCEPT !.moved = TRUE]
                       ELSE E[d][n]
      /\ \A d \in DOMAIN E : \A n \in DOMAIN E[d] : n \in Operands(e) =>
           /\ Whole(E[d][n]) /\ E[d][n].ty # "task"
           /\ e.k = "field" => d = Len(E)
  BY TakenOK
<1>. HIDE DEF F
<1>2. /\ Len(E) \in DOMAIN E
      /\ \A d \in DOMAIN E : \A n \in DOMAIN E[d] : E[d][n] \in Infos /\ [E[d][n] EXCEPT !.moved = E[d][n].moved] = E[d][n]
  <2>1. Len(E) \in Nat \ {0} /\ DOMAIN E = 1 .. Len(E)
    BY EnvIs
  <2>2. Len(E) \in DOMAIN E
    BY ONLY <2>1
  <2>. QED
    BY <2>2, EnvIs, SameInfo
<1>3. ASSUME NEW d \in DOMAIN E, NEW n \in DOMAIN E[d], n \notin Operands(e) PROVE F[d][n] = E[d][n]
  BY <1>1, <1>3
<1>4. ASSUME NEW d \in DOMAIN E, NEW n \in DOMAIN E[d], n \in Operands(e), e.k # "field"
      PROVE  F[d][n] = [E[d][n] EXCEPT !.moved = F[d][n].moved] /\ F[d][n].ty = E[d][n].ty /\ F[d][n].no_drop = E[d][n].no_drop
  <2>1. F[d][n] = [E[d][n] EXCEPT !.moved = TRUE]
    BY <1>1, <1>4
  <2>. QED
    BY <1>2, <2>1, MovedInfo
<1>5. ASSUME NEW d \in DOMAIN E, NEW n \in DOMAIN E[d], n \in Operands(e), e.k = "field"
      PROVE  F[d][n].ty = E[d][n].ty /\ F[d][n].no_drop = E[d][n].no_drop /\ d = Len(E)
  <2>1. F[d][n] = [E[d][n] EXCEPT !.moved_field = TRUE] /\ E[d][n] \in Infos
    BY <1>1, <1>2, <1>5
  <2>2. E[d][n] = [ty |-> E[d][n].ty, moved |-> E[d][n].moved, moved_field |-> E[d][n].moved_field,
                 no_drop |-> E[d][n].no_drop, guarded_mutex |-> E[d][n].guarded_mutex]
    BY <2>1, InfoIs
  <2>3. F[d][n].ty = E[d][n].ty /\ F[d][n].no_drop = E[d][n].no_drop
    BY <2>1, <2>2
  <2>. QED
    BY <1>1, <1>5, <2>3
<1>6. \A d \in DOMAIN E : \A n \in DOMAIN E[d] : F[d][n].ty = E[d][n].ty /\ F[d][n].no_drop = E[d][n].no_drop
  BY <1>3, <1>4, <1>5
<1>7. ASSUME NEW d \in DOMAIN E, d # Len(E), NEW n \in DOMAIN E[d]
      PROVE  /\ F[d][n] = [E[d][n] EXCEPT !.moved = F[d][n].moved]
             /\ E[d][n].ty = "task" \/ E[d][n].moved_field => F[d][n] = E[d][n]
  <2>1. CASE n \in Operands(e)
    BY <1>1, <1>4, <1>5, <1>7, <2>1 DEF Whole
  <2>2. CASE n \notin Operands(e)
    <3>1. F[d][n] = E[d][n]
      BY <1>3, <2>2
    <3>. QED
      BY <1>2, <3>1
  <2>. QED
    BY <2>1, <2>2
<1>8. ASSUME NEW n \in DOMAIN E[Len(E)], E[Len(E)][n].ty = "task" PROVE F[Len(E)][n] = E[Len(E)][n]
  BY <1>1, <1>2, <1>3, <1>8
<1>9. Moves(E, F)
  BY <1>1, <1>2, <1>6, <1>7, <1>8 DEF Moves
<1>10. LoopsKeep(o, E, F)
  <2>. SUFFICES ASSUME NEW m \in DOMAIN o, o[m].kind \in {"for ref", "for own"}, NEW d \in DOMAIN E, o[m].coll \in DOMAIN E[d]
                PROVE  F[d][o[m].coll].moved = E[d][o[m].coll].moved
    BY DEF LoopsKeep
  <2>1. o[m].coll \notin Operands(e)
    BY DEF Looped
  <2>. QED
    BY <1>3, <2>1
<1>11. \A d \in DOMAIN F : \A n \in DOMAIN F[d] : F[d][n].ty = "task" => n \in DOMAIN E[d] /\ E[d][n].ty = "task"
  BY <1>1, <1>6
<1>. QED
  BY <1>9, <1>10, <1>11 DEF Kept, F

(* So does a new binding.                                                   *)
LEMMA InsertKept ==
  ASSUME NEW E, EnvOK(E), NEW T, EnvOK(T), Len(T) = Len(E), \A d \in DOMAIN E : DOMAIN T[d] = DOMAIN E[d],
         NEW o, IsSeq(o), Len(E) = Len(o) + 1, Kept(o, E, T),
         NEW n \in Names, ~Has(E, n), NEW v \in Infos, ~v.no_drop, v.ty # "task"
  PROVE  LET F == InsertCurrent(T, n, v) IN EnvOK(F) /\ Len(F) = Len(E) /\ Kept(o, E, F)
<1>. DEFINE F == InsertCurrent(T, n, v)
<1>1. /\ Len(E) \in Nat \ {0} /\ DOMAIN E = 1 .. Len(E) /\ DOMAIN T = 1 .. Len(E)
  BY EnvIs
<1>2. ~Has(T, n)
  BY <1>1 DEF Has
<1>3. /\ EnvOK(F) /\ Len(F) = Len(E) /\ DOMAIN F = DOMAIN E
      /\ \A d \in DOMAIN E : d # Len(E) => F[d] = T[d]
      /\ DOMAIN F[Len(E)] = DOMAIN T[Len(E)] \cup {n}
      /\ F[Len(E)][n] = v
      /\ \A m \in DOMAIN T[Len(E)] : F[Len(E)][m] = T[Len(E)][m]
  BY <1>1, <1>2, InsertOK
<1>. HIDE DEF F
<1>4. Len(E) \in DOMAIN E
  BY ONLY <1>1
<1>5. \A d \in DOMAIN F : \A m \in DOMAIN F[d] :
         \/ d = Len(E) /\ m = n /\ F[d][m] = v
         \/ m \in DOMAIN T[d] /\ m \in DOMAIN E[d] /\ F[d][m] = T[d][m]
  BY <1>3, <1>4
<1>6. Moves(E, F)
  BY <1>3, <1>4, <1>5 DEF Kept, Moves
<1>7. LoopsKeep(o, E, F)
  <2>. SUFFICES ASSUME NEW m \in DOMAIN o, o[m].kind \in {"for ref", "for own"}, NEW d \in DOMAIN E, d <= m, o[m].coll \in DOMAIN E[d]
                PROVE  F[d][o[m].coll].moved = E[d][o[m].coll].moved
    BY DEF LoopsKeep
  <2>1. d # Len(E)
    <3>1. m \in 1 .. Len(o) /\ Len(o) \in Nat
      BY SeqIs
    <3>2. Len(E) = Len(o) + 1 /\ d <= m /\ d \in 1 .. Len(E)
      BY <1>1
    <3>. QED
      BY ONLY <3>1, <3>2
  <2>2. F[d] = T[d]
    BY <1>3, <2>1
  <2>. QED
    BY <2>2 DEF Kept, LoopsKeep
<1>8. \A d \in DOMAIN F : \A m \in DOMAIN F[d] : F[d][m].ty = "task" => m \in DOMAIN E[d] /\ E[d][m].ty = "task"
  BY <1>1, <1>3, <1>5 DEF Kept
<1>. QED
  BY <1>3, <1>6, <1>7, <1>8 DEF Kept, F

(* So does an assignment.                                                   *)
LEMMA PutKept ==
  ASSUME NEW E, EnvOK(E), NEW T, EnvOK(T), Len(T) = Len(E), \A d \in DOMAIN E : DOMAIN T[d] = DOMAIN E[d],
         NEW o, Kept(o, E, T),
         NEW d \in DOMAIN E, NEW n \in DOMAIN E[d], NEW v \in Infos, ~v.no_drop, v.ty # "task",
         E[d][n].ty # "task", ~E[d][n].moved_field, ~Looped(o, n),
         d # Len(E) => v = [E[d][n] EXCEPT !.moved = v.moved]
  PROVE  LET F == Put(T, d, n, v) IN EnvOK(F) /\ Len(F) = Len(E) /\ Kept(o, E, F)
<1>. DEFINE F == Put(T, d, n, v)
<1>1. /\ Len(E) \in Nat \ {0} /\ DOMAIN E = 1 .. Len(E) /\ DOMAIN T = 1 .. Len(E)
  BY EnvIs
<1>2. d \in DOMAIN T /\ n \in DOMAIN T[d]
  BY <1>1
<1>3. /\ EnvOK(F) /\ Len(F) = Len(T) /\ DOMAIN F = DOMAIN T
      /\ \A b \in DOMAIN T : DOMAIN F[b] = DOMAIN T[b]
      /\ \A b \in DOMAIN T : \A m \in DOMAIN T[b] :
           F[b][m] = IF b = d /\ m = n THEN v ELSE T[b][m]
  BY <1>2, PutOK
<1>. HIDE DEF F
<1>4. Len(E) \in DOMAIN E
  BY ONLY <1>1
<1>5. \A b \in DOMAIN E : \A m \in DOMAIN E[b] : (F[b][m] = v /\ b = d /\ m = n) \/ (F[b][m] = T[b][m] /\ ~(b = d /\ m = n))
  BY <1>1, <1>3
<1>6. Moves(E, F)
  <2>1. ASSUME NEW b \in DOMAIN E, b # Len(E), NEW m \in DOMAIN E[b]
        PROVE  /\ F[b][m] = [E[b][m] EXCEPT !.moved = F[b][m].moved]
               /\ E[b][m].ty = "task" \/ E[b][m].moved_field => F[b][m] = E[b][m]
    BY <1>5, <2>1 DEF Kept, Moves
  <2>2. ASSUME NEW m \in DOMAIN E[Len(E)], E[Len(E)][m].ty = "task"
        PROVE  /\ F[Len(E)][m].ty = "task"
               /\ E[Len(E)][m].moved => F[Len(E)][m].moved
    BY <1>4, <1>5, <2>2 DEF Kept, Moves
  <2>3. \A b \in DOMAIN E : \A m \in DOMAIN F[b] : F[b][m].no_drop => m \in DOMAIN E[b] /\ E[b][m].no_drop
    BY <1>1, <1>3, <1>5 DEF Kept, Moves
  <2>. QED
    BY <1>1, <1>3, <1>4, <2>1, <2>2, <2>3 DEF Moves
<1>7. LoopsKeep(o, E, F)
  <2>. SUFFICES ASSUME NEW m \in DOMAIN o, o[m].kind \in {"for ref", "for own"}, NEW b \in DOMAIN E, b <= m, o[m].coll \in DOMAIN E[b]
                PROVE  F[b][o[m].coll].moved = E[b][o[m].coll].moved
    BY DEF LoopsKeep
  <2>1. o[m].coll # n
    BY DEF Looped
  <2>2. F[b][o[m].coll] = T[b][o[m].coll]
    BY <1>5, <2>1
  <2>. QED
    BY <2>2 DEF Kept, LoopsKeep
<1>8. \A b \in DOMAIN F : \A m \in DOMAIN F[b] : F[b][m].ty = "task" => m \in DOMAIN E[b] /\ E[b][m].ty = "task"
  BY <1>1, <1>3, <1>5 DEF Kept
<1>. QED
  BY <1>3, <1>6, <1>7, <1>8 DEF Kept, F

(* So does moving what no open loop iterates over.                          *)
LEMMA MovingKept ==
  ASSUME NEW E, EnvOK(E), NEW S, NEW o,
         \A d \in DOMAIN E : \A n \in DOMAIN E[d] : <<d, n>> \in S =>
            /\ ~E[d][n].no_drop
            /\ d # Len(E) => E[d][n].ty # "task" /\ ~E[d][n].moved_field,
         \A m \in DOMAIN o : o[m].kind \in {"for ref", "for own"} =>
            \A d \in DOMAIN E : d <= m /\ o[m].coll \in DOMAIN E[d] => <<d, o[m].coll>> \notin S
  PROVE  LET F == Moving(E, S) IN EnvOK(F) /\ Len(F) = Len(E) /\ Kept(o, E, F)
<1>. DEFINE F == Moving(E, S)
<1>1. /\ EnvOK(F) /\ Len(F) = Len(E) /\ DOMAIN F = DOMAIN E
      /\ \A d \in DOMAIN E : DOMAIN F[d] = DOMAIN E[d]
      /\ \A d \in DOMAIN E : \A n \in DOMAIN E[d] :
           F[d][n] = IF <<d, n>> \in S THEN [E[d][n] EXCEPT !.moved = TRUE] ELSE E[d][n]
  <2>1. \A d \in DOMAIN E : \A n \in DOMAIN E[d] : <<d, n>> \in S => ~E[d][n].no_drop
    OBVIOUS
  <2>. QED
    BY ONLY <2>1, EnvOK(E), MovingOK
<1>. HIDE DEF F
<1>a. \A d \in DOMAIN E : \A n \in DOMAIN E[d] : <<d, n>> \in S =>
            /\ ~E[d][n].no_drop
            /\ d # Len(E) => E[d][n].ty # "task" /\ ~E[d][n].moved_field
  OBVIOUS
<1>2. /\ Len(E) \in DOMAIN E
      /\ \A d \in DOMAIN E : \A n \in DOMAIN E[d] : E[d][n] \in Infos /\ [E[d][n] EXCEPT !.moved = E[d][n].moved] = E[d][n]
  <2>1. Len(E) \in Nat \ {0} /\ DOMAIN E = 1 .. Len(E)
    BY EnvIs
  <2>2. Len(E) \in DOMAIN E
    BY ONLY <2>1
  <2>3. \A d \in DOMAIN E : \A n \in DOMAIN E[d] : E[d][n] \in Infos
    BY ONLY EnvOK(E), EnvIs
  <2>4. \A d \in DOMAIN E : \A n \in DOMAIN E[d] : [E[d][n] EXCEPT !.moved = E[d][n].moved] = E[d][n]
    BY ONLY EnvOK(E), SameInfo
  <2>. QED
    BY <2>2, <2>3, <2>4
<1>3. ASSUME NEW d \in DOMAIN E, NEW n \in DOMAIN E[d]
      PROVE  /\ F[d][n] = [E[d][n] EXCEPT !.moved = F[d][n].moved]
             /\ F[d][n].ty = E[d][n].ty /\ F[d][n].no_drop = E[d][n].no_drop
             /\ <<d, n>> \notin S => F[d][n] = E[d][n]
             /\ E[d][n].moved => F[d][n].moved
  <2>1. CASE <<d, n>> \in S
    <3>1. F[d][n] = [E[d][n] EXCEPT !.moved = TRUE]
      BY <1>1, <2>1
    <3>. QED
      BY <1>2, <2>1, <3>1, MovedInfo, ZenonT(60)
  <2>2. CASE <<d, n>> \notin S
    <3>1. F[d][n] = E[d][n]
      BY <1>1, <2>2
    <3>. QED
      BY <1>2, <3>1
  <2>. QED
    BY <2>1, <2>2
<1>b. \A d \in DOMAIN E : \A n \in DOMAIN E[d] :
        F[d][n].ty = E[d][n].ty /\ F[d][n].no_drop = E[d][n].no_drop /\ (E[d][n].moved => F[d][n].moved)
  BY ONLY <1>3
<1>c. DOMAIN F = DOMAIN E /\ \A d \in DOMAIN E : DOMAIN F[d] = DOMAIN E[d]
  BY <1>1
<1>4. Moves(E, F)
  <2>1. ASSUME NEW b \in DOMAIN E, b # Len(E), NEW m \in DOMAIN E[b], E[b][m].ty = "task" \/ E[b][m].moved_field
        PROVE  F[b][m] = E[b][m]
    <3>1. <<b, m>> \notin S
      BY ONLY <1>a, <2>1
    <3>. QED
      BY <1>3, <3>1
  <2>2. \A n \in DOMAIN E[Len(E)] :
           /\ n \in DOMAIN F[Len(E)]
           /\ E[Len(E)][n].ty = "task" => F[Len(E)][n].ty = "task" /\ (E[Len(E)][n].moved => F[Len(E)][n].moved)
    BY ONLY <1>2, <1>b, <1>c
  <2>3. \A d \in DOMAIN E : \A n \in DOMAIN F[d] : F[d][n].no_drop => n \in DOMAIN E[d] /\ E[d][n].no_drop
    BY ONLY <1>b, <1>c
  <2>. QED
    BY ONLY <1>1, <1>3, <2>1, <2>2, <2>3 DEF Moves
<1>5. LoopsKeep(o, E, F)
  BY <1>3 DEF LoopsKeep
<1>6. \A d \in DOMAIN F : \A n \in DOMAIN F[d] : F[d][n].ty = "task" => n \in DOMAIN E[d] /\ E[d][n].ty = "task"
  BY <1>1, <1>3
<1>. QED
  BY <1>1, <1>4, <1>5, <1>6 DEF Kept, F

(* A straight instruction but for spawn and join.                           *)
LEMMA WriteNote ==
  ASSUME NEW cs, NEW g, NEW x, NEW o, Trace(cs, g, x, o), x.live, x.extra = {},
         NEW i, i.op \in Straights, i.op \notin {"spawn", "join"},
         NEW F, CellOK(Cell3(i, x, Note(F, x.path))), Kept(o, x.env, F)
  PROVE  Trace(Append(cs, i), Append(g, Note(F, x.path)), Note(F, x.path), o)
<1>. DEFINE y == Note(F, x.path)
<1>1. y.live /\ y.extra = {} /\ y.path = x.path /\ y.env = F
  BY DEF Note
<1>2. CellOK(Cell3(i, x, y))
  OBVIOUS
<1>. HIDE DEF y
<1>3. Trace(Append(cs, i), Append(g, y), y, o)
  <2>1. /\ Moves(x.env, y.env) /\ LoopsKeep(o, x.env, y.env)
        /\ \A d \in DOMAIN y.env : \A n \in DOMAIN y.env[d] : y.env[d][n].ty = "task" => n \in DOMAIN x.env[d] /\ x.env[d][n].ty = "task"
    BY <1>1 DEF Kept
  <2>. QED
    BY <1>1, <1>2, <2>1, Stepping
<1>. QED
  BY <1>3 DEF y

-----------------------------------------------------------------------------
(* The statements of the pass                                               *)
Tame == \A m \in Menus : m.allowed \subseteq Forms

(* A menu without hazards allows none.                                      *)
LEMMA NoHazard ==
  ASSUME Tame, menu \in Menus, NEW h \in Hazards
  PROVE  ~Allows(h)
<1>1. h \notin Forms
  BY DEF Hazards, Forms
<1>. QED
  BY <1>1 DEF Allows, Tame

Ready(g) == Trace(code, g, Note(scopes, PathOf(open)), open)

(* What holds where the pass is about to write.                             *)
LEMMA ReadyIs ==
  ASSUME NEW g, Ready(g)
  PROVE  LET x == Note(scopes, PathOf(open)) IN
         /\ EnvOK(scopes) /\ IsSeq(open) /\ Len(open) \in Nat /\ Len(scopes) = Len(open) + 1 /\ IsSeq(code)
         /\ NoteOK(x) /\ x.live /\ x.extra = {} /\ x.env = scopes /\ x.path = PathOf(open)
         /\ State(Cells(code, g), x, open) /\ Stand(x, Cells(code, g))
         /\ DOMAIN scopes = 1 .. Len(scopes) /\ Len(scopes) \in DOMAIN scopes /\ Last(scopes) = scopes[Len(scopes)]
         /\ scopes = [d \in DOMAIN scopes |-> scopes[d]]
<1>. DEFINE x == Note(scopes, PathOf(open))
<1>1. State(Cells(code, g), x, open) /\ IsSeq(code)
  BY DEF Ready, Trace
<1>2. x.live /\ x.extra = {} /\ x.env = scopes /\ x.path = PathOf(open)
  BY DEF Note
<1>. HIDE DEF x
<1>3. IsSeq(open) /\ Len(open) \in Nat /\ Len(PathOf(open)) = Len(open) + 1
  BY <1>1, FramesAre, PathOfIs
<1>4. NoteOK(x) /\ Stand(x, Cells(code, g))
  BY <1>1 DEF State
<1>5. EnvOK(scopes) /\ Len(scopes) = Len(open) + 1
  BY <1>2, <1>3, <1>4, PathIs
<1>6. DOMAIN scopes = 1 .. Len(scopes) /\ scopes = [d \in DOMAIN scopes |-> scopes[d]] /\ Len(scopes) \in Nat \ {0}
  BY <1>5, EnvIs
<1>7. Len(scopes) \in DOMAIN scopes
  BY ONLY <1>6
<1>8. Last(scopes) = scopes[Len(scopes)]
  BY DEF Last
<1>. QED
  BY <1>1, <1>2, <1>3, <1>4, <1>5, <1>6, <1>7, <1>8 DEF x

(* A name that Iterated leaves out is not the collection of an open loop.   *)
LEMMA IteratedIs ==
  ASSUME NEW n, n \notin Iterated
  PROVE  ~Looped(open, n)
BY DEF Iterated, Looped

(* The binding that a lookup finds.                                         *)
LEMMA HomeOf ==
  ASSUME NEW E, EnvOK(E), NEW n, Bound(E, n)
  PROVE  /\ Home(E, n) \in DOMAIN E /\ n \in DOMAIN E[Home(E, n)] /\ Lookup(E, n) = E[Home(E, n)][n]
         /\ Lookup(E, n) \in Infos /\ n \in Names
         /\ \A d \in DOMAIN E : n \in DOMAIN E[d] => d = Home(E, n)
<1>1. PICK d \in DOMAIN E : n \in DOMAIN E[d]
  BY DEF Bound
<1>2. Home(E, n) = d /\ Lookup(E, n) = E[d][n] /\ n \in Names
  BY <1>1, HomeIs
<1>3. /\ \A i \in DOMAIN E : \A m \in DOMAIN E[i] : E[i][m] \in Infos
      /\ \A i, e \in DOMAIN E : \A m \in DOMAIN E[i] : m \in DOMAIN E[e] => i = e
  BY ONLY EnvOK(E), EnvIs
<1>. QED
  BY <1>1, <1>2, <1>3

(* What check_expr and the rules for the programs considered tell of the    *)
(* operands of an expression.                                               *)
LEMMA OperandsOK ==
  ASSUME Tame, menu \in Menus, EnvOK(scopes), NEW e \in Exprs \cup {[k |-> "int"]},
         Accepts(scopes, e), MayMove(e)
  PROVE  /\ e \in Expr /\ CanTake(scopes, e) /\ Consume(scopes, e) = Taken(scopes, e)
         /\ \A n \in Operands(e) : ~Looped(open, n)
         /\ TypeOf(scopes, e) # "task"
<1>1. e \in Expr
  BY ExprsAre
<1>2. /\ ~Allows("field in block") /\ ~Allows("change iterated") /\ ~Allows("own view")
  BY NoHazard DEF Hazards
<1>3. ASSUME NEW n \in Operands(e)
      PROVE  /\ Bound(scopes, n) /\ Whole(Lookup(scopes, n)) /\ Lookup(scopes, n).ty # "task"
             /\ e.k \in {"push", "cond"} => Lookup(scopes, n).ty = "vec"
             /\ e.k = "field" => Lookup(scopes, n).ty = "pair"
             /\ ~Looped(open, n)
  <2>1. ~Looped(open, n)
    <3>1. n \notin Iterated
      BY <1>2 DEF MayMove
    <3>. QED
      BY <3>1, IteratedIs
  <2>. QED
    BY <1>2, <2>1 DEF Accepts, MayMove, Whole
<1>4. e.k = "field" => /\ Operands(e) = {e.n} /\ ~InnerOf(e.n)
  BY <1>1, <1>2, ExprCases DEF MayMove
<1>5. CanTake(scopes, e)
  <2>. SUFFICES ASSUME NEW n \in Operands(e)
                PROVE  \E d \in DOMAIN scopes :
                         /\ n \in DOMAIN scopes[d] /\ Whole(scopes[d][n]) /\ scopes[d][n].ty # "task"
                         /\ e.k \in {"push", "cond"} => scopes[d][n].ty = "vec"
                         /\ e.k = "field" => scopes[d][n].ty = "pair" /\ d = Len(scopes)
    BY DEF CanTake
  <2>1. Home(scopes, n) \in DOMAIN scopes /\ n \in DOMAIN scopes[Home(scopes, n)] /\ Lookup(scopes, n) = scopes[Home(scopes, n)][n]
    BY <1>3, HomeOf
  <2>2. e.k = "field" => Home(scopes, n) = Len(scopes)
    <3>1. DOMAIN scopes = 1 .. Len(scopes) /\ Len(scopes) \in Nat
      BY EnvIs
    <3>2. e.k = "field" => ~(Home(scopes, n) < Len(scopes))
      BY <1>3, <1>4 DEF InnerOf
    <3>. QED
      BY ONLY <2>1, <3>1, <3>2
  <2>. QED
    BY <1>3, <2>1, <2>2
<1>6. Consume(scopes, e) = Taken(scopes, e)
  <2>1. \A n \in Operands(e) : Has(scopes, n)
    BY <1>3 DEF Has, Bound
  <2>. QED
    BY <1>1, <2>1, ConsumeIs
<1>7. TypeOf(scopes, e) # "task"
  <2>1. /\ e.k \in {"new", "var", "push", "field", "cond", "mutex_lock", "int"}
        /\ e.k \in {"var", "push", "field"} => e.n \in Operands(e)
        /\ e.k = "cond" => e.n \in Operands(e)
        /\ e.k = "new" => e.ty \in Kinds
    BY <1>1, ExprCases
  <2>. QED
    BY <1>3, <2>1 DEF TypeOf, Kinds
<1>. QED
  BY <1>1, <1>3, <1>5, <1>6, <1>7

(* A new binding.                                                           *)
LEMMA FreshInfo ==
  ASSUME NEW t \in {"vec", "pair", "nest", "task", "guard"}, NEW m \in Mutexes \cup {NoMutex}
  PROVE  LET v == [Fresh(t) EXCEPT !.guarded_mutex = m] IN v \in Infos /\ InfoLet(v, t)
<1>. DEFINE w == Fresh(t)
            v == [w EXCEPT !.guarded_mutex = m]
<1>1. w \in VarInfo /\ w.ty = t /\ ~w.moved /\ ~w.moved_field /\ ~w.no_drop
  BY DEF VarInfo, Fresh
<1>. HIDE DEF w
<1>2. v \in VarInfo /\ v.ty = w.ty /\ v.moved = w.moved /\ v.moved_field = w.moved_field /\ v.no_drop = w.no_drop
  BY <1>1 DEF VarInfo
<1>. HIDE DEF v
<1>3. v \in Infos /\ InfoLet(v, t)
  BY <1>1, <1>2 DEF Infos, InfoOK, InfoLet
<1>. QED
  BY <1>3 DEF v, w

(* What an expression that the pass takes makes.                            *)
LEMMA TypeIs ==
  ASSUME EnvOK(scopes), NEW e \in Expr, CanTake(scopes, e), e.k # "int"
  PROVE  TypeOf(scopes, e) \in {"vec", "pair", "nest", "task", "guard"}
<1>1. /\ e.k \in {"new", "var", "push", "field", "cond", "mutex_lock", "int"}
      /\ e.k \in {"var", "push", "field"} => e.n \in Operands(e)
      /\ e.k = "cond" => e.n \in Operands(e)
      /\ e.k = "new" => e.ty \in Kinds
  BY ExprCases
<1>2. ASSUME NEW n \in Operands(e) PROVE Lookup(scopes, n).ty \in {"vec", "pair", "nest", "task", "guard"}
  <2>1. Bound(scopes, n)
    BY DEF CanTake, Bound
  <2>. QED
    BY <2>1, HomeOf, InfoIs
<1>. QED
  BY <1>1, <1>2 DEF TypeOf, Kinds

-----------------------------------------------------------------------------
(* Each straight statement keeps the notes                                  *)

(* Where the pass is good and the path goes on it is about to write.        *)
LEMMA GoodReady ==
  ASSUME Good, ~closed
  PROVE  \E g : Ready(g)
BY DEF Good, Current, Ready

(* The pass is good after one instruction that fits.                        *)
LEMMA GoodOne ==
  ASSUME IsSeq(code), NEW i, NEW F, NEW h, Trace(Append(code, i), h, Note(F, PathOf(open)), open),
         Emit(<<i>>), scopes' = F, open' = open, ~closed'
  PROVE  Good'
<1>1. IsSeq(<< >>)
  BY DEF IsSeq
<1>2. code' = Append(code, i)
  BY <1>1, CatIs DEF Emit
<1>3. Current' = Note(F, PathOf(open))
  BY DEF Current
<1>. QED
  BY <1>2, <1>3 DEF Good

(* What makes the cell of an instruction that neither opens nor closes a    *)
(* block.                                                                   *)
LEMMA StraightCell ==
  ASSUME NEW i, i.op \in Straights, NEW x, NoteOK(x), x.live, NEW z, NoteOK(z),
         i.op = "let" => LetOK(Cell3(i, x, z)),
         i.op = "set" => SetOK(Cell3(i, x, z)),
         i.op = "drop" => DropOK(Cell3(i, x, z)),
         i.op = "use" => UseOK(Cell3(i, x, z)),
         i.op = "call" => x.extra = {} /\ z = x,
         i.op = "spawn" => SpawnOK(Cell3(i, x, z)),
         i.op = "join" => JoinOK(Cell3(i, x, z)),
         i.op = "freebuf" => FreeOK(Cell3(i, x, z))
  PROVE  CellOK(Cell3(i, x, z))
<1>. DEFINE c == Cell3(i, x, z)
<1>1. c.ins = i /\ c.a = x /\ c.z = z /\ c = Cell3(c.ins, c.a, c.z)
  BY CellIs
<1>2. i.op \notin Closers /\ i.op \notin Ends /\ i.op \notin Opens /\ i.op \notin Exits /\ i.op # "return"
  BY DEF Straights, Closers, Ends, Opens, Exits
<1>. HIDE DEF c
<1>3. CellOK(c)
  BY <1>1, <1>2 DEF CellOK, c
<1>. QED
  BY <1>3 DEF c

(* A menu without hazards lets no name be bound twice.                      *)
LEMMA NotHere ==
  ASSUME Tame, menu \in Menus, EnvOK(scopes), NEW n, MayBind(n), n \notin DOMAIN scopes[Len(scopes)]
  PROVE  ~Has(scopes, n)
<1>1. ~Allows("shadow")
  BY NoHazard DEF Hazards
<1>2. ~InnerOf(n)
  BY <1>1 DEF MayBind
<1>3. Bound(scopes, n) => /\ Home(scopes, n) \in DOMAIN scopes /\ n \in DOMAIN scopes[Home(scopes, n)]
  BY HomeOf
<1>4. DOMAIN scopes = 1 .. Len(scopes) /\ Len(scopes) \in Nat
  BY EnvIs
<1>5. ~Bound(scopes, n)
  <2>. SUFFICES ASSUME Bound(scopes, n) PROVE FALSE
    OBVIOUS
  <2>1. ~(Home(scopes, n) < Len(scopes)) /\ Home(scopes, n) \in DOMAIN scopes
    BY <1>2, <1>3 DEF InnerOf
  <2>2. Home(scopes, n) = Len(scopes)
    BY ONLY <1>4, <2>1
  <2>. QED
    BY <1>3, <2>2
<1>. QED
  BY <1>5 DEF Has, Bound

(* A name that a statement may overwrite.                                   *)
LEMMA Overwritten ==
  ASSUME Tame, menu \in Menus, EnvOK(scopes), NEW n, Bound(scopes, n), MayOverwrite(n)
  PROVE  ~Lookup(scopes, n).no_drop /\ ~Lookup(scopes, n).moved_field /\ ~Looped(open, n)
<1>1. ~Allows("own view") /\ ~Allows("field then assign") /\ ~Allows("change iterated")
  BY NoHazard DEF Hazards
<1>. QED
  BY <1>1, IteratedIs DEF MayOverwrite

(* The cell of an assignment.                                               *)
LEMMA SetCell ==
  ASSUME NEW x, x.extra = {}, NEW E, x.env = E, NEW e \in Expr, CanTake(E, e), e.k # "int",
         NEW d \in DOMAIN E, NEW n \in Names, n \in DOMAIN E[d],
         ~E[d][n].moved_field, ~E[d][n].no_drop, E[d][n].ty = TypeOf(E, e), TypeOf(E, e) # "task",
         NEW v \in Infos, InfoLet(v, TypeOf(E, e)),
         d < Len(E) => v.guarded_mutex = E[d][n].guarded_mutex,
         NEW i, i.n = n, i.e = e, i.drop_old = ~Taken(E, e)[d][n].moved,
         NEW y, y = Note(Put(Taken(E, e), d, n, v), x.path)
  PROVE  SetOK(Cell3(i, x, y))
<1>. DEFINE c == Cell3(i, x, y)
<1>1. c.ins = i /\ c.a = x /\ c.z = y
  BY CellIs
<1>. HIDE DEF c
<1>2. \E w \in Infos : /\ InfoLet(w, TypeOf(E, e))
                      /\ d < Len(E) => w.guarded_mutex = E[d][n].guarded_mutex
                      /\ y = Note(Put(Taken(E, e), d, n, w), x.path)
  OBVIOUS
<1>3. SetOK(c)
  <2>1. c.a.env = E /\ c.ins.e = e /\ c.ins.n = n /\ c.ins.drop_old = ~Taken(E, e)[d][n].moved
    BY <1>1
  <2>. QED
    BY <1>1, <1>2, <2>1 DEF SetOK
<1>. QED
  BY <1>3 DEF c

(* A let keeps the pass good.                                               *)
LEMMA LetKeeps ==
  ASSUME Tame, menu \in Menus, "ret" \notin Names, Good, NEW n \in Names, NEW e \in Exprs, Let(n, e)
  PROVE  Good'
<1>1. PICK g : Ready(g)
  BY GoodReady DEF Let, Statement
<1>. DEFINE E == scopes
            x == Note(E, PathOf(open))
            T == Taken(E, e)
            t == TypeOf(E, e)
            m == IF e.k = "mutex_lock" THEN e.m ELSE NoMutex
            v == [Fresh(t) EXCEPT !.guarded_mutex = m]
            F == InsertCurrent(T, n, v)
            y == Note(F, PathOf(open))
<1>2. /\ EnvOK(E) /\ IsSeq(open) /\ Len(E) = Len(open) + 1 /\ IsSeq(code)
      /\ NoteOK(x) /\ x.live /\ x.extra = {} /\ x.env = E /\ x.path = PathOf(open)
      /\ DOMAIN E = 1 .. Len(E) /\ Len(E) \in DOMAIN E /\ Last(E) = E[Len(E)]
      /\ Trace(code, g, x, open)
  BY <1>1, ReadyIs DEF Ready
<1>3. /\ e \in Expr /\ CanTake(E, e) /\ Consume(E, e) = T
      /\ \A k \in Operands(e) : ~Looped(open, k)
      /\ t # "task" /\ e.k # "int"
  <2>1. Accepts(scopes, e) /\ MayMove(e) /\ e \in Exprs \cup {[k |-> "int"]}
    BY DEF Let
  <2>2. e.k # "int"
    BY DEF Exprs
  <2>. QED
    BY <1>2, <2>1, <2>2, OperandsOK
<1>4. v \in Infos /\ InfoLet(v, t)
  <2>1. t \in {"vec", "pair", "nest", "task", "guard"}
    BY <1>2, <1>3, TypeIs
  <2>2. m \in Mutexes \cup {NoMutex}
    BY <1>3, ExprCases
  <2>. HIDE DEF t, m
  <2>. QED
    BY <2>1, <2>2, FreshInfo
<1>5. /\ EnvOK(T) /\ Len(T) = Len(E) /\ DOMAIN T = DOMAIN E /\ \A d \in DOMAIN E : DOMAIN T[d] = DOMAIN E[d]
      /\ Kept(open, E, T)
  BY <1>2, <1>3, TakenOK, TakenKept
<1>6. /\ Last(T) = T[Len(E)] /\ DOMAIN Last(T) = DOMAIN E[Len(E)]
  BY <1>2, <1>5 DEF Last
<1>7. /\ scopes' = F /\ open' = open /\ closed' = closed /\ ~closed
      /\ n \in DOMAIN E[Len(E)] => /\ Last(T)[n].ty = t /\ MayOverwrite(n)
                                   /\ Emit(<<[op |-> "set", n |-> n, ty |-> t, e |-> e, drop_old |-> ~Last(T)[n].moved]>>)
      /\ n \notin DOMAIN E[Len(E)] => /\ MayBind(n) /\ Emit(<<[op |-> "let", n |-> n, e |-> e]>>)
  BY <1>3, <1>6 DEF Let, Statement
<1>. HIDE DEF E, x, T, t, m, v, F
<1>8. ~v.no_drop /\ v.ty # "task" /\ ~v.moved /\ ~v.moved_field /\ v.ty = t
  BY <1>3, <1>4 DEF InfoLet
<1>9. CASE n \notin DOMAIN E[Len(E)]
  <2>. DEFINE i == [op |-> "let", n |-> n, e |-> e]
  <2>1. ~Has(E, n)
    BY <1>2, <1>7, <1>9, NotHere DEF E
  <2>2. EnvOK(F) /\ Len(F) = Len(E) /\ Kept(open, E, F)
    BY <1>2, <1>4, <1>5, <1>8, <2>1, InsertKept DEF F
  <2>3. NoteOK(y) /\ y = Note(F, x.path)
    BY <1>2, <2>2, NoteFrom
  <2>4. i.op = "let" /\ i.n = n /\ i.e = e
    OBVIOUS
  <2>. HIDE DEF i
  <2>5. LetOK(Cell3(i, x, y))
    <3>1. n # "ret"
      OBVIOUS
    <3>2. y = Note(InsertCurrent(Taken(E, e), n, v), x.path)
      BY <2>3 DEF F, T
    <3>3. TypeOf(E, e) = t
      BY DEF t
    <3>4. Cell3(i, x, y).ins = i /\ Cell3(i, x, y).a = x /\ Cell3(i, x, y).z = y
      BY CellIs
    <3>. HIDE DEF y
    <3>. QED
      BY <1>2, <1>3, <1>4, <2>1, <2>4, <3>1, <3>2, <3>3, <3>4 DEF LetOK
  <2>6. i.op \in Straights /\ i.op \notin {"spawn", "join"}
    BY <2>4 DEF Straights
  <2>7. CellOK(Cell3(i, x, y))
    BY <1>2, <2>3, <2>4, <2>5, <2>6, StraightCell
  <2>8. Trace(Append(code, i), Append(g, y), y, open)
    BY <1>2, <2>2, <2>3, <2>6, <2>7, WriteNote
  <2>9. Emit(<<i>>) /\ scopes' = F /\ open' = open /\ ~closed'
    BY <1>7, <1>9 DEF i
  <2>. QED
    BY <1>2, <2>8, <2>9, GoodOne
<1>10. CASE n \in DOMAIN E[Len(E)]
  <2>. DEFINE b == ~T[Len(E)][n].moved
              i == [op |-> "set", n |-> n, ty |-> t, e |-> e, drop_old |-> b]
  <2>1. Bound(E, n) /\ Lookup(E, n) = E[Len(E)][n]
    BY <1>2, <1>10, HomeIs
  <2>2. ~E[Len(E)][n].no_drop /\ ~E[Len(E)][n].moved_field /\ ~Looped(open, n)
    BY <1>2, <1>7, <1>10, <2>1, Overwritten DEF E
  <2>3. E[Len(E)][n].ty = t
    <3>1. T[Len(E)][n] = IF n \in Operands(e)
                          THEN IF e.k = "field" THEN [E[Len(E)][n] EXCEPT !.moved_field = TRUE]
                                                ELSE [E[Len(E)][n] EXCEPT !.moved = TRUE]
                          ELSE E[Len(E)][n]
      BY <1>2, <1>3, <1>10, TakenOK DEF T
    <3>2. E[Len(E)][n] \in Infos
      BY <1>2, <1>10, EnvIs
    <3>3. E[Len(E)][n] = [ty |-> E[Len(E)][n].ty, moved |-> E[Len(E)][n].moved, moved_field |-> E[Len(E)][n].moved_field,
                 no_drop |-> E[Len(E)][n].no_drop, guarded_mutex |-> E[Len(E)][n].guarded_mutex]
      BY <3>2, InfoIs
    <3>4. T[Len(E)][n].ty = E[Len(E)][n].ty
      BY ONLY <3>1, <3>3
    <3>. QED
      BY <1>6, <1>7, <1>10, <3>4
  <2>4. F = Put(T, Len(E), n, v) /\ EnvOK(F) /\ Len(F) = Len(E) /\ Kept(open, E, F)
    <3>1. n \in DOMAIN T[Len(E)] /\ Len(E) \in DOMAIN T /\ Len(T) = Len(E)
      BY <1>2, <1>5, <1>10
    <3>2. Put(T, Len(E), n, v) = InsertCurrent(T, n, v)
      BY <1>4, <1>5, <3>1, PutOK
    <3>3. F = Put(T, Len(E), n, v)
      BY <3>2 DEF F
    <3>4. EnvOK(Put(T, Len(E), n, v)) /\ Len(Put(T, Len(E), n, v)) = Len(E) /\ Kept(open, E, Put(T, Len(E), n, v))
      BY <1>2, <1>3, <1>4, <1>5, <1>8, <1>10, <2>2, <2>3, PutKept
    <3>. QED
      BY <3>3, <3>4
  <2>5. NoteOK(y) /\ y = Note(F, x.path)
    BY <1>2, <2>4, NoteFrom
  <2>. HIDE DEF b
  <2>6. i.op = "set" /\ i.n = n /\ i.e = e /\ i.drop_old = b
    OBVIOUS
  <2>. HIDE DEF i
  <2>7. SetOK(Cell3(i, x, y))
    <3>2. y = Note(Put(Taken(E, e), Len(E), n, v), x.path)
      BY <2>4, <2>5 DEF T
    <3>3. TypeOf(E, e) = t /\ b = ~Taken(E, e)[Len(E)][n].moved
      BY DEF t, b, T
    <3>4. ~(Len(E) < Len(E))
      <4>1. Len(E) \in Nat
        BY <1>2, EnvIs
      <4>. QED
        BY ONLY <4>1
    <3>5. E[Len(E)][n].ty = TypeOf(E, e) /\ TypeOf(E, e) # "task" /\ InfoLet(v, TypeOf(E, e))
      BY <1>3, <1>4, <2>3, <3>3
    <3>. HIDE DEF y
    <3>. QED
      BY <1>2, <1>3, <1>4, <1>10, <2>2, <2>6, <3>2, <3>3, <3>4, <3>5, SetCell, ZenonT(60)
  <2>8. i.op \in Straights /\ i.op \notin {"spawn", "join"}
    BY <2>6 DEF Straights
  <2>9. CellOK(Cell3(i, x, y))
    BY <1>2, <2>5, <2>6, <2>7, <2>8, StraightCell
  <2>10. Trace(Append(code, i), Append(g, y), y, open)
    BY <1>2, <2>4, <2>5, <2>8, <2>9, WriteNote
  <2>11. Emit(<<i>>) /\ scopes' = F /\ open' = open /\ ~closed'
    BY <1>6, <1>7, <1>10 DEF i, b
  <2>. QED
    BY <1>2, <2>10, <2>11, GoodOne
<1>. QED
  BY <1>9, <1>10

(* An assignment keeps the pass good.                                       *)
LEMMA AssignKeeps ==
  ASSUME Tame, menu \in Menus, Good, NEW n \in Names, NEW e \in Exprs, Assign(n, e)
  PROVE  Good'
<1>1. PICK g : Ready(g)
  BY GoodReady DEF Assign, Statement
<1>. DEFINE E == scopes
            x == Note(E, PathOf(open))
            T == Taken(E, e)
            d == Home(E, n)
            v == [T[d][n] EXCEPT !.moved = FALSE]
            F == Put(T, d, n, v)
            y == Note(F, PathOf(open))
            b == ~T[d][n].moved
            o == Lookup(IF e.k = "push" THEN Consume(E, e) ELSE E, n).ty
            i == [op |-> "set", n |-> n, ty |-> o, e |-> e, drop_old |-> b]
<1>2. /\ EnvOK(E) /\ IsSeq(open) /\ Len(E) = Len(open) + 1 /\ IsSeq(code)
      /\ NoteOK(x) /\ x.live /\ x.extra = {} /\ x.env = E /\ x.path = PathOf(open)
      /\ DOMAIN E = 1 .. Len(E) /\ Len(E) \in DOMAIN E /\ Last(E) = E[Len(E)]
      /\ Trace(code, g, x, open)
  BY <1>1, ReadyIs DEF Ready
<1>3. /\ e \in Expr /\ CanTake(E, e) /\ Consume(E, e) = T
      /\ \A k \in Operands(e) : ~Looped(open, k)
      /\ TypeOf(E, e) # "task" /\ e.k # "int"
  <2>1. Accepts(scopes, e) /\ MayMove(e) /\ e \in Exprs \cup {[k |-> "int"]}
    BY DEF Assign
  <2>2. e.k # "int"
    BY DEF Exprs
  <2>. QED
    BY <1>2, <2>1, <2>2, OperandsOK
<1>4. /\ Bound(E, n) /\ Lookup(E, n).ty = TypeOf(E, e) /\ MayOverwrite(n)
      /\ e.k \in {"var", "cond"} => n \notin Operands(e)
      /\ e.k # "mutex_lock"
  <2>1. ~Allows("self assign") /\ ~Allows("guard reassigned")
    BY NoHazard DEF Hazards
  <2>2. Lookup(E, n).ty = TypeOf(E, e) /\ MayOverwrite(n)
    BY DEF Assign
  <2>3. Lookup(E, n).ty # "guard"
    BY <2>1, <2>2 DEF MayOverwrite
  <2>4. e.k # "mutex_lock"
    BY <2>2, <2>3 DEF TypeOf
  <2>. QED
    BY <2>1, <2>2, <2>4 DEF Assign
<1>5. /\ d \in DOMAIN E /\ n \in DOMAIN E[d] /\ Lookup(E, n) = E[d][n] /\ E[d][n] \in Infos
  BY <1>2, <1>4, HomeOf
<1>6. /\ EnvOK(T) /\ Len(T) = Len(E) /\ DOMAIN T = DOMAIN E /\ \A k \in DOMAIN E : DOMAIN T[k] = DOMAIN E[k]
      /\ Kept(open, E, T)
  BY <1>2, <1>3, TakenOK, TakenKept
<1>7. T[d][n] = IF n \in Operands(e)
                   THEN IF e.k = "field" THEN [E[d][n] EXCEPT !.moved_field = TRUE]
                                         ELSE [E[d][n] EXCEPT !.moved = TRUE]
                   ELSE E[d][n]
  BY <1>2, <1>3, <1>5, TakenOK
<1>8. n \in Operands(e) => e.k = "push" /\ E[d][n].ty = "vec"
  <2>. SUFFICES ASSUME n \in Operands(e) PROVE e.k = "push" /\ E[d][n].ty = "vec"
    OBVIOUS
  <2>1. /\ e.k \in {"push", "cond"} => E[d][n].ty = "vec"
        /\ e.k = "field" => E[d][n].ty = "pair"
    BY <1>2, <1>3, <1>5, TakenOK
  <2>2. e.k = "field" => TypeOf(E, e) = "vec"
    BY DEF TypeOf
  <2>3. e.k \notin {"new", "mutex_lock", "int"}
    BY <1>3, ExprCases
  <2>4. e.k \in {"new", "var", "push", "field", "cond", "mutex_lock", "int"}
    BY <1>3, ExprCases
  <2>. HIDE DEF d, E
  <2>. QED
    BY <1>4, <1>5, <2>1, <2>2, <2>3, <2>4
<1>9. ~E[d][n].no_drop /\ ~E[d][n].moved_field /\ ~Looped(open, n)
  BY <1>2, <1>4, <1>5, Overwritten
<1>10. /\ T[d][n] \in Infos /\ T[d][n].ty = E[d][n].ty /\ ~T[d][n].moved_field /\ ~T[d][n].no_drop
       /\ T[d][n].guarded_mutex = E[d][n].guarded_mutex
       /\ T[d][n] = [E[d][n] EXCEPT !.moved = T[d][n].moved]
  <2>1. T[d][n] \in Infos
    BY <1>5, <1>6, EnvIs
  <2>2. CASE n \in Operands(e)
    <3>1. T[d][n] = [E[d][n] EXCEPT !.moved = TRUE]
      BY <1>7, <1>8, <2>2
    <3>. HIDE DEF T, d, E
    <3>. QED
      BY <1>5, <1>9, <2>1, <3>1, MovedInfo
  <2>3. CASE n \notin Operands(e)
    <3>1. T[d][n] = E[d][n]
      BY <1>7, <2>3
    <3>2. [E[d][n] EXCEPT !.moved = E[d][n].moved] = E[d][n]
      BY <1>2, <1>5, SameInfo
    <3>. HIDE DEF T, d, E
    <3>. QED
      BY <1>5, <1>9, <2>1, <3>1, <3>2
  <2>. QED
    BY <2>2, <2>3
<1>11. /\ v \in Infos /\ InfoLet(v, TypeOf(E, e)) /\ ~v.no_drop /\ v.ty = TypeOf(E, e)
       /\ v.guarded_mutex = E[d][n].guarded_mutex
       /\ v = [E[d][n] EXCEPT !.moved = v.moved]
  <2>. DEFINE w == T[d][n] u == E[d][n]
  <2>1. w = [ty |-> w.ty, moved |-> w.moved, moved_field |-> w.moved_field,
             no_drop |-> w.no_drop, guarded_mutex |-> w.guarded_mutex] /\ v \in Infos
    BY <1>10, InfoIs
  <2>2. u = [ty |-> u.ty, moved |-> u.moved, moved_field |-> u.moved_field,
             no_drop |-> u.no_drop, guarded_mutex |-> u.guarded_mutex]
    BY <1>5, InfoIs
  <2>3. u.ty = TypeOf(E, e) /\ ~u.moved_field /\ ~u.no_drop
    BY <1>4, <1>5, <1>9
  <2>4. w = [u EXCEPT !.moved = w.moved] /\ w.ty = u.ty /\ ~w.moved_field /\ ~w.no_drop /\ w.guarded_mutex = u.guarded_mutex
    BY <1>10
  <2>5. v = [w EXCEPT !.moved = FALSE]
    OBVIOUS
  <2>. HIDE DEF w, u, v
  <2>6. v.moved = FALSE /\ v.ty = w.ty /\ v.moved_field = w.moved_field /\ v.no_drop = w.no_drop /\ v.guarded_mutex = w.guarded_mutex
    BY ONLY <2>1, <2>5
  <2>7. v = [u EXCEPT !.moved = v.moved]
    BY ONLY <2>1, <2>2, <2>4, <2>5
  <2>. QED
    BY <2>1, <2>3, <2>4, <2>6, <2>7 DEF InfoLet, u
<1>12. /\ Emit(<<i>>) /\ scopes' = F /\ open' = open /\ ~closed'
  <2>. DEFINE existing == Lookup(IF e.k = "push" THEN Consume(E, e) ELSE E, n)
  <2>1. /\ Emit(<<[op |-> "set", n |-> n, ty |-> existing.ty, e |-> e, drop_old |-> ~existing.moved]>>)
        /\ scopes' = SetInfo(Consume(E, e), n, [Lookup(Consume(E, e), n) EXCEPT !.moved = FALSE])
        /\ open' = open /\ ~closed'
    BY DEF Assign, Statement
  <2>2. Lookup(T, n) = T[d][n] /\ SetInfo(T, n, v) = [T EXCEPT ![d][n] = v]
    <3>1. EnvOK(T) /\ d \in DOMAIN T /\ n \in DOMAIN T[d]
      BY <1>5, <1>6
    <3>. HIDE DEF T, d, v
    <3>. QED
      BY <3>1, HomeIs
  <2>3. scopes' = [T EXCEPT ![d][n] = v]
    BY <1>3, <2>1, <2>2
  <2>4. F = [T EXCEPT ![d][n] = v]
    <3>1. d \in DOMAIN T /\ n \in DOMAIN T[d]
      BY <1>5, <1>6
    <3>. HIDE DEF T, d, v
    <3>. QED
      BY <1>6, <1>11, <3>1, PutOK
  <2>5. existing.moved = T[d][n].moved
    <3>1. CASE e.k = "push"
      BY <1>3, <2>2, <3>1
    <3>2. CASE e.k # "push"
      <4>1. T[d][n] = E[d][n]
        BY <1>7, <1>8, <3>2
      <4>. QED
        BY <1>5, <3>2, <4>1
    <3>. QED
      BY <3>1, <3>2
  <2>6. o = existing.ty
    OBVIOUS
  <2>. HIDE DEF T, d, existing, F, o
  <2>. QED
    BY <2>1, <2>3, <2>4, <2>5, <2>6
<1>. HIDE DEF E, T, d, v
<1>13. EnvOK(F) /\ Len(F) = Len(E) /\ Kept(open, E, F)
  <2>1. E[d][n].ty # "task" /\ v.ty # "task"
    BY <1>3, <1>4, <1>5, <1>11
  <2>. QED
    BY <1>2, <1>5, <1>6, <1>9, <1>11, <2>1, PutKept
<1>14. NoteOK(y) /\ y = Note(F, x.path)
  BY <1>2, <1>13, NoteFrom
<1>. HIDE DEF b, o
<1>15. i.op = "set" /\ i.n = n /\ i.e = e /\ i.drop_old = b
  OBVIOUS
<1>. HIDE DEF i
<1>16. SetOK(Cell3(i, x, y))
  <2>1. y = Note(Put(Taken(E, e), d, n, v), x.path)
    BY <1>14 DEF T
  <2>2. b = ~Taken(E, e)[d][n].moved
    BY DEF b, T
  <2>3. E[d][n].ty = TypeOf(E, e)
    BY <1>4, <1>5
  <2>. HIDE DEF x, y, F
  <2>. QED
    BY <1>2, <1>3, <1>5, <1>9, <1>11, <1>15, <2>1, <2>2, <2>3, SetCell, ZenonT(60)
<1>17. i.op \in Straights /\ i.op \notin {"spawn", "join"}
  BY <1>15 DEF Straights
<1>18. CellOK(Cell3(i, x, y))
  BY <1>2, <1>14, <1>15, <1>16, <1>17, StraightCell
<1>19. Trace(Append(code, i), Append(g, y), y, open)
  <2>. HIDE DEF x, F
  <2>1. Trace(Append(code, i), Append(g, Note(F, x.path)), Note(F, x.path), open)
    BY <1>2, <1>13, <1>14, <1>17, <1>18, WriteNote
  <2>. QED
    BY <1>14, <2>1
<1>. QED
  BY <1>2, <1>12, <1>19, GoodOne

(* What changes nothing keeps everything.                                   *)
LEMMA SameKept ==
  ASSUME NEW E, EnvOK(E), NEW o
  PROVE  Kept(o, E, E)
<1>1. \A d \in DOMAIN E : \A n \in DOMAIN E[d] : E[d][n] = [E[d][n] EXCEPT !.moved = E[d][n].moved]
  BY SameInfo
<1>. QED
  BY <1>1 DEF Kept, Moves, LoopsKeep

(* A statement that changes no binding.                                     *)
LEMMA SameNote ==
  ASSUME NEW g, Ready(g), NEW i, i.op \in Straights, i.op \notin {"spawn", "join"},
         CellOK(Cell3(i, Note(scopes, PathOf(open)), Note(scopes, PathOf(open)))),
         Emit(<<i>>), scopes' = scopes, open' = open, ~closed'
  PROVE  Good'
<1>. DEFINE x == Note(scopes, PathOf(open))
<1>1. /\ EnvOK(scopes) /\ IsSeq(code) /\ NoteOK(x) /\ x.live /\ x.extra = {} /\ x.env = scopes
      /\ x.path = PathOf(open) /\ Trace(code, g, x, open)
  BY ReadyIs DEF Ready
<1>2. Note(scopes, x.path) = x
  BY <1>1
<1>. HIDE DEF x
<1>3. Kept(open, x.env, scopes)
  BY <1>1, SameKept
<1>4. Trace(Append(code, i), Append(g, x), x, open)
  <2>1. CellOK(Cell3(i, x, Note(scopes, x.path)))
    BY <1>2 DEF x
  <2>. QED
    BY <1>1, <1>2, <1>3, <2>1, WriteNote
<1>. QED
  BY <1>1, <1>4, GoodOne DEF x

(* A use keeps the pass good.                                               *)
LEMMA UseKeeps ==
  ASSUME menu \in Menus, Good, NEW n \in Names, Use(n), Tame
  PROVE  Good'
<1>1. PICK g : Ready(g)
  BY GoodReady DEF Use, Statement
<1>. DEFINE E == scopes
            x == Note(E, PathOf(open))
            d == Home(E, n)
            i == [op |-> "use", n |-> n]
<1>2. /\ EnvOK(E) /\ NoteOK(x) /\ x.live /\ x.extra = {} /\ x.env = E
  BY <1>1, ReadyIs
<1>3. /\ Bound(E, n) /\ ~Lookup(E, n).moved /\ Lookup(E, n).ty \in {"vec", "nest", "guard"}
      /\ Emit(<<i>>) /\ scopes' = scopes /\ open' = open /\ ~closed'
  BY DEF Use, Statement
<1>4. /\ d \in DOMAIN E /\ n \in DOMAIN E[d] /\ Lookup(E, n) = E[d][n] /\ E[d][n] \in Infos
  BY <1>2, <1>3, HomeOf
<1>5. ~E[d][n].moved_field /\ E[d][n].ty # "task" /\ ~E[d][n].moved
  <2>1. E[d][n].moved_field => E[d][n].ty = "pair"
    BY <1>4 DEF Infos, InfoOK
  <2>. QED
    BY <1>3, <1>4, <2>1
<1>6. i.op = "use" /\ i.n = n
  OBVIOUS
<1>. HIDE DEF d, x, i, E
<1>7. UseOK(Cell3(i, x, x))
  <2>1. Cell3(i, x, x).ins = i /\ Cell3(i, x, x).a = x /\ Cell3(i, x, x).z = x
    BY CellIs
  <2>. QED
    BY <1>2, <1>4, <1>5, <1>6, <2>1 DEF UseOK
<1>8. i.op \in Straights /\ i.op \notin {"spawn", "join"}
  BY <1>6 DEF Straights
<1>9. CellOK(Cell3(i, x, x))
  BY <1>2, <1>6, <1>7, <1>8, StraightCell
<1>. QED
  BY <1>1, <1>3, <1>8, <1>9, SameNote DEF x, E

(* A call keeps the pass good.                                              *)
LEMMA CallKeeps ==
  ASSUME Good, NEW f, NEW m, Call(f, m)
  PROVE  Good'
<1>1. PICK g : Ready(g)
  BY GoodReady DEF Call, Statement
<1>. DEFINE x == Note(scopes, PathOf(open))
            i == [op |-> "call", f |-> f, m |-> m]
<1>2. NoteOK(x) /\ x.live /\ x.extra = {}
  BY <1>1, ReadyIs
<1>3. i.op = "call"
  OBVIOUS
<1>4. Emit(<<i>>) /\ scopes' = scopes /\ open' = open /\ ~closed'
  BY DEF Call, Statement
<1>. HIDE DEF x, i
<1>5. i.op \in Straights /\ i.op \notin {"spawn", "join"}
  BY <1>3 DEF Straights
<1>6. CellOK(Cell3(i, x, x))
  BY <1>2, <1>3, <1>5, StraightCell
<1>. QED
  BY <1>1, <1>4, <1>5, <1>6, SameNote DEF x

(* The place where the pass writes.                                         *)
LEMMA PlaceIs ==
  ASSUME IsSeq(open)
  PROVE  /\ PathOf(open)[Len(open) + 1] = [block |-> Here, kind |-> Branch]
         /\ Len(PathOf(open)) = Len(open) + 1
<1>1. /\ Len(open) \in Nat /\ DOMAIN open = 1 .. Len(open) /\ PathOf(open)[1] = Body
      /\ \A m \in 1 .. Len(open) : PathOf(open)[m + 1] = [block |-> open[m].block, kind |-> open[m].kind]
      /\ Len(PathOf(open)) = Len(open) + 1
  BY PathOfIs
<1>2. CASE open = << >>
  BY <1>1, <1>2 DEF Here, Branch, Body
<1>3. CASE open # << >>
  <2>1. Len(open) # 0
    <3>. SUFFICES ASSUME Len(open) = 0 PROVE open = << >>
      BY <1>3
    <3>1. open = [k \in 1 .. 0 |-> open[k]]
      BY DEF IsSeq
    <3>. QED
      BY <3>1
  <2>2. Len(open) \in 1 .. Len(open)
    BY ONLY <1>1, <2>1
  <2>3. Last(open) = open[Len(open)]
    BY DEF Last
  <2>. QED
    BY <1>1, <1>3, <2>2, <2>3 DEF Here, Branch
<1>. QED
  BY <1>2, <1>3

(* A spawn keeps the pass good.                                             *)
LEMMA SpawnKeeps ==
  ASSUME Tame, menu \in Menus, Good, NEW n \in Names, NEW body, TaskSpawn(n, body)
  PROVE  Good'
<1>1. PICK g : Ready(g)
  BY GoodReady DEF TaskSpawn, Statement
<1>. DEFINE E == scopes
            x == Note(E, PathOf(open))
            v == Fresh("task")
            F == InsertCurrent(E, n, v)
            y == Note(F, x.path)
            i == [op |-> "spawn", n |-> n, in |-> Here, branch |-> Branch, body |-> body]
<1>2. /\ EnvOK(E) /\ IsSeq(open) /\ Len(open) \in Nat /\ Len(E) = Len(open) + 1 /\ IsSeq(code)
      /\ NoteOK(x) /\ x.live /\ x.extra = {} /\ x.env = E /\ x.path = PathOf(open)
      /\ DOMAIN E = 1 .. Len(E) /\ Len(E) \in DOMAIN E /\ Last(E) = E[Len(E)]
      /\ Trace(code, g, x, open)
  BY <1>1, ReadyIs DEF Ready
<1>3. /\ n \notin DOMAIN E[Len(E)] /\ MayBind(n)
      /\ Emit(<<i>>) /\ scopes' = F /\ open' = open /\ ~closed'
  BY <1>2 DEF TaskSpawn, Statement
<1>4. ~Has(E, n)
  BY <1>2, <1>3, NotHere
<1>5. v \in Infos /\ ~v.no_drop /\ v.ty = "task"
  BY DEF Fresh, Infos, InfoOK, VarInfo
<1>6. PathOf(open)[Len(open) + 1] = [block |-> Here, kind |-> Branch] /\ Len(x.path) = Len(open) + 1
  BY <1>2, PlaceIs
<1>7. i.op = "spawn" /\ i.n = n /\ i.in = Here /\ i.branch = Branch
  OBVIOUS
<1>. HIDE DEF i, E, x, v
<1>8. /\ EnvOK(F) /\ Len(F) = Len(E) /\ DOMAIN F = DOMAIN E
      /\ \A d \in DOMAIN E : d # Len(E) => F[d] = E[d]
      /\ DOMAIN F[Len(E)] = DOMAIN E[Len(E)] \cup {n}
      /\ F[Len(E)][n] = v
      /\ \A m \in DOMAIN E[Len(E)] : F[Len(E)][m] = E[Len(E)][m]
  BY <1>2, <1>4, <1>5, InsertOK
<1>9. NoteOK(y)
  BY <1>2, <1>8, NoteFrom
<1>10. y.live /\ y.extra = {} /\ y.path = x.path /\ y.env = F
  <2>. HIDE DEF F
  <2>. QED
    BY DEF Note
<1>11. SpawnOK(Cell3(i, x, y))
  <2>1. Cell3(i, x, y).ins = i /\ Cell3(i, x, y).a = x /\ Cell3(i, x, y).z = y
    BY CellIs
  <2>2. At1(Cell3(i, x, y), x.path[Len(x.path)])
    BY <1>2, <1>6, <1>7, <2>1 DEF At1
  <2>3. y = Note(InsertCurrent(E, n, Fresh("task")), x.path)
    BY DEF v
  <2>. HIDE DEF y
  <2>. QED
    BY <1>2, <1>4, <1>7, <2>1, <2>2, <2>3 DEF SpawnOK
<1>12. i.op \in Straights
  BY <1>7 DEF Straights
<1>. HIDE DEF y
<1>13. CellOK(Cell3(i, x, y))
  BY <1>2, <1>7, <1>9, <1>11, <1>12, StraightCell
<1>. HIDE DEF F
<1>14. \A d \in DOMAIN E : \A m \in DOMAIN E[d] : F[d][m] = E[d][m] /\ m \in DOMAIN F[d]
  BY <1>8
<1>15. Moves(E, F)
  <2>1. \A d \in DOMAIN E : \A m \in DOMAIN E[d] : E[d][m] = [E[d][m] EXCEPT !.moved = E[d][m].moved]
    BY <1>2, SameInfo
  <2>2. \A d \in DOMAIN E : \A m \in DOMAIN F[d] : F[d][m].no_drop => m \in DOMAIN E[d] /\ E[d][m].no_drop
    BY <1>2, <1>5, <1>8
  <2>. QED
    BY <1>2, <1>8, <1>14, <2>1, <2>2 DEF Moves
<1>16. LoopsKeep(open, E, F)
  BY <1>14 DEF LoopsKeep
<1>17. \A d \in DOMAIN F : \A m \in DOMAIN F[d] : F[d][m].ty = "task" =>
           \/ m \in DOMAIN E[d] /\ E[d][m].ty = "task"
           \/ i.op = "spawn" /\ i.n = m /\ d = Len(E)
  BY <1>7, <1>8
<1>18. i.n \in DOMAIN F[Len(E)] /\ i.op # "join"
  BY <1>7, <1>8
<1>19. Trace(Append(code, i), Append(g, y), y, open)
  BY <1>2, <1>10, <1>12, <1>13, <1>15, <1>16, <1>17, <1>18, Stepping
<1>20. Trace(Append(code, i), Append(g, y), Note(F, PathOf(open)), open)
  BY <1>2, <1>19 DEF y
<1>. QED
  BY <1>2, <1>3, <1>20, GoodOne

(* A join of a task that was not spawned in the block being written.        *)
LEMMA JoinElsewhere ==
  ASSUME NEW g, Ready(g), NEW d \in DOMAIN scopes, d # Len(scopes), NEW n \in DOMAIN scopes[d]
  PROVE  Stray(Append(code, [op |-> "join", n |-> n, in |-> Here, branch |-> Branch]))
<1>. DEFINE x == Note(scopes, PathOf(open))
            i == [op |-> "join", n |-> n, in |-> Here, branch |-> Branch]
            C == Cells(code, g)
            cs == Append(code, i)
<1>1. /\ EnvOK(scopes) /\ IsSeq(open) /\ Len(scopes) = Len(open) + 1 /\ IsSeq(code)
      /\ x.live /\ x.extra = {} /\ x.env = scopes /\ x.path = PathOf(open) /\ Stand(x, C)
      /\ NoteOK(x) /\ Len(scopes) \in DOMAIN scopes
  BY ReadyIs
<1>2. PathOf(open)[Len(scopes)] = [block |-> Here, kind |-> Branch]
  <2>1. IsSeq(open) /\ Len(scopes) = Len(open) + 1
    BY <1>1
  <2>2. PathOf(open)[Len(open) + 1] = [block |-> Here, kind |-> Branch]
    BY ONLY <2>1, PlaceIs
  <2>. QED
    BY ONLY <2>1, <2>2
<1>3. DOMAIN x.path = DOMAIN scopes
  BY <1>1, PathIs, ZenonT(60)
<1>4. IsSeq(cs) /\ Len(cs) = Len(code) + 1 /\ DOMAIN cs = 1 .. Len(code) + 1 /\ cs[Len(code) + 1] = i
      /\ \A k \in 1 .. Len(code) : cs[k] = code[k]
  BY <1>1, SeqAppend
<1>5. Len(code) \in Nat /\ DOMAIN code = 1 .. Len(code)
  BY <1>1, SeqIs
<1>6. i.op = "join" /\ i.n = n /\ i.in = Here /\ i.branch = Branch
  OBVIOUS
<1>. HIDE DEF i, cs, x
<1>7. ASSUME NEW k \in DOMAIN cs, k < Len(code) + 1, cs[k].op = "spawn", cs[k].n = n, cs[k].in = Here, cs[k].branch = Branch
      PROVE  FALSE
  <2>1. k \in DOMAIN code /\ cs[k] = code[k]
    <3>1. k \in 1 .. Len(code)
      BY ONLY <1>4, <1>5, <1>7
    <3>. QED
      BY <1>4, <1>5, <3>1
  <2>2. Cell3(code[k], g[k], g[k + 1]) \in C /\ Cell3(code[k], g[k], g[k + 1]).ins = code[k]
    BY <2>1, CellIs DEF Cells
  <2>. DEFINE c == Cell3(code[k], g[k], g[k + 1])
  <2>. HIDE DEF c
  <2>3. c \in C /\ c.ins = code[k]
    BY <2>2 DEF c
  <2>4. At1(c, x.path[Len(scopes)])
    BY <1>1, <1>2, <1>7, <2>1, <2>3 DEF At1
  <2>5. Accounted(x, C, Len(scopes))
    BY <1>1, <1>3 DEF Stand
  <2>6. n \in DOMAIN scopes[Len(scopes)]
    BY <1>1, <1>7, <2>1, <2>3, <2>4, <2>5 DEF Accounted
  <2>. QED
    BY <1>1, <2>6 DEF EnvOK, Distinct
<1>8. Len(code) + 1 \in DOMAIN cs
  BY ONLY <1>4, <1>5
<1>9. Stray(cs)
  BY <1>4, <1>6, <1>7, <1>8 DEF Stray
<1>. QED
  BY <1>9 DEF cs, i

(* Moving one name.                                                         *)
LEMMA MovingOne ==
  ASSUME NEW E, EnvOK(E), NEW d \in DOMAIN E, NEW n \in DOMAIN E[d]
  PROVE  LET v == [E[d][n] EXCEPT !.moved = TRUE] F == SetInfo(E, n, [Lookup(E, n) EXCEPT !.moved = TRUE]) IN
         ~E[d][n].no_drop => F = Moving(E, {<<d, n>>}) /\ F = Moving(E, Named(E, n))
<1>. DEFINE v == [E[d][n] EXCEPT !.moved = TRUE]
            F == SetInfo(E, n, [Lookup(E, n) EXCEPT !.moved = TRUE])
            P == [b \in DOMAIN E |-> [m \in DOMAIN E[b] |-> IF b = d /\ m = n THEN v ELSE E[b][m]]]
<1>. SUFFICES ASSUME ~E[d][n].no_drop PROVE F = Moving(E, {<<d, n>>}) /\ F = Moving(E, Named(E, n))
  OBVIOUS
<1>1. F = [E EXCEPT ![d][n] = v]
  <2>1. Lookup(E, n) = E[d][n] /\ \A info : SetInfo(E, n, info) = [E EXCEPT ![d][n] = info]
    BY HomeIs
  <2>. HIDE DEF v
  <2>2. F = SetInfo(E, n, v)
    BY <2>1 DEF v
  <2>. HIDE DEF F
  <2>. QED
    BY <2>1, <2>2
<1>2. v \in Infos
  BY EnvIs, InfoIs
<1>3. P = [E EXCEPT ![d][n] = v]
  <2>. HIDE DEF v
  <2>1. Put(E, d, n, v) = [E EXCEPT ![d][n] = v]
    BY <1>2, PutOK
  <2>. QED
    BY <2>1 DEF Put
<1>4. Moving(E, {<<d, n>>}) = P
  BY DEF Moving
<1>5. Moving(E, Named(E, n)) = P
  <2>1. \A b \in DOMAIN E : \A m \in DOMAIN E[b] : <<b, m>> \in Named(E, n) <=> b = d /\ m = n
    BY EnvIs DEF Named
  <2>2. \A b \in DOMAIN E : \A m \in DOMAIN E[b] :
          (IF <<b, m>> \in Named(E, n) THEN [E[b][m] EXCEPT !.moved = TRUE] ELSE E[b][m])
            = IF b = d /\ m = n THEN v ELSE E[b][m]
    BY <2>1
  <2>. HIDE DEF v
  <2>3. \A b \in DOMAIN E : [m \in DOMAIN E[b] |-> IF <<b, m>> \in Named(E, n) THEN [E[b][m] EXCEPT !.moved = TRUE] ELSE E[b][m]]
                           = [m \in DOMAIN E[b] |-> IF b = d /\ m = n THEN v ELSE E[b][m]]
    BY <2>2
  <2>. QED
    BY <2>3 DEF Moving
<1>. QED
  BY <1>1, <1>3, <1>4, <1>5

(* A join keeps the pass good, or is one that the affinity check refuses.   *)
LEMMA JoinKeeps ==
  ASSUME menu \in Menus, Good, NEW n \in Names, TaskJoin(n)
  PROVE  Good' \/ Stray(code')
<1>1. PICK g : Ready(g)
  BY GoodReady DEF TaskJoin, Statement
<1>. DEFINE E == scopes
            x == Note(E, PathOf(open))
            d == Len(E)
            S == {<<d, n>>}
            F == Moving(E, S)
            y == Note(F, x.path)
            i == [op |-> "join", n |-> n, in |-> Here, branch |-> Branch]
<1>2. /\ EnvOK(E) /\ IsSeq(open) /\ Len(open) \in Nat /\ Len(E) = Len(open) + 1 /\ IsSeq(code)
      /\ NoteOK(x) /\ x.live /\ x.extra = {} /\ x.env = E /\ x.path = PathOf(open)
      /\ DOMAIN E = 1 .. Len(E) /\ d \in DOMAIN E
      /\ Trace(code, g, x, open)
  BY <1>1, ReadyIs DEF Ready
<1>3. /\ Bound(E, n) /\ Lookup(E, n).ty = "task" /\ ~Lookup(E, n).moved
      /\ Emit(<<i>>) /\ open' = open /\ ~closed'
      /\ scopes' = SetInfo(E, n, [Lookup(E, n) EXCEPT !.moved = TRUE])
  BY DEF TaskJoin, Statement
<1>4. /\ Home(E, n) \in DOMAIN E /\ n \in DOMAIN E[Home(E, n)] /\ Lookup(E, n) = E[Home(E, n)][n]
      /\ Lookup(E, n) \in Infos
  BY <1>2, <1>3, HomeOf
<1>5. code' = Append(code, i)
  <2>1. IsSeq(<< >>)
    BY DEF IsSeq
  <2>. QED
    BY <1>2, <1>3, <2>1, CatIs DEF Emit
<1>6. CASE Home(E, n) # d
  <2>1. Stray(Append(code, i))
    BY <1>1, <1>4, <1>6, JoinElsewhere
  <2>. QED
    BY <1>5, <2>1
<1>7. CASE Home(E, n) = d
  <2>1. /\ n \in DOMAIN E[d] /\ E[d][n].ty = "task" /\ ~E[d][n].moved /\ E[d][n] \in Infos /\ ~E[d][n].no_drop
        /\ n \in Names
    <3>1. n \in DOMAIN E[d] /\ E[d][n].ty = "task" /\ ~E[d][n].moved /\ E[d][n] \in Infos
      BY <1>3, <1>4, <1>7
    <3>2. ~E[d][n].no_drop
      BY <3>1 DEF Infos, InfoOK
    <3>. QED
      BY <3>1, <3>2
  <2>2. scopes' = F
    BY <1>2, <1>3, <2>1, MovingOne
  <2>3. PathOf(open)[Len(open) + 1] = [block |-> Here, kind |-> Branch] /\ Len(x.path) = Len(open) + 1
    BY <1>2, PlaceIs
  <2>4. i.op = "join" /\ i.n = n /\ i.in = Here /\ i.branch = Branch
    OBVIOUS
  <2>5. Len(open) + 1 = d
    BY <1>2
  <2>. HIDE DEF i, E, x
  <2>6. /\ EnvOK(F) /\ Len(F) = d /\ DOMAIN F = DOMAIN E
        /\ \A b \in DOMAIN E : DOMAIN F[b] = DOMAIN E[b]
        /\ \A b \in DOMAIN E : \A m \in DOMAIN E[b] :
              F[b][m] = IF <<b, m>> \in S THEN [E[b][m] EXCEPT !.moved = TRUE] ELSE E[b][m]
    <3>1. \A b \in DOMAIN E : \A m \in DOMAIN E[b] : <<b, m>> \in S => ~E[b][m].no_drop
      BY <2>1
    <3>. HIDE DEF S
    <3>. QED
      BY <1>2, <3>1, MovingOK
  <2>7. /\ F[d][n] = [E[d][n] EXCEPT !.moved = TRUE]
        /\ \A b \in DOMAIN E : \A m \in DOMAIN E[b] : ~(b = d /\ m = n) => F[b][m] = E[b][m]
    <3>1. \A b, m : <<b, m>> \in S <=> b = d /\ m = n
      OBVIOUS
    <3>. HIDE DEF S, d, F
    <3>. QED
      BY <1>2, <2>1, <2>6, <3>1, ZenonT(60)
  <2>8. F[d][n].moved = TRUE /\ F[d][n].ty = "task" /\ ~F[d][n].no_drop
    BY <2>1, <2>7, MovedInfo, ZenonT(60)
  <2>9. NoteOK(y)
    BY <1>2, <2>6, NoteFrom
  <2>10. y.live /\ y.extra = {} /\ y.path = x.path /\ y.env = F
    <3>. HIDE DEF F
    <3>. QED
      BY DEF Note
  <2>. HIDE DEF y
  <2>11. JoinOK(Cell3(i, x, y))
    <3>1. Cell3(i, x, y).ins = i /\ Cell3(i, x, y).a = x /\ Cell3(i, x, y).z = y
      BY CellIs
    <3>2. At1(Cell3(i, x, y), x.path[Len(x.path)])
      BY <1>2, <2>3, <2>4, <3>1 DEF At1
    <3>3. y = Note(Moving(E, {<<Len(E), n>>}), x.path)
      BY DEF y
    <3>. QED
      BY <1>2, <2>1, <2>4, <3>1, <3>2, <3>3 DEF JoinOK
  <2>12. i.op \in Straights
    BY <2>4 DEF Straights
  <2>13. CellOK(Cell3(i, x, y))
    BY <1>2, <2>4, <2>9, <2>11, <2>12, StraightCell
  <2>. HIDE DEF F
  <2>14. Moves(E, F)
    <3>1. \A b \in DOMAIN E : \A m \in DOMAIN E[b] : E[b][m] = [E[b][m] EXCEPT !.moved = E[b][m].moved]
      BY <1>2, SameInfo
    <3>2. \A b \in DOMAIN E : \A m \in DOMAIN E[b] : b # d => F[b][m] = E[b][m]
      BY <2>7
    <3>3. \A m \in DOMAIN E[d] : E[d][m].ty = "task" => F[d][m].ty = "task" /\ (E[d][m].moved => F[d][m].moved)
      <4>. HIDE DEF d
      <4>. QED
        BY <1>2, <2>7, <2>8, ZenonT(60)
    <3>4. \A b \in DOMAIN E : \A m \in DOMAIN F[b] : F[b][m].no_drop => m \in DOMAIN E[b] /\ E[b][m].no_drop
      BY <2>6, <2>7, <2>8, ZenonT(60)
    <3>5. \A m \in DOMAIN E[d] : m \in DOMAIN F[d]
      BY <1>2, <2>6
    <3>6. \A b \in DOMAIN E : b # d =>
            /\ DOMAIN F[b] = DOMAIN E[b]
            /\ \A m \in DOMAIN E[b] : /\ F[b][m] = [E[b][m] EXCEPT !.moved = F[b][m].moved]
                                      /\ E[b][m].ty = "task" \/ E[b][m].moved_field => F[b][m] = E[b][m]
      BY <2>6, <3>1, <3>2
    <3>. HIDE DEF d
    <3>7. d = Len(E)
      BY DEF d
    <3>. QED
      BY <2>6, <3>3, <3>4, <3>5, <3>6, <3>7 DEF Moves
  <2>15. LoopsKeep(open, E, F)
    <3>. SUFFICES ASSUME NEW m \in DOMAIN open, open[m].kind \in {"for ref", "for own"}, NEW b \in DOMAIN E,
                         b <= m, open[m].coll \in DOMAIN E[b]
                  PROVE  F[b][open[m].coll].moved = E[b][open[m].coll].moved
      BY DEF LoopsKeep
    <3>1. DOMAIN open = 1 .. Len(open)
      BY <1>2, SeqIs
    <3>2. b # d
      BY ONLY <1>2, <2>5, <3>1, m \in DOMAIN open, b \in DOMAIN E, b <= m
    <3>. QED
      BY <2>7, <3>2
  <2>16. \A b \in DOMAIN F : \A m \in DOMAIN F[b] : F[b][m].ty = "task" =>
           \/ m \in DOMAIN E[b] /\ E[b][m].ty = "task"
           \/ i.op = "spawn" /\ i.n = m /\ b = Len(E)
    BY <2>1, <2>6, <2>7
  <2>17. i.n \in DOMAIN F[Len(E)] /\ F[Len(E)][i.n].ty = "task" /\ F[Len(E)][i.n].moved
    BY <1>2, <2>1, <2>4, <2>6, <2>8
  <2>18. Trace(Append(code, i), Append(g, y), y, open)
    <3>. HIDE DEF d
    <3>. QED
      BY <1>2, <2>10, <2>12, <2>13, <2>14, <2>15, <2>16, <2>17, Stepping
  <2>19. Trace(Append(code, i), Append(g, y), Note(F, PathOf(open)), open)
    BY <1>2, <2>18 DEF y
  <2>. QED
    BY <1>2, <1>3, <2>2, <2>19, GoodOne
<1>. QED
  BY <1>6, <1>7

-----------------------------------------------------------------------------
(* Drops                                                                    *)

(* The bindings B of E can be dropped; what the pass writes to drop them.   *)
Droppable(E, B) ==
  \A b \in B : /\ b = <<b[1], b[2]>> /\ b[1] \in DOMAIN E /\ b[2] \in DOMAIN E[b[1]]
               /\ ~Gone(E[b[1]][b[2]]) /\ E[b[1]][b[2]].ty # "task"

Records(E, B) == {[n |-> b[2], depth |-> b[1], skip |-> E[b[1]][b[2]].moved_field] : b \in B}

(* The bindings of the records of a drop.                                   *)
LEMMA RecordsAre ==
  ASSUME NEW E, NEW B, Droppable(E, B)
  PROVE  DropSet(Records(E, B)) = B /\ (Records(E, B) = {} <=> B = {})
<1>. DEFINE R(b) == [n |-> b[2], depth |-> b[1], skip |-> E[b[1]][b[2]].moved_field]
<1>1. \A b \in B : R(b) \in Records(E, B) /\ R(b).depth = b[1] /\ R(b).n = b[2] /\ b = <<b[1], b[2]>>
  BY DEF Records, Droppable
<1>2. \A r \in Records(E, B) : \E b \in B : r = R(b)
  BY DEF Records
<1>. HIDE DEF R
<1>3. \A r \in Records(E, B) : <<r.depth, r.n>> \in B
  BY <1>1, <1>2
<1>4. \A b \in B : \E r \in Records(E, B) : b = <<r.depth, r.n>>
  BY <1>1
<1>5. DropSet(Records(E, B)) = B
  BY <1>3, <1>4 DEF DropSet
<1>. QED
  BY <1>1, <1>2, <1>5

(* The cell of a drop.                                                      *)
LEMMA DropCell ==
  ASSUME NEW x, NoteOK(x), x.live, x.extra \in {{}, {"ret"}}, NEW B, Droppable(x.env, B),
         NEW i, i.op = "drop", i.of = Records(x.env, B),
         NEW y, y = WithExtra(Moving(x.env, B), x.path, x.extra)
  PROVE  CellOK(Cell3(i, x, y)) /\ NoteOK(y)
<1>. DEFINE E == x.env F == Moving(E, B)
<1>1. EnvOK(E) /\ x.extra \subseteq Names \cup {"ret"}
  BY PathIs DEF NoteOK
<1>2. EnvOK(F) /\ Len(F) = Len(E)
  <2>1. \A d \in DOMAIN E : \A n \in DOMAIN E[d] : <<d, n>> \in B => ~E[d][n].no_drop
    BY DEF Droppable, Gone
  <2>. HIDE DEF E
  <2>. QED
    BY <1>1, <2>1, MovingOK
<1>3. NoteOK(y)
  BY <1>1, <1>2, NoteFrom
<1>4. DropOK(Cell3(i, x, y))
  <2>1. Cell3(i, x, y).ins = i /\ Cell3(i, x, y).a = x /\ Cell3(i, x, y).z = y
    BY CellIs
  <2>2. DropSet(i.of) = B
    BY RecordsAre
  <2>3. \A r \in i.of : /\ r.depth \in DOMAIN E /\ r.n \in DOMAIN E[r.depth]
                         /\ ~Gone(E[r.depth][r.n]) /\ E[r.depth][r.n].ty # "task"
                         /\ r.skip = E[r.depth][r.n].moved_field
                         /\ r = [n |-> r.n, depth |-> r.depth, skip |-> r.skip]
    BY DEF Records, Droppable
  <2>. HIDE DEF E
  <2>4. x.env = E
    BY DEF E
  <2>. QED
    BY <2>1, <2>2, <2>3, <2>4 DEF DropOK
<1>5. i.op \in Straights
  BY DEF Straights
<1>. QED
  BY <1>3, <1>4, <1>5, StraightCell

(* Moving nothing changes nothing.                                          *)
LEMMA MovingNone ==
  ASSUME NEW E, EnvOK(E)
  PROVE  Moving(E, {}) = E
BY EnvIs DEF Moving

(* An optional drop of some bindings written.                               *)
LEMMA DropsWritten ==
  ASSUME NEW cs, NEW g, NEW x, NEW o, Trace(cs, g, x, o), x.live, x.extra = {}, NoteOK(x),
         NEW B, Droppable(x.env, B), Kept(o, x.env, Moving(x.env, B))
  PROVE  \E h : Trace(cs \o Drops(Records(x.env, B)), h, Note(Moving(x.env, B), x.path), o)
<1>. DEFINE R == Records(x.env, B)
            F == Moving(x.env, B)
            y == Note(F, x.path)
            i == [op |-> "drop", of |-> R]
<1>1. IsSeq(cs) /\ IsSeq(<< >>)
  BY DEF Trace, IsSeq
<1>2. R = {} <=> B = {}
  BY RecordsAre
<1>3. CASE B = {}
  <2>1. Drops(R) = << >>
    BY <1>2, <1>3 DEF Drops
  <2>2. cs \o Drops(R) = cs
    BY <1>1, <2>1, CatIs
  <2>3. EnvOK(x.env) /\ x = WithExtra(x.env, x.path, x.extra)
    BY DEF NoteOK
  <2>4. F = x.env
    BY <1>3, <2>3, MovingNone
  <2>5. y = x
    <3>1. x = WithExtra(x.env, x.path, {})
      BY <2>3
    <3>2. y = Note(x.env, x.path)
      BY <2>4
    <3>. HIDE DEF y
    <3>. QED
      BY ONLY <3>1, <3>2 DEF Note, WithExtra
  <2>. QED
    BY <2>2, <2>5
<1>4. CASE B # {}
  <2>1. Drops(R) = <<i>>
    BY <1>2, <1>4 DEF Drops
  <2>2. cs \o Drops(R) = Append(cs, i)
    BY <1>1, <2>1, CatIs
  <2>3. y = WithExtra(Moving(x.env, B), x.path, x.extra)
    BY DEF Note, WithExtra
  <2>4. i.op = "drop" /\ i.of = R
    OBVIOUS
  <2>. HIDE DEF i, y
  <2>5. CellOK(Cell3(i, x, y)) /\ NoteOK(y)
    BY <2>3, <2>4, DropCell
  <2>6. i.op \in Straights /\ i.op \notin {"spawn", "join"}
    BY <2>4 DEF Straights
  <2>7. y = Note(F, x.path)
    BY DEF y
  <2>. HIDE DEF F
  <2>8. Kept(o, x.env, F)
    BY DEF F
  <2>9. Trace(Append(cs, i), Append(g, y), y, o)
    BY <2>5, <2>6, <2>7, <2>8, WriteNote
  <2>. QED
    BY <2>2, <2>9 DEF y, F
<1>. QED
  BY <1>3, <1>4

(* The bindings after a drop.                                               *)
LEMMA MovedInfos ==
  ASSUME NEW E, EnvOK(E), NEW B, Droppable(E, B)
  PROVE  LET F == Moving(E, B) IN
         /\ EnvOK(F) /\ Len(F) = Len(E) /\ DOMAIN F = DOMAIN E
         /\ \A d \in DOMAIN E : DOMAIN F[d] = DOMAIN E[d]
         /\ \A d \in DOMAIN E : \A n \in DOMAIN E[d] :
              /\ F[d][n].ty = E[d][n].ty /\ F[d][n].no_drop = E[d][n].no_drop
              /\ F[d][n].moved_field = E[d][n].moved_field
              /\ <<d, n>> \in B => F[d][n].moved
              /\ <<d, n>> \notin B => F[d][n] = E[d][n]
<1>. DEFINE F == Moving(E, B)
<1>1. /\ EnvOK(F) /\ Len(F) = Len(E) /\ DOMAIN F = DOMAIN E
      /\ \A d \in DOMAIN E : DOMAIN F[d] = DOMAIN E[d]
      /\ \A d \in DOMAIN E : \A n \in DOMAIN E[d] :
              F[d][n] = IF <<d, n>> \in B THEN [E[d][n] EXCEPT !.moved = TRUE] ELSE E[d][n]
  <2>1. \A d \in DOMAIN E : \A n \in DOMAIN E[d] : <<d, n>> \in B => ~E[d][n].no_drop
    BY DEF Droppable, Gone
  <2>. QED
    BY <2>1, MovingOK
<1>2. \A d \in DOMAIN E : \A n \in DOMAIN E[d] : E[d][n] \in Infos
  BY EnvIs
<1>. HIDE DEF F
<1>3. ASSUME NEW d \in DOMAIN E, NEW n \in DOMAIN E[d], <<d, n>> \in B
      PROVE  /\ F[d][n].ty = E[d][n].ty /\ F[d][n].no_drop = E[d][n].no_drop
             /\ F[d][n].moved_field = E[d][n].moved_field /\ F[d][n].moved
  <2>1. F[d][n] = [E[d][n] EXCEPT !.moved = TRUE]
    BY <1>1, <1>3
  <2>. QED
    BY <1>2, <2>1, MovedInfo
<1>4. ASSUME NEW d \in DOMAIN E, NEW n \in DOMAIN E[d], <<d, n>> \notin B
      PROVE  F[d][n] = E[d][n]
  BY <1>1, <1>4
<1>. QED
  BY <1>1, <1>3, <1>4 DEF F

(* An optional drop written while a returned value waits.                   *)
LEMMA DropsWrittenRet ==
  ASSUME NEW cs, NEW g, NEW x, NEW o, Trace(cs, g, x, o), x.live, x.extra = {"ret"}, NoteOK(x),
         NEW B, Droppable(x.env, B)
  PROVE  \E h : Trace(cs \o Drops(Records(x.env, B)), h, WithExtra(Moving(x.env, B), x.path, {"ret"}), o)
<1>. DEFINE R == Records(x.env, B)
            F == Moving(x.env, B)
            y == WithExtra(F, x.path, {"ret"})
            i == [op |-> "drop", of |-> R]
<1>1. IsSeq(cs) /\ IsSeq(<< >>)
  BY DEF Trace, IsSeq
<1>2. R = {} <=> B = {}
  BY RecordsAre
<1>3. EnvOK(x.env) /\ x = WithExtra(x.env, x.path, x.extra) /\ Len(x.env) \in Nat \ {0} /\ DOMAIN x.env = 1 .. Len(x.env)
  BY PathIs DEF NoteOK
<1>4. CASE B = {}
  <2>1. Drops(R) = << >>
    BY <1>2, <1>4 DEF Drops
  <2>2. cs \o Drops(R) = cs
    BY <1>1, <2>1, CatIs
  <2>3. F = x.env
    BY <1>3, <1>4, MovingNone
  <2>4. y = x
    BY <1>3, <2>3
  <2>. QED
    BY <2>2, <2>4
<1>5. CASE B # {}
  <2>1. Drops(R) = <<i>>
    BY <1>2, <1>5 DEF Drops
  <2>2. cs \o Drops(R) = Append(cs, i)
    BY <1>1, <2>1, CatIs
  <2>3. y = WithExtra(Moving(x.env, B), x.path, x.extra)
    OBVIOUS
  <2>4. i.op = "drop" /\ i.of = R
    OBVIOUS
  <2>. HIDE DEF i
  <2>5. /\ DOMAIN F = DOMAIN x.env
        /\ \A d \in DOMAIN x.env : DOMAIN F[d] = DOMAIN x.env[d]
        /\ \A d \in DOMAIN x.env : \A n \in DOMAIN x.env[d] :
             F[d][n].ty = x.env[d][n].ty /\ F[d][n].no_drop = x.env[d][n].no_drop
    <3>. DEFINE E == x.env
    <3>. HIDE DEF E
    <3>1. EnvOK(E) /\ Droppable(E, B)
      BY <1>3 DEF E
    <3>2. /\ DOMAIN Moving(E, B) = DOMAIN E
          /\ \A d \in DOMAIN E : DOMAIN Moving(E, B)[d] = DOMAIN E[d]
          /\ \A d \in DOMAIN E : \A n \in DOMAIN E[d] :
               Moving(E, B)[d][n].ty = E[d][n].ty /\ Moving(E, B)[d][n].no_drop = E[d][n].no_drop
      <4>. DEFINE G == Moving(E, B)
      <4>1. /\ DOMAIN G = DOMAIN E
            /\ \A d \in DOMAIN E : DOMAIN G[d] = DOMAIN E[d]
            /\ \A d \in DOMAIN E : \A n \in DOMAIN E[d] :
                 /\ G[d][n].ty = E[d][n].ty /\ G[d][n].no_drop = E[d][n].no_drop
                 /\ G[d][n].moved_field = E[d][n].moved_field
                 /\ <<d, n>> \in B => G[d][n].moved
                 /\ <<d, n>> \notin B => G[d][n] = E[d][n]
        BY <3>1, MovedInfos
      <4>. HIDE DEF G
      <4>2. /\ DOMAIN G = DOMAIN E
            /\ \A d \in DOMAIN E : DOMAIN G[d] = DOMAIN E[d]
            /\ \A d \in DOMAIN E : \A n \in DOMAIN E[d] : G[d][n].ty = E[d][n].ty /\ G[d][n].no_drop = E[d][n].no_drop
        BY <4>1
      <4>. QED
        BY <4>2 DEF G
    <3>. QED
      BY <3>2 DEF E
  <2>6. 1 \in DOMAIN x.env
    BY ONLY <1>3
  <2>. HIDE DEF F
  <2>7. y.live /\ y.extra # {} /\ y.path = x.path /\ y.env = F
    BY DEF WithExtra
  <2>8. y = WithExtra(F, x.path, {"ret"})
    OBVIOUS
  <2>. HIDE DEF y
  <2>9. CellOK(Cell3(i, x, y)) /\ NoteOK(y)
    BY <2>3, <2>4, DropCell
  <2>10. i.op \in Straights /\ i.op # "spawn"
    BY <2>4 DEF Straights
  <2>11. \A n \in DOMAIN y.env[1] : y.env[1][n].no_drop => n \in DOMAIN x.env[1] /\ x.env[1][n].no_drop
    BY <2>5, <2>6, <2>7
  <2>12. \A d \in DOMAIN y.env : \A n \in DOMAIN y.env[d] : y.env[d][n].ty = "task" =>
            d \in DOMAIN x.env /\ n \in DOMAIN x.env[d] /\ x.env[d][n].ty = "task"
    BY <2>5, <2>7
  <2>13. Trace(Append(cs, i), Append(g, y), y, o)
    BY <2>7, <2>9, <2>10, <2>11, <2>12, SteppingExtra
  <2>. QED
    BY <2>2, <2>8, <2>13 DEF F
<1>. QED
  BY <1>4, <1>5

(* The sequences of instructions that a statement writes.                   *)
LEMMA IsSeqs ==
  /\ IsSeq(<< >>)
  /\ \A i : IsSeq(<<i>>)
  /\ \A R : IsSeq(Drops(R))
<1>1. IsSeq(<< >>)
  BY DEF IsSeq
<1>2. \A i : IsSeq(<<i>>)
  BY DEF IsSeq
<1>. QED
  BY <1>1, <1>2 DEF Drops

(* A sequence between two instructions.                                     *)
LEMMA CatThree ==
  ASSUME NEW s, IsSeq(s), NEW t, IsSeq(t), NEW i, NEW j
  PROVE  s \o (<<i>> \o t \o <<j>>) = Append(Append(s, i) \o t, j)
<1>. DEFINE u == <<i>> \o t v == <<j>>
<1>1. IsSeq(<<i>>) /\ IsSeq(v)
  BY IsSeqs
<1>2. IsSeq(u)
  BY <1>1, CatIs
<1>3. s \o u = Append(s, i) \o t
  BY CatPush
<1>4. IsSeq(Append(s, i) \o t)
  BY SeqAppend, CatIs
<1>5. (Append(s, i) \o t) \o v = Append(Append(s, i) \o t, j)
  BY <1>4, CatIs
<1>. HIDE DEF u, v
<1>6. s \o (u \o v) = (s \o u) \o v
  BY <1>1, <1>2, CatAssoc
<1>7. s \o (u \o v) = Append(Append(s, i) \o t, j)
  BY ONLY <1>3, <1>5, <1>6
<1>. QED
  BY <1>7 DEF u, v

(* The places on the path.                                                  *)
LEMMA PathKinds ==
  ASSUME NEW o, IsSeq(o), NEW d \in DOMAIN PathOf(o)
  PROVE  \/ d = 1 /\ PathOf(o)[d] = Body
         \/ \E m \in DOMAIN o : d = m + 1 /\ PathOf(o)[d].kind = o[m].kind /\ PathOf(o)[d].block = o[m].block
<1>1. /\ Len(o) \in Nat /\ DOMAIN o = 1 .. Len(o)
      /\ DOMAIN PathOf(o) = 1 .. Len(o) + 1
      /\ PathOf(o)[1] = Body
      /\ \A m \in 1 .. Len(o) : PathOf(o)[m + 1] = [block |-> o[m].block, kind |-> o[m].kind]
  BY PathOfIs
<1>2. CASE d = 1
  BY <1>1, <1>2
<1>3. CASE d # 1
  <2>1. d - 1 \in 1 .. Len(o) /\ d = (d - 1) + 1
    BY ONLY <1>1, <1>3, d \in DOMAIN PathOf(o)
  <2>2. PICK m \in 1 .. Len(o) : d = m + 1
    BY <2>1
  <2>3. PathOf(o)[d] = [block |-> o[m].block, kind |-> o[m].kind]
    BY <1>1, <2>2
  <2>. QED
    BY <1>1, <2>2, <2>3
<1>. QED
  BY <1>2, <1>3

(* A binding of a scope, looked up in that scope alone.                     *)
LEMMA InnerIs ==
  ASSUME EnvOK(scopes), NEW d \in DOMAIN scopes, NEW n \in DOMAIN scopes[d]
  PROVE  /\ Lookup(<<scopes[d]>>, n) = scopes[d][n]
         /\ <<d, n>> \in Bindings(scopes)
<1>1. /\ DOMAIN scopes[d] \subseteq Names
  BY EnvIs
<1>2. <<d, n>> \in Bindings(scopes)
  BY <1>1 DEF Bindings
<1>. DEFINE e == <<scopes[d]>>
<1>3. DOMAIN e = {1} /\ Len(e) = 1 /\ e[1] = scopes[d]
  OBVIOUS
<1>. HIDE DEF e
<1>4. Home(e, n) = 1
  <2>1. /\ 1 \in DOMAIN e /\ n \in DOMAIN e[1]
        /\ \A k \in (1 + 1) .. Len(e) : n \notin DOMAIN e[k]
    BY <1>3
  <2>. QED
    BY <1>3, <2>1 DEF Home
<1>5. Lookup(e, n) = scopes[d][n]
  BY <1>3, <1>4 DEF Lookup
<1>. QED
  BY <1>2, <1>5 DEF e

(* What the hazard-free programs leave behind on a jump.                    *)
LEMMA LeaveIs ==
  ASSUME Tame, menu \in Menus, EnvOK(scopes), NEW depth, NEW how, MayLeave(depth, how)
  PROVE  /\ \A d \in DOMAIN scopes : \A n \in DOMAIN scopes[d] : d >= depth =>
              /\ how # "return" => ~scopes[d][n].moved_field /\ ~scopes[d][n].no_drop
              /\ scopes[d][n].ty = "task" => scopes[d][n].moved
         /\ how # "continue" => \A i \in DOMAIN open : open[i].kind = "for own" => ~(open[i].depth >= depth)
<1>. DEFINE inner == {Lookup(<<scopes[b[1]]>>, b[2]) : b \in {c \in Bindings(scopes) : c[1] >= depth}}
            own == \E i \in DOMAIN open : open[i].kind = "for own" /\ open[i].depth >= depth
<1>1. /\ ~Allows("exit past field") /\ ~Allows("exit past view") /\ ~Allows("exit past task") /\ ~Allows("exit own loop")
  BY NoHazard DEF Hazards
<1>2. /\ how # "return" => /\ ~(\E v \in inner : v.moved_field)
                           /\ ~(\E v \in inner : v.no_drop /\ ~v.moved)
      /\ ~(\E v \in inner : v.ty = "task" /\ ~v.moved)
      /\ ~(own /\ how # "continue")
  <2>1. /\ how # "return" => /\ (\E v \in inner : v.moved_field) => Allows("exit past field")
                             /\ (\E v \in inner : v.no_drop /\ ~v.moved) => Allows("exit past view")
        /\ (\E v \in inner : v.ty = "task" /\ ~v.moved) => Allows("exit past task")
        /\ (own /\ how # "continue") => Allows("exit own loop")
    BY DEF MayLeave
  <2>. HIDE DEF inner, own
  <2>. QED
    BY <1>1, <2>1
<1>3. ASSUME NEW d \in DOMAIN scopes, NEW n \in DOMAIN scopes[d], d >= depth
      PROVE  scopes[d][n] \in inner /\ scopes[d][n] \in Infos
  <2>1. Lookup(<<scopes[d]>>, n) = scopes[d][n] /\ <<d, n>> \in Bindings(scopes)
    BY InnerIs
  <2>2. <<d, n>> \in {c \in Bindings(scopes) : c[1] >= depth}
    BY <1>3, <2>1
  <2>3. Lookup(<<scopes[d]>>, n) \in inner
    BY <2>2
  <2>4. scopes[d][n] \in Infos
    BY EnvIs
  <2>. QED
    BY <2>1, <2>3, <2>4
<1>4. \A v \in Infos : v.no_drop => ~v.moved
  BY DEF Infos, InfoOK
<1>. HIDE DEF inner
<1>. QED
  BY <1>2, <1>3, <1>4

(* A return keeps the pass good.                                            *)
LEMMA ReturnKeeps ==
  ASSUME Tame, menu \in Menus, Good, NEW e \in Exprs \cup {[k |-> "int"]}, Return(e)
  PROVE  Good'
<1>1. PICK g : Ready(g)
  BY GoodReady DEF Return, Statement
<1>. DEFINE E == scopes
            p == PathOf(open)
            x == Note(E, p)
            T == Taken(E, e)
            y == WithExtra(T, p, {"ret"})
            i == [op |-> "let", n |-> "ret", e |-> e]
            j == [op |-> "return"]
            B == {c \in Bindings(T) : ~T[c[1]][c[2]].moved /\ ~T[c[1]][c[2]].no_drop}
            F == Moving(T, B)
            z == WithExtra(F, p, {"ret"})
<1>2. /\ EnvOK(E) /\ IsSeq(open) /\ Len(E) = Len(open) + 1 /\ IsSeq(code)
      /\ NoteOK(x) /\ x.live /\ x.extra = {} /\ x.env = E /\ x.path = p
      /\ DOMAIN E = 1 .. Len(E) /\ Len(E) \in DOMAIN E /\ Len(open) \in Nat
      /\ Trace(code, g, x, open) /\ State(Cells(code, g), x, open)
  BY <1>1, ReadyIs DEF Ready
<1>3. /\ e \in Expr /\ CanTake(E, e) /\ Consume(E, e) = T
  BY <1>2, OperandsOK DEF Return
<1>4. e.k # "int" => TypeOf(E, e) = "vec"
  <2>. SUFFICES ASSUME e.k # "int" PROVE TypeOf(E, e) = "vec"
    OBVIOUS
  <2>1. TypeOf(E, e) \in {"vec", "pair", "nest", "task", "guard"}
    BY <1>2, <1>3, TypeIs
  <2>2. TypeOf(E, e) \in {"vec", "int"}
    BY DEF Return
  <2>. QED
    BY <2>1, <2>2
<1>5. /\ EnvOK(T) /\ Len(T) = Len(E) /\ DOMAIN T = DOMAIN E
      /\ \A d \in DOMAIN E : DOMAIN T[d] = DOMAIN E[d]
      /\ \A d \in DOMAIN E : \A n \in DOMAIN E[d] :
              T[d][n] = IF n \in Operands(e)
                          THEN IF e.k = "field" THEN [E[d][n] EXCEPT !.moved_field = TRUE]
                                                ELSE [E[d][n] EXCEPT !.moved = TRUE]
                          ELSE E[d][n]
      /\ \A d \in DOMAIN E : \A n \in DOMAIN E[d] : n \in Operands(e) => Whole(E[d][n]) /\ E[d][n].ty # "task"
  BY <1>2, <1>3, TakenOK
<1>6. \A d \in DOMAIN E : \A n \in DOMAIN E[d] : T[d][n].ty = E[d][n].ty /\ T[d][n].no_drop = E[d][n].no_drop
  <2>. SUFFICES ASSUME NEW d \in DOMAIN E, NEW n \in DOMAIN E[d]
                PROVE  T[d][n].ty = E[d][n].ty /\ T[d][n].no_drop = E[d][n].no_drop
    OBVIOUS
  <2>. DEFINE u == E[d][n] w == T[d][n]
  <2>1. u = [ty |-> u.ty, moved |-> u.moved, moved_field |-> u.moved_field,
             no_drop |-> u.no_drop, guarded_mutex |-> u.guarded_mutex]
    BY <1>2, EnvIs, InfoIs
  <2>2. w \in {[u EXCEPT !.moved_field = TRUE], [u EXCEPT !.moved = TRUE], u}
    BY <1>5
  <2>. HIDE DEF u, w
  <2>3. w.ty = u.ty /\ w.no_drop = u.no_drop
    BY ONLY <2>1, <2>2
  <2>. QED
    BY <2>3 DEF u, w
<1>7. /\ code' = code \o (<<i>> \o ReturnDrops(T) \o <<j>>) /\ open' = open /\ closed' = TRUE
      /\ MayLeave(1, "return")
  BY <1>3 DEF Return, Emit
<1>8. ReturnDrops(T) = Drops(Records(T, B))
  <2>1. Records(T, B) = {DropOf(T, b[1], b[2]) : b \in {c \in Bindings(T) : ~T[c[1]][c[2]].moved /\ ~T[c[1]][c[2]].no_drop}}
    BY DEF Records, DropOf
  <2>. HIDE DEF T
  <2>. QED
    BY <2>1 DEF ReturnDrops
<1>. DEFINE D == Drops(Records(T, B))
<1>9. code' = Append(Append(code, i) \o D, j)
  <2>1. IsSeq(D)
    BY IsSeqs
  <2>2. code' = code \o (<<i>> \o D \o <<j>>)
    BY <1>7, <1>8
  <2>. HIDE DEF i, j, D
  <2>. QED
    BY <1>2, <2>1, <2>2, CatThree
<1>10. i.op = "let" /\ i.n = "ret" /\ i.e = e
  OBVIOUS
<1>11. y.live /\ y.extra = {"ret"} /\ y.path = p /\ y.env = T
  <2>. HIDE DEF T, p
  <2>. QED
    BY DEF WithExtra
<1>12. NoteOK(y)
  BY <1>2, <1>5, NoteFrom
<1>13. \A d \in DOMAIN E : \A n \in DOMAIN E[d] : E[d][n].ty = "task" => E[d][n].moved /\ T[d][n] = E[d][n]
  <2>1. \A d \in DOMAIN E : d >= 1
    BY <1>2
  <2>2. \A d \in DOMAIN E : \A n \in DOMAIN E[d] : E[d][n].ty = "task" => E[d][n].moved
    BY <1>2, <1>7, <2>1, LeaveIs
  <2>. QED
    BY <1>5, <2>2
<1>. HIDE DEF E, T, i, j, p, x
<1>14. Droppable(T, B)
  <2>. SUFFICES ASSUME NEW b \in B
                PROVE  /\ b = <<b[1], b[2]>> /\ b[1] \in DOMAIN T /\ b[2] \in DOMAIN T[b[1]]
                       /\ ~Gone(T[b[1]][b[2]]) /\ T[b[1]][b[2]].ty # "task"
    BY DEF Droppable
  <2>1. b \in (DOMAIN T) \X Names /\ b[2] \in DOMAIN T[b[1]] /\ ~T[b[1]][b[2]].moved /\ ~T[b[1]][b[2]].no_drop
    BY DEF Bindings
  <2>2. b = <<b[1], b[2]>> /\ b[1] \in DOMAIN T
    BY <2>1
  <2>3. b[1] \in DOMAIN E /\ b[2] \in DOMAIN E[b[1]]
    BY <1>5, <2>1, <2>2
  <2>4. T[b[1]][b[2]].ty # "task"
    BY <1>6, <1>13, <2>1, <2>3
  <2>. QED
    BY <2>1, <2>2, <2>4 DEF Gone
<1>15. i.op \in Straights /\ i.op # "spawn"
  BY <1>10 DEF Straights
<1>16. LetOK(Cell3(i, x, y))
  <2>1. Cell3(i, x, y).ins = i /\ Cell3(i, x, y).a = x /\ Cell3(i, x, y).z = y
    BY CellIs
  <2>2. y = WithExtra(Taken(E, e), x.path, {"ret"})
    BY <1>2 DEF T
  <2>. HIDE DEF y
  <2>. QED
    BY <1>2, <1>3, <1>4, <1>10, <2>1, <2>2 DEF LetOK
<1>. HIDE DEF y, B
<1>17. CellOK(Cell3(i, x, y))
  BY <1>2, <1>10, <1>12, <1>15, <1>16, StraightCell
<1>18. Trace(Append(code, i), Append(g, y), y, open)
  <2>1. \A n \in DOMAIN y.env[1] : y.env[1][n].no_drop => n \in DOMAIN x.env[1] /\ x.env[1][n].no_drop
    <3>1. 1 \in DOMAIN E
      BY ONLY <1>2
    <3>. QED
      BY <1>2, <1>5, <1>6, <1>11, <3>1
  <2>2. \A d \in DOMAIN y.env : \A n \in DOMAIN y.env[d] : y.env[d][n].ty = "task" =>
            d \in DOMAIN x.env /\ n \in DOMAIN x.env[d] /\ x.env[d][n].ty = "task"
    BY <1>2, <1>5, <1>6, <1>11
  <2>3. y.extra # {}
    BY <1>11
  <2>. QED
    BY <1>2, <1>11, <1>15, <1>17, <2>1, <2>2, <2>3, SteppingExtra
<1>19. PICK h : Trace(Append(code, i) \o D, h, z, open)
  <2>1. Droppable(y.env, B)
    BY <1>11, <1>14
  <2>2. \E h : Trace(Append(code, i) \o Drops(Records(y.env, B)), h, WithExtra(Moving(y.env, B), y.path, {"ret"}), open)
    BY <1>11, <1>12, <1>18, <2>1, DropsWrittenRet
  <2>. QED
    BY <1>11, <2>2
<1>20. /\ EnvOK(F) /\ Len(F) = Len(T) /\ DOMAIN F = DOMAIN T
       /\ \A d \in DOMAIN T : DOMAIN F[d] = DOMAIN T[d]
       /\ \A d \in DOMAIN T : \A n \in DOMAIN T[d] : Gone(F[d][n])
  <2>1. /\ EnvOK(F) /\ Len(F) = Len(T) /\ DOMAIN F = DOMAIN T
        /\ \A d \in DOMAIN T : DOMAIN F[d] = DOMAIN T[d]
        /\ \A d \in DOMAIN T : \A n \in DOMAIN T[d] :
              /\ F[d][n].ty = T[d][n].ty /\ F[d][n].no_drop = T[d][n].no_drop
              /\ F[d][n].moved_field = T[d][n].moved_field
              /\ <<d, n>> \in B => F[d][n].moved
              /\ <<d, n>> \notin B => F[d][n] = T[d][n]
    BY <1>5, <1>14, MovedInfos
  <2>2. \A d \in DOMAIN T : \A n \in DOMAIN T[d] : <<d, n>> \notin B => T[d][n].moved \/ T[d][n].no_drop
    <3>1. \A d \in DOMAIN T : DOMAIN T[d] \subseteq Names
      BY <1>5, EnvIs
    <3>2. \A d \in DOMAIN T : \A n \in DOMAIN T[d] : <<d, n>> \in Bindings(T)
      BY <3>1 DEF Bindings
    <3>. QED
      BY <3>2 DEF B
  <2>. HIDE DEF F
  <2>. QED
    BY <2>1, <2>2 DEF Gone
<1>. HIDE DEF F
<1>21. NoteOK(z)
  <2>1. Len(F) = Len(x.env) /\ {"ret"} \subseteq Names \cup {"ret"}
    BY <1>2, <1>5, <1>20
  <2>. QED
    BY <1>2, <1>20, <2>1, NoteFrom
<1>22. z.live /\ z.extra = {"ret"} /\ z.path = p /\ z.env = F
  BY DEF WithExtra
<1>. HIDE DEF z, D
<1>23. \A d \in DOMAIN p : p[d].kind # "for own"
  <2>1. \A m \in DOMAIN open : open[m].kind # "for own"
    <3>. SUFFICES ASSUME NEW m \in DOMAIN open, open[m].kind = "for own" PROVE FALSE
      OBVIOUS
    <3>1. FrameOK(Cells(code, g), open[m], Until(PathOf(open), m))
      BY <1>2 DEF State
    <3>2. m \in 1 .. Len(open) /\ Len(Until(PathOf(open), m)) = m
      <4>1. DOMAIN open = 1 .. Len(open)
        BY <1>2, SeqIs
      <4>2. m \in 1 .. Len(open) + 1 /\ m \in 1 .. Len(open)
        BY ONLY <1>2, <4>1, m \in DOMAIN open
      <4>. QED
        BY <1>2, <4>2, PathOfIs
    <3>3. open[m].depth = m + 1
      BY <3>1, <3>2 DEF FrameOK
    <3>4. open[m].depth >= 1
      BY ONLY <1>2, <3>2, <3>3
    <3>. QED
      <4>1. EnvOK(scopes) /\ MayLeave(1, "return")
        BY <1>2, <1>7 DEF E
      <4>2. "return" # "continue"
        OBVIOUS
      <4>3. \A k \in DOMAIN open : open[k].kind = "for own" => ~(open[k].depth >= 1)
        BY ONLY Tame, menu \in Menus, <4>1, <4>2, LeaveIs
      <4>. QED
        BY ONLY <3>4, <4>3, m \in DOMAIN open, open[m].kind = "for own"
  <2>2. Body.kind # "for own"
    BY DEF Body
  <2>. QED
    <3>. SUFFICES ASSUME NEW d \in DOMAIN PathOf(open), PathOf(open)[d].kind = "for own" PROVE FALSE
      BY DEF p
    <3>1. \/ d = 1 /\ PathOf(open)[d] = Body
          \/ \E m \in DOMAIN open : d = m + 1 /\ PathOf(open)[d].kind = open[m].kind /\ PathOf(open)[d].block = open[m].block
      BY <1>2, PathKinds
    <3>. QED
      BY ONLY <2>1, <2>2, <3>1, PathOf(open)[d].kind = "for own"
<1>24. ReturnOK(Cell3(j, z, Dead)) /\ j.op = "return"
  <2>1. Cell3(j, z, Dead).ins = j /\ Cell3(j, z, Dead).a = z /\ Cell3(j, z, Dead).z = Dead
    BY CellIs
  <2>2. j.op = "return"
    BY DEF j
  <2>. QED
    BY <1>20, <1>22, <1>23, <2>1, <2>2 DEF ReturnOK
<1>25. CellOK(Cell3(j, z, Dead))
  <2>. DEFINE c == Cell3(j, z, Dead)
  <2>1. c.ins = j /\ c.a = z /\ c.z = Dead /\ c = Cell3(c.ins, c.a, c.z)
    BY CellIs
  <2>2. NoteOK(Dead)
    BY DEF NoteOK, Dead
  <2>3. j.op \notin Straights /\ j.op \notin Opens /\ j.op \notin Ends /\ j.op \notin Exits /\ j.op \notin Closers
    BY <1>24 DEF Straights, Opens, Ends, Exits, Closers
  <2>4. ReturnOK(c) /\ j.op = "return"
    BY <1>24
  <2>. HIDE DEF c
  <2>5. CellOK(c)
    BY <1>21, <1>22, <2>1, <2>2, <2>3, <2>4 DEF CellOK
  <2>. QED
    BY <2>5 DEF c
<1>26. Trace(Append(Append(code, i) \o D, j), Append(h, Dead), Dead, open)
  <2>. DEFINE cs == Append(code, i) \o D
              c == Cell3(j, z, Dead)
  <2>1. State(Cells(cs, h), z, open)
    BY <1>19 DEF Trace
  <2>2. c.a = z /\ c.ins = j
    BY CellIs
  <2>3. State(Cells(cs, h) \cup {c}, Dead, open)
    <3>. HIDE DEF cs, c
    <3>1. CellOK(c) /\ c.ins.op = "return"
      BY <1>24, <1>25, <2>2 DEF c
    <3>. QED
      BY <2>1, <2>2, <3>1, Returning
  <2>4. j.op \notin Opens /\ j.op # "else"
    BY <1>24 DEF Opens
  <2>. HIDE DEF cs
  <2>5. Trace(cs, h, z, open)
    BY <1>19 DEF cs
  <2>6. Trace(Append(cs, j), Append(h, Dead), Dead, open)
    BY <2>3, <2>4, <2>5, Written
  <2>. QED
    BY <2>6 DEF cs
<1>27. Current' = Dead
  BY <1>7 DEF Current
<1>28. Trace(code', Append(h, Dead), Current', open')
  BY <1>7, <1>9, <1>26, <1>27
<1>. QED
  BY <1>28 DEF Good

-----------------------------------------------------------------------------
(* Opening a block                                                          *)

(* What leaves the collections of the loops alone stands where it stood.    *)
LEMMA KeptStand ==
  ASSUME NEW C, NEW x, NEW o, State(C, x, o), x.live, x.extra = {}, NoteOK(x),
         NEW F, EnvOK(F), Len(F) = Len(x.env), Kept(o, x.env, F)
  PROVE  Stand(Note(F, x.path), C)
<1>. DEFINE y == Note(F, x.path)
<1>1. y.live /\ y.extra = {} /\ y.path = x.path /\ y.env = F /\ NoteOK(y)
  BY NoteFrom DEF Note
<1>. HIDE DEF y
<1>2. Stand(x, C) /\ \A h \in C : CellOK(h)
  BY FramesAre DEF State
<1>3. \A h \in C : h.ins.op = "for" => \A e \in DOMAIN x.path : x.path[e].block = h.ins.block =>
           \A d \in DOMAIN h.a.env : h.ins.coll \in DOMAIN h.a.env[d] =>
             y.env[d][h.ins.coll].moved = x.env[d][h.ins.coll].moved
  BY <1>1, CollsKeep DEF Kept
<1>4. Moves(x.env, y.env)
  BY <1>1 DEF Kept
<1>5. \A d \in DOMAIN y.env : \A n \in DOMAIN y.env[d] : y.env[d][n].ty = "task" =>
           \/ n \in DOMAIN x.env[d] /\ x.env[d][n].ty = "task"
           \/ \E s \in C : s.ins.op = "spawn" /\ s.ins.n = n /\ At1(s, x.path[d])
  BY <1>1 DEF Kept
<1>6. Stand(y, C)
  BY <1>1, <1>2, <1>3, <1>4, <1>5, StandStep
<1>. QED
  BY <1>6 DEF y

(* A new block is one that no instruction opened.                           *)
LEMMA NewBlockIs ==
  ASSUME NEW g, Ready(g)
  PROVE  /\ NewBlock \in Nat \ {0} /\ NewBlock = Cardinality(BlocksOf(code)) + 1
         /\ ~HasOpen(Cells(code, g), NewBlock)
<1>1. PICK n \in Nat : BlocksOf(code) = 1 .. n
  BY DEF Ready, Trace
<1>2. Cardinality(1 .. n) = n
  BY FS_Interval
<1>3. Blocks = BlocksOf(code)
  BY DEF Blocks, BlocksOf
<1>4. NewBlock = n + 1
  BY <1>1, <1>2, <1>3 DEF NewBlock
<1>5. ~HasOpen(Cells(code, g), NewBlock)
  <2>. SUFFICES ASSUME NEW h \in Cells(code, g), h.ins.op \in Opens, h.ins.block = NewBlock PROVE FALSE
    BY DEF HasOpen
  <2>1. PICK k \in DOMAIN code : h = Cell3(code[k], g[k], g[k + 1])
    BY DEF Cells
  <2>2. h.ins = code[k]
    BY <2>1, CellIs
  <2>3. NewBlock \in BlocksOf(code)
    BY <2>1, <2>2 DEF BlocksOf, Opens
  <2>4. n + 1 \in 1 .. n
    BY <1>1, <1>4, <2>3
  <2>. QED
    BY ONLY <2>4, n \in Nat
<1>. QED
  BY <1>1, <1>2, <1>3, <1>4, <1>5

(* A note with a new scope in a new block.                                  *)
LEMMA PushedOK ==
  ASSUME NEW x, NoteOK(x), x.live, NEW P, EnvOK(P), Len(P) = Len(x.env),
         NEW s \in Scope, \A n \in DOMAIN s : ~Has(P, n),
         NEW b \in Nat, \A d \in DOMAIN x.path : x.path[d].block # b, NEW k \in PlaceKinds
  PROVE  NoteOK(Note(Append(P, s), Append(x.path, [block |-> b, kind |-> k])))
<1>. DEFINE pl == [block |-> b, kind |-> k]
            p == x.path
            q == Append(p, pl)
            E == Append(P, s)
            y == Note(E, q)
<1>1. /\ EnvOK(E) /\ Len(E) = Len(P) + 1
  BY PushOK
<1>2. pl \in Places /\ pl.block = b
  BY DEF Places
<1>3. p \in Seq(Places) /\ Len(p) = Len(x.env) /\ p[1] = Body
      /\ \A d, e \in DOMAIN p : p[d].block = p[e].block => d = e
  BY DEF NoteOK
<1>4. Len(x.env) \in Nat \ {0} /\ DOMAIN p = 1 .. Len(p)
  BY <1>3, PathIs
<1>. HIDE DEF pl, p, E
<1>5. q \in Seq(Places) /\ Len(q) = Len(p) + 1 /\ DOMAIN q = 1 .. Len(p) + 1
      /\ q[Len(p) + 1] = pl /\ \A d \in 1 .. Len(p) : q[d] = p[d]
  BY <1>2, <1>3
<1>. HIDE DEF q
<1>6. q[1] = Body
  BY <1>3, <1>4, <1>5
<1>7. ASSUME NEW d \in DOMAIN q, NEW e \in DOMAIN q, q[d].block = q[e].block PROVE d = e
  <2>1. \A j \in DOMAIN p : p[j].block # b
    BY DEF p
  <2>2. \A j \in DOMAIN q : j = Len(p) + 1 \/ j \in DOMAIN p
    BY ONLY <1>3, <1>4, <1>5
  <2>3. \A j \in DOMAIN p : q[j] = p[j]
    BY <1>4, <1>5
  <2>. QED
    BY <1>2, <1>3, <1>5, <1>7, <2>1, <2>2, <2>3
<1>8. y.env = E /\ y.path = q /\ y.extra = {} /\ y = WithExtra(y.env, y.path, y.extra)
  BY DEF Note, WithExtra
<1>. HIDE DEF y
<1>9. NoteOK(y)
  BY <1>1, <1>3, <1>5, <1>6, <1>7, <1>8 DEF NoteOK
<1>. QED
  BY <1>9 DEF y, q, pl, p, E

(* An instruction that opens a block keeps the pass good.                   *)
LEMMA OpenKeeps ==
  ASSUME NEW g, Ready(g), NEW i, i.op \in Opens, i.block = NewBlock,
         i.op = "for" => /\ i.n \in Names /\ ~Has(scopes, i.n) /\ i.own \in BOOLEAN
                         /\ \E d \in DOMAIN scopes : /\ i.coll \in DOMAIN scopes[d] /\ Whole(scopes[d][i.coll])
                                                     /\ scopes[d][i.coll].ty = "nest",
         NEW P, P = (IF Owning(i) THEN Moving(scopes, Named(scopes, i.coll)) ELSE scopes),
         EnvOK(P), Len(P) = Len(scopes), \A d \in DOMAIN scopes : DOMAIN P[d] = DOMAIN scopes[d],
         Kept(open, scopes, P),
         NEW f, f.block = NewBlock, f.kind = KindOf(i), f.pre = P, f.kind \in PlaceKinds,
         i.op = "for" => f.coll = i.coll, i.op # "if" => f.depth = Len(scopes) + 1,
         Emit(<<i>>), open' = Append(open, f), scopes' = Append(P, FirstScope(i)), ~closed'
  PROVE  Good'
<1>. DEFINE E == scopes
            p == PathOf(open)
            x == Note(E, p)
            C == Cells(code, g)
            s == FirstScope(i)
            q == Append(p, [block |-> NewBlock, kind |-> f.kind])
            z == Note(Append(P, s), q)
            c == Cell3(i, x, z)
<1>1. /\ EnvOK(E) /\ IsSeq(open) /\ IsSeq(code)
      /\ NoteOK(x) /\ x.live /\ x.extra = {} /\ x.env = E /\ x.path = p
      /\ Trace(code, g, x, open) /\ State(C, x, open)
  BY ReadyIs DEF Ready
<1>2. /\ NewBlock \in Nat \ {0} /\ NewBlock = Cardinality(BlocksOf(code)) + 1 /\ ~HasOpen(C, NewBlock)
  BY NewBlockIs
<1>3. s \in Scope /\ \A n \in DOMAIN s : ~Has(P, n)
  <2>0. DOMAIN P = DOMAIN E
    <3>1. DOMAIN P = 1 .. Len(P) /\ DOMAIN E = 1 .. Len(E)
      BY <1>1, EnvIs
    <3>. QED
      BY <3>1
  <2>1. CASE i.op = "for"
    <3>1. s = Bind(<< >>, i.n, Slot(i.own))
      BY <2>1 DEF FirstScope
    <3>2. Slot(i.own) \in Infos
      BY <2>1 DEF Slot, Fresh, Infos, InfoOK, VarInfo
    <3>. DEFINE w == Slot(i.own)
    <3>. HIDE DEF w
    <3>3. s = [m \in {i.n} |-> w]
      BY <3>1, EmptyScope DEF Bind, w
    <3>4. {i.n} \in SUBSET Names /\ w \in Infos
      BY <2>1, <3>2 DEF w
    <3>. HIDE DEF s
    <3>5. s \in Scope
      BY <3>3, <3>4, IsScope
    <3>6. DOMAIN s = {i.n} /\ ~Has(E, i.n)
      BY <2>1, <3>3
    <3>. QED
      BY <2>0, <3>5, <3>6 DEF Has
  <2>2. CASE i.op # "for"
    <3>1. s = << >>
      BY <2>2 DEF FirstScope
    <3>. QED
      BY <3>1, EmptyScope
  <2>. QED
    BY <2>1, <2>2
<1>4. \A d \in DOMAIN p : p[d].block # NewBlock
  BY <1>1, <1>2, NewBlockPlaces
<1>5. NoteOK(z)
  BY <1>1, <1>2, <1>3, <1>4, PushedOK, ZenonT(60)
<1>6. c.ins = i /\ c.a = x /\ c.z = z /\ c = Cell3(c.ins, c.a, c.z)
  BY CellIs
<1>7. Base(c) = P
  <2>. HIDE DEF c
  <2>. QED
    BY <1>1, <1>6 DEF Base
<1>8. c.z = Pushed(c, KindOf(c.ins), FirstScope(c.ins))
  <2>. HIDE DEF c, x, p
  <2>. QED
    BY <1>1, <1>6, <1>7 DEF Pushed
<1>. HIDE DEF c, z, x, E
<1>9. OpenOK(c)
  <2>1. c.ins.op = "for" =>
       /\ c.ins.n \in Names /\ ~Has(E, c.ins.n) /\ c.ins.own \in BOOLEAN
       /\ \E d \in DOMAIN E : /\ c.ins.coll \in DOMAIN E[d] /\ Whole(E[d][c.ins.coll])
                              /\ E[d][c.ins.coll].ty = "nest"
    BY <1>6 DEF E
  <2>2. c.a.extra = {} /\ c.ins.block \in Nat \ {0} /\ c.a.env = E
    BY <1>1, <1>2, <1>6
  <2>. QED
    BY <1>8, <2>1, <2>2 DEF OpenOK
<1>10. CellOK(c)
  <2>1. i.op \notin Straights /\ i.op \notin Ends /\ i.op \notin Exits /\ i.op \notin Closers /\ i.op # "return"
    BY DEF Straights, Opens, Ends, Exits, Closers
  <2>2. i.op \notin {"let", "set", "drop", "use", "call", "spawn", "join", "freebuf"}
    BY <2>1 DEF Straights
  <2>. QED
    BY <1>1, <1>5, <1>6, <1>9, <2>1, <2>2 DEF CellOK
<1>11. Stand(Note(Base(c), x.path), C)
  <2>. HIDE DEF C
  <2>1. Kept(open, x.env, P) /\ Len(P) = Len(x.env)
    BY <1>1 DEF E
  <2>. QED
    BY <1>1, <1>7, <2>1, KeptStand
<1>12. State(C \cup {c}, c.z, Append(open, f))
  <2>1. c.ins.op \in Opens /\ ~HasOpen(C, c.ins.block)
    BY <1>2, <1>6
  <2>2. f.block = c.ins.block /\ f.pre = Base(c) /\ f.kind = KindOf(c.ins)
    BY <1>6, <1>7
  <2>3. c.ins.op = "for" => f.coll = c.ins.coll
    BY <1>6
  <2>4. c.ins.op # "if" => f.depth = Len(x.env) + 1
    BY <1>1, <1>6 DEF E
  <2>. HIDE DEF C
  <2>. QED
    BY <1>1, <1>6, <1>10, <1>11, <2>1, <2>2, <2>3, <2>4, Opening
<1>13. Trace(Append(code, i), Append(g, z), z, Append(open, f))
  <2>1. State(Cells(code, g) \cup {Cell3(i, x, z)}, z, Append(open, f))
    BY <1>6, <1>12 DEF c
  <2>. QED
    BY <1>1, <1>2, <2>1, WrittenOpen
<1>14. code' = Append(code, i)
  BY <1>1, IsSeqs, CatIs DEF Emit
<1>15. Current' = z
  <2>1. PathOf(Append(open, f)) = Append(PathOf(open), [block |-> f.block, kind |-> f.kind])
    BY <1>1, PathAppend
  <2>2. Current' = Note(Append(P, s), PathOf(Append(open, f)))
    BY DEF Current
  <2>. QED
    BY <2>1, <2>2 DEF z, p
<1>16. Trace(code', Append(g, z), Current', open')
  BY <1>13, <1>14, <1>15
<1>. QED
  BY <1>16 DEF Good

(* The start of a conditional keeps the pass good.                          *)
LEMMA IfKeeps ==
  ASSUME Good, If
  PROVE  Good'
<1>1. PICK g : Ready(g)
  BY GoodReady DEF If, Statement
<1>. DEFINE i == [op |-> "if", block |-> NewBlock]
            f == [kind |-> "then", block |-> NewBlock, pre |-> scopes]
<1>2. EnvOK(scopes)
  BY <1>1, ReadyIs
<1>3. Kept(open, scopes, scopes)
  BY <1>2, SameKept
<1>4. Emit(<<i>>) /\ open' = Append(open, f) /\ scopes' = Append(scopes, << >>) /\ ~closed'
  BY DEF If, OpenBlock, PushScope
<1>5. i.op = "if" /\ i.block = NewBlock /\ f.block = NewBlock /\ f.kind = "then" /\ f.pre = scopes
  OBVIOUS
<1>. HIDE DEF i, f
<1>6. i.op \in Opens /\ ~Owning(i) /\ FirstScope(i) = << >> /\ KindOf(i) = "then"
  BY <1>5 DEF Opens, Owning, FirstScope, KindOf
<1>7. /\ scopes = (IF Owning(i) THEN Moving(scopes, Named(scopes, i.coll)) ELSE scopes)
      /\ i.op # "for" /\ f.kind \in PlaceKinds /\ f.kind = KindOf(i)
      /\ scopes' = Append(scopes, FirstScope(i))
      /\ i.op # "if" => f.depth = Len(scopes) + 1
      /\ \A d \in DOMAIN scopes : DOMAIN scopes[d] = DOMAIN scopes[d]
  BY <1>4, <1>5, <1>6 DEF PlaceKinds
<1>. QED
  BY <1>1, <1>2, <1>3, <1>4, <1>5, <1>6, <1>7, OpenKeeps

(* So does that of a while loop.                                            *)
LEMMA WhileKeeps ==
  ASSUME Good, While
  PROVE  Good'
<1>1. PICK g : Ready(g)
  BY GoodReady DEF While, Statement
<1>. DEFINE i == [op |-> "while", block |-> NewBlock]
            f == [kind |-> "while", block |-> NewBlock, pre |-> scopes, depth |-> Len(scopes) + 1]
<1>2. EnvOK(scopes)
  BY <1>1, ReadyIs
<1>3. Kept(open, scopes, scopes)
  BY <1>2, SameKept
<1>4. Emit(<<i>>) /\ open' = Append(open, f) /\ scopes' = Append(scopes, << >>) /\ ~closed'
  BY DEF While, OpenBlock, PushScope
<1>5. /\ i.op = "while" /\ i.block = NewBlock /\ f.block = NewBlock /\ f.kind = "while" /\ f.pre = scopes
      /\ f.depth = Len(scopes) + 1
  OBVIOUS
<1>. HIDE DEF i, f
<1>6. i.op \in Opens /\ ~Owning(i) /\ FirstScope(i) = << >> /\ KindOf(i) = "while"
  BY <1>5 DEF Opens, Owning, FirstScope, KindOf
<1>7. /\ scopes = (IF Owning(i) THEN Moving(scopes, Named(scopes, i.coll)) ELSE scopes)
      /\ i.op # "for" /\ f.kind \in PlaceKinds /\ f.kind = KindOf(i)
      /\ scopes' = Append(scopes, FirstScope(i))
      /\ i.op # "if" => f.depth = Len(scopes) + 1
      /\ \A d \in DOMAIN scopes : DOMAIN scopes[d] = DOMAIN scopes[d]
  BY <1>4, <1>5, <1>6 DEF PlaceKinds
<1>. QED
  BY <1>1, <1>2, <1>3, <1>4, <1>5, <1>6, <1>7, OpenKeeps

(* So does that of a for loop, by reference or consuming.                   *)
LEMMA ForKeeps ==
  ASSUME Tame, menu \in Menus, Good, NEW v \in Names, NEW cl \in Names, NEW own \in BOOLEAN, ForIter(v, cl, own)
  PROVE  Good'
<1>1. PICK g : Ready(g)
  BY GoodReady DEF ForIter, Statement
<1>. DEFINE E == scopes
            kind == IF own THEN "for own" ELSE "for ref"
            pre == IF own THEN SetInfo(E, cl, [Lookup(E, cl) EXCEPT !.moved = TRUE]) ELSE E
            P == IF own THEN Moving(E, Named(E, cl)) ELSE E
            i == [op |-> "for", block |-> NewBlock, n |-> v, coll |-> cl, own |-> own]
            f == [kind |-> kind, block |-> NewBlock, pre |-> pre, coll |-> cl, depth |-> Len(E) + 1]
            d == Home(E, cl)
<1>2. EnvOK(E)
  BY <1>1, ReadyIs
<1>3. /\ Bound(E, cl) /\ ~Lookup(E, cl).moved /\ Lookup(E, cl).ty = "nest"
      /\ ~Bound(E, v) /\ cl \notin Iterated
      /\ Emit(<<i>>) /\ open' = Append(open, f) /\ scopes' = Append(pre, Bind(<< >>, v, Slot(own))) /\ ~closed'
  <2>1. ~Allows("shadow") /\ ~Allows("change iterated")
    BY NoHazard DEF Hazards
  <2>. QED
    BY <2>1 DEF ForIter, OpenBlock
<1>4. /\ d \in DOMAIN E /\ cl \in DOMAIN E[d] /\ Lookup(E, cl) = E[d][cl] /\ E[d][cl] \in Infos
      /\ \A b \in DOMAIN E : cl \in DOMAIN E[b] => b = d
  <2>1. EnvOK(E) /\ Bound(E, cl)
    BY <1>2, <1>3
  <2>. HIDE DEF E
  <2>. QED
    BY <2>1, HomeOf
<1>5. E[d][cl].ty = "nest" /\ ~E[d][cl].moved /\ ~E[d][cl].no_drop /\ ~E[d][cl].moved_field
  BY <1>3, <1>4 DEF Infos, InfoOK
<1>6. pre = P
  <2>. HIDE DEF d
  <2>1. SetInfo(E, cl, [Lookup(E, cl) EXCEPT !.moved = TRUE]) = Moving(E, Named(E, cl))
    BY <1>2, <1>4, <1>5, MovingOne
  <2>. QED
    BY <2>1
<1>7. /\ i.op = "for" /\ i.block = NewBlock /\ i.n = v /\ i.coll = cl /\ i.own = own
      /\ f.block = NewBlock /\ f.kind = kind /\ f.pre = pre /\ f.depth = Len(E) + 1 /\ f.coll = cl
  <2>. HIDE DEF pre, kind, E
  <2>. QED
    OBVIOUS
<1>. HIDE DEF i, f, d, pre
<1>8. i.op \in Opens /\ FirstScope(i) = Bind(<< >>, v, Slot(own)) /\ KindOf(i) = kind /\ (Owning(i) <=> own)
  BY <1>7 DEF Opens, Owning, FirstScope, KindOf
<1>9. kind \in PlaceKinds
  BY DEF PlaceKinds
<1>. HIDE DEF kind
<1>10. /\ EnvOK(P) /\ Len(P) = Len(E) /\ \A b \in DOMAIN E : DOMAIN P[b] = DOMAIN E[b]
       /\ Kept(open, E, P)
  <2>1. CASE own
    <3>. DEFINE S == Named(E, cl)
    <3>1. \A b \in DOMAIN E : \A n \in DOMAIN E[b] : <<b, n>> \in S <=> b = d /\ n = cl
      <4>1. \A b \in DOMAIN E : DOMAIN E[b] \subseteq Names
        BY <1>2, EnvIs
      <4>2. \A b \in DOMAIN E : \A n \in DOMAIN E[b] : <<b, n>> \in S <=> n = cl
        BY <4>1 DEF Named
      <4>. HIDE DEF S
      <4>. QED
        BY <1>4, <4>2
    <3>. HIDE DEF S
    <3>2. \A b \in DOMAIN E : \A n \in DOMAIN E[b] : <<b, n>> \in S =>
            /\ ~E[b][n].no_drop
            /\ b # Len(E) => E[b][n].ty # "task" /\ ~E[b][n].moved_field
      BY <1>5, <3>1
    <3>3. \A m \in DOMAIN open : open[m].kind \in {"for ref", "for own"} =>
            \A b \in DOMAIN E : b <= m /\ open[m].coll \in DOMAIN E[b] => <<b, open[m].coll>> \notin S
      <4>1. ~Looped(open, cl)
        BY <1>3, IteratedIs
      <4>2. \A m \in DOMAIN open : open[m].kind \in {"for ref", "for own"} => open[m].coll # cl
        BY <4>1 DEF Looped
      <4>. QED
        BY <3>1, <4>2
    <3>4. EnvOK(Moving(E, S)) /\ Len(Moving(E, S)) = Len(E) /\ Kept(open, E, Moving(E, S))
      BY <1>2, <3>2, <3>3, MovingKept
    <3>5. \A b \in DOMAIN E : DOMAIN Moving(E, S)[b] = DOMAIN E[b]
      BY DEF Moving
    <3>6. P = Moving(E, S)
      BY <2>1 DEF S
    <3>. QED
      BY <3>4, <3>5, <3>6
  <2>2. CASE ~own
    <3>1. P = E
      BY <2>2
    <3>. QED
      BY <1>2, <3>1, SameKept
  <2>. QED
    BY <2>1, <2>2
<1>11. P = (IF Owning(i) THEN Moving(scopes, Named(scopes, i.coll)) ELSE scopes)
  BY <1>7, <1>8
<1>12. /\ i.n \in Names /\ ~Has(E, i.n) /\ i.own \in BOOLEAN
       /\ \E b \in DOMAIN E : /\ i.coll \in DOMAIN E[b] /\ Whole(E[b][i.coll])
                              /\ E[b][i.coll].ty = "nest"
  BY <1>3, <1>4, <1>5, <1>7 DEF Has, Bound, Whole
<1>13. /\ Emit(<<i>>) /\ open' = Append(open, f) /\ scopes' = Append(P, FirstScope(i)) /\ ~closed'
  BY <1>3, <1>6, <1>8
<1>14. f.block = NewBlock /\ f.kind = KindOf(i) /\ f.pre = P /\ f.kind \in PlaceKinds
       /\ f.coll = i.coll /\ f.depth = Len(scopes) + 1
  BY <1>6, <1>7, <1>8, <1>9
<1>. HIDE DEF P, E
<1>15. E = scopes
  BY DEF E
<1>. QED
  BY <1>1, <1>7, <1>8, <1>10, <1>11, <1>12, <1>13, <1>14, <1>15, OpenKeeps

-----------------------------------------------------------------------------
(* The end of a body                                                        *)

(* What was not moved since is as it was.                                   *)
LEMMA BalancedSame ==
  ASSUME NEW P, EnvOK(P), NEW E, EnvOK(E), Len(P) <= Len(E), Since(P, E), Balanced(P, E)
  PROVE  \A d \in DOMAIN P : E[d] = P[d]
<1>. SUFFICES ASSUME NEW d \in DOMAIN P PROVE E[d] = P[d]
  OBVIOUS
<1>1. d \in DOMAIN E
  <2>1. DOMAIN P = 1 .. Len(P) /\ DOMAIN E = 1 .. Len(E) /\ Len(P) \in Nat /\ Len(E) \in Nat
    BY EnvIs
  <2>. QED
    BY ONLY <2>1, Len(P) <= Len(E), d \in DOMAIN P
<1>2. DOMAIN P[d] = DOMAIN E[d] /\ P[d] = [n \in DOMAIN P[d] |-> P[d][n]] /\ E[d] = [n \in DOMAIN E[d] |-> E[d][n]]
      /\ DOMAIN P[d] \subseteq Names
  BY <1>1, EnvIs DEF Since
<1>3. ASSUME NEW n \in DOMAIN P[d] PROVE E[d][n] = P[d][n]
  <2>1. <<d, n>> \in Bindings(P)
    BY <1>2 DEF Bindings
  <2>2. P[d][n].moved = Lookup(E, n).moved
    BY <2>1 DEF Balanced
  <2>3. Lookup(E, n) = E[d][n]
    BY <1>1, <1>2, HomeIs
  <2>4. E[d][n] = [P[d][n] EXCEPT !.moved = E[d][n].moved]
    BY <1>2 DEF Since
  <2>5. [P[d][n] EXCEPT !.moved = P[d][n].moved] = P[d][n]
    BY SameInfo
  <2>. QED
    BY <2>2, <2>3, <2>4, <2>5
<1>. QED
  BY <1>2, <1>3

(* An Env without its innermost scope.                                      *)
LEMMA FrontEnv ==
  ASSUME NEW E, EnvOK(E), Len(E) > 1
  PROVE  /\ EnvOK(Front(E)) /\ Len(Front(E)) = Len(E) - 1 /\ DOMAIN Front(E) = 1 .. Len(E) - 1
         /\ \A d \in 1 .. Len(E) - 1 : Front(E)[d] = E[d] /\ d \in DOMAIN E
<1>1. Len(E) \in Nat /\ DOMAIN E = 1 .. Len(E) /\ E \in Seq(Scope) /\ Distinct(E)
  BY EnvIs DEF EnvOK
<1>2. IsSeq(E)
  BY <1>1, SeqIsSeq
<1>3. E # << >>
  OBVIOUS
<1>. DEFINE F == Front(E)
<1>4. Len(F) = Len(E) - 1 /\ DOMAIN F = 1 .. Len(E) - 1 /\ IsSeq(F)
      /\ \A i \in 1 .. Len(E) - 1 : F[i] = E[i]
  BY <1>2, <1>3, SeqFront
<1>. HIDE DEF F
<1>5. \A d \in 1 .. Len(E) - 1 : d \in DOMAIN E
  BY <1>1
<1>6. F \in Seq(Scope)
  <2>1. \A i \in 1 .. Len(F) : F[i] \in Scope
    BY <1>1, <1>4, <1>5
  <2>2. F \in [1 .. Len(F) -> Scope]
    BY <2>1, <1>4 DEF IsSeq
  <2>3. Len(F) \in Nat
    BY <1>1, <1>4
  <2>. QED
    BY <2>2, <2>3
<1>7. Distinct(F)
  BY <1>1, <1>4, <1>5 DEF Distinct
<1>8. EnvOK(F)
  BY <1>1, <1>4, <1>6, <1>7 DEF EnvOK
<1>. QED
  BY <1>4, <1>5, <1>8 DEF F

TopDrops(E) ==
  {<<Len(E), n>> : n \in {m \in DOMAIN E[Len(E)] : E[Len(E)][m].ty # "task" /\ ~Gone(E[Len(E)][m])}}

(* drop_scope drops what the innermost scope has left.                      *)
LEMMA ScopeDropsAre ==
  ASSUME NEW E, EnvOK(E)
  PROVE  /\ ScopeDrops(E) = Drops(Records(E, TopDrops(E))) /\ Droppable(E, TopDrops(E))
         /\ \A d \in DOMAIN E : \A n \in DOMAIN E[d] :
              <<d, n>> \in TopDrops(E) <=> d = Len(E) /\ E[d][n].ty # "task" /\ ~Gone(E[d][n])
<1>. DEFINE top == Len(E)
            N == {m \in DOMAIN E[top] : E[top][m].ty # "task" /\ ~Gone(E[top][m])}
<1>0. top \in DOMAIN E
  <2>1. Len(E) \in Nat \ {0} /\ DOMAIN E = 1 .. Len(E)
    BY EnvIs
  <2>. QED
    BY ONLY <2>1
<1>1. TopDrops(E) = {<<top, n>> : n \in N}
  BY DEF TopDrops
<1>2. N = {m \in DOMAIN E[top] : E[top][m].ty # "task" /\ ~E[top][m].no_drop /\ ~E[top][m].moved}
  BY DEF Gone
<1>3. ScopeDrops(E) = Drops({DropOf(E, top, n) : n \in N})
  <2>. HIDE DEF N
  <2>. QED
    BY <1>2 DEF ScopeDrops
<1>4. {DropOf(E, top, n) : n \in N} = Records(E, {<<top, n>> : n \in N})
  <2>. HIDE DEF N, top
  <2>1. \A n \in N : [n |-> <<top, n>>[2], depth |-> <<top, n>>[1], skip |-> E[<<top, n>>[1]][<<top, n>>[2]].moved_field] = DropOf(E, top, n)
    BY DEF DropOf
  <2>. DEFINE R(b) == [n |-> b[2], depth |-> b[1], skip |-> E[b[1]][b[2]].moved_field]
              Q(n) == <<top, n>>
              Z(n) == DropOf(E, top, n)
  <2>2. \A n \in N : R(Q(n)) = Z(n)
    BY <2>1
  <2>. HIDE DEF R, Q, Z
  <2>3. {Z(n) : n \in N} = {R(b) : b \in {Q(n) : n \in N}}
    BY <2>2
  <2>4. Records(E, {Q(n) : n \in N}) = {R(b) : b \in {Q(n) : n \in N}}
    BY DEF Records, R
  <2>5. {Z(n) : n \in N} = Records(E, {Q(n) : n \in N})
    BY <2>3, <2>4
  <2>. QED
    BY <2>5 DEF Z, Q
<1>5. Droppable(E, TopDrops(E))
  BY <1>0, <1>1 DEF Droppable
<1>6. \A d \in DOMAIN E : \A n \in DOMAIN E[d] :
              <<d, n>> \in TopDrops(E) <=> d = Len(E) /\ E[d][n].ty # "task" /\ ~Gone(E[d][n])
  BY <1>1
<1>. QED
  BY <1>1, <1>3, <1>4, <1>5, <1>6

(* The drops at the end of a body leave nothing but tasks in its scope.     *)
LEMMA Ending ==
  ASSUME Good, open # << >>, closed \in BOOLEAN
  PROVE  \E h, x :
           /\ Trace(code \o (IF closed THEN << >> ELSE ScopeDrops(scopes)), h, x, open)
           /\ NoteOK(x) /\ x.live = ~closed
           /\ x.live => /\ x.extra = {} /\ x.path = PathOf(open) /\ SealedButTasks(x, Front(scopes))
                        /\ EnvOK(scopes) /\ EnvOK(Front(scopes)) /\ Len(Front(scopes)) = Len(open)
                        /\ \A d \in DOMAIN Front(scopes) : Front(scopes)[d] = scopes[d] /\ x.env[d] = scopes[d]
<1>1. CASE closed
  <2>1. PICK g : Trace(code, g, Dead, open)
    BY <1>1 DEF Good, Current
  <2>2. IsSeq(code)
    BY <2>1 DEF Trace
  <2>3. code \o (IF closed THEN << >> ELSE ScopeDrops(scopes)) = code
    BY <1>1, <2>2, IsSeqs, CatIs
  <2>4. NoteOK(Dead) /\ Dead.live = FALSE
    BY DEF Dead, NoteOK
  <2>. QED
    BY <1>1, <2>1, <2>3, <2>4
<1>2. CASE ~closed
  <2>1. PICK g : Ready(g)
    BY <1>2, GoodReady
  <2>. DEFINE E == scopes
              p == PathOf(open)
              x == Note(E, p)
              B == TopDrops(E)
              F == Moving(E, B)
              y == Note(F, p)
  <2>2. /\ EnvOK(E) /\ IsSeq(open) /\ Len(open) \in Nat /\ Len(E) = Len(open) + 1 /\ DOMAIN E = 1 .. Len(E)
        /\ NoteOK(x) /\ x.live /\ x.extra = {} /\ x.env = E /\ x.path = p
        /\ Trace(code, g, x, open)
    BY <2>1, ReadyIs DEF Ready
  <2>3. Len(open) # 0
    <3>. SUFFICES ASSUME Len(open) = 0 PROVE FALSE
      OBVIOUS
    <3>1. open = [i \in 1 .. Len(open) |-> open[i]]
      BY <2>2 DEF IsSeq
    <3>. QED
      BY <3>1
  <2>4. /\ ScopeDrops(E) = Drops(Records(E, B)) /\ Droppable(E, B)
        /\ \A d \in DOMAIN E : \A n \in DOMAIN E[d] :
              <<d, n>> \in B <=> d = Len(E) /\ E[d][n].ty # "task" /\ ~Gone(E[d][n])
    BY <2>2, ScopeDropsAre
  <2>. HIDE DEF E, x, B, p
  <2>5. /\ EnvOK(F) /\ Len(F) = Len(E) /\ DOMAIN F = DOMAIN E
        /\ \A d \in DOMAIN E : DOMAIN F[d] = DOMAIN E[d]
        /\ \A d \in DOMAIN E : \A n \in DOMAIN E[d] :
              /\ F[d][n].ty = E[d][n].ty /\ F[d][n].no_drop = E[d][n].no_drop
              /\ F[d][n].moved_field = E[d][n].moved_field
              /\ <<d, n>> \in B => F[d][n].moved
              /\ <<d, n>> \notin B => F[d][n] = E[d][n]
    BY <2>2, <2>4, MovedInfos
  <2>6. Kept(open, E, F)
    <3>1. \A d \in DOMAIN E : \A n \in DOMAIN E[d] : <<d, n>> \in B =>
            /\ ~E[d][n].no_drop
            /\ d # Len(E) => E[d][n].ty # "task" /\ ~E[d][n].moved_field
      BY <2>4 DEF Gone
    <3>2. \A m \in DOMAIN open : open[m].kind \in {"for ref", "for own"} =>
            \A d \in DOMAIN E : d <= m /\ open[m].coll \in DOMAIN E[d] => <<d, open[m].coll>> \notin B
      <4>1. DOMAIN open = 1 .. Len(open)
        BY <2>2, SeqIs
      <4>2. \A m \in DOMAIN open : \A d \in DOMAIN E : d <= m => d # Len(E)
        BY ONLY <2>2, <4>1
      <4>. QED
        BY <2>4, <4>2
    <3>. QED
      BY <2>2, <3>1, <3>2, MovingKept
  <2>7. \E h : Trace(code \o Drops(Records(E, B)), h, y, open)
    <3>1. Droppable(x.env, B) /\ Kept(open, x.env, Moving(x.env, B))
      BY <2>2, <2>4, <2>6
    <3>2. \E h : Trace(code \o Drops(Records(x.env, B)), h, Note(Moving(x.env, B), x.path), open)
      BY <2>2, <3>1, DropsWritten
    <3>. QED
      BY <2>2, <3>2
  <2>. HIDE DEF F
  <2>8. NoteOK(y)
    BY <2>2, <2>5, NoteFrom
  <2>9. y.live = TRUE /\ y.extra = {} /\ y.path = p /\ y.env = F
    BY DEF Note
  <2>. HIDE DEF y
  <2>10. /\ EnvOK(Front(E)) /\ Len(Front(E)) = Len(E) - 1 /\ DOMAIN Front(E) = 1 .. Len(E) - 1
         /\ \A d \in 1 .. Len(E) - 1 : Front(E)[d] = E[d] /\ d \in DOMAIN E
    BY <2>2, <2>3, FrontEnv
  <2>11. \A d \in 1 .. Len(E) - 1 : F[d] = E[d]
    <3>. SUFFICES ASSUME NEW d \in 1 .. Len(E) - 1 PROVE F[d] = E[d]
      OBVIOUS
    <3>1. d \in DOMAIN E /\ d # Len(E)
      BY <2>2, <2>10
    <3>2. F[d] = [n \in DOMAIN F[d] |-> F[d][n]] /\ E[d] = [n \in DOMAIN E[d] |-> E[d][n]]
      BY <2>2, <2>5, <3>1, EnvIs
    <3>3. \A n \in DOMAIN E[d] : F[d][n] = E[d][n]
      BY <2>4, <2>5, <3>1
    <3>. QED
      BY <2>5, <3>1, <3>2, <3>3
  <2>12. \A n \in DOMAIN F[Len(E)] : Gone(F[Len(E)][n]) \/ F[Len(E)][n].ty = "task"
    <3>. DEFINE d == Len(E)
    <3>1. d \in DOMAIN E
      BY ONLY <2>2
    <3>2. \A n \in DOMAIN E[d] : <<d, n>> \in B <=> E[d][n].ty # "task" /\ ~Gone(E[d][n])
      BY <2>4, <3>1
    <3>. HIDE DEF d
    <3>3. ASSUME NEW n \in DOMAIN F[d] PROVE Gone(F[d][n]) \/ F[d][n].ty = "task"
      <4>1. n \in DOMAIN E[d]
        BY <2>5, <3>1
      <4>2. <<d, n>> \in B => F[d][n].moved
        BY <2>5, <3>1, <4>1
      <4>3. <<d, n>> \notin B => F[d][n] = E[d][n]
        BY <2>5, <3>1, <4>1
      <4>4. <<d, n>> \notin B => E[d][n].ty = "task" \/ Gone(E[d][n])
        BY <3>2, <4>1
      <4>5. F[d][n].moved => Gone(F[d][n])
        BY DEF Gone
      <4>. QED
        BY <4>2, <4>3, <4>4, <4>5
    <3>. QED
      BY <3>3 DEF d
  <2>13. SealedButTasks(y, Front(E))
    <3>1. Len(y.env) = Len(Front(E)) + 1 /\ Len(y.env) = Len(E)
      BY <2>2, <2>5, <2>9, <2>10
    <3>. QED
      BY <2>9, <2>10, <2>11, <2>12, <3>1 DEF SealedButTasks
  <2>14. Len(Front(E)) = Len(open)
    BY <2>2, <2>10
  <2>15. (IF closed THEN << >> ELSE ScopeDrops(scopes)) = Drops(Records(E, B))
    BY <1>2, <2>4 DEF E
  <2>16. PICK h : Trace(code \o (IF closed THEN << >> ELSE ScopeDrops(scopes)), h, y, open)
    BY <2>7, <2>15
  <2>17. \A d \in DOMAIN Front(E) : Front(E)[d] = E[d] /\ y.env[d] = E[d]
    BY <2>9, <2>10, <2>11
  <2>18. E = scopes /\ p = PathOf(open)
    BY DEF E, p
  <2>19. y.live = ~closed
    BY <1>2, <2>9
  <2>20. /\ y.extra = {} /\ y.path = PathOf(open) /\ SealedButTasks(y, Front(scopes))
         /\ EnvOK(scopes) /\ EnvOK(Front(scopes)) /\ Len(Front(scopes)) = Len(open)
         /\ \A d \in DOMAIN Front(scopes) : Front(scopes)[d] = scopes[d] /\ y.env[d] = scopes[d]
    BY <2>2, <2>9, <2>10, <2>13, <2>14, <2>17, <2>18
  <2>. QED
    BY <2>8, <2>16, <2>19, <2>20
<1>. QED
  BY <1>1, <1>2

(* An instruction after two sequences.                                      *)
LEMMA CatLast ==
  ASSUME NEW s, IsSeq(s), NEW t, IsSeq(t), NEW i
  PROVE  s \o (t \o <<i>>) = Append(s \o t, i)
<1>. DEFINE u == <<i>>
<1>1. IsSeq(u)
  BY IsSeqs
<1>2. IsSeq(s \o t)
  BY CatIs
<1>3. (s \o t) \o u = Append(s \o t, i)
  BY <1>2, CatIs
<1>. HIDE DEF u
<1>4. s \o (t \o u) = (s \o t) \o u
  BY <1>1, CatAssoc
<1>5. s \o (t \o u) = Append(s \o t, i)
  BY ONLY <1>3, <1>4
<1>. QED
  BY <1>5 DEF u

(* What the end of a body writes.                                           *)
LEMMA EndsSeq ==
  IsSeq(IF closed THEN << >> ELSE ScopeDrops(scopes))
BY IsSeqs DEF ScopeDrops

(* The end of a then branch keeps the pass good.                            *)
LEMMA ElseKeeps ==
  ASSUME Good, closed \in BOOLEAN, Else
  PROVE  Good'
<1>. DEFINE A == IF closed THEN << >> ELSE ScopeDrops(scopes)
            cs == code \o A
            f == Last(open)
            n == Len(open)
            p == Until(PathOf(open), n)
            T == Front(scopes)
            i == [op |-> "else", block |-> f.block]
            pl == [block |-> f.block, kind |-> "else"]
            f2 == [kind |-> "else", block |-> f.block, pre |-> f.pre, then_env |-> T, then_closed |-> closed]
            z == Note(Append(f.pre, << >>), Append(p, pl))
<1>1. /\ open # << >> /\ f.kind = "then" /\ Emit(A \o <<i>>) /\ open' = Append(Front(open), f2)
      /\ scopes' = Append(f.pre, << >>) /\ closed' = FALSE
  BY DEF Else, PushScope
<1>2. PICK h, x :
           /\ Trace(cs, h, x, open)
           /\ NoteOK(x) /\ x.live = ~closed
           /\ x.live => /\ x.extra = {} /\ x.path = PathOf(open) /\ SealedButTasks(x, T)
                        /\ EnvOK(scopes) /\ EnvOK(T) /\ Len(T) = Len(open)
                        /\ \A d \in DOMAIN T : T[d] = scopes[d] /\ x.env[d] = scopes[d]
  BY <1>1, Ending
<1>3. IsSeq(code)
  BY DEF Good, Trace
<1>4. code' = Append(cs, i)
  <2>1. IsSeq(A)
    BY EndsSeq
  <2>2. code' = code \o (A \o <<i>>)
    BY <1>1 DEF Emit
  <2>. HIDE DEF A, i
  <2>. QED
    BY <1>3, <2>1, <2>2, CatLast
<1>5. i.op = "else" /\ i.block = f.block
  OBVIOUS
<1>6. /\ f2.kind = "else" /\ f2.block = f.block /\ f2.pre = f.pre /\ f2.then_env = T /\ f2.then_closed = closed
  OBVIOUS
<1>. HIDE DEF A, i, f2, T, cs
<1>. DEFINE C == Cells(cs, h)
<1>7. State(C, x, open)
  BY <1>2 DEF Trace
<1>8. /\ FrameOK(C, f, p) /\ f.block \in Nat \ {0} /\ EnvOK(f.pre) /\ Len(f.pre) = n
      /\ IsSeq(p) /\ Len(p) = n /\ DOMAIN p = 1 .. n
      /\ Stand(Note(f.pre, p), C)
      /\ \A d \in DOMAIN p : p[d].block # f.block
  <2>. HIDE DEF C
  <2>. QED
    BY <1>1, <1>7, LastFrame
<1>9. ~HasMark(C, "else", i.block)
  BY <1>1, <1>5, <1>8 DEF FrameOK, ThenOK
<1>10. NoteOK(Note(f.pre, p))
  <2>1. Typed(C)
    BY <1>7 DEF State
  <2>. HIDE DEF C, f, p, n
  <2>. QED
    BY <1>8, <2>1, FrameNote
<1>11. NoteOK(z)
  <2>. DEFINE w == Note(f.pre, p)
  <2>1. w.live /\ w.env = f.pre /\ w.path = p /\ NoteOK(w)
    BY <1>10 DEF Note
  <2>2. << >> \in Scope /\ DOMAIN << >> = {}
    BY EmptyScope
  <2>3. "else" \in PlaceKinds
    BY DEF PlaceKinds
  <2>. HIDE DEF w, f, p
  <2>. QED
    BY <1>8, <2>1, <2>2, <2>3, PushedOK
<1>. DEFINE c == Cell3(i, x, z)
<1>12. c.ins = i /\ c.a = x /\ c.z = z /\ c = Cell3(c.ins, c.a, c.z)
  BY CellIs
<1>. HIDE DEF c, z
<1>13. CellOK(c)
  <2>1. i.op \notin Straights /\ i.op \notin Opens /\ i.op \notin Exits /\ i.op \in Closers /\ i.op \in Ends /\ i.op # "return"
    BY <1>5 DEF Straights, Opens, Ends, Exits, Closers
  <2>2. i.op \notin {"let", "set", "drop", "use", "call", "spawn", "join", "freebuf"}
    BY <2>1 DEF Straights
  <2>. QED
    BY <1>2, <1>11, <1>12, <2>1, <2>2 DEF CellOK
<1>14. State(C \cup {c}, c.z, Append(Front(open), f2))
  <2>1. c.ins.op = "else" /\ c.ins.block = Last(open).block
    BY <1>5, <1>12
  <2>2. x.live => SealedButTasks(x, T) /\ EnvOK(T) /\ Len(T) = Len(open)
    BY <1>2
  <2>3. f2.then_closed = ~x.live
    BY <1>2, <1>6
  <2>4. c.z = Note(Append(f2.pre, << >>), Append(Until(PathOf(open), Len(open)), [block |-> f2.block, kind |-> "else"]))
    BY <1>6, <1>12 DEF z
  <2>5. f2.kind = "else" /\ f2.block = Last(open).block /\ f2.pre = Last(open).pre /\ f2.then_env = T /\ Last(open).kind = "then"
    BY <1>1, <1>6
  <2>. HIDE DEF C, f
  <2>. QED
    BY <1>1, <1>7, <1>12, <1>13, <2>1, <2>2, <2>3, <2>4, <2>5, Elsing
<1>15. Trace(Append(cs, i), Append(h, z), z, Append(Front(open), f2))
  <2>1. State(Cells(cs, h) \cup {Cell3(i, x, z)}, z, Append(Front(open), f2))
    BY <1>12, <1>14 DEF c
  <2>2. i.op \notin Opens
    BY <1>5 DEF Opens
  <2>. QED
    BY <1>2, <1>9, <2>1, <2>2, Written
<1>16. Current' = z
  <2>1. IsSeq(open)
    BY <1>7 DEF State
  <2>2. PathOf(Front(open)) = Until(PathOf(open), Len(open))
    BY <1>1, <2>1, PathFront
  <2>3. IsSeq(Front(open))
    BY <1>1, <2>1, SeqFront
  <2>4. PathOf(Append(Front(open), f2)) = Append(PathOf(Front(open)), [block |-> f2.block, kind |-> f2.kind])
    BY <2>3, PathAppend
  <2>5. Current' = Note(Append(f.pre, << >>), PathOf(Append(Front(open), f2)))
    BY <1>1 DEF Current
  <2>. QED
    BY <1>6, <2>2, <2>4, <2>5 DEF z
<1>17. Trace(code', Append(h, z), Current', open')
  BY <1>1, <1>4, <1>15, <1>16
<1>. QED
  BY <1>17 DEF Good

Ended(s, t, i, j, u, v, w) ==
  /\ s \o ((t \o u) \o v) = Append(s \o t, i)
  /\ s \o ((t \o u) \o w) = Append(Append(s \o t, i), j)

(* The end of a loop: what it writes, in sequence.                          *)
LEMMA CatEnds ==
  ASSUME NEW s, IsSeq(s), NEW t, IsSeq(t), NEW i, NEW j, NEW u, u = <<i>>, NEW v, v = << >>, NEW w, w = <<j>>
  PROVE  Ended(s, t, i, j, u, v, w)
<1>. DEFINE tu == t \o u
            st == s \o t
<1>1. IsSeq(u) /\ IsSeq(w)
  BY IsSeqs
<1>2. IsSeq(st) /\ IsSeq(tu)
  BY <1>1, CatIs
<1>3. s \o tu = Append(st, i)
  <2>1. s \o (t \o <<i>>) = Append(s \o t, i)
    BY CatLast
  <2>. QED
    BY <2>1
<1>. HIDE DEF tu
<1>4. tu \o v = tu
  BY <1>2, CatIs
<1>5. s \o (tu \o w) = (s \o tu) \o w
  BY <1>1, <1>2, CatAssoc
<1>. HIDE DEF st
<1>6. IsSeq(Append(st, i))
  BY <1>2, SeqAppend
<1>7. Append(st, i) \o w = Append(Append(st, i), j)
  <2>1. Append(st, i) \o <<j>> = Append(Append(st, i), j)
    BY <1>6, CatIs
  <2>. QED
    BY <2>1
<1>8. s \o (tu \o w) = Append(Append(st, i), j)
  BY ONLY <1>3, <1>5, <1>7
<1>9. s \o (tu \o v) = Append(st, i)
  BY ONLY <1>3, <1>4
<1>. QED
  BY <1>8, <1>9 DEF tu, st, Ended

(* What a note knows of the bindings outside a body it stands in.           *)
LEMMA PreSince ==
  ASSUME NEW C, NEW x, NEW o, State(C, x, o), x.live, x.extra = {}, NEW m \in DOMAIN o
  PROVE  Since(o[m].pre, x.env)
<1>1. IsSeq(o) /\ HasOpen(C, o[m].block) /\ DOMAIN o = 1 .. Len(o) /\ Len(o) \in Nat
  BY FramesAre
<1>2. PICK h \in C : h.ins.op \in Opens /\ h.ins.block = o[m].block
  BY <1>1 DEF HasOpen
<1>3. Base(h) = o[m].pre
  <2>1. HeadIs(o, m, h)
    BY <1>2, HeadOf
  <2>. QED
    BY <2>1 DEF HeadIs
<1>4. x.path = PathOf(o) /\ Inside(x, h)
  BY DEF State, Stand, Sits
<1>5. m + 1 \in DOMAIN PathOf(o) /\ PathOf(o)[m + 1].block = o[m].block
  <2>1. PathOf(o)[m + 1] = [block |-> o[m].block, kind |-> o[m].kind] /\ DOMAIN PathOf(o) = 1 .. Len(o) + 1
    BY <1>1, PathOfIs
  <2>. QED
    BY <1>1, <2>1
<1>6. InBody(x, h, m + 1)
  BY <1>2, <1>4, <1>5 DEF Inside
<1>. QED
  BY <1>3, <1>6 DEF InBody

(* A balanced body leaves the bindings outside as it found them.            *)
LEMMA BalancedEnd ==
  ASSUME NEW C, NEW x, State(C, x, open), open # << >>, x.live, x.extra = {},
         NEW T, EnvOK(T), Len(T) = Len(open), \A d \in DOMAIN T : x.env[d] = T[d],
         Balanced(Last(open).pre, T), SealedButTasks(x, T)
  PROVE  SealedButTasks(x, Last(open).pre)
<1>. DEFINE n == Len(open)
            P == Last(open).pre
<1>1. EnvOK(P) /\ Len(P) = n /\ n \in Nat \ {0} /\ IsSeq(open)
  BY LastFrame, ZenonT(60) DEF State
<1>2. DOMAIN P = 1 .. n /\ DOMAIN T = 1 .. n
  BY <1>1, EnvIs
<1>3. Since(P, x.env)
  <2>1. n \in DOMAIN open /\ Last(open) = open[n]
    BY <1>1, SeqFront
  <2>. QED
    BY <2>1, PreSince
<1>4. Since(P, T)
  <2>. HIDE DEF P
  <2>. QED
    BY <1>2, <1>3 DEF Since
<1>5. \A d \in DOMAIN P : T[d] = P[d]
  <2>1. Len(P) <= Len(T) /\ Balanced(P, T)
    BY <1>1
  <2>. HIDE DEF P
  <2>. QED
    BY <1>1, <1>4, <2>1, BalancedSame
<1>. HIDE DEF P, n
<1>. QED
  BY <1>1, <1>2, <1>5 DEF SealedButTasks, P

(* The frame of a loop that consumes a collection.                          *)
LEMMA OwnFrame ==
  ASSUME NEW C, NEW x, State(C, x, open), open # << >>, Last(open).kind = "for own"
  PROVE  /\ Last(open).coll \in Names
         /\ \E d \in DOMAIN Last(open).pre :
              /\ Last(open).coll \in DOMAIN Last(open).pre[d]
              /\ Last(open).pre[d][Last(open).coll].moved
              /\ Last(open).pre[d][Last(open).coll].ty = "nest"
<1>. DEFINE n == Len(open)
            f == Last(open)
<1>1. n \in DOMAIN open /\ f = open[n] /\ HasOpen(C, f.block) /\ EnvOK(f.pre)
  <2>1. IsSeq(open)
    BY DEF State
  <2>2. n \in DOMAIN open /\ f = open[n]
    BY <2>1, SeqFront
  <2>. HIDE DEF f
  <2>. QED
    BY <2>2, FramesAre
<1>2. PICK h \in C : h.ins.op \in Opens /\ h.ins.block = f.block
  BY <1>1 DEF HasOpen
<1>3. HeadIs(open, n, h)
  BY <1>1, <1>2, HeadOf
<1>4. CellOK(h) /\ Base(h) = f.pre /\ Kind(h.ins, f.kind)
  BY <1>1, <1>3 DEF HeadIs, Heads
<1>5. h.ins.op = "for"
  BY <1>2, <1>4 DEF Opens, Kind, KindOf
<1>6. h.ins.own /\ f.coll = h.ins.coll
  BY <1>1, <1>3, <1>5 DEF HeadIs
<1>. HIDE DEF f, n
<1>7. /\ DOMAIN Base(h) = DOMAIN h.a.env
      /\ \A d \in DOMAIN h.a.env : DOMAIN Base(h)[d] = DOMAIN h.a.env[d]
      /\ \A d \in DOMAIN h.a.env : h.ins.coll \in DOMAIN h.a.env[d] =>
              /\ Base(h)[d][h.ins.coll].moved = h.ins.own
              /\ Base(h)[d][h.ins.coll].ty = "nest"
      /\ \E d \in DOMAIN h.a.env : h.ins.coll \in DOMAIN h.a.env[d]
  BY <1>2, <1>4, <1>5, BaseIs, ZenonT(60)
<1>8. PICK d \in DOMAIN h.a.env : h.ins.coll \in DOMAIN h.a.env[d]
  BY <1>7
<1>9. d \in DOMAIN f.pre /\ f.coll \in DOMAIN f.pre[d] /\ f.pre[d][f.coll].moved /\ f.pre[d][f.coll].ty = "nest"
  BY <1>4, <1>6, <1>7, <1>8
<1>10. f.coll \in Names
  BY <1>1, <1>9, EnvIs, ZenonT(60)
<1>. QED
  BY <1>9, <1>10 DEF f

(* The free of a consumed collection's buffer, written after its loop.      *)
LEMMA FreeWritten ==
  ASSUME NEW cs, NEW g, NEW o, NEW E, NEW p, NEW m, NEW z, z = WithExtra(E, p, {m}), Trace(cs, g, z, o),
         NoteOK(z), Stand(Note(E, p), Cells(cs, g)), m \in Names,
         \E d \in DOMAIN E : m \in DOMAIN E[d] /\ E[d][m].moved /\ E[d][m].ty = "nest",
         NEW i, i.op = "freebuf", i.n = m
  PROVE  Trace(Append(cs, i), Append(g, Note(E, p)), Note(E, p), o)
<1>. DEFINE C == Cells(cs, g)
            y == Note(E, p)
            c == Cell3(i, z, y)
<1>1. z.live /\ z.env = E /\ z.path = p /\ z.extra = {m}
  BY DEF WithExtra
<1>2. y.live /\ y.env = E /\ y.path = p /\ y.extra = {}
  BY DEF Note
<1>3. NoteOK(y)
  <2>1. EnvOK(E)
    BY <1>1 DEF NoteOK
  <2>. QED
    BY <1>1, <2>1, NoteFrom
<1>4. c.ins = i /\ c.a = z /\ c.z = y
  BY CellIs
<1>5. State(C, z, o)
  BY DEF Trace
<1>6. FreeOK(Cell3(i, z, y))
  <2>1. c.a.extra = {c.ins.n} /\ c.ins.n \in Names /\ c.z = Note(c.a.env, c.a.path)
    BY <1>1, <1>4
  <2>2. \E d \in DOMAIN c.a.env : /\ c.ins.n \in DOMAIN c.a.env[d] /\ c.a.env[d][c.ins.n].moved
                                  /\ c.a.env[d][c.ins.n].ty = "nest"
    BY <1>1, <1>4, SMTT(60)
  <2>3. FreeOK(c)
    BY <2>1, <2>2 DEF FreeOK
  <2>. QED
    BY <2>3
<1>7. i.op \in Straights /\ i.op \notin Opens /\ i.op \notin Opens \cup {"spawn", "join"} /\ i.op # "else"
  BY DEF Straights, Opens
<1>8. CellOK(c)
  <2>. HIDE DEF y
  <2>. QED
    BY <1>1, <1>3, <1>6, <1>7, StraightCell
<1>. HIDE DEF c, C
<1>9. Stand(y, C \cup {c})
  <2>1. Stand(y, C)
    BY DEF C
  <2>2. \A e \in (C \cup {c}) \ C : e.ins.op \notin Opens \cup {"spawn", "join"}
    BY <1>4, <1>7
  <2>. HIDE DEF y
  <2>. QED
    BY <2>1, <2>2, StandGrow
<1>. HIDE DEF y
<1>10. State(C \cup {c}, c.z, o)
  BY <1>1, <1>2, <1>4, <1>5, <1>7, <1>8, <1>9, Straight
<1>11. State(Cells(cs, g) \cup {Cell3(i, z, y)}, y, o)
  BY <1>4, <1>10 DEF C, c
<1>. QED
  BY <1>7, <1>11, Written DEF y

(* The end of a loop keeps the pass good.                                   *)
LEMMA EndLoopKeeps ==
  ASSUME Good, closed \in BOOLEAN, EndLoop
  PROVE  Good'
<1>. DEFINE A == IF closed THEN << >> ELSE ScopeDrops(scopes)
            cs == code \o A
            f == Last(open)
            n == Len(open)
            p == Until(PathOf(open), n)
            T == Front(scopes)
            i == [op |-> "endloop", block |-> f.block]
            j == [op |-> "freebuf", n |-> f.coll]
            X == IF f.kind = "for own" THEN {f.coll} ELSE {}
            z == WithExtra(f.pre, p, X)
<1>1. /\ open # << >> /\ f.kind \notin {"then", "else"}
      /\ closed \/ Balanced(f.pre, T)
      /\ Emit(A \o <<i>> \o (IF f.kind = "for own" THEN <<j>> ELSE << >>))
      /\ open' = Front(open) /\ scopes' = f.pre /\ closed' = FALSE
  BY DEF EndLoop, IsLoop
<1>2. PICK h, x :
           /\ Trace(cs, h, x, open)
           /\ NoteOK(x) /\ x.live = ~closed
           /\ x.live => /\ x.extra = {} /\ x.path = PathOf(open) /\ SealedButTasks(x, T)
                        /\ EnvOK(scopes) /\ EnvOK(T) /\ Len(T) = Len(open)
                        /\ \A d \in DOMAIN T : T[d] = scopes[d] /\ x.env[d] = scopes[d]
  BY <1>1, Ending
<1>3. IsSeq(code)
  BY DEF Good, Trace
<1>4. code' = IF f.kind = "for own" THEN Append(Append(cs, i), j) ELSE Append(cs, i)
  <2>1. IsSeq(A)
    BY EndsSeq
  <2>2. code' = code \o (A \o <<i>> \o (IF f.kind = "for own" THEN <<j>> ELSE << >>))
    BY <1>1 DEF Emit
  <2>. DEFINE u == <<i>>
              v == << >>
              w == <<j>>
  <2>3. u = <<i>> /\ v = << >> /\ w = <<j>>
    OBVIOUS
  <2>4. code' = code \o ((A \o u) \o (IF f.kind = "for own" THEN w ELSE v))
    BY <2>2
  <2>. HIDE DEF A, i, j, f, u, v, w
  <2>5. /\ code \o ((A \o u) \o v) = Append(code \o A, i)
        /\ code \o ((A \o u) \o w) = Append(Append(code \o A, i), j)
    <3>1. Ended(code, A, i, j, u, v, w)
      BY <1>3, <2>1, <2>3, CatEnds
    <3>. QED
      BY <3>1 DEF Ended
  <2>6. CASE f.kind = "for own"
    <3>1. code' = code \o ((A \o u) \o w)
      BY <2>4, <2>6
    <3>2. code' = Append(Append(cs, i), j)
      BY ONLY <2>5, <3>1
    <3>. QED
      BY <2>6, <3>2
  <2>7. CASE f.kind # "for own"
    <3>1. code' = code \o ((A \o u) \o v)
      BY <2>4, <2>7
    <3>2. code' = Append(cs, i)
      BY ONLY <2>5, <3>1
    <3>. QED
      BY <2>7, <3>2
  <2>. QED
    BY <2>6, <2>7
<1>5. i.op = "endloop" /\ i.block = f.block /\ j.op = "freebuf" /\ j.n = f.coll
  OBVIOUS
<1>. HIDE DEF A, i, j, T, cs
<1>. DEFINE C == Cells(cs, h)
<1>6. State(C, x, open)
  BY <1>2 DEF Trace
<1>7. /\ FrameOK(C, f, p) /\ EnvOK(f.pre) /\ Len(f.pre) = n /\ Len(p) = n
  <2>. HIDE DEF C
  <2>. QED
    BY <1>1, <1>6, LastFrame
<1>8. NoteOK(Note(f.pre, p))
  <2>1. Typed(C)
    BY <1>6 DEF State
  <2>. HIDE DEF C, f, p, n
  <2>. QED
    BY <1>7, <2>1, FrameNote
<1>9. f.kind = "for own" =>
         /\ f.coll \in Names
         /\ \E d \in DOMAIN f.pre : f.coll \in DOMAIN f.pre[d] /\ f.pre[d][f.coll].moved /\ f.pre[d][f.coll].ty = "nest"
  <2>. HIDE DEF C
  <2>. QED
    BY <1>1, <1>6, OwnFrame
<1>10. X \subseteq Names \cup {"ret"}
  <2>. HIDE DEF f
  <2>. QED
    BY <1>9
<1>. HIDE DEF X
<1>11. NoteOK(z)
  <2>. DEFINE w == Note(f.pre, p)
  <2>1. w.live /\ w.env = f.pre /\ w.path = p /\ NoteOK(w)
    BY <1>8 DEF Note
  <2>. HIDE DEF w, f, p
  <2>. QED
    BY <1>7, <1>10, <2>1, NoteFrom
<1>12. x.live => SealedButTasks(x, f.pre)
  <2>. SUFFICES ASSUME x.live PROVE SealedButTasks(x, f.pre)
    OBVIOUS
  <2>1. Balanced(f.pre, T)
    BY <1>1, <1>2
  <2>2. \A d \in DOMAIN T : x.env[d] = T[d]
    BY <1>2
  <2>. HIDE DEF C
  <2>. QED
    BY <1>1, <1>2, <1>6, <2>1, <2>2, BalancedEnd
<1>. DEFINE c == Cell3(i, x, z)
<1>13. c.ins = i /\ c.a = x /\ c.z = z /\ c = Cell3(c.ins, c.a, c.z)
  BY CellIs
<1>14. z = WithExtra(f.pre, Until(PathOf(open), Len(open)), IF f.kind = "for own" THEN {f.coll} ELSE {})
  BY DEF X
<1>. HIDE DEF c
<1>15. CellOK(c)
  <2>. HIDE DEF z
  <2>1. i.op \notin Straights /\ i.op \notin Opens /\ i.op \notin Exits /\ i.op \in Closers /\ i.op \in Ends /\ i.op # "return"
    BY <1>5 DEF Straights, Opens, Ends, Exits, Closers
  <2>2. i.op \notin {"let", "set", "drop", "use", "call", "spawn", "join", "freebuf"}
    BY <2>1 DEF Straights
  <2>. QED
    BY <1>2, <1>11, <1>13, <2>1, <2>2 DEF CellOK
<1>16. /\ State(C \cup {c}, c.z, Front(open))
       /\ Stand(Note(f.pre, p), C \cup {c})
  <2>1. c.ins.op = "endloop" /\ c.ins.block = f.block
    BY <1>5, <1>13
  <2>2. c.z = WithExtra(f.pre, Until(PathOf(open), Len(open)), IF f.kind = "for own" THEN {f.coll} ELSE {})
    BY <1>13, <1>14
  <2>. HIDE DEF C, z
  <2>. QED
    BY <1>1, <1>6, <1>12, <1>13, <1>15, <2>1, <2>2, EndLooping
<1>. HIDE DEF z
<1>17. Trace(Append(cs, i), Append(h, z), z, Front(open))
  <2>1. State(Cells(cs, h) \cup {Cell3(i, x, z)}, z, Front(open))
    BY <1>13, <1>16 DEF c
  <2>2. i.op \notin Opens /\ i.op # "else"
    BY <1>5 DEF Opens
  <2>. QED
    BY <1>2, <2>1, <2>2, Written
<1>18. Cells(Append(cs, i), Append(h, z)) = C \cup {c}
  <2>1. IsSeq(cs) /\ IsSeq(h) /\ Len(h) = Len(cs) + 1 /\ h[Len(h)] = x
    BY <1>2 DEF Trace
  <2>2. Cells(Append(cs, i), Append(h, z)) = Cells(cs, h) \cup {Cell3(i, h[Len(h)], z)}
    BY <2>1, CellsAppend
  <2>. QED
    BY <2>1, <2>2 DEF c
<1>19. \E k : Trace(code', k, Note(f.pre, p), Front(open))
  <2>1. CASE f.kind = "for own"
    <3>1. z = WithExtra(f.pre, p, {f.coll}) /\ code' = Append(Append(cs, i), j)
      BY <1>4, <1>14, <2>1 DEF p
    <3>2. Stand(Note(f.pre, p), Cells(Append(cs, i), Append(h, z)))
      BY <1>16, <1>18
    <3>3. /\ f.coll \in Names
          /\ \E d \in DOMAIN f.pre : f.coll \in DOMAIN f.pre[d] /\ f.pre[d][f.coll].moved /\ f.pre[d][f.coll].ty = "nest"
      BY <1>9, <2>1
    <3>. HIDE DEF f, p
    <3>4. Trace(Append(Append(cs, i), j), Append(Append(h, z), Note(f.pre, p)), Note(f.pre, p), Front(open))
      BY <1>5, <1>11, <1>17, <3>1, <3>2, <3>3, FreeWritten
    <3>. QED
      BY <3>1, <3>4
  <2>2. CASE f.kind # "for own"
    <3>1. z = WithExtra(f.pre, p, {}) /\ code' = Append(cs, i)
      BY <1>4, <1>14, <2>2 DEF p
    <3>2. z = Note(f.pre, p)
      BY <3>1 DEF WithExtra, Note
    <3>. QED
      BY <1>17, <3>1, <3>2
  <2>. QED
    BY <2>1, <2>2
<1>20. Current' = Note(f.pre, p)
  <2>1. IsSeq(open)
    BY <1>6 DEF State
  <2>2. PathOf(Front(open)) = Until(PathOf(open), Len(open))
    BY <1>1, <2>1, PathFront
  <2>3. Current' = Note(f.pre, PathOf(Front(open)))
    BY <1>1 DEF Current
  <2>. QED
    BY <2>2, <2>3
<1>21. \E k : Trace(code', k, Current', open')
  BY <1>1, <1>19, <1>20
<1>. QED
  BY <1>21 DEF Good

(* The kinds of the open statements.                                        *)
LEMMA FrameKinds ==
  ASSUME NEW C, NEW x, NEW o, State(C, x, o), NEW m \in DOMAIN o
  PROVE  /\ o[m].kind \in {"then", "else", "while", "for ref", "for own"}
         /\ o[m].kind \notin {"then", "else"} => o[m].depth = m + 1
<1>1. HasOpen(C, o[m].block)
  BY FramesAre
<1>2. PICK h \in C : h.ins.op \in Opens /\ h.ins.block = o[m].block
  BY <1>1 DEF HasOpen
<1>3. HeadIs(o, m, h)
  BY <1>2, HeadOf
<1>4. Kind(h.ins, o[m].kind) /\ (o[m].kind \notin {"then", "else"} => o[m].depth = m + 1)
  BY <1>3 DEF HeadIs, Heads
<1>5. o[m].kind = "else" \/ o[m].kind = KindOf(h.ins)
  BY <1>4 DEF Kind
<1>6. KindOf(h.ins) \in {"then", "while", "for ref", "for own"}
  BY <1>2 DEF KindOf, Opens
<1>. QED
  BY <1>4, <1>5, <1>6

InnerBindings(E, depth) == {b \in Bindings(E) : b[1] >= depth /\ ~E[b[1]][b[2]].moved}

(* A break or a continue drops what the bodies it leaves have left.         *)
LEMMA LoopDropsAre ==
  ASSUME NEW E, EnvOK(E), NEW depth,
         \A d \in DOMAIN E : \A n \in DOMAIN E[d] : d >= depth =>
            /\ ~E[d][n].moved_field /\ ~E[d][n].no_drop
            /\ E[d][n].ty = "task" => E[d][n].moved
  PROVE  LET B == InnerBindings(E, depth) IN
         /\ LoopDrops(E, depth) = Drops(Records(E, B)) /\ Droppable(E, B)
         /\ \A d \in DOMAIN E : \A n \in DOMAIN E[d] : <<d, n>> \in B <=> d >= depth /\ ~E[d][n].moved
<1>. DEFINE B == InnerBindings(E, depth)
<1>1. \A b \in B : /\ b = <<b[1], b[2]>> /\ b[1] \in DOMAIN E /\ b[2] \in DOMAIN E[b[1]]
                   /\ b[1] >= depth /\ ~E[b[1]][b[2]].moved
  BY DEF InnerBindings, Bindings
<1>2. \A b \in B : ~E[b[1]][b[2]].moved_field /\ ~E[b[1]][b[2]].no_drop /\ E[b[1]][b[2]].ty # "task"
  <2>. HIDE DEF B
  <2>. QED
    BY <1>1
<1>3. Droppable(E, B)
  BY <1>1, <1>2 DEF Droppable, Gone
<1>4. \A d \in DOMAIN E : \A n \in DOMAIN E[d] : <<d, n>> \in B <=> d >= depth /\ ~E[d][n].moved
  BY EnvIs DEF InnerBindings, Bindings
<1>5. LoopDrops(E, depth) = Drops(Records(E, B))
  <2>. DEFINE R(b) == [n |-> b[2], depth |-> b[1], skip |-> FALSE]
              Q(b) == [n |-> b[2], depth |-> b[1], skip |-> E[b[1]][b[2]].moved_field]
  <2>1. \A b \in B : E[b[1]][b[2]].moved_field = FALSE
    <3>1. \A b \in B : E[b[1]][b[2]] \in Infos
      BY <1>1, EnvIs
    <3>2. \A b \in B : E[b[1]][b[2]].moved_field \in BOOLEAN
      <4>. HIDE DEF B
      <4>. QED
        BY <3>1, InfoIs
    <3>. QED
      BY <1>2, <3>2
  <2>2. \A b \in B : R(b) = Q(b)
    BY <2>1
  <2>3. LoopDrops(E, depth) = Drops({R(b) : b \in B})
    BY DEF LoopDrops, InnerBindings
  <2>4. Records(E, B) = {Q(b) : b \in B}
    BY DEF Records
  <2>. HIDE DEF R, Q, B
  <2>5. {R(b) : b \in B} = {Q(b) : b \in B}
    BY <2>2
  <2>. QED
    BY <2>3, <2>4, <2>5
<1>. QED
  BY <1>3, <1>4, <1>5

(* What a jump's drops leave is sealed.                                     *)
LEMMA LeaveSealed ==
  ASSUME NEW E, EnvOK(E), NEW P, EnvOK(P), NEW i \in Nat, Len(P) = i, i + 1 <= Len(E),
         \A d \in DOMAIN P : E[d] = P[d],
         NEW B, \A d \in DOMAIN E : \A n \in DOMAIN E[d] : <<d, n>> \in B <=> d >= i + 1 /\ ~E[d][n].moved,
         Droppable(E, B), NEW y, y.env = Moving(E, B)
  PROVE  Sealed(y, i + 1, P)
<1>. DEFINE F == Moving(E, B)
<1>1. /\ EnvOK(F) /\ Len(F) = Len(E) /\ DOMAIN F = DOMAIN E
      /\ \A d \in DOMAIN E : DOMAIN F[d] = DOMAIN E[d]
      /\ \A d \in DOMAIN E : \A n \in DOMAIN E[d] :
              /\ <<d, n>> \in B => F[d][n].moved
              /\ <<d, n>> \notin B => F[d][n] = E[d][n]
  BY MovedInfos
<1>2. y.env = F
  OBVIOUS
<1>. HIDE DEF F
<1>3. DOMAIN P = 1 .. i /\ DOMAIN E = 1 .. Len(E) /\ Len(E) \in Nat
  BY EnvIs
<1>4. ASSUME NEW d \in DOMAIN P PROVE F[d] = P[d]
  <2>1. d \in DOMAIN E /\ ~(d >= i + 1)
    BY ONLY <1>3, i \in Nat, i + 1 <= Len(E), d \in DOMAIN P
  <2>2. F[d] = [n \in DOMAIN F[d] |-> F[d][n]] /\ E[d] = [n \in DOMAIN E[d] |-> E[d][n]]
    BY <1>1, <2>1, EnvIs
  <2>3. \A n \in DOMAIN E[d] : F[d][n] = E[d][n]
    BY <1>1, <2>1
  <2>4. F[d] = E[d]
    BY <1>1, <2>1, <2>2, <2>3
  <2>. QED
    BY <2>4
<1>5. ASSUME NEW d \in i + 1 .. Len(F), NEW n \in DOMAIN F[d] PROVE Gone(F[d][n])
  <2>1. d \in DOMAIN E /\ d >= i + 1
    BY ONLY <1>1, <1>3, i \in Nat, d \in i + 1 .. Len(F)
  <2>2. n \in DOMAIN E[d]
    BY <1>1, <2>1
  <2>3. <<d, n>> \in B => F[d][n].moved
    BY <1>1, <2>1, <2>2
  <2>4. <<d, n>> \notin B => F[d][n] = E[d][n]
    BY <1>1, <2>1, <2>2
  <2>5. <<d, n>> \notin B => E[d][n].moved
    BY <2>1, <2>2
  <2>. QED
    BY <2>3, <2>4, <2>5 DEF Gone
<1>6. i + 1 <= Len(F) /\ Len(P) = i + 1 - 1
  BY <1>1
<1>. QED
  BY <1>2, <1>4, <1>5, <1>6 DEF Sealed

(* A jump is well formed: it leaves the bodies from a loop's on.            *)
LEMMA ExitPair ==
  ASSUME NEW C, NEW x, NEW o, State(C, x, o), NEW i \in DOMAIN o, o[i].kind \notin {"then", "else"},
         \A j \in (i + 1) .. Len(o) : o[j].kind \in {"then", "else"},
         NEW c, c.ins.op \in Exits, c.ins.block = o[i].block, c.a.path = PathOf(o),
         Sealed(c.a, i + 1, o[i].pre), c.ins.op = "break" => o[i].kind # "for own",
         NEW h \in C
  PROVE  PairOK(h, c)
<1>. SUFFICES ASSUME h.ins.op \in Opens, h.ins.block = o[i].block
              PROVE  /\ h.ins.op # "if"
                     /\ ExitOK(h, c)
  BY DEF PairOK, Exits
<1>1. HeadIs(o, i, h)
  BY HeadOf
<1>2. /\ h.a.path = Until(PathOf(o), i) /\ Len(h.a.path) = i /\ Base(h) = o[i].pre /\ h.ins.op # "if"
      /\ Kind(h.ins, o[i].kind) /\ h.ins.block = o[i].block
      /\ h.ins.op = "for" => (h.ins.own <=> o[i].kind = "for own")
  BY <1>1 DEF HeadIs, Heads
<1>3. /\ Len(o) \in Nat /\ DOMAIN o = 1 .. Len(o) /\ IsSeq(o)
  BY FramesAre
<1>4. /\ DOMAIN PathOf(o) = 1 .. Len(o) + 1 /\ Len(PathOf(o)) = Len(o) + 1
      /\ \A m \in 1 .. Len(o) : PathOf(o)[m + 1] = [block |-> o[m].block, kind |-> o[m].kind]
      /\ \A m \in 1 .. Len(o) + 1 :
              /\ DOMAIN Until(PathOf(o), m) = 1 .. m
              /\ \A d \in 1 .. m : Until(PathOf(o), m)[d] = PathOf(o)[d]
  BY <1>3, PathOfIs
<1>5. i \in 1 .. Len(o) /\ i \in 1 .. Len(o) + 1
  BY ONLY <1>3, i \in DOMAIN o
<1>6. Len(h.a.path) < Len(c.a.path)
  <2>1. i < Len(o) + 1
    BY ONLY <1>3, <1>5
  <2>. QED
    BY <1>2, <1>4, <2>1
<1>7. \A d \in DOMAIN h.a.path : c.a.path[d] = h.a.path[d]
  <2>1. DOMAIN Until(PathOf(o), i) = 1 .. i /\ \A d \in 1 .. i : Until(PathOf(o), i)[d] = PathOf(o)[d]
    BY ONLY <1>4, <1>5
  <2>. QED
    BY <1>2, <2>1, ZenonT(60)
<1>8. c.a.path[Len(h.a.path) + 1] = [block |-> h.ins.block, kind |-> KindOf(h.ins)]
  <2>1. o[i].kind = KindOf(h.ins)
    BY <1>2 DEF Kind
  <2>. QED
    BY <1>2, <1>4, <1>5, <2>1, ZenonT(60)
<1>9. Sealed(c.a, Len(h.a.path) + 1, Base(h))
  BY <1>2
<1>10. \A d \in Len(h.a.path) + 2 .. Len(c.a.path) : c.a.path[d].kind \in {"then", "else"}
  <2>. SUFFICES ASSUME NEW d \in i + 2 .. Len(o) + 1 PROVE PathOf(o)[d].kind \in {"then", "else"}
    BY <1>2, <1>4
  <2>1. PICK j \in (i + 1) .. Len(o) : d = j + 1
    <3>1. d - 1 \in (i + 1) .. Len(o) /\ d = (d - 1) + 1
      BY ONLY <1>3, <1>5, d \in i + 2 .. Len(o) + 1
    <3>. QED
      BY <3>1
  <2>2. j \in 1 .. Len(o)
    BY ONLY <1>3, <1>5, j \in (i + 1) .. Len(o)
  <2>3. PathOf(o)[j + 1] = [block |-> o[j].block, kind |-> o[j].kind]
    BY ONLY <1>4, <2>2
  <2>4. PathOf(o)[d].kind = o[j].kind
    BY ONLY <2>1, <2>3
  <2>5. o[j].kind \in {"then", "else"}
    BY <2>1
  <2>. QED
    BY <2>4, <2>5
<1>11. c.ins.op = "break" => ~Owning(h.ins)
  BY <1>2 DEF Owning
<1>12. ExitOK(h, c)
  BY <1>6, <1>7, <1>8, <1>9, <1>10, <1>11 DEF ExitOK
<1>. QED
  BY <1>2, <1>12

(* A break or a continue keeps the pass good.                               *)
LEMMA LeaveKeeps ==
  ASSUME Tame, menu \in Menus, Good, NEW op \in {"break", "continue"}, Leave(op)
  PROVE  Good'
<1>1. PICK g : Ready(g)
  BY GoodReady DEF Leave, Statement
<1>2. PICK i \in DOMAIN open :
       /\ IsLoop(open[i])
       /\ \A j \in (i + 1) .. Len(open) : ~IsLoop(open[j])
       /\ MayLeave(open[i].depth, op)
       /\ Balanced(open[i].pre, scopes)
       /\ Emit(LoopDrops(scopes, open[i].depth) \o <<[op |-> op, block |-> open[i].block]>>)
  BY DEF Leave
<1>3. scopes' = scopes /\ open' = open /\ closed' = TRUE
  BY DEF Leave
<1>. DEFINE E == scopes
            p == PathOf(open)
            x == Note(E, p)
            depth == open[i].depth
            B == InnerBindings(E, depth)
            F == Moving(E, B)
            y == Note(F, p)
            s == [op |-> op, block |-> open[i].block]
            P == open[i].pre
            A == Drops(Records(E, B))
            cs == code \o A
<1>4. /\ EnvOK(E) /\ IsSeq(open) /\ Len(E) = Len(open) + 1 /\ IsSeq(code)
      /\ NoteOK(x) /\ x.live /\ x.extra = {} /\ x.env = E /\ x.path = p
      /\ DOMAIN E = 1 .. Len(E) /\ Len(open) \in Nat
      /\ Trace(code, g, x, open) /\ State(Cells(code, g), x, open)
  BY <1>1, ReadyIs DEF Ready
<1>5. DOMAIN open = 1 .. Len(open) /\ EnvOK(P) /\ Len(P) = i /\ i \in 1 .. Len(open)
      /\ \A m \in DOMAIN open : open[m].block # 0
  <2>. HIDE DEF E, p, x
  <2>. QED
    BY <1>4, FramesAre
<1>6. /\ \A m \in DOMAIN open : open[m].kind \in {"then", "else", "while", "for ref", "for own"}
      /\ \A m \in DOMAIN open : open[m].kind \notin {"then", "else"} => open[m].depth = m + 1
  <2>. HIDE DEF E, p, x
  <2>. DEFINE C == Cells(code, g)
  <2>1. State(C, x, open)
    BY <1>4
  <2>. HIDE DEF C
  <2>2. ASSUME NEW m \in DOMAIN open
        PROVE  /\ open[m].kind \in {"then", "else", "while", "for ref", "for own"}
               /\ open[m].kind \notin {"then", "else"} => open[m].depth = m + 1
    BY <2>1, FrameKinds
  <2>. QED
    BY <2>2
<1>7. open[i].kind \notin {"then", "else"} /\ depth = i + 1
  BY <1>2, <1>6 DEF IsLoop
<1>8. \A j \in (i + 1) .. Len(open) : open[j].kind \in {"then", "else"}
  <2>1. \A j \in (i + 1) .. Len(open) : j \in DOMAIN open
    BY ONLY <1>4, <1>5
  <2>. QED
    BY <1>2, <1>6, <2>1 DEF IsLoop
<1>9. /\ \A d \in DOMAIN E : \A n \in DOMAIN E[d] : d >= depth =>
            /\ ~E[d][n].moved_field /\ ~E[d][n].no_drop
            /\ E[d][n].ty = "task" => E[d][n].moved
      /\ op # "continue" => open[i].kind # "for own"
  <2>1. /\ \A d \in DOMAIN scopes : \A n \in DOMAIN scopes[d] : d >= depth =>
              /\ op # "return" => ~scopes[d][n].moved_field /\ ~scopes[d][n].no_drop
              /\ scopes[d][n].ty = "task" => scopes[d][n].moved
        /\ op # "continue" => \A k \in DOMAIN open : open[k].kind = "for own" => ~(open[k].depth >= depth)
    BY <1>2, <1>4, LeaveIs
  <2>2. op # "return"
    OBVIOUS
  <2>3. depth >= depth
    BY <1>5, <1>7
  <2>. QED
    BY <2>1, <2>2, <2>3
<1>10. /\ LoopDrops(E, depth) = A /\ Droppable(E, B)
       /\ \A d \in DOMAIN E : \A n \in DOMAIN E[d] : <<d, n>> \in B <=> d >= depth /\ ~E[d][n].moved
  <2>. HIDE DEF E, depth
  <2>. QED
    BY <1>4, <1>9, LoopDropsAre
<1>11. code' = Append(cs, s)
  <2>1. code' = code \o (A \o <<s>>)
    BY <1>2, <1>10 DEF Emit
  <2>2. IsSeq(A)
    BY IsSeqs
  <2>. HIDE DEF A, s
  <2>. QED
    BY <1>4, <2>1, <2>2, CatLast
<1>12. s.op = op /\ s.block = open[i].block
  OBVIOUS
<1>. HIDE DEF s, B, E, p, x
<1>13. /\ EnvOK(F) /\ Len(F) = Len(E)
  BY <1>4, <1>10, MovedInfos
<1>14. Kept(open, E, F)
  <2>1. \A d \in DOMAIN E : \A n \in DOMAIN E[d] : <<d, n>> \in B =>
            /\ ~E[d][n].no_drop
            /\ d # Len(E) => E[d][n].ty # "task" /\ ~E[d][n].moved_field
    BY <1>9, <1>10
  <2>2. ASSUME NEW m \in DOMAIN open, open[m].kind \in {"for ref", "for own"},
               NEW d \in DOMAIN E, d <= m, open[m].coll \in DOMAIN E[d]
        PROVE  <<d, open[m].coll>> \notin B
    <3>1. ~(m \in (i + 1) .. Len(open))
      BY <1>8, <2>2
    <3>2. d \in Nat /\ m \in 1 .. Len(open) /\ i \in 1 .. Len(open) /\ Len(open) \in Nat /\ d <= m
      <4>1. m \in 1 .. Len(open)
        BY <1>5
      <4>2. d \in Nat
        <5>1. DOMAIN E = 1 .. Len(E) /\ Len(E) \in Nat
          BY <1>4, EnvIs
        <5>. QED
          BY ONLY <5>1, d \in DOMAIN E
      <4>3. d <= m
        BY <2>2
      <4>. QED
        BY <1>4, <1>5, <4>1, <4>2, <4>3
    <3>3. ~(d >= i + 1)
      BY ONLY <3>1, <3>2
    <3>. QED
      BY <1>7, <1>10, <2>2, <3>3
  <2>3. \A m \in DOMAIN open : open[m].kind \in {"for ref", "for own"} =>
            \A d \in DOMAIN E : d <= m /\ open[m].coll \in DOMAIN E[d] => <<d, open[m].coll>> \notin B
    BY <2>2
  <2>. QED
    BY <1>4, <2>1, <2>3, MovingKept
<1>15. PICK h : Trace(cs, h, y, open)
  <2>1. Droppable(x.env, B) /\ Kept(open, x.env, Moving(x.env, B))
    BY <1>4, <1>10, <1>14
  <2>2. \E h : Trace(code \o Drops(Records(x.env, B)), h, Note(Moving(x.env, B), x.path), open)
    BY <1>4, <2>1, DropsWritten
  <2>. QED
    BY <1>4, <2>2
<1>16. NoteOK(y) /\ y.live /\ y.extra = {} /\ y.path = p /\ y.env = F
  <2>1. NoteOK(y)
    BY <1>4, <1>13, NoteFrom
  <2>. HIDE DEF F
  <2>. QED
    BY <2>1 DEF Note
<1>17. Sealed(y, i + 1, P)
  <2>1. Since(P, E)
    BY <1>4, PreSince
  <2>2. \A d \in DOMAIN P : E[d] = P[d]
    <3>1. Len(P) <= Len(E) /\ Balanced(P, E)
      BY <1>2, <1>4, <1>5 DEF E
    <3>. HIDE DEF P
    <3>. QED
      BY <1>4, <1>5, <2>1, <3>1, BalancedSame
  <2>3. i \in Nat /\ i + 1 <= Len(E)
    BY ONLY <1>4, <1>5
  <2>4. \A d \in DOMAIN E : \A n \in DOMAIN E[d] : <<d, n>> \in B <=> d >= i + 1 /\ ~E[d][n].moved
    BY <1>7, <1>10
  <2>. HIDE DEF P, y, depth
  <2>. QED
    BY <1>4, <1>5, <1>10, <1>16, <2>2, <2>3, <2>4, LeaveSealed
<1>. HIDE DEF y, F, depth, cs
<1>. DEFINE C == Cells(cs, h)
            c == Cell3(s, y, Dead)
<1>18. c.ins = s /\ c.a = y /\ c.z = Dead /\ c = Cell3(c.ins, c.a, c.z)
  BY CellIs
<1>19. s.op \in Exits /\ s.op \in Ends /\ s.op \notin Closers /\ s.op \notin Straights /\ s.op \notin Opens /\ s.op # "return" /\ s.op # "else"
  BY <1>12 DEF Exits, Ends, Closers, Straights, Opens
<1>. HIDE DEF c
<1>20. CellOK(c)
  <2>1. s.op \notin {"let", "set", "drop", "use", "call", "spawn", "join", "freebuf"}
    BY <1>19 DEF Straights
  <2>2. NoteOK(Dead)
    BY DEF Dead, NoteOK
  <2>. QED
    BY <1>16, <1>18, <1>19, <2>1, <2>2 DEF CellOK
<1>21. State(C, y, open)
  BY <1>15 DEF Trace
<1>. HIDE DEF C
<1>22. HasOpen(C, c.ins.block)
  BY <1>12, <1>18, <1>21, FramesAre
<1>23. \A k \in C : PairOK(k, c)
  <2>1. c.ins.op = "break" => open[i].kind # "for own"
    BY <1>9, <1>12, <1>18
  <2>2. c.a.path = PathOf(open) /\ Sealed(c.a, i + 1, open[i].pre) /\ c.ins.op \in Exits /\ c.ins.block = open[i].block
    BY <1>12, <1>16, <1>17, <1>18, <1>19 DEF p
  <2>. QED
    BY <1>7, <1>8, <1>21, <2>1, <2>2, ExitPair
<1>24. State(C \cup {c}, Dead, open)
  BY <1>18, <1>19, <1>20, <1>21, <1>22, <1>23, Exiting
<1>25. Trace(Append(cs, s), Append(h, Dead), Dead, open)
  <2>1. State(Cells(cs, h) \cup {Cell3(s, y, Dead)}, Dead, open)
    BY <1>24 DEF C, c
  <2>. QED
    BY <1>15, <1>19, <2>1, Written
<1>26. Current' = Dead
  BY <1>3 DEF Current
<1>27. Trace(code', Append(h, Dead), Current', open')
  BY <1>3, <1>11, <1>25, <1>26
<1>. QED
  BY <1>27 DEF Good
=============================================================================
