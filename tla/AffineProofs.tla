---------------------------- MODULE AffineProofs ----------------------------
(***************************************************************************)
(* A body that the ownership checker accepts joins every task it spawns    *)
(* and names only variables that the C code has declared, for any names,   *)
(* menus and lengths.  The proof has two halves.                           *)
(*                                                                         *)
(* The pass.  Every operation keeps the notes of AffineNotes or writes a   *)
(* body that the affinity check refuses (Pass).  At the end of the pass    *)
(* the notes are Settled: from every instruction the Env before it and the *)
(* Env of where the C code goes from there agree on what is bound, what is *)
(* moved and what is a handle.                                             *)
(*                                                                         *)
(* The run.  The C blocks hold the variables of the note at pc, every      *)
(* handle that the Env calls unjoined has its task, and every task that    *)
(* has not ended has such a handle (Runs).  Every step goes from the note  *)
(* at pc to the note at the next pc; a return is at a note where nothing   *)
(* is left, so every task has been joined by then.                         *)
(***************************************************************************)
EXTENDS AffineNotes

-----------------------------------------------------------------------------
(* The merge of two branches                                                *)

(* What the branch that ends with T still has and the one with F moved.     *)
Torn(P, T, F) == {b \in Bindings(P) : ~T[b[1]][b[2]].moved /\ F[b[1]][b[2]].moved}

(* Two branches of a conditional that P stands before.                      *)
Branches(P, T, F) ==
  /\ EnvOK(P) /\ EnvOK(T) /\ EnvOK(F) /\ Len(T) = Len(P) /\ Len(F) = Len(P)
  /\ Since(P, T) /\ Since(P, F)

(* Two branches bind the same names to the same types.                      *)
LEMMA BranchesIs ==
  ASSUME NEW P, NEW T, NEW F, Branches(P, T, F)
  PROVE  /\ Len(P) \in Nat \ {0} /\ DOMAIN P = 1 .. Len(P) /\ DOMAIN T = DOMAIN P /\ DOMAIN F = DOMAIN P
         /\ \A d \in DOMAIN P : DOMAIN T[d] = DOMAIN P[d] /\ DOMAIN F[d] = DOMAIN P[d] /\ DOMAIN P[d] \subseteq Names
         /\ \A d \in DOMAIN P : \A n \in DOMAIN P[d] :
              /\ P[d][n] \in Infos /\ T[d][n] \in Infos /\ F[d][n] \in Infos
              /\ T[d][n] = [P[d][n] EXCEPT !.moved = T[d][n].moved]
              /\ F[d][n] = [P[d][n] EXCEPT !.moved = F[d][n].moved]
              /\ P[d][n].ty = "task" \/ P[d][n].moved_field => T[d][n] = P[d][n] /\ F[d][n] = P[d][n]
<1>1. EnvOK(P) /\ EnvOK(T) /\ EnvOK(F) /\ Len(T) = Len(P) /\ Len(F) = Len(P) /\ Since(P, T) /\ Since(P, F)
  BY DEF Branches
<1>2. /\ Len(P) \in Nat \ {0} /\ DOMAIN P = 1 .. Len(P)
      /\ \A d \in DOMAIN P : DOMAIN P[d] \subseteq Names /\ \A n \in DOMAIN P[d] : P[d][n] \in Infos
  BY ONLY <1>1, EnvIs
<1>3. DOMAIN T = 1 .. Len(T) /\ \A d \in DOMAIN T : \A n \in DOMAIN T[d] : T[d][n] \in Infos
  BY ONLY <1>1, EnvIs
<1>4. DOMAIN F = 1 .. Len(F) /\ \A d \in DOMAIN F : \A n \in DOMAIN F[d] : F[d][n] \in Infos
  BY ONLY <1>1, EnvIs
<1>5. DOMAIN T = DOMAIN P /\ DOMAIN F = DOMAIN P
  BY <1>1, <1>2, <1>3, <1>4
<1>6. \A d \in DOMAIN P : DOMAIN T[d] = DOMAIN P[d] /\ DOMAIN F[d] = DOMAIN P[d]
  BY <1>1 DEF Since
<1>7. ASSUME NEW d \in DOMAIN P, NEW n \in DOMAIN P[d]
      PROVE  /\ T[d][n] = [P[d][n] EXCEPT !.moved = T[d][n].moved]
             /\ F[d][n] = [P[d][n] EXCEPT !.moved = F[d][n].moved]
             /\ P[d][n].ty = "task" \/ P[d][n].moved_field => T[d][n] = P[d][n] /\ F[d][n] = P[d][n]
  <2>1. /\ T[d][n] = [P[d][n] EXCEPT !.moved = T[d][n].moved]
        /\ P[d][n].ty = "task" \/ P[d][n].moved_field => T[d][n] = P[d][n]
    BY <1>1 DEF Since
  <2>2. /\ F[d][n] = [P[d][n] EXCEPT !.moved = F[d][n].moved]
        /\ P[d][n].ty = "task" \/ P[d][n].moved_field => F[d][n] = P[d][n]
    BY <1>1 DEF Since
  <2>. QED
    BY <2>1, <2>2
<1>8. ASSUME NEW d \in DOMAIN P, NEW n \in DOMAIN P[d]
      PROVE  P[d][n] \in Infos /\ T[d][n] \in Infos /\ F[d][n] \in Infos
  BY <1>2, <1>3, <1>4, <1>5, <1>6
<1>. QED
  BY <1>2, <1>5, <1>6, <1>7, <1>8

(* The fields of a binding that was only moved.                             *)
LEMMA OnlyMoved ==
  ASSUME NEW v \in Infos, NEW w, w = [v EXCEPT !.moved = w.moved]
  PROVE  w.ty = v.ty /\ w.moved_field = v.moved_field /\ w.no_drop = v.no_drop /\ w.guarded_mutex = v.guarded_mutex
<1>1. v = [ty |-> v.ty, moved |-> v.moved, moved_field |-> v.moved_field,
                 no_drop |-> v.no_drop, guarded_mutex |-> v.guarded_mutex]
  BY InfoIs
<1>. QED
  BY <1>1

(* balance_branch_moves drops in one branch what the other alone moved.     *)
LEMMA TornIs ==
  ASSUME NEW P, NEW T, NEW F, Branches(P, T, F)
  PROVE  LET B == Torn(P, T, F) IN
         /\ Balance(P, T, F) = Drops(Records(T, B)) /\ Droppable(T, B)
         /\ \A b \in B : T[b[1]][b[2]].moved_field = FALSE
<1>. DEFINE B == Torn(P, T, F)
<1>1. /\ Len(P) \in Nat \ {0} /\ DOMAIN P = 1 .. Len(P) /\ DOMAIN T = DOMAIN P /\ DOMAIN F = DOMAIN P
      /\ \A d \in DOMAIN P : DOMAIN T[d] = DOMAIN P[d] /\ DOMAIN F[d] = DOMAIN P[d] /\ DOMAIN P[d] \subseteq Names
      /\ \A d \in DOMAIN P : \A n \in DOMAIN P[d] :
              /\ P[d][n] \in Infos /\ T[d][n] \in Infos /\ F[d][n] \in Infos
              /\ T[d][n] = [P[d][n] EXCEPT !.moved = T[d][n].moved]
              /\ F[d][n] = [P[d][n] EXCEPT !.moved = F[d][n].moved]
              /\ P[d][n].ty = "task" \/ P[d][n].moved_field => T[d][n] = P[d][n] /\ F[d][n] = P[d][n]
  BY BranchesIs
<1>2. \A b \in Bindings(P) : b = <<b[1], b[2]>> /\ b[1] \in DOMAIN P /\ b[2] \in DOMAIN P[b[1]]
  BY DEF Bindings
<1>3. \A d \in DOMAIN P : \A n \in DOMAIN P[d] : <<d, n>> \in Bindings(P)
  BY <1>1 DEF Bindings
<1>4. \A b \in B : b = <<b[1], b[2]>> /\ b[1] \in DOMAIN P /\ b[2] \in DOMAIN P[b[1]] /\ ~T[b[1]][b[2]].moved /\ F[b[1]][b[2]].moved
  BY <1>2 DEF Torn
<1>5. \A d \in DOMAIN P : \A n \in DOMAIN P[d] : <<d, n>> \in B <=> ~T[d][n].moved /\ F[d][n].moved
  BY <1>3 DEF Torn
<1>6. ASSUME NEW d \in DOMAIN P, NEW n \in DOMAIN P[d], ~T[d][n].moved, F[d][n].moved
      PROVE  T[d][n].moved_field = FALSE /\ ~T[d][n].no_drop /\ T[d][n].ty # "task"
  <2>1. /\ P[d][n] \in Infos /\ T[d][n] \in Infos /\ F[d][n] \in Infos
        /\ T[d][n] = [P[d][n] EXCEPT !.moved = T[d][n].moved]
        /\ F[d][n] = [P[d][n] EXCEPT !.moved = F[d][n].moved]
        /\ P[d][n].ty = "task" \/ P[d][n].moved_field => T[d][n] = P[d][n] /\ F[d][n] = P[d][n]
    BY <1>1
  <2>2. ~(P[d][n].ty = "task") /\ ~P[d][n].moved_field
    BY <1>6, <2>1
  <2>3. T[d][n].ty = P[d][n].ty /\ T[d][n].moved_field = P[d][n].moved_field /\ T[d][n].no_drop = P[d][n].no_drop
    BY <2>1, OnlyMoved
  <2>4. F[d][n].no_drop = P[d][n].no_drop
    BY <2>1, OnlyMoved
  <2>5. ~F[d][n].no_drop
    BY <1>6, <2>1 DEF Infos, InfoOK
  <2>6. P[d][n].moved_field \in BOOLEAN
    BY <2>1, InfoIs
  <2>. QED
    BY <2>2, <2>3, <2>4, <2>5, <2>6
<1>. HIDE DEF B
<1>7. \A b \in B : T[b[1]][b[2]].moved_field = FALSE /\ ~T[b[1]][b[2]].no_drop /\ T[b[1]][b[2]].ty # "task"
  BY <1>4, <1>6
<1>8. Droppable(T, B)
  BY <1>1, <1>4, <1>7 DEF Droppable, Gone
<1>9. Balance(P, T, F) = Drops(Records(T, B))
  <2>1. \A b \in Bindings(P) : Lookup(T, b[2]) = T[b[1]][b[2]] /\ Lookup(F, b[2]) = F[b[1]][b[2]]
    <3>1. EnvOK(T) /\ EnvOK(F)
      BY DEF Branches
    <3>. SUFFICES ASSUME NEW b \in Bindings(P) PROVE Lookup(T, b[2]) = T[b[1]][b[2]] /\ Lookup(F, b[2]) = F[b[1]][b[2]]
      OBVIOUS
    <3>2. b[1] \in DOMAIN T /\ b[2] \in DOMAIN T[b[1]] /\ b[1] \in DOMAIN F /\ b[2] \in DOMAIN F[b[1]]
      BY <1>1, <1>2
    <3>. QED
      BY <3>1, <3>2, HomeIs
  <2>2. {c \in Bindings(P) : ~Lookup(T, c[2]).moved /\ Lookup(F, c[2]).moved} = B
    BY <2>1 DEF B, Torn
  <2>. DEFINE R(b) == [n |-> b[2], depth |-> b[1], skip |-> FALSE]
              Q(b) == [n |-> b[2], depth |-> b[1], skip |-> T[b[1]][b[2]].moved_field]
  <2>3. \A b \in B : R(b) = Q(b)
    BY <1>7
  <2>4. Balance(P, T, F) = Drops({R(b) : b \in B})
    BY <2>2 DEF Balance
  <2>5. Records(T, B) = {Q(b) : b \in B}
    BY DEF Records
  <2>. HIDE DEF R, Q
  <2>6. {R(b) : b \in B} = {Q(b) : b \in B}
    BY <2>3
  <2>. QED
    BY <2>4, <2>5, <2>6
<1>. QED
  BY <1>4, <1>5, <1>7, <1>8, <1>9 DEF B

(* What that is.                                                            *)
LEMMA TornMember ==
  ASSUME NEW P, NEW T, NEW F, Branches(P, T, F)
  PROVE  \A d \in DOMAIN P : \A n \in DOMAIN P[d] : <<d, n>> \in Torn(P, T, F) <=> ~T[d][n].moved /\ F[d][n].moved
<1>1. \A d \in DOMAIN P : DOMAIN P[d] \subseteq Names
  BY BranchesIs
<1>2. \A d \in DOMAIN P : \A n \in DOMAIN P[d] : <<d, n>> \in Bindings(P)
  BY <1>1 DEF Bindings
<1>. QED
  BY <1>2 DEF Torn

(* The Env after a conditional.                                             *)
MergeGives(P, T, tc, F, ec, M) ==
  /\ tc => M = F
  /\ ec => M = T
  /\ ~tc /\ ~ec => M = Moving(T, Torn(P, T, F)) /\ M = Moving(F, Torn(P, F, T))

MergeTakes(P, T, tc, F, ec) ==
  /\ EnvOK(P) /\ tc \in BOOLEAN /\ ec \in BOOLEAN /\ ~(tc /\ ec)
  /\ ~tc => EnvOK(T) /\ Len(T) = Len(P) /\ Since(P, T)
  /\ ~ec => EnvOK(F) /\ Len(F) = Len(P) /\ Since(P, F)

(* What merge_branch_env makes of two branches.                             *)
LEMMA MergeIs ==
  ASSUME NEW P, NEW T, NEW F, NEW tc, NEW ec, MergeTakes(P, T, tc, F, ec)
  PROVE  MergeGives(P, T, tc, F, ec, Merge(P, T, tc, F, ec))
<1>. DEFINE Moved(n) == CASE tc /\ ec -> Lookup(P, n).moved
                    [] tc -> Lookup(F, n).moved
                    [] ec -> Lookup(T, n).moved
                    [] OTHER -> Lookup(T, n).moved \/ Lookup(F, n).moved
            Q(d, n) == [P[d][n] EXCEPT !.moved = Moved(n)]
            M == Merge(P, T, tc, F, ec)
<1>0. /\ EnvOK(P) /\ tc \in BOOLEAN /\ ec \in BOOLEAN /\ ~(tc /\ ec)
      /\ ~tc => EnvOK(T) /\ Len(T) = Len(P) /\ Since(P, T)
      /\ ~ec => EnvOK(F) /\ Len(F) = Len(P) /\ Since(P, F)
  BY DEF MergeTakes
<1>. USE <1>0
<1>1. M = [d \in DOMAIN P |-> [n \in DOMAIN P[d] |->
        IF d = Home(P, n) THEN [P[d][n] EXCEPT !.moved = Moved(n)] ELSE P[d][n]]]
  BY DEF Merge
<1>. HIDE DEF M
<1>2. \A d \in DOMAIN P : \A n \in DOMAIN P[d] : Home(P, n) = d /\ P[d][n] \in Infos
  BY HomeIs, EnvIs
<1>3. \A d \in DOMAIN P : \A n \in DOMAIN P[d] : M[d][n] = Q(d, n)
  <2>. HIDE DEF Moved
  <2>. QED
    BY <1>1, <1>2
<1>4. DOMAIN M = DOMAIN P /\ M = [d \in DOMAIN P |-> M[d]]
      /\ \A d \in DOMAIN P : DOMAIN M[d] = DOMAIN P[d] /\ M[d] = [n \in DOMAIN P[d] |-> M[d][n]]
  <2>. HIDE DEF Moved
  <2>. QED
    BY <1>1
<1>5. ASSUME NEW X, EnvOK(X), Len(X) = Len(P), Since(P, X)
      PROVE  /\ DOMAIN X = DOMAIN P /\ X = [d \in DOMAIN P |-> X[d]]
             /\ \A d \in DOMAIN P : DOMAIN X[d] = DOMAIN P[d] /\ X[d] = [n \in DOMAIN P[d] |-> X[d][n]]
             /\ \A d \in DOMAIN P : \A n \in DOMAIN P[d] :
                  /\ X[d][n] = [P[d][n] EXCEPT !.moved = X[d][n].moved]
                  /\ Lookup(X, n) = X[d][n] /\ X[d][n] \in Infos
  <2>1. DOMAIN X = 1 .. Len(X) /\ DOMAIN P = 1 .. Len(P) /\ X = [d \in DOMAIN X |-> X[d]]
        /\ \A d \in DOMAIN X : X[d] = [n \in DOMAIN X[d] |-> X[d][n]] /\ \A n \in DOMAIN X[d] : X[d][n] \in Infos
    BY <1>5, EnvIs
  <2>2. DOMAIN X = DOMAIN P
    BY <1>5, <2>1
  <2>3. \A d \in DOMAIN P : DOMAIN X[d] = DOMAIN P[d] /\ \A n \in DOMAIN P[d] : X[d][n] = [P[d][n] EXCEPT !.moved = X[d][n].moved]
    BY <1>5 DEF Since
  <2>4. \A d \in DOMAIN P : \A n \in DOMAIN P[d] : Lookup(X, n) = X[d][n]
    BY <1>5, <2>2, <2>3, HomeIs
  <2>5. \A d \in DOMAIN P : X[d] = [n \in DOMAIN P[d] |-> X[d][n]]
    BY <2>1, <2>2, <2>3
  <2>6. X = [d \in DOMAIN P |-> X[d]]
    BY <2>1, <2>2
  <2>. QED
    BY <2>1, <2>2, <2>3, <2>4, <2>5, <2>6
<1>6. ASSUME NEW N, N = [d \in DOMAIN P |-> N[d]],
             \A d \in DOMAIN P : N[d] = [n \in DOMAIN P[d] |-> N[d][n]],
             \A d \in DOMAIN P : \A n \in DOMAIN P[d] : N[d][n] = Q(d, n)
      PROVE  M = N
  <2>. HIDE DEF Q
  <2>1. \A d \in DOMAIN P : \A n \in DOMAIN P[d] : M[d][n] = N[d][n]
    BY <1>3, <1>6
  <2>2. \A d \in DOMAIN P : M[d] = N[d]
    BY <1>4, <1>6, <2>1
  <2>. QED
    BY <1>4, <1>6, <2>2
<1>7. ASSUME tc PROVE M = F
  <2>1. EnvOK(F) /\ Len(F) = Len(P) /\ Since(P, F) /\ ~ec
    BY <1>7
  <2>2. /\ F = [d \in DOMAIN P |-> F[d]]
        /\ \A d \in DOMAIN P : F[d] = [n \in DOMAIN P[d] |-> F[d][n]]
        /\ \A d \in DOMAIN P : \A n \in DOMAIN P[d] :
                  /\ F[d][n] = [P[d][n] EXCEPT !.moved = F[d][n].moved]
                  /\ Lookup(F, n) = F[d][n]
    BY <1>5, <2>1
  <2>3. \A n : Moved(n) = Lookup(F, n).moved
    BY <1>7, <2>1
  <2>. HIDE DEF Moved
  <2>4. \A d \in DOMAIN P : \A n \in DOMAIN P[d] : F[d][n] = Q(d, n)
    <3>. SUFFICES ASSUME NEW d \in DOMAIN P, NEW n \in DOMAIN P[d] PROVE F[d][n] = [P[d][n] EXCEPT !.moved = Moved(n)]
      OBVIOUS
    <3>1. Moved(n) = F[d][n].moved
      BY <2>2, <2>3
    <3>2. F[d][n] = [P[d][n] EXCEPT !.moved = F[d][n].moved]
      BY <2>2
    <3>. QED
      BY <3>1, <3>2
  <2>5. F = [d \in DOMAIN P |-> F[d]] /\ \A d \in DOMAIN P : F[d] = [n \in DOMAIN P[d] |-> F[d][n]]
    BY <2>2
  <2>. HIDE DEF Q
  <2>. QED
    BY ONLY <1>6, <2>4, <2>5
<1>8. ASSUME ec PROVE M = T
  <2>1. EnvOK(T) /\ Len(T) = Len(P) /\ Since(P, T) /\ ~tc
    BY <1>8
  <2>2. /\ T = [d \in DOMAIN P |-> T[d]]
        /\ \A d \in DOMAIN P : T[d] = [n \in DOMAIN P[d] |-> T[d][n]]
        /\ \A d \in DOMAIN P : \A n \in DOMAIN P[d] :
                  /\ T[d][n] = [P[d][n] EXCEPT !.moved = T[d][n].moved]
                  /\ Lookup(T, n) = T[d][n]
    BY <1>5, <2>1
  <2>3. \A n : Moved(n) = Lookup(T, n).moved
    BY <1>8, <2>1
  <2>. HIDE DEF Moved
  <2>4. \A d \in DOMAIN P : \A n \in DOMAIN P[d] : T[d][n] = Q(d, n)
    <3>. SUFFICES ASSUME NEW d \in DOMAIN P, NEW n \in DOMAIN P[d] PROVE T[d][n] = [P[d][n] EXCEPT !.moved = Moved(n)]
      OBVIOUS
    <3>1. Moved(n) = T[d][n].moved
      BY <2>2, <2>3
    <3>2. T[d][n] = [P[d][n] EXCEPT !.moved = T[d][n].moved]
      BY <2>2
    <3>. QED
      BY <3>1, <3>2
  <2>5. T = [d \in DOMAIN P |-> T[d]] /\ \A d \in DOMAIN P : T[d] = [n \in DOMAIN P[d] |-> T[d][n]]
    BY <2>2
  <2>. HIDE DEF Q
  <2>. QED
    BY ONLY <1>6, <2>4, <2>5
<1>9. ASSUME ~tc, ~ec, NEW X, NEW Y, EnvOK(X), Len(X) = Len(P), Since(P, X), EnvOK(Y), Len(Y) = Len(P), Since(P, Y),
             \A n : Moved(n) = (Lookup(X, n).moved \/ Lookup(Y, n).moved)
      PROVE  M = Moving(X, Torn(P, X, Y))
  <2>. DEFINE B == Torn(P, X, Y)
              N == Moving(X, B)
  <2>. HIDE DEF Moved
  <2>1. Branches(P, X, Y)
    BY <1>9 DEF Branches
  <2>2. \A d \in DOMAIN P : \A n \in DOMAIN P[d] : <<d, n>> \in B <=> ~X[d][n].moved /\ Y[d][n].moved
    BY ONLY <2>1, TornMember
  <2>3. /\ DOMAIN X = DOMAIN P
        /\ \A d \in DOMAIN P : DOMAIN X[d] = DOMAIN P[d]
        /\ \A d \in DOMAIN P : \A n \in DOMAIN P[d] :
                  /\ X[d][n] = [P[d][n] EXCEPT !.moved = X[d][n].moved]
                  /\ Lookup(X, n) = X[d][n] /\ X[d][n] \in Infos
    BY <1>5, <1>9
  <2>4. \A d \in DOMAIN P : \A n \in DOMAIN P[d] : Lookup(Y, n) = Y[d][n] /\ Y[d][n] \in Infos
    <3>1. \A d \in DOMAIN P : \A n \in DOMAIN P[d] :
                  /\ Y[d][n] = [P[d][n] EXCEPT !.moved = Y[d][n].moved]
                  /\ Lookup(Y, n) = Y[d][n] /\ Y[d][n] \in Infos
      BY <1>5, <1>9
    <3>. QED
      BY <3>1
  <2>. HIDE DEF B
  <2>5. N = [d \in DOMAIN P |-> [n \in DOMAIN P[d] |-> IF <<d, n>> \in B THEN [X[d][n] EXCEPT !.moved = TRUE] ELSE X[d][n]]]
    <3>1. N = [d \in DOMAIN X |-> [n \in DOMAIN X[d] |-> IF <<d, n>> \in B THEN [X[d][n] EXCEPT !.moved = TRUE] ELSE X[d][n]]]
      BY DEF Moving
    <3>. QED
      BY <2>3, <3>1
  <2>. HIDE DEF N
  <2>6. ASSUME NEW d \in DOMAIN P, NEW n \in DOMAIN P[d]
        PROVE  N[d][n] = [P[d][n] EXCEPT !.moved = Moved(n)]
    <3>1. Moved(n) = (X[d][n].moved \/ Y[d][n].moved)
      BY <1>9, <2>3, <2>4
    <3>2. X[d][n].moved \in BOOLEAN /\ Y[d][n].moved \in BOOLEAN
      BY <2>3, <2>4, InfoIs
    <3>3. X[d][n] = [P[d][n] EXCEPT !.moved = X[d][n].moved]
      BY <2>3
    <3>4. CASE <<d, n>> \in B
      <4>1. Moved(n) = TRUE
        BY <2>2, <3>1, <3>2, <3>4
      <4>2. N[d][n] = [X[d][n] EXCEPT !.moved = TRUE]
        BY <2>5, <3>4
      <4>3. [X[d][n] EXCEPT !.moved = TRUE] = [P[d][n] EXCEPT !.moved = TRUE]
        <5>. DEFINE v == P[d][n]
                    w == X[d][n]
                    b == X[d][n].moved
        <5>1. w = [v EXCEPT !.moved = b] /\ v \in Infos
          BY <1>2, <3>3
        <5>2. v = [ty |-> v.ty, moved |-> v.moved, moved_field |-> v.moved_field,
                 no_drop |-> v.no_drop, guarded_mutex |-> v.guarded_mutex]
          BY <5>1, InfoIs
        <5>. HIDE DEF v, w, b
        <5>3. [w EXCEPT !.moved = TRUE] = [v EXCEPT !.moved = TRUE]
          BY <5>1, <5>2
        <5>. QED
          BY <5>3 DEF v, w
      <4>. QED
        BY <4>1, <4>2, <4>3
    <3>5. CASE <<d, n>> \notin B
      <4>1. Moved(n) = X[d][n].moved
        BY <2>2, <3>1, <3>2, <3>5
      <4>2. N[d][n] = X[d][n]
        BY <2>5, <3>5
      <4>. QED
        BY <3>3, <4>1, <4>2
    <3>. QED
      BY <3>4, <3>5
  <2>7. N = [d \in DOMAIN P |-> N[d]] /\ \A d \in DOMAIN P : N[d] = [n \in DOMAIN P[d] |-> N[d][n]]
    BY <2>5
  <2>8. \A d \in DOMAIN P : \A n \in DOMAIN P[d] : N[d][n] = Q(d, n)
    BY <2>6
  <2>9. M = N
    <3>. HIDE DEF Q
    <3>. QED
      BY ONLY <1>6, <2>7, <2>8
  <2>. QED
    BY <2>9 DEF N, B
<1>10. ASSUME ~tc, ~ec PROVE M = Moving(T, Torn(P, T, F)) /\ M = Moving(F, Torn(P, F, T))
  <2>1. EnvOK(T) /\ Len(T) = Len(P) /\ Since(P, T) /\ EnvOK(F) /\ Len(F) = Len(P) /\ Since(P, F)
    BY <1>10
  <2>2. \A n : Moved(n) = (Lookup(T, n).moved \/ Lookup(F, n).moved)
    BY <1>10
  <2>3. \A n : Moved(n) = (Lookup(F, n).moved \/ Lookup(T, n).moved)
    BY <2>2
  <2>. HIDE DEF Moved
  <2>. QED
    BY <1>9, <1>10, <2>1, <2>2, <2>3
<1>11. MergeGives(P, T, tc, F, ec, M)
  BY <1>7, <1>8, <1>10 DEF MergeGives
<1>. QED
  BY <1>11 DEF M

-----------------------------------------------------------------------------
(* An instruction written in the middle of the body                         *)
Inserted(s, k, v) == [i \in 1 .. Len(s) + 1 |-> IF i < k THEN s[i] ELSE IF i = k THEN v ELSE s[i - 1]]

(* A sequence with an element inserted.                                     *)
LEMMA InsertedIs ==
  ASSUME NEW s, IsSeq(s), NEW k \in 1 .. Len(s) + 1, NEW v
  PROVE  LET t == Inserted(s, k, v) IN
         /\ IsSeq(t) /\ Len(t) = Len(s) + 1 /\ DOMAIN t = 1 .. Len(s) + 1
         /\ \A i \in 1 .. k - 1 : t[i] = s[i]
         /\ t[k] = v
         /\ \A i \in k .. Len(s) : t[i + 1] = s[i]
<1>. DEFINE t == Inserted(s, k, v)
            n == Len(s)
<1>1. n \in Nat
  BY DEF IsSeq
<1>2. t = [i \in 1 .. n + 1 |-> IF i < k THEN s[i] ELSE IF i = k THEN v ELSE s[i - 1]]
  BY DEF Inserted
<1>. HIDE DEF t
<1>3. DOMAIN t = 1 .. n + 1
  BY <1>2
<1>4. t \in [1 .. n + 1 -> {t[i] : i \in 1 .. n + 1}]
  BY <1>2
<1>5. t \in Seq({t[i] : i \in 1 .. n + 1})
  <2>1. n + 1 \in Nat
    BY <1>1
  <2>. HIDE DEF n
  <2>. QED
    BY <1>4, <2>1
<1>6. IsSeq(t) /\ Len(t) = n + 1
  <2>1. IsSeq(t)
    BY <1>5, SeqIsSeq
  <2>2. DOMAIN t = 1 .. Len(t) /\ Len(t) \in Nat
    BY <2>1, SeqIs
  <2>. QED
    BY <1>1, <1>3, <2>1, <2>2
<1>. HIDE DEF n
<1>7. k \in 1 .. n + 1
  BY DEF n
<1>8. \A i \in 1 .. k - 1 : i \in 1 .. n + 1 /\ i < k
  BY ONLY <1>1, <1>7
<1>9. \A i \in k .. n : i + 1 \in 1 .. n + 1 /\ ~(i + 1 < k) /\ i + 1 # k /\ (i + 1) - 1 = i
  BY ONLY <1>1, <1>7
<1>10. k \in 1 .. n + 1 /\ ~(k < k)
  BY ONLY <1>1, <1>7
<1>11. \A i \in 1 .. k - 1 : t[i] = s[i]
  BY <1>2, <1>8
<1>12. t[k] = v
  BY <1>2, <1>10
<1>13. \A i \in k .. n : t[i + 1] = s[i]
  <2>. SUFFICES ASSUME NEW i \in k .. n PROVE t[i + 1] = s[i]
    OBVIOUS
  <2>1. i + 1 \in 1 .. n + 1 /\ ~(i + 1 < k) /\ i + 1 # k /\ (i + 1) - 1 = i
    BY <1>9
  <2>. QED
    BY <1>2, <2>1
<1>. QED
  BY <1>3, <1>6, <1>11, <1>12, <1>13 DEF t, n

(* An element inserted between two sequences.                               *)
LEMMA InsertedCat ==
  ASSUME NEW s, IsSeq(s), NEW t, IsSeq(t), NEW v
  PROVE  Inserted(s \o t, Len(s) + 1, v) = Append(s, v) \o t
<1>. DEFINE u == s \o t
            w == Append(s, v)
            x == w \o t
            y == Inserted(u, Len(s) + 1, v)
            n == Len(s)
            m == Len(t)
<1>1. PICK S1 : s \in Seq(S1)
  BY SeqIs
<1>2. PICK S2 : t \in Seq(S2)
  BY SeqIs
<1>. DEFINE S == S1 \cup S2 \cup {v}
<1>3. s \in Seq(S) /\ t \in Seq(S) /\ v \in S
  BY <1>1, <1>2
<1>. HIDE DEF S
<1>4. /\ w \in Seq(S) /\ Len(w) = n + 1 /\ w[n + 1] = v
      /\ \A i \in 1 .. n : w[i] = s[i]
  BY <1>3
<1>5. n \in Nat /\ m \in Nat
  BY <1>3
<1>6. /\ u \in Seq(S) /\ Len(u) = n + m
      /\ \A i \in 1 .. n + m : u[i] = IF i <= n THEN s[i] ELSE t[i - n]
  BY <1>3, ConcatProperties
<1>. HIDE DEF w
<1>7. /\ x \in Seq(S) /\ Len(x) = n + 1 + m
      /\ \A i \in 1 .. n + 1 + m : x[i] = IF i <= n + 1 THEN w[i] ELSE t[i - (n + 1)]
  <2>1. w \in Seq(S) /\ Len(w) = n + 1
    BY <1>4
  <2>2. /\ x \in Seq(S) /\ Len(x) = Len(w) + Len(t)
        /\ \A i \in 1 .. Len(w) + Len(t) : x[i] = IF i <= Len(w) THEN w[i] ELSE t[i - Len(w)]
    BY ONLY <1>3, <2>1, ConcatProperties
  <2>. HIDE DEF n, x
  <2>. QED
    BY ONLY <2>1, <2>2
<1>. HIDE DEF u, x
<1>8. IsSeq(u) /\ n + 1 \in 1 .. Len(u) + 1
  BY <1>5, <1>6, SeqIsSeq
<1>9. /\ IsSeq(y) /\ Len(y) = Len(u) + 1 /\ DOMAIN y = 1 .. Len(u) + 1
      /\ \A i \in 1 .. (n + 1) - 1 : y[i] = u[i]
      /\ y[n + 1] = v
      /\ \A i \in n + 1 .. Len(u) : y[i + 1] = u[i]
  BY <1>8, InsertedIs
<1>. HIDE DEF y, n, m
<1>10. ASSUME NEW i \in 1 .. n + 1 + m PROVE y[i] = x[i]
  <2>1. CASE i <= n
    <3>1. i \in 1 .. (n + 1) - 1 /\ i \in 1 .. n + m /\ i \in 1 .. n /\ i <= n + 1
      BY <1>5, <2>1
    <3>2. y[i] = s[i]
      BY <1>6, <1>9, <2>1, <3>1
    <3>. QED
      BY <1>4, <1>7, <3>1, <3>2
  <2>2. CASE i = n + 1
    <3>1. x[i] = w[i]
      BY <1>5, <1>7, <2>2
    <3>. QED
      BY <1>4, <1>9, <2>2, <3>1
  <2>3. CASE i > n + 1
    <3>1. PICK j \in n + 1 .. n + m : i = j + 1
      <4>1. i - 1 \in n + 1 .. n + m /\ i = (i - 1) + 1
        BY <1>5, <2>3
      <4>. QED
        BY <4>1
    <3>2. j \in 1 .. n + m /\ ~(j <= n) /\ ~(i <= n + 1) /\ i - (n + 1) = j - n
      BY <1>5, <3>1
    <3>3. y[j + 1] = u[j]
      BY <1>6, <1>9
    <3>4. u[j] = t[j - n]
      BY <1>6, <3>2
    <3>5. x[i] = t[i - (n + 1)]
      BY <1>7, <3>2
    <3>. QED
      BY <3>1, <3>2, <3>3, <3>4, <3>5
  <2>. QED
    BY <1>5, <2>1, <2>2, <2>3
<1>11. IsSeq(x)
  BY <1>7, SeqIsSeq
<1>12. Len(x) = Len(y) /\ Len(y) = n + 1 + m
  BY <1>5, <1>6, <1>7, <1>9
<1>13. x = y
  BY <1>9, <1>10, <1>11, <1>12 DEF IsSeq
<1>. QED
  BY <1>13 DEF x, y, u, w, n

(* The cells of a body with an instruction inserted.                        *)
LEMMA InsertedCells ==
  ASSUME NEW cs, IsSeq(cs), NEW g, IsSeq(g), Len(g) = Len(cs) + 1, NEW at \in DOMAIN cs, NEW i, NEW v,
         NEW k, k = Cell3(cs[at], g[at], g[at + 1]),
         \A j \in DOMAIN cs : Cell3(cs[j], g[j], g[j + 1]) = k => j = at
  PROVE  Cells(Inserted(cs, at, i), Inserted(g, at + 1, v))
           = (Cells(cs, g) \ {k}) \cup {Cell3(i, g[at], v), Cell3(k.ins, v, k.z)}
<1>. DEFINE ds == Inserted(cs, at, i)
            h == Inserted(g, at + 1, v)
            n == Len(cs)
            X == Cell3(i, g[at], v)
            Y == Cell3(k.ins, v, k.z)
            Old(j) == Cell3(cs[j], g[j], g[j + 1])
            New(j) == Cell3(ds[j], h[j], h[j + 1])
<1>1. n \in Nat /\ DOMAIN cs = 1 .. n
  BY SeqIs
<1>2. at \in 1 .. n /\ at \in 1 .. n + 1 /\ at + 1 \in 1 .. Len(g) + 1
  BY <1>1
<1>3. /\ DOMAIN ds = 1 .. n + 1
      /\ \A j \in 1 .. at - 1 : ds[j] = cs[j]
      /\ ds[at] = i
      /\ \A j \in at .. n : ds[j + 1] = cs[j]
  BY <1>2, InsertedIs
<1>4. /\ \A j \in 1 .. (at + 1) - 1 : h[j] = g[j]
      /\ h[at + 1] = v
      /\ \A j \in at + 1 .. Len(g) : h[j + 1] = g[j]
  BY <1>2, InsertedIs
<1>5. k.ins = cs[at] /\ k.z = g[at + 1] /\ Old(at) = k
  BY CellIs
<1>. HIDE DEF ds, h, n, X, Y
<1>a. Len(g) = n + 1
  BY DEF n
<1>6. ASSUME NEW j \in 1 .. at - 1 PROVE New(j) = Old(j)
  <2>1. j \in 1 .. (at + 1) - 1 /\ j + 1 \in 1 .. (at + 1) - 1
    BY ONLY <1>1, <1>2, j \in 1 .. at - 1
  <2>2. ds[j] = cs[j] /\ h[j] = g[j] /\ h[j + 1] = g[j + 1]
    BY <1>3, <1>4, <2>1
  <2>. QED
    BY <2>2
<1>7. New(at) = X
  <2>1. at \in 1 .. (at + 1) - 1
    BY ONLY <1>1, <1>2
  <2>2. ds[at] = i /\ h[at] = g[at] /\ h[at + 1] = v
    BY <1>3, <1>4, <2>1
  <2>. QED
    BY <2>2 DEF X
<1>8. New(at + 1) = Y
  <2>1. at \in at .. n /\ at + 1 \in at + 1 .. Len(g)
    BY ONLY <1>1, <1>2, <1>a
  <2>2. ds[at + 1] = cs[at] /\ h[at + 1] = v /\ h[at + 1 + 1] = g[at + 1]
    BY <1>3, <1>4, <2>1
  <2>. QED
    BY <1>5, <2>2 DEF Y
<1>9. ASSUME NEW j \in at + 1 .. n PROVE New(j + 1) = Old(j)
  <2>1. j \in at .. n /\ j \in at + 1 .. Len(g) /\ j + 1 \in at + 1 .. Len(g)
    BY ONLY <1>1, <1>2, <1>a, j \in at + 1 .. n
  <2>2. ds[j + 1] = cs[j] /\ h[j + 1] = g[j] /\ h[j + 1 + 1] = g[j + 1]
    BY <1>3, <1>4, <2>1
  <2>. QED
    BY <2>2
<1>10. Cells(cs, g) = {Old(j) : j \in 1 .. n}
  BY <1>1 DEF Cells
<1>11. Cells(ds, h) = {New(j) : j \in 1 .. n + 1}
  BY <1>3 DEF Cells
<1>12. \A j \in 1 .. n : Old(j) = k => j = at
  BY <1>1
<1>. HIDE DEF Old, New
<1>13. \A j \in 1 .. n + 1 : j \in 1 .. at - 1 \/ j = at \/ j = at + 1 \/ \E m \in at + 1 .. n : j = m + 1
  <2>. SUFFICES ASSUME NEW j \in 1 .. n + 1, ~(j \in 1 .. at - 1), j # at, j # at + 1
                PROVE  \E m \in at + 1 .. n : j = m + 1
    OBVIOUS
  <2>1. j - 1 \in at + 1 .. n /\ j = (j - 1) + 1
    BY <1>1, <1>2
  <2>. QED
    BY <2>1
<1>14. /\ \A j \in 1 .. at - 1 : j \in 1 .. n /\ j # at /\ j \in 1 .. n + 1
       /\ \A j \in at + 1 .. n : j \in 1 .. n /\ j # at /\ j + 1 \in 1 .. n + 1
       /\ at \in 1 .. n + 1 /\ at + 1 \in 1 .. n + 1
       /\ \A j \in 1 .. n : j # at => j \in 1 .. at - 1 \/ j \in at + 1 .. n
  BY ONLY <1>1, <1>2
<1>15. ASSUME NEW c \in Cells(ds, h) PROVE c \in (Cells(cs, g) \ {k}) \cup {X, Y}
  <2>1. PICK j \in 1 .. n + 1 : c = New(j)
    BY <1>11
  <2>2. CASE j \in 1 .. at - 1
    BY <1>6, <1>10, <1>12, <1>14, <2>1, <2>2
  <2>3. CASE j = at \/ j = at + 1
    BY <1>7, <1>8, <2>1, <2>3
  <2>4. CASE \E m \in at + 1 .. n : j = m + 1
    BY <1>9, <1>10, <1>12, <1>14, <2>1, <2>4
  <2>. QED
    BY <1>13, <2>2, <2>3, <2>4
<1>16. ASSUME NEW c \in (Cells(cs, g) \ {k}) \cup {X, Y} PROVE c \in Cells(ds, h)
  <2>1. X \in Cells(ds, h) /\ Y \in Cells(ds, h)
    BY <1>7, <1>8, <1>11, <1>14
  <2>2. CASE c \in Cells(cs, g) /\ c # k
    <3>1. PICK j \in 1 .. n : c = Old(j)
      BY <1>10, <2>2
    <3>2. j # at
      BY <1>5, <2>2, <3>1
    <3>3. CASE j \in 1 .. at - 1
      BY <1>6, <1>11, <1>14, <3>1, <3>3
    <3>4. CASE j \in at + 1 .. n
      BY <1>9, <1>11, <1>14, <3>1, <3>4
    <3>. QED
      BY <1>14, <3>2, <3>3, <3>4
  <2>. QED
    BY <2>1, <2>2
<1>17. Cells(ds, h) = (Cells(cs, g) \ {k}) \cup {X, Y}
  BY <1>15, <1>16
<1>. QED
  BY <1>17 DEF ds, h, X, Y

(* Where the elements of a sequence are after an insertion.                 *)
LEMMA InsertedFrom ==
  ASSUME NEW s, IsSeq(s), NEW at \in DOMAIN s, NEW v
  PROVE  LET t == Inserted(s, at, v) IN
         /\ DOMAIN s = 1 .. Len(s) /\ Len(s) \in Nat /\ DOMAIN t = 1 .. Len(s) + 1 /\ at \in DOMAIN t /\ t[at] = v
         /\ \A p \in DOMAIN t : p = at \/ \E m \in DOMAIN s : t[p] = s[m] /\ ((m < at /\ p = m) \/ (at <= m /\ p = m + 1))
         /\ \A m \in DOMAIN s : \E p \in DOMAIN t : t[p] = s[m] /\ ((m < at /\ p = m) \/ (at <= m /\ p = m + 1))
<1>. DEFINE t == Inserted(s, at, v)
            n == Len(s)
<1>1. n \in Nat /\ DOMAIN s = 1 .. n
  BY SeqIs
<1>2. at \in 1 .. n /\ at \in 1 .. n + 1
  BY <1>1
<1>3. /\ DOMAIN t = 1 .. n + 1
      /\ \A i \in 1 .. at - 1 : t[i] = s[i]
      /\ t[at] = v
      /\ \A i \in at .. n : t[i + 1] = s[i]
  BY <1>2, InsertedIs
<1>. HIDE DEF t, n
<1>4. ASSUME NEW p \in DOMAIN t, p # at
      PROVE  \E m \in DOMAIN s : t[p] = s[m] /\ ((m < at /\ p = m) \/ (at <= m /\ p = m + 1))
  <2>1. CASE p < at
    <3>1. p \in 1 .. at - 1 /\ p \in 1 .. n
      BY <1>1, <1>2, <1>3, <2>1
    <3>2. t[p] = s[p] /\ p \in DOMAIN s
      BY <1>1, <1>3, <3>1
    <3>. QED
      BY <2>1, <3>2
  <2>2. CASE p > at
    <3>1. p - 1 \in at .. n /\ p - 1 \in 1 .. n /\ p = (p - 1) + 1 /\ at <= p - 1
      BY <1>1, <1>2, <1>3, <2>2
    <3>2. PICK m \in 1 .. n : m \in at .. n /\ p = m + 1 /\ at <= m
      BY <3>1
    <3>3. t[m + 1] = s[m]
      BY <1>3, <3>2
    <3>. QED
      BY <1>1, <3>2, <3>3
  <2>. QED
    BY <1>1, <1>2, <1>3, <1>4, <2>1, <2>2
<1>5. ASSUME NEW m \in DOMAIN s
      PROVE  \E p \in DOMAIN t : t[p] = s[m] /\ ((m < at /\ p = m) \/ (at <= m /\ p = m + 1))
  <2>1. CASE m < at
    <3>1. m \in 1 .. at - 1 /\ m \in 1 .. n + 1
      BY <1>1, <1>2, <2>1
    <3>2. t[m] = s[m] /\ m \in DOMAIN t
      BY <1>3, <3>1
    <3>. QED
      BY <2>1, <3>2
  <2>2. CASE at <= m
    <3>1. m \in at .. n /\ m + 1 \in 1 .. n + 1
      BY <1>1, <1>2, <2>2
    <3>2. t[m + 1] = s[m]
      BY <1>3, <3>1
    <3>. QED
      BY <1>3, <2>2, <3>1, <3>2
  <2>. QED
    BY <1>1, <1>2, <2>1, <2>2
<1>. QED
  BY <1>1, <1>2, <1>3, <1>4, <1>5 DEF t, n

(* A trace with a drop inserted before an else.                             *)
LEMMA InsertedTrace ==
  ASSUME NEW cs, NEW g, NEW x, NEW o, Trace(cs, g, x, o), NEW at \in DOMAIN cs, cs[at].op = "else",
         NEW i, i.op = "drop", NEW v, NEW k, k = Cell3(cs[at], g[at], g[at + 1]), NEW r,
         State((Cells(cs, g) \ {k}) \cup {Cell3(i, g[at], v), Cell3(k.ins, v, k.z)}, x, r)
  PROVE  Trace(Inserted(cs, at, i), Inserted(g, at + 1, v), x, r)
<1>. DEFINE ds == Inserted(cs, at, i)
            h == Inserted(g, at + 1, v)
<1>1. /\ IsSeq(cs) /\ IsSeq(g) /\ Len(g) = Len(cs) + 1
      /\ g[1] = Note(<< << >> >>, <<Body>>) /\ g[Len(g)] = x
      /\ \E n \in Nat : BlocksOf(cs) = 1 .. n
      /\ OneElse(cs)
  BY DEF Trace
<1>2. DOMAIN cs = 1 .. Len(cs) /\ Len(cs) \in Nat /\ at \in 1 .. Len(cs)
  BY <1>1, SeqIs
<1>3. \A j \in DOMAIN cs : Cell3(cs[j], g[j], g[j + 1]) = k => j = at
  <2>. SUFFICES ASSUME NEW j \in DOMAIN cs, Cell3(cs[j], g[j], g[j + 1]) = k PROVE j = at
    OBVIOUS
  <2>1. k.ins = cs[j] /\ k.ins = cs[at]
    BY CellIs
  <2>. QED
    BY <1>1, <2>1 DEF OneElse
<1>4. Cells(ds, h) = (Cells(cs, g) \ {k}) \cup {Cell3(i, g[at], v), Cell3(k.ins, v, k.z)}
  BY <1>1, <1>3, InsertedCells
<1>5. /\ at \in 1 .. Len(cs) + 1 /\ at + 1 \in 1 .. Len(g) + 1
      /\ 1 \in 1 .. (at + 1) - 1
      /\ Len(g) \in at + 1 .. Len(g) /\ Len(g) \in Nat
  BY <1>1, <1>2
<1>6. IsSeq(ds) /\ Len(ds) = Len(cs) + 1
  BY <1>1, <1>5, InsertedIs
<1>7. /\ IsSeq(h) /\ Len(h) = Len(g) + 1 /\ h[1] = g[1] /\ h[Len(g) + 1] = g[Len(g)]
  <2>1. /\ IsSeq(h) /\ Len(h) = Len(g) + 1
        /\ \A j \in 1 .. (at + 1) - 1 : h[j] = g[j]
        /\ \A j \in at + 1 .. Len(g) : h[j + 1] = g[j]
    BY <1>1, <1>5, InsertedIs
  <2>. HIDE DEF h
  <2>. QED
    BY <1>5, <2>1
<1>8. /\ DOMAIN ds = 1 .. Len(cs) + 1 /\ at \in DOMAIN ds /\ ds[at] = i
      /\ \A p \in DOMAIN ds : p = at \/ \E m \in DOMAIN cs : ds[p] = cs[m] /\ ((m < at /\ p = m) \/ (at <= m /\ p = m + 1))
      /\ \A m \in DOMAIN cs : \E p \in DOMAIN ds : ds[p] = cs[m] /\ ((m < at /\ p = m) \/ (at <= m /\ p = m + 1))
  <2>1. IsSeq(cs) /\ at \in DOMAIN cs
    BY <1>1
  <2>. QED
    BY ONLY <2>1, InsertedFrom DEF ds
<1>. HIDE DEF ds, h
<1>9. BlocksOf(ds) = BlocksOf(cs)
  <2>1. ASSUME NEW b \in BlocksOf(ds) PROVE b \in BlocksOf(cs)
    <3>1. PICK p \in DOMAIN ds : ds[p].op \in {"if", "while", "for"} /\ b = ds[p].block
      BY <2>1 DEF BlocksOf
    <3>2. PICK m \in DOMAIN cs : ds[p] = cs[m]
      BY <1>8, <3>1
    <3>. QED
      BY <3>1, <3>2 DEF BlocksOf
  <2>2. ASSUME NEW b \in BlocksOf(cs) PROVE b \in BlocksOf(ds)
    <3>1. PICK m \in DOMAIN cs : cs[m].op \in {"if", "while", "for"} /\ b = cs[m].block
      BY <2>2 DEF BlocksOf
    <3>2. PICK p \in DOMAIN ds : ds[p] = cs[m]
      BY <1>8
    <3>. QED
      BY <3>1, <3>2 DEF BlocksOf
  <2>. QED
    BY <2>1, <2>2
<1>10. OneElse(ds)
  <2>. SUFFICES ASSUME NEW p \in DOMAIN ds, NEW q \in DOMAIN ds, ds[p].op = "else", ds[q].op = "else", ds[p].block = ds[q].block
                PROVE  p = q
    BY DEF OneElse
  <2>1. PICK m \in DOMAIN cs : ds[p] = cs[m] /\ ((m < at /\ p = m) \/ (at <= m /\ p = m + 1))
    BY <1>8
  <2>2. PICK l \in DOMAIN cs : ds[q] = cs[l] /\ ((l < at /\ q = l) \/ (at <= l /\ q = l + 1))
    BY <1>8
  <2>3. m = l
    BY <1>1, <2>1, <2>2 DEF OneElse
  <2>. QED
    BY <1>2, <2>1, <2>2, <2>3
<1>11. State(Cells(ds, h), x, r)
  BY <1>4
<1>12. h[1] = Note(<< << >> >>, <<Body>>) /\ h[Len(h)] = x /\ Len(h) = Len(ds) + 1
  BY <1>1, <1>6, <1>7
<1>13. \E n \in Nat : BlocksOf(ds) = 1 .. n
  BY <1>1, <1>9
<1>14. Trace(ds, h, x, r)
  BY ONLY <1>6, <1>7, <1>10, <1>11, <1>12, <1>13 DEF Trace
<1>. QED
  BY <1>14 DEF ds, h

(* A join that the affinity check refuses stays so.                         *)
LEMMA InsertedStray ==
  ASSUME NEW cs, IsSeq(cs), Stray(cs), NEW at \in DOMAIN cs, NEW i, i.op = "drop"
  PROVE  Stray(Inserted(cs, at, i))
<1>. DEFINE ds == Inserted(cs, at, i)
<1>1. /\ DOMAIN cs = 1 .. Len(cs) /\ Len(cs) \in Nat /\ ds[at] = i
      /\ \A p \in DOMAIN ds : p = at \/ \E m \in DOMAIN cs : ds[p] = cs[m] /\ ((m < at /\ p = m) \/ (at <= m /\ p = m + 1))
      /\ \A m \in DOMAIN cs : \E p \in DOMAIN ds : ds[p] = cs[m] /\ ((m < at /\ p = m) \/ (at <= m /\ p = m + 1))
  BY InsertedFrom
<1>. HIDE DEF ds
<1>2. PICK j \in DOMAIN cs : cs[j].op = "join" /\
    \A k \in DOMAIN cs : ~(k < j /\ cs[k].op = "spawn" /\ cs[k].n = cs[j].n
                             /\ cs[k].in = cs[j].in /\ cs[k].branch = cs[j].branch)
  BY DEF Stray
<1>3. PICK q \in DOMAIN ds : ds[q] = cs[j] /\ ((j < at /\ q = j) \/ (at <= j /\ q = j + 1))
  BY <1>1
<1>4. ASSUME NEW p \in DOMAIN ds, p < q, ds[p].op = "spawn", ds[p].n = ds[q].n, ds[p].in = ds[q].in, ds[p].branch = ds[q].branch
      PROVE  FALSE
  <2>1. PICK m \in DOMAIN cs : ds[p] = cs[m] /\ ((m < at /\ p = m) \/ (at <= m /\ p = m + 1))
    BY <1>1, <1>4
  <2>2. m < j
    BY <1>1, <1>3, <1>4, <2>1
  <2>. QED
    BY <1>2, <1>3, <1>4, <2>1, <2>2
<1>5. Stray(ds)
  BY <1>2, <1>3, <1>4 DEF Stray
<1>. QED
  BY <1>5 DEF ds

(* The body before and from an instruction.                                 *)
LEMMA SplitAt ==
  ASSUME NEW cs, IsSeq(cs), NEW at \in DOMAIN cs
  PROVE  LET L == SubSeq(cs, 1, at - 1) R == SubSeq(cs, at, Len(cs)) IN
         /\ IsSeq(L) /\ IsSeq(R) /\ Len(L) + 1 = at /\ cs = L \o R
<1>. DEFINE L == SubSeq(cs, 1, at - 1)
            R == SubSeq(cs, at, Len(cs))
            n == Len(cs)
<1>1. PICK S : cs \in Seq(S)
  BY SeqIs
<1>2. n \in Nat /\ at \in 1 .. n
  BY SeqIs
<1>3. \A j \in 1 .. n : cs[j] \in S
  BY <1>1
<1>4. /\ 1 \in Int /\ at - 1 \in Int /\ at \in Int /\ n \in Int
      /\ \A j \in 1 .. at - 1 : j \in 1 .. n
      /\ \A j \in at .. n : j \in 1 .. n
      /\ 1 \in 1 .. n + 1 /\ at - 1 \in 1 - 1 .. n /\ n \in at - 1 .. n /\ (at - 1) + 1 = at
  BY <1>2
<1>5. L \in Seq(S) /\ Len(L) = IF 1 <= at - 1 THEN at - 1 - 1 + 1 ELSE 0
  <2>1. \A j \in 1 .. at - 1 : cs[j] \in S
    BY <1>3, <1>4
  <2>. QED
    BY <1>4, <2>1, SubSeqProperties
<1>6. R \in Seq(S)
  <2>1. \A j \in at .. n : cs[j] \in S
    BY <1>3, <1>4
  <2>. QED
    BY <1>4, <2>1, SubSeqProperties
<1>7. Len(L) + 1 = at
  BY <1>2, <1>5
<1>8. L \o R = SubSeq(cs, 1, n)
  <2>1. SubSeq(cs, 1, at - 1) \o SubSeq(cs, (at - 1) + 1, n) = SubSeq(cs, 1, n)
    BY <1>1, <1>4, ConcatAdjacentSubSeq
  <2>. QED
    BY <1>4, <2>1
<1>9. SubSeq(cs, 1, n) = cs
  BY <1>1, SubSeqFull
<1>. QED
  BY <1>5, <1>6, <1>7, <1>8, <1>9, SeqIsSeq

-----------------------------------------------------------------------------
(* The end of a conditional                                                 *)

(* The end of a conditional written.                                        *)
LEMMA EndIfWritten ==
  ASSUME NEW cs, NEW g, NEW x, NEW o, Trace(cs, g, x, o), o # << >>, Last(o).kind = "else", NoteOK(x),
         x.live => x.extra = {}, NEW i, i.op = "endif", i.block = Last(o).block,
         NEW z, NoteOK(z), NEW M, z.live => z = Note(M, Until(PathOf(o), Len(o))) /\ Stand(z, Cells(cs, g)),
         x.live => z.live /\ SealedButTasks(x, M),
         ~Last(o).then_closed => z.live /\ M = Last(o).then_env
  PROVE  Trace(Append(cs, i), Append(g, z), z, Front(o))
<1>. DEFINE C == Cells(cs, g)
            c == Cell3(i, x, z)
<1>1. State(C, x, o)
  BY DEF Trace
<1>2. c.ins = i /\ c.a = x /\ c.z = z /\ c = Cell3(c.ins, c.a, c.z)
  BY CellIs
<1>. HIDE DEF c, C
<1>3. CellOK(c)
  <2>1. i.op \notin Straights /\ i.op \notin Opens /\ i.op \notin Exits /\ i.op \in Closers /\ i.op \in Ends /\ i.op # "return"
    BY DEF Straights, Opens, Ends, Exits, Closers
  <2>2. i.op \notin {"let", "set", "drop", "use", "call", "spawn", "join", "freebuf"}
    BY <2>1 DEF Straights
  <2>. QED
    BY <1>2, <2>1, <2>2 DEF CellOK
<1>4. State(C \cup {c}, c.z, Front(o))
  <2>1. c.z.live => c.z = Note(M, Until(PathOf(o), Len(o))) /\ Stand(c.z, C)
    BY <1>2 DEF C
  <2>. QED
    BY <1>1, <1>2, <1>3, <2>1, EndIfing
<1>5. State(Cells(cs, g) \cup {Cell3(i, x, z)}, z, Front(o))
  BY <1>2, <1>4 DEF c, C
<1>6. i.op \notin Opens /\ i.op # "else"
  BY DEF Opens
<1>. QED
  BY <1>5, <1>6, Written

(* A note that stands at the end of a body, without the body's scope.       *)
LEMMA PopEnd ==
  ASSUME NEW C, NEW x, NEW o, State(C, x, o), o # << >>, x.live, x.extra = {}, x.path = PathOf(o),
         NEW M, EnvOK(M), Len(M) = Len(o), \A d \in DOMAIN M : M[d] = x.env[d]
  PROVE  Stand(Note(M, Until(PathOf(o), Len(o))), C) /\ NoteOK(Note(M, Until(PathOf(o), Len(o))))
<1>. DEFINE n == Len(o)
            p == Until(PathOf(o), n)
<1>1. NoteOK(x) /\ Stand(x, C) /\ IsSeq(o) /\ Typed(C)
  BY DEF State
<1>2. n \in Nat \ {0}
  BY <1>1, SeqFront
<1>3. /\ Len(PathOf(o)) = n + 1 /\ DOMAIN p = 1 .. n
      /\ \A d \in 1 .. n : p[d] = x.path[d]
  <2>1. n \in 1 .. n + 1
    BY <1>2
  <2>. QED
    BY <1>1, <2>1, PathOfIs
<1>4. Len(x.env) = n + 1
  BY <1>1, <1>3, PathIs
<1>5. n <= Len(x.env)
  BY <1>2, <1>4
<1>6. DOMAIN M = 1 .. n
  BY EnvIs
<1>7. \A h \in C : CellOK(h)
  BY <1>1 DEF Typed, Fit
<1>8. \A d \in 1 .. n : M[d] = x.env[d] /\ p[d] = x.path[d]
  BY <1>3, <1>6
<1>9. Stand(Note(M, p), C)
  <2>. HIDE DEF n, p
  <2>. QED
    BY <1>1, <1>2, <1>3, <1>5, <1>6, <1>7, <1>8, PopStand
<1>10. FrameOK(C, Last(o), p) /\ Len(p) = n
  <2>1. State(C, x, o)
    OBVIOUS
  <2>. HIDE DEF p, n
  <2>. QED
    BY <2>1, LastFrame DEF p, n
<1>11. NoteOK(Note(M, p))
  <2>. HIDE DEF p
  <2>. QED
    BY <1>1, <1>10, FrameNote
<1>. QED
  BY <1>9, <1>11

(* The marker of the branch.                                                *)
LEMMA MarkerElse ==
  ASSUME Good, open # << >>, Last(open).kind = "else"
  PROVE  LET at == Marker("else", Last(open).block) IN
         at \in DOMAIN code /\ code[at].op = "else" /\ code[at].block = Last(open).block
<1>1. PICK g : Trace(code, g, Current, open)
  BY DEF Good
<1>. DEFINE C == Cells(code, g)
            f == Last(open)
            p == Until(PathOf(open), Len(open))
<1>2. State(C, Current, open)
  BY <1>1 DEF Trace
<1>3. FrameOK(C, f, p)
  <2>. HIDE DEF C
  <2>. QED
    BY <1>2, LastFrame
<1>4. HasMark(C, "else", f.block)
  BY <1>3 DEF FrameOK, InElseOK
<1>5. PICK c \in C : c.ins.op = "else" /\ c.ins.block = f.block
  BY <1>4 DEF HasMark
<1>6. PICK j \in DOMAIN code : c = Cell3(code[j], g[j], g[j + 1])
  BY <1>5 DEF Cells
<1>7. code[j].op = "else" /\ code[j].block = f.block
  BY <1>5, <1>6, CellIs
<1>. HIDE DEF C, p, f
<1>. QED
  BY <1>7 DEF Marker, f

(* The bindings that the then branch kept are dropped at its end.           *)
LEMMA ThenDrops ==
  ASSUME NEW cs, NEW g, NEW x, NEW o, Trace(cs, g, x, o), o # << >>, NEW f, f = Last(o), f.kind = "else",
         ~f.then_closed, NEW T, T = f.then_env, NEW B, Droppable(T, B),
         \A b \in B : T[b[1]][b[2]].moved_field = FALSE,
         NEW M, M = Moving(T, B), Since(f.pre, M), Stand(Note(M, Until(PathOf(o), Len(o))), Cells(cs, g)),
         NEW at \in DOMAIN cs, cs[at].op = "else", cs[at].block = f.block,
         NEW i, i.op = "drop", i.of = Records(T, B),
         NEW f2, f2.kind = "else", f2.block = f.block, f2.pre = f.pre, f2.then_closed = FALSE, f2.then_env = M
  PROVE  \E h : Trace(Inserted(cs, at, i), h, x, Append(Front(o), f2))
<1>. DEFINE C == Cells(cs, g)
            p == Until(PathOf(o), Len(o))
            k == Cell3(cs[at], g[at], g[at + 1])
            y == WithExtra(Moving(k.a.env, B), k.a.path, {})
            dr == Cell3(i, k.a, y)
            k2 == Cell3(k.ins, y, k.z)
<1>1. State(C, x, o) /\ OneElse(cs)
  BY DEF Trace
<1>2. k \in C /\ k.ins = cs[at] /\ k.a = g[at] /\ k.z = g[at + 1]
  BY CellIs DEF Cells
<1>3. dr.ins = i /\ dr.a = k.a /\ dr.z = y
  BY CellIs
<1>4. y.live /\ y.env = Moving(k.a.env, B) /\ y.path = k.a.path /\ y.extra = {}
  BY DEF WithExtra
<1>. HIDE DEF k, dr, k2
<1>5. \A e \in C : e.ins.op = "else" /\ e.ins.block = f.block => e = k
  <2>. SUFFICES ASSUME NEW e \in C, e.ins.op = "else", e.ins.block = f.block PROVE e = k
    OBVIOUS
  <2>1. PICK j \in DOMAIN cs : e = Cell3(cs[j], g[j], g[j + 1])
    BY DEF Cells
  <2>2. cs[j].op = "else" /\ cs[j].block = f.block
    BY <2>1, CellIs
  <2>3. j = at
    BY <1>1, <2>2 DEF OneElse
  <2>. QED
    BY <2>1, <2>3 DEF k
<1>6. /\ FrameOK(C, f, p) /\ EnvOK(T) /\ Len(T) = Len(o) /\ Len(o) \in Nat \ {0}
  <2>1. FrameOK(C, f, p) /\ Len(p) = Len(o) /\ Len(o) \in Nat \ {0}
    <3>. HIDE DEF C
    <3>. QED
      BY <1>1, LastFrame
  <2>. QED
    BY <2>1 DEF FrameOK, InElseOK
<1>7. k.a.live /\ SealedButTasks(k.a, T)
  <2>1. InElseOK(C, f, p)
    BY <1>6 DEF FrameOK
  <2>. HIDE DEF p, C
  <2>. QED
    BY <1>2, <2>1 DEF InElseOK
<1>8. CellOK(k)
  BY <1>1, <1>2 DEF State, Typed, Fit
<1>9. k.a.extra = {} /\ NoteOK(k.a) /\ EnvOK(k.a.env) /\ k.ins.op = "else" /\ k.ins.block = f.block
  <2>1. k.ins.op = "else" /\ k.ins.block = f.block
    BY <1>2
  <2>2. k.ins.op \in Ends
    BY <2>1 DEF Ends, Closers
  <2>. QED
    BY <1>7, <1>8, <2>1, <2>2 DEF CellOK, NoteOK
<1>. DEFINE E == k.a.env
            F == Moving(E, B)
<1>10. /\ DOMAIN T = 1 .. Len(o) /\ Len(E) = Len(o) + 1 /\ DOMAIN E = 1 .. Len(o) + 1
       /\ \A d \in DOMAIN T : E[d] = T[d] /\ d \in DOMAIN E /\ d # Len(E)
  <2>1. Len(E) = Len(T) + 1 /\ \A d \in DOMAIN T : E[d] = T[d]
    BY <1>7 DEF SealedButTasks
  <2>2. DOMAIN T = 1 .. Len(o) /\ DOMAIN E = 1 .. Len(E)
    BY <1>6, <1>9, EnvIs
  <2>. HIDE DEF E
  <2>. QED
    BY <1>6, <2>1, <2>2
<1>11. \A b \in B : b[1] \in DOMAIN T /\ E[b[1]] = T[b[1]] /\ b[1] # Len(E) /\ b[1] \in DOMAIN E
  BY <1>10 DEF Droppable
<1>12. Droppable(E, B)
  BY <1>11 DEF Droppable
<1>13. Records(E, B) = Records(T, B)
  BY <1>11 DEF Records
<1>. HIDE DEF E, F
<1>14. /\ EnvOK(F) /\ Len(F) = Len(E) /\ DOMAIN F = DOMAIN E
       /\ \A d \in DOMAIN E : DOMAIN F[d] = DOMAIN E[d]
       /\ \A d \in DOMAIN E : \A n \in DOMAIN E[d] :
            /\ F[d][n].ty = E[d][n].ty
            /\ <<d, n>> \notin B => F[d][n] = E[d][n]
  BY <1>9, <1>12, MovedInfos DEF E, F
<1>15. CellOK(dr) /\ NoteOK(y)
  <2>1. i.of = Records(k.a.env, B)
    BY <1>13 DEF E
  <2>2. Droppable(k.a.env, B)
    BY <1>12 DEF E
  <2>3. y = WithExtra(Moving(k.a.env, B), k.a.path, k.a.extra)
    BY <1>9
  <2>4. k.a.extra \in {{}, {"ret"}}
    BY <1>9
  <2>. HIDE DEF y
  <2>. QED
    BY <1>7, <1>9, <2>1, <2>2, <2>3, <2>4, DropCell DEF dr
<1>16. y.env = F
  BY <1>4 DEF F, E
<1>. HIDE DEF y
<1>17. /\ EnvOK(M) /\ Len(M) = Len(o) /\ DOMAIN M = DOMAIN T
  BY <1>6, MovedInfos
<1>18. \A d \in DOMAIN M : F[d] = M[d]
  <2>. SUFFICES ASSUME NEW d \in DOMAIN M PROVE F[d] = M[d]
    OBVIOUS
  <2>1. d \in DOMAIN T /\ d \in DOMAIN E /\ E[d] = T[d]
    BY <1>10, <1>17
  <2>2. F[d] = [n \in DOMAIN E[d] |-> IF <<d, n>> \in B THEN [E[d][n] EXCEPT !.moved = TRUE] ELSE E[d][n]]
    BY <2>1 DEF F, Moving
  <2>3. M[d] = [n \in DOMAIN T[d] |-> IF <<d, n>> \in B THEN [T[d][n] EXCEPT !.moved = TRUE] ELSE T[d][n]]
    BY <2>1 DEF Moving
  <2>. QED
    BY ONLY <2>1, <2>2, <2>3
<1>19. SealedButTasks(y, M)
  <2>1. Len(y.env) = Len(M) + 1
    BY <1>10, <1>14, <1>16, <1>17
  <2>2. \A d \in DOMAIN M : y.env[d] = M[d]
    BY <1>16, <1>18
  <2>3. \A n \in DOMAIN F[Len(F)] : Gone(F[Len(F)][n]) \/ F[Len(F)][n].ty = "task"
    <3>. SUFFICES ASSUME NEW n \in DOMAIN F[Len(E)] PROVE Gone(F[Len(E)][n]) \/ F[Len(E)][n].ty = "task"
      BY <1>14
    <3>1. Len(E) \in DOMAIN E
      BY <1>6, <1>10
    <3>2. n \in DOMAIN E[Len(E)] /\ <<Len(E), n>> \notin B
      BY <1>11, <1>14, <3>1
    <3>3. F[Len(E)][n] = E[Len(E)][n]
      BY <1>14, <3>1, <3>2
    <3>4. Gone(E[Len(E)][n]) \/ E[Len(E)][n].ty = "task"
      BY <1>7, <3>2 DEF SealedButTasks, E
    <3>. QED
      BY <3>3, <3>4
  <2>. QED
    BY <1>16, <2>1, <2>2, <2>3 DEF SealedButTasks
<1>20. /\ Moves(E, F)
       /\ \A d \in DOMAIN F : \A n \in DOMAIN F[d] : F[d][n].ty = "task" => n \in DOMAIN E[d] /\ E[d][n].ty = "task"
  <2>. DEFINE q == << >>
  <2>1. \A d \in DOMAIN E : \A n \in DOMAIN E[d] : <<d, n>> \in B =>
            /\ ~E[d][n].no_drop
            /\ d # Len(E) => E[d][n].ty # "task" /\ ~E[d][n].moved_field
    <3>. SUFFICES ASSUME NEW d \in DOMAIN E, NEW n \in DOMAIN E[d], <<d, n>> \in B
                  PROVE ~E[d][n].no_drop /\ E[d][n].ty # "task" /\ ~E[d][n].moved_field
      OBVIOUS
    <3>1. ~Gone(E[d][n]) /\ E[d][n].ty # "task"
      BY <1>12 DEF Droppable
    <3>2. E[d] = T[d] /\ T[d][n].moved_field = FALSE
      BY <1>11
    <3>. QED
      BY <3>1, <3>2 DEF Gone
  <2>2. \A m \in DOMAIN q : q[m].kind \in {"for ref", "for own"} =>
            \A d \in DOMAIN E : d <= m /\ q[m].coll \in DOMAIN E[d] => <<d, q[m].coll>> \notin B
    <3>1. DOMAIN q = {}
      OBVIOUS
    <3>. HIDE DEF q
    <3>. QED
      BY <3>1
  <2>. HIDE DEF q
  <2>3. EnvOK(E)
    BY <1>9 DEF E
  <2>4. Kept(q, E, F)
    BY <2>1, <2>2, <2>3, MovingKept DEF F
  <2>. QED
    BY <2>4 DEF Kept
<1>21. k2 = Cell3(k.ins, dr.z, k.z)
  BY <1>3 DEF k2
<1>22. State((C \ {k}) \cup {dr, k2}, x, Append(Front(o), f2))
  <2>1. dr.ins.op = "drop" /\ dr.z.live /\ dr.z.path = k.a.path /\ dr.z.extra = {} /\ SealedButTasks(dr.z, M)
    BY <1>3, <1>4, <1>19 DEF y
  <2>2. Moves(k.a.env, dr.z.env)
    BY <1>3, <1>16, <1>20 DEF E
  <2>3. \A d \in DOMAIN dr.z.env : \A n \in DOMAIN dr.z.env[d] : dr.z.env[d][n].ty = "task" =>
            n \in DOMAIN k.a.env[d] /\ k.a.env[d][n].ty = "task"
    BY <1>3, <1>16, <1>20 DEF E
  <2>4. Since(Last(o).pre, M) /\ Stand(Note(M, Until(PathOf(o), Len(o))), C)
    OBVIOUS
  <2>5. \A e \in C : e.ins.op = "else" /\ e.ins.block = Last(o).block => e = k
    BY <1>5
  <2>6. f2.kind = "else" /\ f2.block = Last(o).block /\ f2.pre = Last(o).pre /\ f2.then_closed = FALSE /\ f2.then_env = M
        /\ Last(o).kind = "else"
    OBVIOUS
  <2>7. k \in C /\ k.ins.op = "else" /\ k.ins.block = Last(o).block /\ k.a.live /\ dr.a = k.a
    BY <1>2, <1>3, <1>7, <1>9
  <2>. HIDE DEF C
  <2>. QED
    BY ONLY o # << >>, <1>1, <1>15, <1>17, <1>21, <2>1, <2>2, <2>3, <2>4, <2>5, <2>6, <2>7, Balancing
<1>23. State((Cells(cs, g) \ {k}) \cup {Cell3(i, g[at], y), Cell3(k.ins, y, k.z)}, x, Append(Front(o), f2))
  BY <1>2, <1>22 DEF dr, k2
<1>24. k = Cell3(cs[at], g[at], g[at + 1])
  BY DEF k
<1>25. Trace(Inserted(cs, at, i), Inserted(g, at + 1, y), x, Append(Front(o), f2))
  BY <1>23, <1>24, InsertedTrace
<1>. QED
  BY <1>25

(* B are bindings that F still has and T moved.                             *)
TornFrom(T, F, B) ==
  /\ Droppable(F, B)
  /\ \A b \in B : T[b[1]][b[2]].moved /\ F[b[1]][b[2]].moved_field = FALSE

(* A binding that only the then branch moved is no loop's collection.       *)
LEMMA TornKept ==
  ASSUME NEW C, NEW x, NEW o, State(C, x, o), o # << >>, x.live, x.extra = {}, x.path = PathOf(o),
         NEW f, f = Last(o), f.kind = "else", ~f.then_closed, NEW T, T = f.then_env,
         NEW F, EnvOK(F), Len(F) = Len(o), \A d \in DOMAIN F : x.env[d] = F[d],
         NEW B, TornFrom(T, F, B)
  PROVE  Droppable(x.env, B) /\ Records(x.env, B) = Records(F, B) /\ Kept(o, x.env, Moving(x.env, B))
<1>. DEFINE p == Until(PathOf(o), Len(o))
            E == x.env
            t == Note(T, p)
<1>0. Droppable(F, B) /\ \A b \in B : T[b[1]][b[2]].moved /\ F[b[1]][b[2]].moved_field = FALSE
  BY DEF TornFrom
<1>1. NoteOK(x) /\ Stand(x, C) /\ IsSeq(o) /\ Typed(C) /\ EnvOK(E)
  BY DEF State, NoteOK
<1>2. FrameOK(C, f, p) /\ Len(p) = Len(o) /\ Len(o) \in Nat \ {0} /\ DOMAIN p = 1 .. Len(o)
  BY LastFrame
<1>3. EnvOK(T) /\ Len(T) = Len(o) /\ Stand(t, C)
  BY <1>2 DEF FrameOK, InElseOK
<1>4. t.live /\ t.env = T /\ t.path = p /\ t.extra = {}
  BY DEF Note
<1>5. /\ DOMAIN F = 1 .. Len(o) /\ DOMAIN o = 1 .. Len(o) /\ DOMAIN E = 1 .. Len(o) + 1 /\ Len(E) = Len(o) + 1
      /\ DOMAIN PathOf(o) = 1 .. Len(o) + 1 /\ Last(o) = o[Len(o)]
      /\ \A d \in 1 .. Len(o) : p[d] = PathOf(o)[d]
  <2>1. DOMAIN F = 1 .. Len(o)
    BY EnvIs
  <2>2. DOMAIN o = 1 .. Len(o) /\ Last(o) = o[Len(o)]
    BY <1>1, SeqIs, SeqFront
  <2>3. Len(PathOf(o)) = Len(o) + 1 /\ DOMAIN PathOf(o) = 1 .. Len(o) + 1
    BY <1>1, PathOfIs
  <2>4. Len(E) = Len(o) + 1 /\ DOMAIN E = 1 .. Len(E)
    BY <1>1, <2>3, PathIs
  <2>5. \A d \in 1 .. Len(o) : p[d] = PathOf(o)[d]
    BY DEF Until
  <2>. HIDE DEF E
  <2>. QED
    BY <2>1, <2>2, <2>3, <2>4, <2>5
<1>. HIDE DEF E, t, p
<1>6. \A b \in B : b[1] \in DOMAIN F /\ E[b[1]] = F[b[1]] /\ b[1] \in DOMAIN E
  <2>1. \A d \in DOMAIN F : E[d] = F[d] /\ d \in DOMAIN E
    BY <1>2, <1>5 DEF E
  <2>. QED
    BY <1>0, <2>1 DEF Droppable
<1>7. Droppable(E, B)
  BY <1>0, <1>6 DEF Droppable
<1>8. Records(E, B) = Records(F, B)
  BY <1>6 DEF Records
<1>9. \A d \in DOMAIN E : \A n \in DOMAIN E[d] : <<d, n>> \in B =>
        /\ ~E[d][n].no_drop
        /\ d # Len(E) => E[d][n].ty # "task" /\ ~E[d][n].moved_field
  <2>. SUFFICES ASSUME NEW d \in DOMAIN E, NEW n \in DOMAIN E[d], <<d, n>> \in B
                PROVE ~E[d][n].no_drop /\ E[d][n].ty # "task" /\ ~E[d][n].moved_field
    OBVIOUS
  <2>1. ~Gone(E[d][n]) /\ E[d][n].ty # "task"
    BY <1>7 DEF Droppable
  <2>2. E[d] = F[d] /\ F[d][n].moved_field = FALSE
    BY <1>0, <1>6
  <2>. QED
    BY <2>1, <2>2 DEF Gone
<1>10. ASSUME NEW m \in DOMAIN o, o[m].kind \in {"for ref", "for own"},
              NEW d \in DOMAIN E, d <= m, o[m].coll \in DOMAIN E[d], <<d, o[m].coll>> \in B
       PROVE  FALSE
  <2>1. m < Len(o) /\ m \in 1 .. Len(o)
    <3>1. m # Len(o)
      <4>1. f.kind \notin {"for ref", "for own"}
        OBVIOUS
      <4>2. f = o[Len(o)]
        BY <1>5
      <4>. QED
        BY ONLY <1>10, <4>1, <4>2
    <3>2. m \in 1 .. Len(o) /\ Len(o) \in Nat
      BY <1>2, <1>5
    <3>. QED
      BY ONLY <3>1, <3>2
  <2>2. FrameOK(C, o[m], Until(PathOf(o), m))
    BY DEF State
  <2>3. PICK h \in C : Heads(o[m], Until(PathOf(o), m), h)
    BY <2>2 DEF FrameOK
  <2>4. h.ins.op \in Opens /\ h.ins.block = o[m].block /\ Kind(h.ins, o[m].kind)
    BY <2>3 DEF Heads
  <2>5. HeadIs(o, m, h)
    BY <2>4, HeadOf
  <2>6. h.ins.op = "for"
    BY <1>10, <2>4 DEF Kind, KindOf, Opens
  <2>7. o[m].coll = h.ins.coll /\ Len(h.a.env) = m /\ CellOK(h)
    BY <2>5, <2>6 DEF HeadIs
  <2>8. /\ m + 1 \in DOMAIN PathOf(o) /\ m + 1 \in DOMAIN p /\ p[m + 1] = PathOf(o)[m + 1]
        /\ PathOf(o)[m + 1].block = h.ins.block
    <3>1. m + 1 \in 1 .. Len(o) /\ m + 1 \in 1 .. Len(o) + 1
      BY <1>2, <2>1
    <3>2. PathOf(o)[m + 1] = [block |-> o[m].block, kind |-> o[m].kind]
      BY <1>1, <2>1, PathOfIs
    <3>. QED
      BY <1>2, <1>5, <2>4, <3>1, <3>2
  <2>9. InBody(x, h, m + 1)
    BY <1>1, <2>4, <2>8 DEF Stand, Sits, Inside
  <2>10. DOMAIN h.a.env = 1 .. m /\ DOMAIN Base(h) = 1 .. m /\ \A e \in 1 .. m : DOMAIN Base(h)[e] = DOMAIN h.a.env[e]
    <3>1. EnvOK(h.a.env) /\ DOMAIN Base(h) = DOMAIN h.a.env /\ \A e \in DOMAIN h.a.env : DOMAIN Base(h)[e] = DOMAIN h.a.env[e]
      BY ONLY <2>4, <2>7, BaseIs
    <3>2. DOMAIN h.a.env = 1 .. Len(h.a.env)
      BY <3>1, EnvIs
    <3>3. DOMAIN h.a.env = 1 .. m
      BY ONLY <2>7, <3>2
    <3>. QED
      BY ONLY <3>1, <3>3
  <2>11. d \in 1 .. m
    <3>1. d \in 1 .. Len(o) + 1 /\ d <= m /\ Len(o) \in Nat /\ m \in 1 .. Len(o)
      BY <1>2, <1>5, <1>10, <2>1
    <3>. QED
      BY ONLY <3>1
  <2>12. DOMAIN Base(h)[d] = DOMAIN E[d]
    BY <2>9, <2>10, <2>11 DEF InBody, Since, E
  <2>13. d \in DOMAIN h.a.env /\ h.ins.coll \in DOMAIN h.a.env[d]
    BY <1>10, <2>7, <2>10, <2>11, <2>12
  <2>14. Sits(x, C) /\ Sits(t, C)
    BY <1>1, <1>3 DEF Stand
  <2>15. x.env[d][h.ins.coll].moved = t.env[d][h.ins.coll].moved
    <3>1. m + 1 \in DOMAIN x.path /\ m + 1 \in DOMAIN t.path /\ x.path[m + 1].block = h.ins.block
          /\ t.path[m + 1].block = h.ins.block
      BY <1>4, <2>8
    <3>. QED
      BY <1>4, <2>6, <2>13, <2>14, <3>1, SameColl
  <2>16. T[d][o[m].coll].moved /\ ~E[d][o[m].coll].moved
    BY <1>0, <1>7, <1>10 DEF Droppable, Gone
  <2>. QED
    BY <1>4, <2>7, <2>15, <2>16 DEF E
<1>11. Kept(o, E, Moving(E, B))
  <2>1. \A m \in DOMAIN o : o[m].kind \in {"for ref", "for own"} =>
            \A d \in DOMAIN E : d <= m /\ o[m].coll \in DOMAIN E[d] => <<d, o[m].coll>> \notin B
    BY <1>10
  <2>. QED
    BY <1>1, <1>9, <2>1, MovingKept
<1>. QED
  BY <1>7, <1>8, <1>11 DEF E

(* What drops in the scopes outside a body leave of its own scope.          *)
LEMMA SealedMoving ==
  ASSUME NEW x, EnvOK(x.env), NEW T, EnvOK(T), SealedButTasks(x, T), NEW B, Droppable(T, B),
         NEW y, y.env = Moving(x.env, B)
  PROVE  SealedButTasks(y, Moving(T, B)) /\ \A d \in DOMAIN T : Moving(T, B)[d] = y.env[d]
<1>. DEFINE E == x.env
            F == Moving(E, B)
            M == Moving(T, B)
            top == Len(T)
<1>1. /\ top \in Nat /\ DOMAIN T = 1 .. top /\ Len(E) = top + 1 /\ DOMAIN E = 1 .. top + 1
      /\ \A d \in DOMAIN T : E[d] = T[d]
  <2>1. Len(E) = top + 1 /\ \A d \in DOMAIN T : E[d] = T[d]
    BY DEF SealedButTasks
  <2>2. top \in Nat /\ DOMAIN T = 1 .. top /\ DOMAIN E = 1 .. Len(E)
    BY EnvIs
  <2>. HIDE DEF E, top
  <2>. QED
    BY <2>1, <2>2
<1>2. \A n \in DOMAIN E[Len(E)] : Gone(E[Len(E)][n]) \/ E[Len(E)][n].ty = "task"
  BY DEF SealedButTasks
<1>3. EnvOK(E)
  OBVIOUS
<1>. HIDE DEF E, top
<1>4. \A b \in B : b[1] \in DOMAIN T /\ E[b[1]] = T[b[1]] /\ b[1] # Len(E) /\ b[1] \in DOMAIN E
  <2>1. \A d \in DOMAIN T : E[d] = T[d] /\ d # Len(E) /\ d \in DOMAIN E
    BY <1>1
  <2>. QED
    BY <2>1 DEF Droppable
<1>5. Droppable(E, B)
  BY <1>4 DEF Droppable
<1>. HIDE DEF F, M
<1>6. /\ Len(F) = Len(E) /\ DOMAIN F = DOMAIN E /\ \A d \in DOMAIN E : DOMAIN F[d] = DOMAIN E[d]
      /\ \A d \in DOMAIN E : \A n \in DOMAIN E[d] : <<d, n>> \notin B => F[d][n] = E[d][n]
  BY <1>3, <1>5, MovedInfos DEF F
<1>7. Len(M) = Len(T) /\ DOMAIN M = DOMAIN T
  BY MovedInfos DEF M
<1>8. \A d \in DOMAIN T : F[d] = M[d]
  <2>. SUFFICES ASSUME NEW d \in DOMAIN T PROVE F[d] = M[d]
    OBVIOUS
  <2>1. d \in DOMAIN T /\ d \in DOMAIN E /\ E[d] = T[d]
    BY <1>1
  <2>2. F[d] = [n \in DOMAIN E[d] |-> IF <<d, n>> \in B THEN [E[d][n] EXCEPT !.moved = TRUE] ELSE E[d][n]]
    BY <2>1 DEF F, Moving
  <2>3. M[d] = [n \in DOMAIN T[d] |-> IF <<d, n>> \in B THEN [T[d][n] EXCEPT !.moved = TRUE] ELSE T[d][n]]
    BY <2>1 DEF M, Moving
  <2>. QED
    BY ONLY <2>1, <2>2, <2>3
<1>9. \A n \in DOMAIN F[Len(F)] : Gone(F[Len(F)][n]) \/ F[Len(F)][n].ty = "task"
  <2>. SUFFICES ASSUME NEW n \in DOMAIN F[Len(E)] PROVE Gone(F[Len(E)][n]) \/ F[Len(E)][n].ty = "task"
    BY <1>6
  <2>1. Len(E) \in DOMAIN E
    BY <1>1
  <2>2. n \in DOMAIN E[Len(E)] /\ <<Len(E), n>> \notin B
    BY <1>4, <1>6, <2>1
  <2>3. F[Len(E)][n] = E[Len(E)][n]
    BY <1>6, <2>1, <2>2
  <2>. QED
    BY <1>2, <2>2, <2>3
<1>10. y.env = F
  BY DEF F, E
<1>11. SealedButTasks(y, M)
  BY <1>1, <1>6, <1>7, <1>8, <1>9, <1>10 DEF SealedButTasks, top
<1>. QED
  BY <1>8, <1>10, <1>11 DEF M

(* A sequence that was extended by one, without it.                         *)
LEMMA FrontPush ==
  ASSUME NEW q, IsSeq(q), NEW f
  PROVE  Front(Append(q, f)) = q /\ Last(Append(q, f)) = f /\ Append(q, f) # << >> /\ Len(Append(q, f)) = Len(q) + 1
<1>. DEFINE t == Append(q, f)
<1>1. /\ IsSeq(t) /\ Len(t) = Len(q) + 1 /\ DOMAIN t = 1 .. Len(q) + 1
      /\ \A i \in 1 .. Len(q) : t[i] = q[i]
      /\ t[Len(q) + 1] = f
  BY SeqAppend
<1>2. Len(q) \in Nat /\ DOMAIN q = 1 .. Len(q) /\ q = [i \in 1 .. Len(q) |-> q[i]]
  BY SeqIs DEF IsSeq
<1>. HIDE DEF t
<1>3. t # << >>
  BY <1>1, <1>2
<1>4. /\ Last(t) = t[Len(t)] /\ IsSeq(Front(t)) /\ Len(Front(t)) = Len(t) - 1
      /\ \A i \in 1 .. Len(t) - 1 : Front(t)[i] = t[i]
  BY <1>1, <1>3, SeqFront
<1>5. Front(t) = [i \in 1 .. Len(Front(t)) |-> Front(t)[i]]
  BY <1>4 DEF IsSeq
<1>6. Len(t) - 1 = Len(q)
  BY <1>1, <1>2
<1>7. Front(t) = q
  <2>1. \A i \in 1 .. Len(q) : Front(t)[i] = q[i]
    BY <1>1, <1>4, <1>6
  <2>2. Len(Front(t)) = Len(q)
    BY <1>4, <1>6
  <2>. QED
    BY ONLY <1>2, <1>5, <2>1, <2>2
<1>. QED
  BY <1>1, <1>3, <1>4, <1>7 DEF t

(* The body spliced at the end of a conditional.                            *)
Spliced(L, R, A, D, e, w, u, cs, v, i) ==
  /\ (((L \o e) \o R) \o (A \o D)) \o u = Append(cs, i)
  /\ (((L \o w) \o R) \o (A \o D)) \o u = Append(Inserted(cs, Len(L) + 1, v), i)

(* The body with the drops of the then branch inserted at its end.          *)
LEMMA SplicedIs ==
  ASSUME NEW L, IsSeq(L), NEW R, IsSeq(R), NEW A, IsSeq(A), NEW D, IsSeq(D),
         NEW i, NEW v, NEW e, e = << >>, NEW w, w = <<v>>, NEW u, u = <<i>>,
         NEW cs, cs = ((L \o R) \o A) \o D
  PROVE  Spliced(L, R, A, D, e, w, u, cs, v, i)
<1>1. IsSeq(e) /\ IsSeq(w) /\ IsSeq(u)
  BY IsSeqs
<1>2. L \o e = L
  BY CatIs
<1>3. L \o w = Append(L, v)
  BY CatIs
<1>4. \A s : IsSeq(s) => s \o u = Append(s, i)
  BY CatIs
<1>. HIDE DEF Inserted
<1>5. IsSeq(L \o R) /\ IsSeq(A \o D) /\ IsSeq(R \o (A \o D)) /\ IsSeq(Append(L, v)) /\ IsSeq((L \o R) \o (A \o D))
  <2>1. IsSeq(L \o R) /\ IsSeq(A \o D)
    BY CatIs
  <2>. QED
    BY <2>1, CatIs, SeqAppend
<1>. DEFINE S == L \o R
            X == A \o D
            K == Append(L, v)
<1>. HIDE DEF S, X, K
<1>15. IsSeq(S) /\ IsSeq(X) /\ IsSeq(K) /\ IsSeq(L) /\ IsSeq(R) /\ IsSeq(A) /\ IsSeq(D)
  BY <1>5 DEF S, X, K
<1>16. cs = (S \o A) \o D
  BY DEF S
<1>17. S \o (A \o D) = (S \o A) \o D
  BY ONLY <1>15, CatAssoc, SMTT(60)
<1>18. L \o (R \o X) = (L \o R) \o X
  BY ONLY <1>15, CatAssoc, SMTT(60)
<1>19. K \o (R \o X) = (K \o R) \o X
  BY ONLY <1>15, CatAssoc, SMTT(60)
<1>6. cs = (L \o R) \o (A \o D)
  BY ONLY <1>16, <1>17 DEF S
<1>7. cs = L \o (R \o (A \o D))
  BY ONLY <1>6, <1>18 DEF X
<1>8. (Append(L, v) \o R) \o (A \o D) = Append(L, v) \o (R \o (A \o D))
  BY ONLY <1>19 DEF X, K
<1>9. Inserted(cs, Len(L) + 1, v) = Append(L, v) \o (R \o (A \o D))
  BY <1>5, <1>7, InsertedCat
<1>10. IsSeq(Append(L, v) \o (R \o (A \o D)))
  BY <1>5, CatIs
<1>11. ((L \o R) \o (A \o D)) \o u = Append(cs, i)
  BY <1>4, <1>5, <1>6
<1>12. (Append(L, v) \o (R \o (A \o D))) \o u = Append(Append(L, v) \o (R \o (A \o D)), i)
  BY <1>4, <1>10
<1>13. (((L \o e) \o R) \o (A \o D)) \o u = Append(cs, i)
  BY ONLY <1>2, <1>11
<1>14. (((L \o w) \o R) \o (A \o D)) \o u = Append(Inserted(cs, Len(L) + 1, v), i)
  BY ONLY <1>3, <1>8, <1>9, <1>12
<1>. QED
  BY ONLY <1>13, <1>14 DEF Spliced

TornOK(P, T, F, B) ==
  /\ Balance(P, T, F) = Drops(Records(T, B)) /\ Droppable(T, B)
  /\ \A b \in B : T[b[1]][b[2]].moved_field = FALSE

(* The drops that balance two branches.                                     *)
LEMMA Torns ==
  ASSUME NEW P, NEW T, NEW F, Branches(P, T, F)
  PROVE  TornOK(P, T, F, Torn(P, T, F))
<1>. DEFINE B == Torn(P, T, F)
<1>1. /\ Balance(P, T, F) = Drops(Records(T, B)) /\ Droppable(T, B)
      /\ \A b \in B : T[b[1]][b[2]].moved_field = FALSE
  BY ONLY Branches(P, T, F), TornIs
<1>. HIDE DEF B
<1>2. TornOK(P, T, F, B)
  BY ONLY <1>1 DEF TornOK
<1>. QED
  BY <1>2 DEF B

(* The merge of a branch that ends in a jump is the other branch.           *)
LEMMA MergeOne ==
  ASSUME NEW P, NEW T, EnvOK(P), EnvOK(T), Len(T) = Len(P), Since(P, T), NEW F
  PROVE  Merge(P, F, TRUE, T, FALSE) = T /\ Merge(P, T, FALSE, F, TRUE) = T
<1>. DEFINE tc == TRUE
            ec == FALSE
<1>1. tc \in BOOLEAN /\ ec \in BOOLEAN /\ ~(tc /\ ec) /\ ~(ec /\ tc) /\ tc /\ ~ec
  OBVIOUS
<1>. HIDE DEF tc, ec
<1>2. Merge(P, F, tc, T, ec) = T
  <2>1. MergeTakes(P, F, tc, T, ec)
    BY <1>1 DEF MergeTakes
  <2>2. MergeGives(P, F, tc, T, ec, Merge(P, F, tc, T, ec))
    BY ONLY <2>1, MergeIs
  <2>. QED
    BY <1>1, <2>2 DEF MergeGives
<1>3. Merge(P, T, ec, F, tc) = T
  <2>1. MergeTakes(P, T, ec, F, tc)
    BY <1>1 DEF MergeTakes
  <2>2. MergeGives(P, T, ec, F, tc, Merge(P, T, ec, F, tc))
    BY ONLY <2>1, MergeIs
  <2>. QED
    BY <1>1, <2>2 DEF MergeGives
<1>. QED
  BY <1>2, <1>3 DEF tc, ec

(* The body cs, where the pass can write the end of the conditional with    *)
(* the Env M: ec tells whether the else branch left, tc whether both did.   *)
Joined(cs, M, ec) ==
  \E h, x, r :
    /\ Trace(cs, h, x, r) /\ r # << >> /\ Front(r) = Front(open)
    /\ Last(r).kind = "else" /\ Last(r).block = Last(open).block /\ Last(r).then_closed = Last(open).then_closed
    /\ NoteOK(x) /\ (x.live = ~ec) /\ (x.live => x.extra = {} /\ SealedButTasks(x, M))
    /\ (~Last(r).then_closed => M = Last(r).then_env)
    /\ (~(ec /\ Last(r).then_closed) => /\ Stand(Note(M, PathOf(Front(open))), Cells(cs, h))
                                         /\ NoteOK(Note(M, PathOf(Front(open)))))

(* The end of a conditional one of whose branches ends in a jump.           *)
LEMMA JoinedOne ==
  ASSUME Good, open # << >>, Last(open).kind = "else", closed \in BOOLEAN,
         closed \/ Last(open).then_closed, NEW M,
         M = Merge(Last(open).pre, Last(open).then_env, Last(open).then_closed, Front(scopes), closed)
  PROVE  Joined(code \o (IF closed THEN << >> ELSE ScopeDrops(scopes)), M, closed) \/ (closed /\ Last(open).then_closed)
<1>. DEFINE cs == code \o (IF closed THEN << >> ELSE ScopeDrops(scopes))
            f == Last(open)
            n == Len(open)
            p == Until(PathOf(open), n)
            T == Front(scopes)
            V == f.then_env
<1>. SUFFICES ASSUME ~(closed /\ f.then_closed) PROVE Joined(cs, M, closed)
  OBVIOUS
<1>1. PICK h, x :
           /\ Trace(cs, h, x, open)
           /\ NoteOK(x) /\ x.live = ~closed
           /\ x.live => /\ x.extra = {} /\ x.path = PathOf(open) /\ SealedButTasks(x, T)
                        /\ EnvOK(scopes) /\ EnvOK(T) /\ Len(T) = Len(open)
                        /\ \A d \in DOMAIN T : T[d] = scopes[d] /\ x.env[d] = scopes[d]
  BY Ending
<1>. DEFINE C == Cells(cs, h)
<1>2. State(C, x, open) /\ IsSeq(open)
  BY <1>1 DEF Trace, State
<1>. HIDE DEF T, cs
<1>3. /\ FrameOK(C, f, p) /\ EnvOK(f.pre) /\ Len(f.pre) = n /\ Len(p) = n
  <2>. HIDE DEF C
  <2>. QED
    BY <1>2, LastFrame
<1>4. InElseOK(C, f, p) /\ Typed(C)
  BY <1>2, <1>3 DEF FrameOK, State
<1>5. p = PathOf(Front(open))
  BY <1>2, PathFront
<1>6. /\ f.then_closed \in BOOLEAN
      /\ ~f.then_closed => EnvOK(V) /\ Len(V) = Len(f.pre) /\ Since(f.pre, V) /\ Stand(Note(V, p), C) /\ NoteOK(Note(V, p))
  <2>1. /\ f.then_closed \in BOOLEAN
        /\ ~f.then_closed => EnvOK(V) /\ Len(V) = Len(p) /\ Since(f.pre, V) /\ Stand(Note(V, p), C)
    <3>. HIDE DEF p, C, f
    <3>. QED
      BY <1>4 DEF InElseOK
  <2>2. ~f.then_closed => NoteOK(Note(V, p))
    <3>. HIDE DEF p, C, f, V
    <3>. QED
      BY <1>3, <1>4, <2>1, FrameNote
  <2>. QED
    BY <1>3, <2>1, <2>2
<1>. HIDE DEF C, p
<1>7. CASE closed
  <2>1. ~f.then_closed
    BY <1>7
  <2>2. M = V
    <3>. DEFINE P == f.pre
    <3>1. EnvOK(P) /\ EnvOK(V) /\ Len(V) = Len(P) /\ Since(P, V)
      BY <1>3, <1>6, <2>1
    <3>2. f.then_closed = FALSE /\ closed = TRUE
      BY <1>6, <1>7, <2>1
    <3>3. M = Merge(P, V, FALSE, T, TRUE)
      BY <3>2 DEF T
    <3>. HIDE DEF P, V
    <3>. QED
      BY ONLY <3>1, <3>3, MergeOne
  <2>. QED
    BY <1>1, <1>5, <1>6, <1>7, <2>1, <2>2 DEF Joined, C
<1>8. CASE ~closed
  <2>1. f.then_closed /\ x.live
    BY <1>1, <1>8
  <2>2. n \in DOMAIN open /\ f = open[n] /\ n \in Nat \ {0}
    BY <1>2, SeqFront
  <2>3. Since(f.pre, x.env)
    BY <1>1, <1>2, <2>1, <2>2, PreSince
  <2>4. DOMAIN f.pre = 1 .. n /\ DOMAIN T = 1 .. n
    BY <1>1, <1>3, <2>1, EnvIs
  <2>5. \A d \in DOMAIN T : T[d] = x.env[d]
    BY <1>1, <2>1
  <2>6. Since(f.pre, T)
    <3>. DEFINE P == f.pre
    <3>1. Since(P, x.env) /\ DOMAIN P = DOMAIN T
      BY <2>3, <2>4
    <3>. HIDE DEF P
    <3>2. Since(P, T)
      BY ONLY <2>5, <3>1 DEF Since
    <3>. QED
      BY <3>2 DEF P
  <2>7. M = T
    <3>. DEFINE P == f.pre
    <3>1. EnvOK(P) /\ EnvOK(T) /\ Len(T) = Len(P) /\ Since(P, T)
      BY <1>1, <1>3, <2>1, <2>6
    <3>2. f.then_closed = TRUE /\ closed = FALSE
      BY <1>6, <1>8, <2>1
    <3>3. M = Merge(P, V, TRUE, T, FALSE)
      BY <3>2 DEF T
    <3>. HIDE DEF P, V
    <3>. QED
      BY ONLY <3>1, <3>3, MergeOne
  <2>8. Stand(Note(T, p), C) /\ NoteOK(Note(T, p))
    <3>. HIDE DEF f
    <3>. QED
      BY <1>1, <1>2, <2>1, <2>5, PopEnd DEF p
  <2>. QED
    BY <1>1, <1>5, <1>8, <2>1, <2>7, <2>8 DEF Joined, C
<1>. QED
  BY <1>7, <1>8

(* Neither branch left: what is then known of the end of the conditional.   *)
BothOpen(P, T, F, M, cs, B, at) ==
  /\ Good /\ open # << >> /\ Last(open).kind = "else" /\ ~closed /\ closed \in BOOLEAN /\ ~Last(open).then_closed
  /\ P = Last(open).pre /\ T = Last(open).then_env /\ F = Front(scopes)
  /\ M = Merge(P, T, FALSE, F, FALSE)
  /\ cs = (code \o ScopeDrops(scopes)) \o Balance(P, F, T)
  /\ B = Torn(P, T, F) /\ at = Marker("else", Last(open).block)

BothJoined(P, T, F, M, cs, B, at) ==
  /\ Balance(P, T, F) = Drops(Records(T, B)) /\ (Records(T, B) = {} <=> B = {})
  /\ B = {} => Joined(cs, M, FALSE)
  /\ B # {} => Joined(Inserted(cs, at, [op |-> "drop", of |-> Records(T, B)]), M, FALSE)

(* The end of a conditional both of whose branches go on.                   *)
LEMMA JoinedBoth ==
  ASSUME NEW P, NEW T, NEW F, NEW M, NEW cs, NEW B, NEW at, BothOpen(P, T, F, M, cs, B, at)
  PROVE  BothJoined(P, T, F, M, cs, B, at)
<1>. SUFFICES ASSUME
         Good, open # << >>, Last(open).kind = "else", ~closed, closed \in BOOLEAN, ~Last(open).then_closed,
         P = Last(open).pre, T = Last(open).then_env, F = Front(scopes),
         M = Merge(P, T, FALSE, F, FALSE),
         cs = (code \o ScopeDrops(scopes)) \o Balance(P, F, T),
         B = Torn(P, T, F), at = Marker("else", Last(open).block)
       PROVE  /\ Balance(P, T, F) = Drops(Records(T, B)) /\ (Records(T, B) = {} <=> B = {})
              /\ B = {} => Joined(cs, M, FALSE)
              /\ B # {} => Joined(Inserted(cs, at, [op |-> "drop", of |-> Records(T, B)]), M, FALSE)
  BY DEF BothOpen, BothJoined
<1>. DEFINE c0 == code \o (IF closed THEN << >> ELSE ScopeDrops(scopes))
            f == Last(open)
            n == Len(open)
            p == Until(PathOf(open), n)
<1>0. c0 = code \o ScopeDrops(scopes)
  OBVIOUS
<1>1. PICK h, x :
           /\ Trace(c0, h, x, open)
           /\ NoteOK(x) /\ x.live /\ x.extra = {} /\ x.path = PathOf(open) /\ SealedButTasks(x, F)
           /\ EnvOK(F) /\ Len(F) = n /\ \A d \in DOMAIN F : x.env[d] = F[d]
  <2>1. Good /\ open # << >> /\ closed \in BOOLEAN /\ ~closed /\ F = Front(scopes)
    OBVIOUS
  <2>2. \E h, x :
           /\ Trace(code \o (IF closed THEN << >> ELSE ScopeDrops(scopes)), h, x, open)
           /\ NoteOK(x) /\ x.live = ~closed
           /\ x.live => /\ x.extra = {} /\ x.path = PathOf(open) /\ SealedButTasks(x, Front(scopes))
                        /\ EnvOK(scopes) /\ EnvOK(Front(scopes)) /\ Len(Front(scopes)) = Len(open)
                        /\ \A d \in DOMAIN Front(scopes) : Front(scopes)[d] = scopes[d] /\ x.env[d] = scopes[d]
    BY ONLY <2>1, Ending
  <2>. QED
    BY ONLY <2>1, <2>2, ZenonT(60)
<1>. HIDE DEF c0
<1>. DEFINE C == Cells(c0, h)
<1>2. State(C, x, open) /\ IsSeq(open) /\ IsSeq(c0)
  BY <1>1 DEF Trace, State
<1>3. FrameOK(C, f, p) /\ EnvOK(P) /\ Len(P) = n /\ Len(p) = n
  <2>. HIDE DEF C
  <2>. QED
    BY <1>2, LastFrame
<1>4. InElseOK(C, f, p) /\ Typed(C)
  BY <1>2, <1>3 DEF FrameOK, State
<1>5. p = PathOf(Front(open))
  BY <1>2, PathFront
<1>6. EnvOK(T) /\ Len(T) = Len(P) /\ Since(P, T)
  <2>. HIDE DEF p, C
  <2>. QED
    BY <1>3, <1>4 DEF InElseOK
<1>7. n \in DOMAIN open /\ f = open[n] /\ n \in Nat \ {0}
  BY <1>2, SeqFront
<1>8. DOMAIN P = 1 .. n /\ DOMAIN F = 1 .. n /\ DOMAIN T = 1 .. n
  BY <1>1, <1>3, <1>6, EnvIs
<1>9. Since(P, F)
  <2>1. Since(P, x.env)
    <3>. HIDE DEF C, f
    <3>. QED
      BY <1>1, <1>2, <1>7, PreSince DEF f
  <2>2. DOMAIN P = DOMAIN F /\ \A d \in DOMAIN F : x.env[d] = F[d]
    BY <1>1, <1>8
  <2>. QED
    BY ONLY <2>1, <2>2 DEF Since
<1>10. Branches(P, T, F) /\ Branches(P, F, T)
  BY <1>1, <1>3, <1>6, <1>9 DEF Branches
<1>. DEFINE B2 == Torn(P, F, T)
<1>11. /\ Balance(P, T, F) = Drops(Records(T, B)) /\ Droppable(T, B)
       /\ \A b \in B : T[b[1]][b[2]].moved_field = FALSE
  <2>1. B = Torn(P, T, F)
    OBVIOUS
  <2>. QED
    BY ONLY <1>10, <2>1, Torns DEF TornOK
<1>12. /\ Balance(P, F, T) = Drops(Records(F, B2)) /\ Droppable(F, B2)
       /\ \A b \in B2 : T[b[1]][b[2]].moved /\ F[b[1]][b[2]].moved_field = FALSE
  <2>1. /\ Balance(P, F, T) = Drops(Records(F, B2)) /\ Droppable(F, B2)
        /\ \A b \in B2 : F[b[1]][b[2]].moved_field = FALSE
    BY ONLY <1>10, Torns DEF B2, TornOK
  <2>2. \A b \in B2 : T[b[1]][b[2]].moved
    BY DEF Torn
  <2>. QED
    BY <2>1, <2>2
<1>13. M = Moving(T, B) /\ M = Moving(F, B2)
  <2>1. EnvOK(P) /\ FALSE \in BOOLEAN /\ EnvOK(T) /\ Len(T) = Len(P) /\ Since(P, T) /\ EnvOK(F) /\ Len(F) = Len(P) /\ Since(P, F)
    BY <1>1, <1>3, <1>6, <1>9
  <2>. DEFINE tc == FALSE
              ec == FALSE
  <2>2. tc \in BOOLEAN /\ ec \in BOOLEAN /\ ~(tc /\ ec) /\ ~tc /\ ~ec /\ M = Merge(P, T, tc, F, ec)
    OBVIOUS
  <2>. HIDE DEF tc, ec
  <2>3. MergeTakes(P, T, tc, F, ec)
    BY ONLY <2>1, <2>2 DEF MergeTakes
  <2>4. MergeGives(P, T, tc, F, ec, M)
    BY ONLY <2>2, <2>3, MergeIs
  <2>. QED
    BY <2>2, <2>4 DEF MergeGives
<1>14. Records(T, B) = {} <=> B = {}
  BY <1>11, RecordsAre
<1>. HIDE DEF B2, p
<1>15. Droppable(x.env, B2) /\ Records(x.env, B2) = Records(F, B2) /\ Kept(open, x.env, Moving(x.env, B2))
  <2>1. f.kind = "else" /\ ~f.then_closed /\ T = f.then_env /\ f = Last(open) /\ open # << >> /\ Len(F) = Len(open)
    BY <1>1
  <2>2. State(C, x, open) /\ x.live /\ x.extra = {} /\ x.path = PathOf(open) /\ EnvOK(F) /\ \A d \in DOMAIN F : x.env[d] = F[d]
    BY <1>1, <1>2
  <2>3. TornFrom(T, F, B2)
    BY <1>12 DEF TornFrom
  <2>. HIDE DEF C, f
  <2>. QED
    BY ONLY <2>1, <2>2, <2>3, TornKept
<1>. DEFINE y == Note(Moving(x.env, B2), x.path)
<1>16. cs = c0 \o Drops(Records(x.env, B2))
  BY <1>0, <1>12, <1>15
<1>17. PICK k : Trace(cs, k, y, open)
  BY <1>1, <1>15, <1>16, DropsWritten, SMTT(60)
<1>18. y.live /\ y.extra = {} /\ y.path = PathOf(open) /\ y.env = Moving(x.env, B2)
  BY <1>1 DEF Note
<1>. HIDE DEF y, C
<1>19. SealedButTasks(y, M) /\ \A d \in DOMAIN F : M[d] = y.env[d]
  <2>1. EnvOK(x.env)
    BY <1>1 DEF NoteOK
  <2>. QED
    BY ONLY <1>1, <1>12, <1>13, <1>18, <2>1, SealedMoving
<1>20. EnvOK(M) /\ Len(M) = n /\ DOMAIN M = DOMAIN F
  BY ONLY <1>1, <1>12, <1>13, MovedInfos
<1>. DEFINE D == Cells(cs, k)
<1>21. State(D, y, open)
  BY <1>17 DEF Trace
<1>22. NoteOK(y)
  BY <1>21 DEF State
<1>. HIDE DEF D
<1>23. Stand(Note(M, p), D) /\ NoteOK(Note(M, p))
  <2>1. open # << >>
    OBVIOUS
  <2>. QED
    BY ONLY <1>18, <1>19, <1>20, <1>21, <2>1, PopEnd DEF p, n
<1>24. CASE B = {}
  <2>1. M = T
    BY <1>6, <1>13, <1>24, MovingNone
  <2>. QED
    BY <1>5, <1>11, <1>14, <1>17, <1>18, <1>19, <1>22, <1>23, <1>24, <2>1 DEF Joined, D
<1>25. CASE B # {}
  <2>. DEFINE i == [op |-> "drop", of |-> Records(T, B)]
              f2 == [kind |-> "else", block |-> f.block, pre |-> f.pre, then_env |-> M, then_closed |-> FALSE]
              r == Append(Front(open), f2)
              ds == Inserted(cs, at, i)
  <2>1. i.op = "drop" /\ i.of = Records(T, B)
    OBVIOUS
  <2>2. f2.kind = "else" /\ f2.block = f.block /\ f2.pre = f.pre /\ f2.then_env = M /\ f2.then_closed = FALSE
    OBVIOUS
  <2>. HIDE DEF i, f2
  <2>3. at \in DOMAIN cs /\ cs[at].op = "else" /\ cs[at].block = f.block
    <3>1. at \in DOMAIN code /\ code[at].op = "else" /\ code[at].block = f.block
      BY MarkerElse
    <3>2. IsSeq(code) /\ IsSeq(ScopeDrops(scopes)) /\ IsSeq(Balance(P, F, T))
      <4>1. IsSeq(code)
        BY DEF Good, Trace
      <4>2. IsSeq(ScopeDrops(scopes))
        BY IsSeqs DEF ScopeDrops
      <4>3. IsSeq(Balance(P, F, T))
        BY <1>12, IsSeqs
      <4>. QED
        BY <4>1, <4>2, <4>3
    <3>. DEFINE A == ScopeDrops(scopes)
                E == Balance(P, F, T)
    <3>. HIDE DEF A, E
    <3>3. /\ IsSeq(code \o A) /\ IsSeq((code \o A) \o E)
          /\ at \in DOMAIN (code \o A) /\ (code \o A)[at] = code[at]
          /\ at \in DOMAIN ((code \o A) \o E) /\ ((code \o A) \o E)[at] = (code \o A)[at]
      <4>1. \A s, t : IsSeq(s) /\ IsSeq(t) /\ at \in DOMAIN s => /\ IsSeq(s \o t) /\ at \in DOMAIN (s \o t)
                                                                 /\ (s \o t)[at] = s[at]
        <5>. SUFFICES ASSUME NEW s, NEW t, IsSeq(s), IsSeq(t), at \in DOMAIN s
                      PROVE IsSeq(s \o t) /\ at \in DOMAIN (s \o t) /\ (s \o t)[at] = s[at]
          OBVIOUS
        <5>1. IsSeq(s \o t)
          BY CatIs
        <5>2. Len(s) \in Nat /\ Len(t) \in Nat /\ DOMAIN s = 1 .. Len(s)
          BY SeqIs
        <5>3. PICK S : s \in Seq(S) /\ t \in Seq(S)
          <6>. DEFINE S == {s[j] : j \in 1 .. Len(s)} \cup {t[j] : j \in 1 .. Len(t)}
          <6>1. \A j \in 1 .. Len(s) : s[j] \in S
            OBVIOUS
          <6>2. \A j \in 1 .. Len(t) : t[j] \in S
            OBVIOUS
          <6>3. s = [j \in 1 .. Len(s) |-> s[j]] /\ t = [j \in 1 .. Len(t) |-> t[j]]
            BY DEF IsSeq
          <6>. HIDE DEF S
          <6>4. s \in Seq(S) /\ t \in Seq(S)
            BY ONLY <5>2, <6>1, <6>2, <6>3
          <6>. QED
            BY <6>4
        <5>4. s \o t \in Seq(S) /\ Len(s \o t) = Len(s) + Len(t) /\ \A j \in 1 .. Len(s) : (s \o t)[j] = s[j]
          BY ONLY <5>3
        <5>5. at \in 1 .. Len(s) /\ at \in 1 .. Len(s) + Len(t)
          BY <5>2
        <5>6. DOMAIN (s \o t) = 1 .. Len(s \o t)
          BY ONLY <5>4
        <5>. QED
          BY ONLY <5>1, <5>4, <5>5, <5>6
      <4>2. IsSeq(code \o A) /\ at \in DOMAIN (code \o A) /\ (code \o A)[at] = code[at]
        BY <3>1, <3>2, <4>1 DEF A
      <4>. QED
        BY <3>2, <4>1, <4>2 DEF E
    <3>4. cs = (code \o A) \o E
      BY DEF A, E
    <3>. QED
      BY <3>1, <3>3, <3>4
  <2>4. PICK g : Trace(ds, g, y, r)
    <3>1. Since(f.pre, M)
      <4>1. Since(P, y.env)
        BY <1>7, <1>18, <1>21, PreSince
      <4>2. DOMAIN P = DOMAIN F
        BY <1>8
      <4>3. Since(P, M)
        BY ONLY <1>19, <4>1, <4>2 DEF Since
      <4>. QED
        BY <4>3
    <3>2. Stand(Note(M, Until(PathOf(open), Len(open))), Cells(cs, k))
      BY <1>23 DEF D, p
    <3>3. f = Last(open) /\ f.kind = "else" /\ ~f.then_closed /\ T = f.then_env /\ open # << >>
      OBVIOUS
    <3>. HIDE DEF f
    <3>4. \E g : Trace(Inserted(cs, at, i), g, y, Append(Front(open), f2))
      BY ONLY <1>11, <1>13, <1>17, <2>1, <2>2, <2>3, <3>1, <3>2, <3>3, ThenDrops
    <3>. QED
      BY <3>4
  <2>5. IsSeq(Front(open)) /\ Len(Front(open)) = n - 1
    BY <1>2, SeqFront
  <2>6. Front(r) = Front(open) /\ Last(r) = f2 /\ r # << >> /\ Len(r) = n
    BY <1>7, <2>5, FrontPush
  <2>. HIDE DEF r, ds, f
  <2>7. State(Cells(ds, g), y, r) /\ IsSeq(r)
    BY <2>4 DEF Trace, State
  <2>8. Stand(Note(M, p), Cells(ds, g)) /\ NoteOK(Note(M, p))
    <3>1. y.path = PathOf(r)
      BY <1>18, <2>7 DEF State
    <3>2. p = Until(PathOf(r), Len(r))
      BY <1>5, <2>6, <2>7, PathFront
    <3>3. Len(M) = Len(r) /\ \A d \in DOMAIN M : M[d] = y.env[d]
      BY <1>19, <1>20, <2>6
    <3>. DEFINE CC == Cells(ds, g)
    <3>4. State(CC, y, r)
      BY <2>7
    <3>. HIDE DEF CC
    <3>5. Stand(Note(M, p), CC) /\ NoteOK(Note(M, p))
      BY ONLY <1>18, <1>20, <2>6, <3>1, <3>2, <3>3, <3>4, PopEnd
    <3>. QED
      BY <3>5 DEF CC
  <2>9. Joined(ds, M, FALSE)
    <3>1. /\ Last(r).kind = "else" /\ Last(r).block = Last(open).block /\ Last(r).then_closed = FALSE
          /\ Last(r).then_env = M /\ Last(open).then_closed = FALSE
      <4>1. Last(open).then_closed = FALSE
        <5>1. Last(open).then_closed \in BOOLEAN /\ ~Last(open).then_closed
          BY <1>4 DEF InElseOK, f
        <5>. QED
          BY ONLY <5>1
      <4>. QED
        BY <2>2, <2>6, <4>1 DEF f
    <3>2. y.live = ~FALSE
      BY <1>18
    <3>. QED
      BY ONLY <1>5, <1>18, <1>19, <1>22, <2>4, <2>6, <2>8, <3>1, <3>2 DEF Joined
  <2>. QED
    BY <1>11, <1>14, <1>25, <2>9 DEF ds, i
<1>. QED
  BY <1>24, <1>25

(* The end of a conditional after which some path goes on.                  *)
LEMMA JoinedWritten ==
  ASSUME NEW cs, NEW M, NEW ec \in BOOLEAN, Joined(cs, M, ec), Last(open).then_closed \in BOOLEAN,
         ~(ec /\ Last(open).then_closed), NEW i, i.op = "endif", i.block = Last(open).block
  PROVE  \E k : Trace(Append(cs, i), k, Note(M, PathOf(Front(open))), Front(open))
<1>1. PICK h, x, r :
    /\ Trace(cs, h, x, r) /\ r # << >> /\ Front(r) = Front(open)
    /\ Last(r).kind = "else" /\ Last(r).block = Last(open).block /\ Last(r).then_closed = Last(open).then_closed
    /\ NoteOK(x) /\ (x.live = ~ec) /\ (x.live => x.extra = {} /\ SealedButTasks(x, M))
    /\ (~Last(r).then_closed => M = Last(r).then_env)
    /\ Stand(Note(M, PathOf(Front(open))), Cells(cs, h))
    /\ NoteOK(Note(M, PathOf(Front(open))))
  BY DEF Joined
<1>2. IsSeq(r)
  BY <1>1 DEF Trace, State
<1>3. Until(PathOf(r), Len(r)) = PathOf(Front(open))
  BY <1>1, <1>2, PathFront
<1>. DEFINE z == Note(M, PathOf(Front(open)))
<1>4. z.live /\ NoteOK(z) /\ z = Note(M, Until(PathOf(r), Len(r))) /\ Stand(z, Cells(cs, h))
  BY <1>1, <1>3 DEF Note
<1>. HIDE DEF z
<1>5. Trace(Append(cs, i), Append(h, z), z, Front(r))
  BY <1>1, <1>4, EndIfWritten
<1>. QED
  BY <1>1, <1>5 DEF z

(* The end of a conditional both branches of which left.                    *)
LEMMA BothWritten ==
  ASSUME Good, open # << >>, Last(open).kind = "else", closed, Last(open).then_closed,
         NEW i, i.op = "endif", i.block = Last(open).block
  PROVE  \E k : Trace(Append(code, i), k, Dead, Front(open))
<1>1. PICK g : Trace(code, g, Dead, open)
  BY DEF Good, Current
<1>2. ~Dead.live /\ NoteOK(Dead)
  BY DEF Dead, NoteOK
<1>. DEFINE z == Dead
<1>3. ~z.live /\ NoteOK(z) /\ Trace(code, g, z, open)
  BY <1>1, <1>2
<1>. HIDE DEF z
<1>4. Trace(Append(code, i), Append(g, z), z, Front(open))
  BY <1>3, EndIfWritten
<1>. QED
  BY <1>4 DEF z

(* The end of a conditional keeps the pass good.                            *)
LEMMA EndIfKeeps ==
  ASSUME Good, closed \in BOOLEAN, EndIf
  PROVE  Good' /\ closed' \in BOOLEAN
<1>. DEFINE f == Last(open)
            P == f.pre
            T == f.then_env
            F == Front(scopes)
            tc == f.then_closed
            at == Marker("else", f.block)
            L == SubSeq(code, 1, at - 1)
            R == SubSeq(code, at, Len(code))
            A == IF closed THEN << >> ELSE ScopeDrops(scopes)
            D == IF ~tc /\ ~closed THEN Balance(P, F, T) ELSE << >>
            t == IF ~tc /\ ~closed THEN Balance(P, T, F) ELSE << >>
            i == [op |-> "endif", block |-> f.block]
            u == <<i>>
            M == Merge(P, T, tc, F, closed)
            cs == (code \o A) \o D
<1>1. /\ open # << >> /\ f.kind = "else"
      /\ code' = (((L \o t) \o R) \o (A \o D)) \o u
      /\ scopes' = M /\ closed' = (tc /\ closed) /\ open' = Front(open)
  BY DEF EndIf
<1>2. tc \in BOOLEAN
  <2>1. PICK g : Trace(code, g, Current, open)
    BY DEF Good
  <2>2. State(Cells(code, g), Current, open)
    BY <2>1 DEF Trace
  <2>3. FrameOK(Cells(code, g), f, Until(PathOf(open), Len(open)))
    <3>. DEFINE C == Cells(code, g)
                x == Current
    <3>1. State(C, x, open)
      BY <2>2
    <3>. HIDE DEF C, x
    <3>2. FrameOK(C, Last(open), Until(PathOf(open), Len(open)))
      BY <1>1, <3>1, LastFrame
    <3>. QED
      BY <3>2 DEF C
  <2>. HIDE DEF f
  <2>4. f.then_closed \in BOOLEAN
    BY <1>1, <2>3 DEF FrameOK, InElseOK
  <2>. QED
    BY <2>4
<1>3. i.op = "endif" /\ i.block = f.block
  OBVIOUS
<1>4. at \in DOMAIN code /\ code[at].op = "else" /\ code[at].block = f.block
  BY <1>1, MarkerElse
<1>5. IsSeq(code)
  BY DEF Good, Trace
<1>6. IsSeq(L) /\ IsSeq(R) /\ Len(L) + 1 = at /\ code = L \o R
  BY <1>4, <1>5, SplitAt
<1>7. IsSeq(A) /\ IsSeq(D)
  <2>1. IsSeq(ScopeDrops(scopes)) /\ IsSeq(Balance(P, F, T)) /\ IsSeq(<< >>)
    BY IsSeqs DEF ScopeDrops, Balance
  <2>. QED
    BY <2>1
<1>8. \A v, e, w : e = << >> /\ w = <<v>> =>
         /\ (((L \o e) \o R) \o (A \o D)) \o u = Append(cs, i)
         /\ (((L \o w) \o R) \o (A \o D)) \o u = Append(Inserted(cs, at, v), i)
  <2>1. cs = ((L \o R) \o A) \o D
    BY <1>6
  <2>2. u = <<i>>
    OBVIOUS
  <2>. SUFFICES ASSUME NEW v, NEW e, NEW w, e = << >>, w = <<v>>
                PROVE /\ (((L \o e) \o R) \o (A \o D)) \o u = Append(cs, i)
                      /\ (((L \o w) \o R) \o (A \o D)) \o u = Append(Inserted(cs, at, v), i)
    OBVIOUS
  <2>3. e = << >> /\ w = <<v>>
    OBVIOUS
  <2>. HIDE DEF L, R, A, D, u, i, cs, at
  <2>4. Spliced(L, R, A, D, e, w, u, cs, v, i)
    BY ONLY <1>6, <1>7, <2>1, <2>2, <2>3, SplicedIs
  <2>. QED
    BY ONLY <1>6, <2>4 DEF Spliced
<1>9. t = << >> => code' = Append(cs, i)
  <2>. SUFFICES ASSUME t = << >> PROVE code' = Append(cs, i)
    OBVIOUS
  <2>. HIDE DEF L, R, A, D, u, i, cs, at, t
  <2>. QED
    BY ONLY t = << >>, <1>1, <1>8
<1>10. \A v : t = <<v>> => code' = Append(Inserted(cs, at, v), i)
  <2>. SUFFICES ASSUME NEW v, t = <<v>> PROVE code' = Append(Inserted(cs, at, v), i)
    OBVIOUS
  <2>1. \E e : e = << >>
    OBVIOUS
  <2>. HIDE DEF L, R, A, D, u, i, cs, at, t
  <2>. QED
    BY ONLY t = <<v>>, <1>1, <1>8, <2>1
<1>11. CASE closed /\ tc
  <2>1. t = << >> /\ A = << >> /\ D = << >>
    BY <1>11
  <2>. DEFINE e == << >>
  <2>2. A = e /\ D = e /\ \A s : IsSeq(s) => s \o e = s
    BY <2>1, CatIs, IsSeqs
  <2>3. cs = code
    <3>. HIDE DEF A, D, e
    <3>. QED
      BY <1>5, <2>2 DEF cs
  <2>4. PICK k : Trace(Append(code, i), k, Dead, Front(open))
    <3>. HIDE DEF i
    <3>. QED
      BY <1>1, <1>3, <1>11, BothWritten DEF f, tc
  <2>5. code' = Append(code, i)
    BY <1>9, <2>1, <2>3
  <2>6. closed' = TRUE
    BY <1>1, <1>2, <1>11
  <2>. QED
    BY <1>1, <2>4, <2>5, <2>6 DEF Good, Current
<1>12. ASSUME ~(closed /\ tc), NEW ds, Joined(ds, M, closed), code' = Append(ds, i)
       PROVE  Good' /\ closed' \in BOOLEAN
  <2>1. PICK k : Trace(Append(ds, i), k, Note(M, PathOf(Front(open))), Front(open))
    <3>. HIDE DEF i, M
    <3>. QED
      BY <1>1, <1>2, <1>3, <1>12, JoinedWritten DEF f, tc
  <2>2. closed' = FALSE
    BY <1>1, <1>2, <1>12
  <2>3. Current' = Note(M, PathOf(Front(open)))
    BY <1>1, <2>2 DEF Current
  <2>4. Trace(code', k, Current', open')
    BY <1>1, <1>12, <2>1, <2>3
  <2>. QED
    BY <2>2, <2>4 DEF Good
<1>13. CASE (closed \/ tc) /\ ~(closed /\ tc)
  <2>1. t = << >> /\ D = << >>
    BY <1>13
  <2>2. cs = code \o A
    <3>. DEFINE e == << >>
    <3>1. D = e /\ \A s : IsSeq(s) => s \o e = s
      BY <2>1, CatIs, IsSeqs
    <3>2. IsSeq(code \o A)
      <4>. HIDE DEF A
      <4>. QED
        BY <1>5, <1>7, CatIs
    <3>. HIDE DEF A, D, e
    <3>. QED
      BY <3>1, <3>2 DEF cs
  <2>3. Joined(code \o A, M, closed)
    <3>. HIDE DEF M
    <3>. QED
      BY <1>1, <1>13, JoinedOne DEF M, A
  <2>. HIDE DEF M, i, A, cs, t
  <2>. QED
    BY <1>9, <1>12, <1>13, <2>1, <2>2, <2>3
<1>14. CASE ~closed /\ ~tc
  <2>. DEFINE B == Torn(P, T, F)
              v == [op |-> "drop", of |-> Records(T, B)]
  <2>1. A = ScopeDrops(scopes) /\ D = Balance(P, F, T) /\ t = Balance(P, T, F)
    BY <1>14
  <2>2. closed = FALSE /\ tc = FALSE
    BY <1>2, <1>14
  <2>3. M = Merge(P, T, FALSE, F, FALSE)
    BY <2>2
  <2>4. cs = (code \o ScopeDrops(scopes)) \o Balance(P, F, T)
    BY <2>1
  <2>5. /\ t = Drops(Records(T, B)) /\ (Records(T, B) = {} <=> B = {})
        /\ B = {} => Joined(cs, M, closed)
        /\ B # {} => Joined(Inserted(cs, at, v), M, closed)
    <3>1. Good /\ open # << >> /\ Last(open).kind = "else" /\ ~closed /\ closed \in BOOLEAN /\ ~Last(open).then_closed
      BY <1>1, <1>14
    <3>2. P = Last(open).pre /\ T = Last(open).then_env /\ F = Front(scopes) /\ B = Torn(P, T, F)
          /\ at = Marker("else", Last(open).block)
      OBVIOUS
    <3>. HIDE DEF P, T, F, M, cs, B, at
    <3>3. BothOpen(P, T, F, M, cs, B, at)
      BY ONLY <2>3, <2>4, <3>1, <3>2 DEF BothOpen
    <3>4. BothJoined(P, T, F, M, cs, B, at)
      BY ONLY <3>3, JoinedBoth
    <3>. QED
      BY <2>1, <2>2, <3>4 DEF BothJoined
  <2>6. CASE B = {}
    <3>1. t = << >>
      BY <2>5, <2>6 DEF Drops
    <3>2. Joined(cs, M, closed)
      BY <2>5, <2>6
    <3>3. ~(closed /\ tc)
      BY <1>14
    <3>. HIDE DEF M, i, A, cs, t
    <3>. QED
      BY <1>9, <1>12, <3>1, <3>2, <3>3
  <2>7. CASE B # {}
    <3>1. t = <<v>>
      BY <2>5, <2>7 DEF Drops
    <3>2. Joined(Inserted(cs, at, v), M, closed)
      BY <2>5, <2>7
    <3>3. ~(closed /\ tc)
      BY <1>14
    <3>4. code' = Append(Inserted(cs, at, v), i)
      BY <1>10, <3>1
    <3>. HIDE DEF M, i, A, cs, t, v, at
    <3>. QED
      BY <1>12, <3>2, <3>3, <3>4
  <2>. QED
    BY <2>6, <2>7
<1>. QED
  BY <1>2, <1>11, <1>13, <1>14

-----------------------------------------------------------------------------
(* The whole pass                                                           *)

(* Every else branch being written has its marker in the body.              *)
Marks(cs, o) ==
  \A m \in DOMAIN o : o[m].kind = "else" => \E i \in DOMAIN cs : cs[i].op = "else" /\ cs[i].block = o[m].block

(* A body that verify_task_affine will reject.                              *)
Lost(cs, o) == IsSeq(cs) /\ IsSeq(o) /\ Marks(cs, o) /\ Stray(cs)

(* t stands in u behind position k.                                         *)
After(u, k, t) == \A j \in DOMAIN t : k + j \in DOMAIN u /\ u[k + j] = t[j]

(* The elements of a concatenation.                                         *)
LEMMA CatFrom ==
  ASSUME NEW s, IsSeq(s), NEW t, IsSeq(t)
  PROVE  LET u == s \o t IN
         /\ IsSeq(u) /\ Len(u) = Len(s) + Len(t) /\ Len(s) \in Nat /\ Len(t) \in Nat
         /\ DOMAIN s = 1 .. Len(s) /\ DOMAIN t = 1 .. Len(t) /\ DOMAIN u = 1 .. Len(s) + Len(t)
         /\ \A j \in DOMAIN s : j \in DOMAIN u /\ u[j] = s[j]
         /\ After(u, Len(s), t)
<1>1. IsSeq(s \o t)
  BY CatIs
<1>2. Len(s) \in Nat /\ Len(t) \in Nat /\ DOMAIN s = 1 .. Len(s) /\ DOMAIN t = 1 .. Len(t)
  BY SeqIs
<1>3. PICK S : s \in Seq(S) /\ t \in Seq(S)
  <2>. DEFINE S == {s[j] : j \in 1 .. Len(s)} \cup {t[j] : j \in 1 .. Len(t)}
  <2>1. \A j \in 1 .. Len(s) : s[j] \in S
    OBVIOUS
  <2>2. \A j \in 1 .. Len(t) : t[j] \in S
    OBVIOUS
  <2>3. s = [j \in 1 .. Len(s) |-> s[j]] /\ t = [j \in 1 .. Len(t) |-> t[j]]
    BY DEF IsSeq
  <2>. HIDE DEF S
  <2>4. s \in Seq(S) /\ t \in Seq(S)
    BY ONLY <1>2, <2>1, <2>2, <2>3
  <2>. QED
    BY <2>4
<1>4. /\ s \o t \in Seq(S) /\ Len(s \o t) = Len(s) + Len(t)
      /\ \A j \in 1 .. Len(s) : (s \o t)[j] = s[j]
      /\ \A j \in 1 .. Len(t) : (s \o t)[Len(s) + j] = t[j]
  BY ONLY <1>2, <1>3
<1>5. DOMAIN (s \o t) = 1 .. Len(s) + Len(t)
  BY ONLY <1>4
<1>6. \A j \in 1 .. Len(s) : j \in 1 .. Len(s) + Len(t)
  BY ONLY <1>2
<1>7. \A j \in 1 .. Len(t) : Len(s) + j \in 1 .. Len(s) + Len(t)
  BY ONLY <1>2
<1>. QED
  BY ONLY <1>1, <1>2, <1>4, <1>5, <1>6, <1>7 DEF After

(* A body that the affinity check refuses stays so when more is written.    *)
LEMMA StrayCat ==
  ASSUME NEW s, IsSeq(s), Stray(s), NEW t, IsSeq(t)
  PROVE  Stray(s \o t)
<1>. DEFINE u == s \o t
<1>1. /\ DOMAIN s = 1 .. Len(s) /\ Len(s) \in Nat /\ Len(t) \in Nat /\ DOMAIN u = 1 .. Len(s) + Len(t)
      /\ \A j \in DOMAIN s : j \in DOMAIN u /\ u[j] = s[j]
  BY CatFrom
<1>2. PICK j \in DOMAIN s : s[j].op = "join" /\
    \A k \in DOMAIN s : ~(k < j /\ s[k].op = "spawn" /\ s[k].n = s[j].n
                             /\ s[k].in = s[j].in /\ s[k].branch = s[j].branch)
  BY DEF Stray
<1>. HIDE DEF u
<1>3. ASSUME NEW k \in DOMAIN u, k < j PROVE k \in DOMAIN s /\ u[k] = s[k]
  <2>1. k \in DOMAIN s
    BY ONLY <1>1, <1>2, <1>3, k \in DOMAIN u
  <2>. QED
    BY <1>1, <2>1
<1>4. j \in DOMAIN u /\ u[j] = s[j]
  BY <1>1
<1>5. Stray(u)
  BY <1>2, <1>3, <1>4 DEF Stray
<1>. QED
  BY <1>5 DEF u

(* What follows a misplaced join leaves it misplaced.                       *)
LEMMA LostGrows ==
  ASSUME NEW cs, NEW o, Lost(cs, o), NEW s, IsSeq(s), NEW q, IsSeq(q),
         \A m \in DOMAIN q : q[m].kind = "else" =>
           \/ m \in DOMAIN o /\ q[m] = o[m]
           \/ \E j \in DOMAIN s : s[j].op = "else" /\ s[j].block = q[m].block
  PROVE  Lost(cs \o s, q)
<1>1. IsSeq(cs) /\ IsSeq(o) /\ Marks(cs, o) /\ Stray(cs)
  BY DEF Lost
<1>2. IsSeq(cs \o s) /\ Stray(cs \o s)
  BY <1>1, StrayCat, CatIs
<1>. DEFINE u == cs \o s
<1>4. (\A j \in DOMAIN cs : j \in DOMAIN u /\ u[j] = cs[j]) /\ \A j \in DOMAIN s : Len(cs) + j \in DOMAIN u /\ u[Len(cs) + j] = s[j]
  <2>1. /\ IsSeq(u) /\ Len(u) = Len(cs) + Len(s) /\ Len(cs) \in Nat /\ Len(s) \in Nat
        /\ DOMAIN cs = 1 .. Len(cs) /\ DOMAIN s = 1 .. Len(s) /\ DOMAIN u = 1 .. Len(cs) + Len(s)
        /\ \A j \in DOMAIN cs : j \in DOMAIN u /\ u[j] = cs[j]
        /\ After(u, Len(cs), s)
    BY ONLY IsSeq(s), <1>1, CatFrom
  <2>. QED
    BY <2>1 DEF After
<1>. HIDE DEF u
<1>5. ASSUME NEW m \in DOMAIN q, q[m].kind = "else"
      PROVE  \E i \in DOMAIN u : u[i].op = "else" /\ u[i].block = q[m].block
  <2>1. CASE m \in DOMAIN o /\ q[m] = o[m]
    <3>1. PICK i \in DOMAIN cs : cs[i].op = "else" /\ cs[i].block = q[m].block
      BY <1>1, <1>5, <2>1 DEF Marks
    <3>. QED
      BY <1>4, <3>1
  <2>2. CASE \E j \in DOMAIN s : s[j].op = "else" /\ s[j].block = q[m].block
    BY <1>4, <2>2
  <2>. QED
    BY <1>5, <2>1, <2>2
<1>6. Marks(u, q)
  BY <1>5 DEF Marks
<1>. QED
  BY <1>2, <1>6 DEF Lost, u

(* So it does when a drop is inserted.                                      *)
LEMMA LostInserted ==
  ASSUME NEW cs, NEW o, Lost(cs, o), NEW at \in DOMAIN cs, NEW v, v.op = "drop"
  PROVE  Lost(Inserted(cs, at, v), o)
<1>1. IsSeq(cs) /\ IsSeq(o) /\ Marks(cs, o) /\ Stray(cs)
  BY DEF Lost
<1>. DEFINE ds == Inserted(cs, at, v)
<1>2. Stray(ds)
  BY <1>1, InsertedStray
<1>3. IsSeq(ds)
  <2>1. at \in 1 .. Len(cs) + 1
    <3>1. DOMAIN cs = 1 .. Len(cs) /\ Len(cs) \in Nat
      BY <1>1, SeqIs
    <3>. QED
      BY ONLY <3>1, at \in DOMAIN cs
  <2>. QED
    BY <1>1, <2>1, InsertedIs
<1>4. \A m \in DOMAIN cs : \E p \in DOMAIN ds : ds[p] = cs[m]
  BY <1>1, InsertedFrom
<1>. HIDE DEF ds
<1>5. Marks(ds, o)
  BY <1>1, <1>4 DEF Marks
<1>. QED
  BY <1>1, <1>2, <1>3, <1>5 DEF Lost, ds

(* An optional drop is one instruction or none.                             *)
LEMMA DropsOne ==
  ASSUME NEW S
  PROVE  Drops(S) = << >> \/ \E v : v.op = "drop" /\ Drops(S) = <<v>>
<1>1. CASE S = {}
  BY <1>1 DEF Drops
<1>2. CASE S # {}
  <2>. DEFINE v == [op |-> "drop", of |-> S]
  <2>1. Drops(S) = <<v>>
    BY <1>2 DEF Drops
  <2>2. v.op = "drop"
    OBVIOUS
  <2>. QED
    BY <2>1, <2>2
<1>. QED
  BY <1>1, <1>2

(* So it does at the end of a conditional.                                  *)
LEMMA EndIfLost ==
  ASSUME Lost(code, open), EndIf
  PROVE  Lost(code, open)'
<1>. DEFINE f == Last(open)
            P == f.pre
            T == f.then_env
            F == Front(scopes)
            tc == f.then_closed
            at == Marker("else", f.block)
            L == SubSeq(code, 1, at - 1)
            R == SubSeq(code, at, Len(code))
            A == IF closed THEN << >> ELSE ScopeDrops(scopes)
            D == IF ~tc /\ ~closed THEN Balance(P, F, T) ELSE << >>
            t == IF ~tc /\ ~closed THEN Balance(P, T, F) ELSE << >>
            i == [op |-> "endif", block |-> f.block]
            u == <<i>>
            cs == (code \o A) \o D
<1>1. /\ open # << >> /\ f.kind = "else"
      /\ code' = (((L \o t) \o R) \o (A \o D)) \o u
      /\ open' = Front(open)
  BY DEF EndIf
<1>2. IsSeq(code) /\ IsSeq(open) /\ Marks(code, open)
  BY DEF Lost
<1>3. /\ Len(open) \in DOMAIN open /\ f = open[Len(open)] /\ IsSeq(Front(open)) /\ DOMAIN Front(open) \subseteq DOMAIN open
      /\ \A m \in DOMAIN Front(open) : Front(open)[m] = open[m]
  <2>1. /\ Len(open) \in Nat \ {0} /\ f = open[Len(open)] /\ Len(open) \in DOMAIN open
        /\ IsSeq(Front(open)) /\ DOMAIN Front(open) = 1 .. Len(open) - 1
        /\ \A m \in 1 .. Len(open) - 1 : Front(open)[m] = open[m]
    BY <1>1, <1>2, SeqFront
  <2>2. DOMAIN open = 1 .. Len(open)
    BY <1>2, SeqIs
  <2>. QED
    BY <2>1, <2>2
<1>4. at \in DOMAIN code /\ code[at].op = "else"
  <2>1. \E k \in DOMAIN code : code[k].op = "else" /\ code[k].block = f.block
    BY <1>1, <1>2, <1>3 DEF Marks
  <2>. HIDE DEF f
  <2>. QED
    BY <2>1 DEF Marker
<1>6. IsSeq(L) /\ IsSeq(R) /\ Len(L) + 1 = at /\ code = L \o R
  BY <1>2, <1>4, SplitAt
<1>7. IsSeq(A) /\ IsSeq(D) /\ (t = << >> \/ \E v : v.op = "drop" /\ t = <<v>>)
  <2>1. IsSeq(ScopeDrops(scopes)) /\ IsSeq(Balance(P, F, T)) /\ IsSeq(<< >>)
    BY IsSeqs DEF ScopeDrops, Balance
  <2>2. Balance(P, T, F) = << >> \/ \E v : v.op = "drop" /\ Balance(P, T, F) = <<v>>
    BY DropsOne DEF Balance
  <2>. QED
    BY <2>1, <2>2
<1>8. \A v, e, w : e = << >> /\ w = <<v>> =>
         /\ (((L \o e) \o R) \o (A \o D)) \o u = Append(cs, i)
         /\ (((L \o w) \o R) \o (A \o D)) \o u = Append(Inserted(cs, at, v), i)
  <2>1. cs = ((L \o R) \o A) \o D
    BY <1>6
  <2>2. u = <<i>>
    OBVIOUS
  <2>. SUFFICES ASSUME NEW v, NEW e, NEW w, e = << >>, w = <<v>>
                PROVE /\ (((L \o e) \o R) \o (A \o D)) \o u = Append(cs, i)
                      /\ (((L \o w) \o R) \o (A \o D)) \o u = Append(Inserted(cs, at, v), i)
    OBVIOUS
  <2>3. e = << >> /\ w = <<v>>
    OBVIOUS
  <2>. HIDE DEF L, R, A, D, u, i, cs, at
  <2>4. Spliced(L, R, A, D, e, w, u, cs, v, i)
    BY ONLY <1>6, <1>7, <2>1, <2>2, <2>3, SplicedIs
  <2>. QED
    BY ONLY <1>6, <2>4 DEF Spliced
<1>9. Lost(cs, open) /\ at \in DOMAIN cs
  <2>. HIDE DEF A, D
  <2>1. Lost(code \o A, open)
    BY <1>2, <1>7, LostGrows
  <2>2. Lost((code \o A) \o D, open)
    BY <1>2, <1>7, <2>1, LostGrows
  <2>3. at \in DOMAIN (code \o A) /\ IsSeq(code \o A)
    <3>. HIDE DEF at
    <3>. QED
      BY <1>2, <1>4, <1>7, CatFrom
  <2>4. at \in DOMAIN ((code \o A) \o D)
    <3>. HIDE DEF at
    <3>. QED
      BY <1>7, <2>3, CatFrom
  <2>. QED
    BY <2>2, <2>4
<1>10. ASSUME NEW ds, Lost(ds, open), code' = Append(ds, i)
       PROVE  Lost(code, open)'
  <2>1. IsSeq(<<i>>) /\ IsSeq(ds)
    BY <1>10, IsSeqs DEF Lost
  <2>2. ds \o <<i>> = Append(ds, i)
    BY <2>1, CatIs
  <2>. DEFINE s == <<i>>
  <2>3. IsSeq(s) /\ ds \o s = Append(ds, i)
    BY <2>1, <2>2
  <2>. HIDE DEF s, i
  <2>4. Lost(ds \o s, Front(open))
    BY <1>3, <1>10, <2>3, LostGrows
  <2>5. Lost(code', open')
    BY <1>1, <1>10, <2>3, <2>4
  <2>. QED
    BY <2>5 DEF Lost, Marks, Stray, IsSeq
<1>11. CASE t = << >>
  <2>1. code' = Append(cs, i)
    <3>. HIDE DEF L, R, A, D, u, i, cs, at, t
    <3>. QED
      BY ONLY <1>1, <1>8, <1>11
  <2>. HIDE DEF cs, i
  <2>. QED
    BY <1>9, <1>10, <2>1
<1>12. CASE \E v : v.op = "drop" /\ t = <<v>>
  <2>1. PICK v : v.op = "drop" /\ t = <<v>>
    BY <1>12
  <2>2. \E e : e = << >>
    OBVIOUS
  <2>3. code' = Append(Inserted(cs, at, v), i)
    <3>. HIDE DEF L, R, A, D, u, i, cs, at, t
    <3>. QED
      BY ONLY <1>1, <1>8, <2>1, <2>2
  <2>. HIDE DEF cs, i, at
  <2>4. Lost(Inserted(cs, at, v), open)
    BY <1>9, <2>1, LostInserted
  <2>. QED
    BY <1>10, <2>3, <2>4
<1>. QED
  BY <1>7, <1>11, <1>12

(* A refused body stays refused when a statement writes to it.              *)
LEMMA LostEmit ==
  ASSUME Lost(code, open), NEW s, IsSeq(s), Emit(s), IsSeq(open'),
         \A m \in DOMAIN open' : open'[m].kind = "else" =>
           \/ m \in DOMAIN open /\ open'[m] = open[m]
           \/ \E j \in DOMAIN s : s[j].op = "else" /\ s[j].block = open'[m].block
  PROVE  Lost(code, open)'
<1>. DEFINE q == open'
<1>1. IsSeq(q) /\ \A m \in DOMAIN q : q[m].kind = "else" =>
           \/ m \in DOMAIN open /\ q[m] = open[m]
           \/ \E j \in DOMAIN s : s[j].op = "else" /\ s[j].block = q[m].block
  OBVIOUS
<1>2. code' = code \o s
  BY DEF Emit
<1>. HIDE DEF q
<1>3. Lost(code \o s, q)
  BY <1>1, LostGrows
<1>4. Lost(code', open')
  BY <1>2, <1>3 DEF q
<1>. QED
  BY <1>4 DEF Lost, Marks, Stray, IsSeq

(* So it does when the statement opens and closes nothing.                  *)
LEMMA LostSame ==
  ASSUME Lost(code, open), NEW s, IsSeq(s), Emit(s), open' = open
  PROVE  Lost(code, open)'
<1>1. IsSeq(open)
  BY DEF Lost
<1>. QED
  BY <1>1, LostEmit

(* So it does when the statement opens a body.                              *)
LEMMA LostPush ==
  ASSUME Lost(code, open), NEW s, IsSeq(s), Emit(s), NEW f, open' = Append(open, f), f.kind # "else"
  PROVE  Lost(code, open)'
<1>1. /\ IsSeq(Append(open, f)) /\ DOMAIN Append(open, f) = 1 .. Len(open) + 1 /\ DOMAIN open = 1 .. Len(open)
      /\ \A m \in 1 .. Len(open) : Append(open, f)[m] = open[m]
      /\ Append(open, f)[Len(open) + 1] = f /\ Len(open) \in Nat
  BY SeqAppend, SeqIs DEF Lost
<1>. DEFINE q == Append(open, f)
<1>2. \A m \in DOMAIN q : m \in DOMAIN open \/ m = Len(open) + 1
  BY <1>1
<1>3. \A m \in DOMAIN q : q[m].kind = "else" => m \in DOMAIN open /\ q[m] = open[m]
  BY <1>1, <1>2
<1>4. open' = q /\ IsSeq(q)
  BY <1>1
<1>. HIDE DEF q
<1>. QED
  BY <1>3, <1>4, LostEmit

(* Whatever the pass does a refused body stays refused.                     *)
LEMMA LostStep ==
  ASSUME Lost(code, open), CheckStep, ~Finish
  PROVE  Lost(code, open)'
<1>1. \A i : IsSeq(<<i>>) /\ IsSeq(<< >>)
  BY IsSeqs
<1>2. \A E : IsSeq(ScopeDrops(E)) /\ IsSeq(ReturnDrops(E)) /\ \A d : IsSeq(LoopDrops(E, d))
  BY IsSeqs DEF ScopeDrops, ReturnDrops, LoopDrops
<1>3. \A s, t : IsSeq(s) /\ IsSeq(t) => IsSeq(s \o t)
  BY CatIs
<1>4. ASSUME NEW n \in Names, NEW e \in Exprs, Let(n, e)
      PROVE  Lost(code, open)'
  <2>1. \E i : Emit(<<i>>)
    BY <1>4 DEF Let
  <2>2. open' = open
    BY <1>4 DEF Let
  <2>. QED
    BY <1>1, <2>1, <2>2, LostSame
<1>5. ASSUME NEW n \in Names, NEW e \in Exprs, Assign(n, e)
      PROVE  Lost(code, open)'
  BY <1>1, <1>5, LostSame DEF Assign
<1>6. ASSUME NEW n \in Names, Use(n)
      PROVE  Lost(code, open)'
  BY <1>1, <1>6, LostSame DEF Use
<1>7. ASSUME NEW n \in Names, TaskJoin(n)
      PROVE  Lost(code, open)'
  BY <1>1, <1>7, LostSame DEF TaskJoin
<1>8. ASSUME NEW n \in Names, NEW body \in TaskBodies, TaskSpawn(n, body)
      PROVE  Lost(code, open)'
  BY <1>1, <1>8, LostSame DEF TaskSpawn
<1>9. ASSUME NEW f \in DOMAIN Callees, NEW m \in Mutexes, Call(f, m)
      PROVE  Lost(code, open)'
  BY <1>1, <1>9, LostSame DEF Call
<1>10. ASSUME NEW e \in Exprs \cup {[k |-> "int"]}, Return(e)
       PROVE  Lost(code, open)'
  <2>1. \E i, j, E : Emit((<<i>> \o ReturnDrops(E)) \o <<j>>) /\ open' = open
    BY <1>10 DEF Return
  <2>2. PICK i, j, E : Emit((<<i>> \o ReturnDrops(E)) \o <<j>>) /\ open' = open
    BY <2>1
  <2>3. IsSeq((<<i>> \o ReturnDrops(E)) \o <<j>>)
    BY <1>1, <1>2, <1>3
  <2>. QED
    BY <2>2, <2>3, LostSame
<1>11. ASSUME If PROVE Lost(code, open)'
  <2>. DEFINE f == [kind |-> "then", block |-> NewBlock, pre |-> scopes]
              i == [op |-> "if", block |-> NewBlock]
  <2>1. Emit(<<i>>) /\ open' = Append(open, f)
    BY <1>11 DEF If, OpenBlock
  <2>2. f.kind # "else"
    OBVIOUS
  <2>. HIDE DEF f, i
  <2>. QED
    BY <1>1, <2>1, <2>2, LostPush
<1>12. ASSUME While PROVE Lost(code, open)'
  <2>. DEFINE f == [kind |-> "while", block |-> NewBlock, pre |-> scopes, depth |-> Len(scopes) + 1]
              i == [op |-> "while", block |-> NewBlock]
  <2>1. Emit(<<i>>) /\ open' = Append(open, f)
    BY <1>12 DEF While, OpenBlock
  <2>2. f.kind # "else"
    OBVIOUS
  <2>. HIDE DEF f, i
  <2>. QED
    BY <1>1, <2>1, <2>2, LostPush
<1>13. ASSUME NEW v \in Names, NEW c \in Names, NEW own \in BOOLEAN, ForIter(v, c, own)
       PROVE  Lost(code, open)'
  <2>. DEFINE k == IF own THEN "for own" ELSE "for ref"
              pre == IF own THEN SetInfo(scopes, c, [Lookup(scopes, c) EXCEPT !.moved = TRUE]) ELSE scopes
              f == [kind |-> k, block |-> NewBlock, pre |-> pre, coll |-> c, depth |-> Len(scopes) + 1]
              i == [op |-> "for", block |-> NewBlock, n |-> v, coll |-> c, own |-> own]
  <2>1. Emit(<<i>>) /\ open' = Append(open, f)
    BY <1>13 DEF ForIter, OpenBlock
  <2>2. f.kind # "else"
    <3>1. f.kind = k
      OBVIOUS
    <3>2. k # "else"
      OBVIOUS
    <3>. QED
      BY ONLY <3>1, <3>2
  <2>. HIDE DEF f, i
  <2>. QED
    BY <1>1, <2>1, <2>2, LostPush
<1>14. ASSUME Else PROVE Lost(code, open)'
  <2>. DEFINE l == Last(open)
              f == [kind |-> "else", block |-> l.block, pre |-> l.pre,
                    then_env |-> Front(scopes), then_closed |-> closed]
              t == IF closed THEN << >> ELSE ScopeDrops(scopes)
              i == [op |-> "else", block |-> l.block]
              u == <<i>>
              r == Front(open)
              q == Append(r, f)
  <2>1. Emit(t \o u) /\ open' = q /\ open # << >>
    BY <1>14 DEF Else
  <2>2. f.block = l.block /\ i.op = "else" /\ i.block = l.block
    OBVIOUS
  <2>3. IsSeq(t) /\ IsSeq(u) /\ IsSeq(open)
    BY <1>1, <1>2 DEF Lost
  <2>4. DOMAIN u = 1 .. 1 /\ u[1] = i
    OBVIOUS
  <2>5. /\ Len(open) \in Nat \ {0} /\ IsSeq(r) /\ Len(r) = Len(open) - 1 /\ DOMAIN r = 1 .. Len(open) - 1
        /\ \A m \in 1 .. Len(open) - 1 : r[m] = open[m]
    BY <2>1, <2>3, SeqFront
  <2>. HIDE DEF i, u, t, f, l, r
  <2>6. /\ IsSeq(q) /\ DOMAIN q = 1 .. Len(r) + 1 /\ q[Len(r) + 1] = f
        /\ \A m \in 1 .. Len(r) : q[m] = r[m]
    BY <2>5, SeqAppend
  <2>7. IsSeq(t \o u) /\ After(t \o u, Len(t), u)
    BY ONLY <2>3, CatFrom
  <2>8. Len(t) + 1 \in DOMAIN (t \o u) /\ (t \o u)[Len(t) + 1] = i
    BY ONLY <2>4, <2>7 DEF After
  <2>9. DOMAIN open = 1 .. Len(open)
    BY <2>3, SeqIs
  <2>. HIDE DEF q
  <2>10. \A m \in DOMAIN q : (m \in DOMAIN open /\ q[m] = open[m]) \/ q[m] = f
    BY ONLY <2>5, <2>6, <2>9
  <2>. DEFINE s == t \o u
  <2>11. IsSeq(s) /\ Emit(s) /\ \E j \in DOMAIN s : s[j] = i
    BY <2>1, <2>7, <2>8
  <2>. HIDE DEF s
  <2>12. \A m \in DOMAIN q : q[m].kind = "else" =>
           \/ m \in DOMAIN open /\ q[m] = open[m]
           \/ \E j \in DOMAIN s : s[j].op = "else" /\ s[j].block = q[m].block
    BY <2>2, <2>10, <2>11
  <2>. QED
    BY <2>1, <2>6, <2>11, <2>12, LostEmit
<1>15. ASSUME EndIf PROVE Lost(code, open)'
  BY <1>15, EndIfLost
<1>16. ASSUME EndLoop PROVE Lost(code, open)'
  <2>. DEFINE t == IF closed THEN << >> ELSE ScopeDrops(scopes)
              i == [op |-> "endloop", block |-> Last(open).block]
              j == [op |-> "freebuf", n |-> Last(open).coll]
              w == IF Last(open).kind = "for own" THEN <<j>> ELSE << >>
              s == (t \o <<i>>) \o w
  <2>1. Emit(s) /\ open' = Front(open) /\ open # << >>
    BY <1>16 DEF EndLoop
  <2>2. IsSeq(open)
    BY DEF Lost
  <2>3. IsSeq(t) /\ IsSeq(w)
    BY <1>1, <1>2
  <2>4. IsSeq(s)
    <3>. HIDE DEF t, w, i
    <3>. QED
      BY <1>1, <1>3, <2>3
  <2>. HIDE DEF s
  <2>5. IsSeq(Front(open)) /\ \A m \in DOMAIN Front(open) : m \in DOMAIN open /\ Front(open)[m] = open[m]
    <3>1. /\ Len(open) \in Nat \ {0} /\ IsSeq(Front(open)) /\ DOMAIN Front(open) = 1 .. Len(open) - 1
          /\ \A m \in 1 .. Len(open) - 1 : Front(open)[m] = open[m]
      BY <2>1, <2>2, SeqFront
    <3>2. DOMAIN open = 1 .. Len(open)
      BY <2>2, SeqIs
    <3>. QED
      BY <3>1, <3>2
  <2>. QED
    BY <2>1, <2>4, <2>5, LostEmit
<1>17. ASSUME NEW op \in {"break", "continue"}, Leave(op)
       PROVE  Lost(code, open)'
  <2>1. PICK k \in DOMAIN open : Emit(LoopDrops(scopes, open[k].depth) \o <<[op |-> op, block |-> open[k].block]>>)
    BY <1>17 DEF Leave
  <2>2. open' = open
    BY <1>17 DEF Leave
  <2>. DEFINE i == [op |-> op, block |-> open[k].block]
              t == LoopDrops(scopes, open[k].depth)
  <2>3. Emit(t \o <<i>>) /\ IsSeq(t)
    BY <1>2, <2>1
  <2>. HIDE DEF i, t
  <2>4. IsSeq(t \o <<i>>)
    BY <1>1, <1>3, <2>3
  <2>. QED
    BY <2>2, <2>3, <2>4, LostSame
<1>. QED
  BY <1>4, <1>5, <1>6, <1>7, <1>8, <1>9, <1>10, <1>11, <1>12, <1>13, <1>14, <1>15, <1>16, <1>17 DEF CheckStep

Pass == menu \in Menus /\ closed \in BOOLEAN /\ (Good \/ Lost(code, open))

(* Every open else branch has its else.                                     *)
LEMMA GoodMarks ==
  ASSUME Good
  PROVE  IsSeq(code) /\ IsSeq(open) /\ Marks(code, open)
<1>1. PICK g : Trace(code, g, Current, open)
  BY DEF Good
<1>. DEFINE C == Cells(code, g)
            x == Current
            o == open
<1>2. State(C, x, o) /\ IsSeq(code)
  BY <1>1 DEF Trace
<1>3. \A m \in DOMAIN o : FrameOK(C, o[m], Until(PathOf(o), m))
  BY <1>2 DEF State
<1>. HIDE DEF C, x, o
<1>4. ASSUME NEW m \in DOMAIN o, o[m].kind = "else"
      PROVE  HasMark(C, "else", o[m].block)
  BY <1>3, <1>4 DEF FrameOK, InElseOK
<1>5. ASSUME NEW m \in DOMAIN o, o[m].kind = "else"
      PROVE  \E i \in DOMAIN code : code[i].op = "else" /\ code[i].block = o[m].block
  <2>1. PICK c \in C : c.ins.op = "else" /\ c.ins.block = o[m].block
    BY <1>4, <1>5 DEF HasMark
  <2>2. PICK i \in DOMAIN code : c = Cell3(code[i], g[i], g[i + 1])
    BY DEF C, Cells
  <2>3. c.ins = code[i]
    BY <2>2, CellIs
  <2>. QED
    BY <2>1, <2>3
<1>6. Marks(code, o)
  BY <1>5 DEF Marks
<1>. QED
  BY <1>2, <1>6 DEF o, State

(* A join keeps the pass good or makes its body one that is refused.        *)
LEMMA JoinPass ==
  ASSUME menu \in Menus, Good, NEW n \in Names, TaskJoin(n)
  PROVE  Good' \/ Lost(code, open)'
<1>1. Good' \/ Stray(code')
  BY JoinKeeps
<1>. DEFINE i == [op |-> "join", n |-> n, in |-> Here, branch |-> Branch]
            u == <<i>>
<1>2. code' = code \o u /\ open' = open
  BY DEF TaskJoin, Emit
<1>3. IsSeq(code) /\ IsSeq(open) /\ Marks(code, open) /\ IsSeq(u)
  BY GoodMarks, IsSeqs
<1>. HIDE DEF u
<1>4. IsSeq(code \o u) /\ \A j \in DOMAIN code : j \in DOMAIN (code \o u) /\ (code \o u)[j] = code[j]
  <2>. DEFINE cs == code
  <2>1. IsSeq(cs) /\ IsSeq(u)
    BY <1>3
  <2>. HIDE DEF cs
  <2>2. IsSeq(cs \o u) /\ \A j \in DOMAIN cs : j \in DOMAIN (cs \o u) /\ (cs \o u)[j] = cs[j]
    BY ONLY <2>1, CatFrom
  <2>. QED
    BY <2>2 DEF cs
<1>5. IsSeq(code') /\ Marks(code', open')
  BY <1>2, <1>3, <1>4 DEF Marks
<1>. QED
  BY <1>1, <1>2, <1>3, <1>5 DEF Lost, Marks, Stray, IsSeq

(* The pass keeps its notes, whatever statement it meets.                   *)
LEMMA PassStep ==
  ASSUME Tame, "ret" \notin Names, Pass, CheckStep, menu' = menu
  PROVE  Pass'
<1>1. menu \in Menus /\ closed \in BOOLEAN /\ menu' \in Menus
  BY DEF Pass
<1>2. CASE Finish
  <2>1. scopes' = scopes /\ code' = code /\ open' = open /\ closed' = closed
    BY <1>2 DEF Finish
  <2>2. Current' = Current
    BY <2>1 DEF Current
  <2>3. Good => Good'
    BY <2>1, <2>2 DEF Good
  <2>4. Lost(code, open) => Lost(code, open)'
    BY <2>1 DEF Lost, Marks, Stray, IsSeq
  <2>. QED
    BY <1>1, <2>1, <2>3, <2>4 DEF Pass
<1>3. CASE Lost(code, open) /\ ~Finish /\ ~EndIf
  <2>1. Lost(code, open)'
    BY <1>3, LostStep
  <2>2. closed' \in BOOLEAN
    BY <1>1, <1>3, ZenonT(60) DEF CheckStep, Let, Assign, Use, TaskJoin, TaskSpawn, Call, Return, If, Else, While, EndLoop,
     ForIter, Leave, OpenBlock
  <2>. QED
    BY <1>1, <2>1, <2>2 DEF Pass
<1>4. CASE Good /\ ~Finish /\ ~EndIf
  <2>1. closed' \in BOOLEAN
    BY <1>1, <1>4 DEF CheckStep, Let, Assign, Use, TaskJoin, TaskSpawn, Call, Return, If, Else, While, EndLoop,
     ForIter, Leave, OpenBlock
  <2>2. Good' \/ Lost(code, open)'
    BY <1>1, <1>4, LetKeeps, AssignKeeps, UseKeeps, CallKeeps, SpawnKeeps, JoinPass, ReturnKeeps, IfKeeps,
       WhileKeeps, ForKeeps, ElseKeeps, EndLoopKeeps, LeaveKeeps DEF CheckStep
  <2>. QED
    BY <1>1, <2>1, <2>2 DEF Pass
<1>5. CASE EndIf /\ Good
  BY <1>1, <1>5, EndIfKeeps DEF Pass
<1>6. CASE EndIf /\ Lost(code, open)
  <2>1. Lost(code, open)'
    BY <1>6, EndIfLost
  <2>2. closed' \in BOOLEAN
    BY <1>6 DEF EndIf
  <2>. QED
    BY <1>1, <2>1, <2>2 DEF Pass
<1>. QED
  BY <1>2, <1>3, <1>4, <1>5, <1>6 DEF Pass

(* The notes of an accepted program: at the end of every body nothing of    *)
(* its scope is left.                                                       *)
Settled(cs, g) ==
  /\ Trace(cs, g, Dead, << >>)
  /\ \A c \in Cells(cs, g) : c.ins.op \in Closers /\ c.a.live =>
       \A n \in DOMAIN c.a.env[Len(c.a.env)] : Gone(c.a.env[Len(c.a.env)][n])

(* An accepted body has no stray join.                                      *)
LEMMA AffineStray ==
  ASSUME TaskAffine
  PROVE  ~Stray(code)
BY DEF TaskAffine, Stray

(* Every task handle is joined in the block that spawned it.                *)
LEMMA JoinedAt ==
  ASSUME TaskAffine, NEW i \in DOMAIN code, code[i].op = "spawn"
  PROVE  \E j \in DOMAIN code : /\ code[j].op = "join" /\ code[j].n = code[i].n
                                /\ code[j].in = code[i].in /\ code[j].branch = code[i].branch
<1>. DEFINE S == {j \in {k \in DOMAIN code : code[k].op = "join"} :
                    /\ code[i].n = code[j].n /\ code[i].in = code[j].in /\ code[i].branch = code[j].branch}
<1>1. Cardinality(S) = 1
  BY DEF TaskAffine
<1>2. S # {}
  <2>1. Cardinality({}) = 0
    BY FS_EmptySet
  <2>. QED
    BY ONLY <1>1, <2>1
<1>. QED
  BY <1>2

(* The cell of an instruction.                                              *)
LEMMA CellOf ==
  ASSUME NEW cs, NEW g, NEW i \in DOMAIN cs
  PROVE  /\ Cell3(cs[i], g[i], g[i + 1]) \in Cells(cs, g)
         /\ Cell3(cs[i], g[i], g[i + 1]).ins = cs[i]
         /\ Cell3(cs[i], g[i], g[i + 1]).a = g[i]
         /\ Cell3(cs[i], g[i], g[i + 1]).z = g[i + 1]
BY CellIs DEF Cells

(* Where the body of the function ends nothing of it is left to drop.       *)
LEMMA TopSealed ==
  ASSUME NEW C, NEW x, NEW o, State(C, x, o), o = << >>, NEW c \in C, c.ins.op \in Closers, c.a.live
  PROVE  \A n \in DOMAIN c.a.env[Len(c.a.env)] :
           Gone(c.a.env[Len(c.a.env)][n]) \/ c.a.env[Len(c.a.env)][n].ty = "task"
<1>1. Fit(c, C) /\ (\A h \in C : Fit(h, C)) /\ \A h \in C : h.ins.op \in Opens => Shut(C, h)
  BY DEF State, Typed
<1>2. PICK h \in C : h.ins.op \in Opens /\ h.ins.block = c.ins.block
  BY <1>1 DEF Fit, HasOpen, Ends
<1>3. PairOK(h, c)
  BY <1>1 DEF Fit
<1>4. CASE c.ins.op = "else"
  <2>1. h.ins.op = "if"
    BY <1>2, <1>3, <1>4 DEF PairOK, Ends, Closers
  <2>2. PICK e \in C : e.ins.op = "endif" /\ e.ins.block = c.ins.block
    BY <1>1, <1>2, <2>1 DEF Shut, HasMark
  <2>3. MergeOK(c, e)
    BY <1>1 DEF Fit
  <2>. QED
    BY <1>4, <2>2, <2>3 DEF MergeOK, SealedButTasks
<1>5. CASE c.ins.op = "endif"
  BY <1>2, <1>3, <1>5 DEF PairOK, EndIfOK, SealedButTasks, Ends, Closers
<1>6. CASE c.ins.op = "endloop"
  BY <1>2, <1>3, <1>6 DEF PairOK, EndLoopOK, SealedButTasks, Ends, Closers
<1>. QED
  BY <1>4, <1>5, <1>6 DEF Closers

(* The notes of an accepted body are settled.                               *)
LEMMA FinishSettles ==
  ASSUME Pass, Finish
  PROVE  \E g : Settled(code, g)
<1>1. open = << >> /\ closed /\ TaskAffine
  BY DEF Finish
<1>2. Good
  BY <1>1, AffineStray DEF Pass, Lost
<1>3. PICK g : Trace(code, g, Dead, open)
  BY <1>1, <1>2 DEF Good, Current
<1>. DEFINE C == Cells(code, g)
            x == Dead
<1>4. State(C, x, open) /\ IsSeq(code)
  BY <1>3 DEF Trace
<1>. HIDE DEF x
<1>5. ASSUME NEW c \in C, c.ins.op \in Closers, c.a.live, NEW n \in DOMAIN c.a.env[Len(c.a.env)]
      PROVE  Gone(c.a.env[Len(c.a.env)][n])
  <2>. DEFINE D == Len(c.a.env)
              E == c.a.env
  <2>1. \A h \in C : Fit(h, C)
    BY <1>4 DEF State, Typed
  <2>2. Gone(E[D][n]) \/ E[D][n].ty = "task"
    <3>. HIDE DEF C
    <3>1. \A m \in DOMAIN c.a.env[Len(c.a.env)] :
           Gone(c.a.env[Len(c.a.env)][m]) \/ c.a.env[Len(c.a.env)][m].ty = "task"
      BY ONLY <1>1, <1>4, <1>5, c \in C, TopSealed
    <3>. QED
      BY <3>1
  <2>3. CellOK(c) /\ Sits(c.a, C) /\ Accounted(c.a, C, Len(c.a.path))
    BY <1>5, <2>1 DEF Fit
  <2>4. Len(c.a.path) = D /\ DOMAIN E = 1 .. D /\ D \in Nat \ {0} /\ DOMAIN c.a.path = 1 .. D
    <3>1. NoteOK(c.a)
      BY <2>3 DEF CellOK
    <3>. QED
      BY <1>5, <3>1, PathIs
  <2>5. ASSUME E[D][n].ty = "task" PROVE E[D][n].moved
    <3>1. D \in DOMAIN E
      BY <2>4
    <3>2. PICK s \in C : s.ins.op = "spawn" /\ s.ins.n = n /\ At1(s, c.a.path[D])
      <4>. HIDE DEF C
      <4>. QED
        BY <1>5, <2>3, <2>5, <3>1 DEF Sits, Placed
    <3>3. PICK i \in DOMAIN code : s = Cell3(code[i], g[i], g[i + 1])
      BY DEF Cells
    <3>4. s.ins = code[i]
      BY <3>3, CellIs
    <3>5. PICK j \in DOMAIN code : /\ code[j].op = "join" /\ code[j].n = code[i].n
                                   /\ code[j].in = code[i].in /\ code[j].branch = code[i].branch
      BY <1>1, <3>2, <3>4, JoinedAt
    <3>. DEFINE d == Cell3(code[j], g[j], g[j + 1])
    <3>6. d \in C /\ d.ins = code[j]
      BY CellOf
    <3>. HIDE DEF d, C
    <3>7. d.ins.op = "join" /\ d.ins.n = n /\ At1(d, c.a.path[D])
      BY <3>2, <3>4, <3>5, <3>6 DEF At1
    <3>8. d.ins.n \in DOMAIN E[D] /\ E[D][d.ins.n].moved
      BY <2>3, <2>4, <3>6, <3>7 DEF Accounted
    <3>. QED
      BY <3>7, <3>8
  <2>. QED
    BY <2>2, <2>5 DEF Gone
<1>. QED
  BY <1>1, <1>3, <1>5 DEF Settled

(* The pass starts good.                                                    *)
LEMMA InitPass ==
  ASSUME Init
  PROVE  Pass
<1>1. /\ menu \in Menus /\ scopes = << << >> >> /\ code = << >> /\ open = << >> /\ closed = FALSE
  BY DEF Init
<1>. DEFINE x == Note(<< << >> >>, <<Body>>)
            g == <<x>>
            cs == << >>
            E == << << >> >>
<1>2. PathOf(open) = <<Body>>
  <2>1. Len(open) + 1 = 1
    BY <1>1
  <2>2. PathOf(open) = [d \in 1 .. 1 |-> Body]
    BY <1>1 DEF PathOf
  <2>. QED
    BY <2>2
<1>3. Current = x
  BY <1>1, <1>2 DEF Current
<1>4. EnvOK(E) /\ DOMAIN E = 1 .. 1 /\ Len(E) = 1 /\ E[1] = << >> /\ DOMAIN << >> = {}
  <2>1. << >> \in Scope /\ DOMAIN << >> = {}
    BY EmptyScope
  <2>2. E \in Seq(Scope) /\ Len(E) = 1 /\ DOMAIN E = 1 .. 1 /\ E[1] = << >>
    BY <2>1
  <2>3. Distinct(E)
    BY <2>1, <2>2 DEF Distinct
  <2>. QED
    BY <2>1, <2>2, <2>3 DEF EnvOK
<1>5. /\ Body \in Places /\ <<Body>> \in Seq(Places) /\ Len(<<Body>>) = 1 /\ DOMAIN <<Body>> = 1 .. 1
      /\ <<Body>>[1] = Body
  BY DEF Body, Places, PlaceKinds
<1>6. x.live /\ x.env = E /\ x.path = <<Body>> /\ x.extra = {} /\ x = WithExtra(x.env, x.path, x.extra)
  BY DEF Note, WithExtra
<1>. DEFINE p == <<Body>>
<1>. HIDE DEF x, E, p
<1>7. NoteOK(x)
  <2>1. x.path \in Seq(Places) /\ Len(x.path) = Len(x.env) /\ x.path[1] = Body /\ DOMAIN x.path = 1 .. 1
    BY <1>4, <1>5, <1>6 DEF p
  <2>2. \A d, e \in DOMAIN x.path : x.path[d].block = x.path[e].block => d = e
    BY ONLY <2>1
  <2>. QED
    BY <1>4, <1>6, <2>1, <2>2 DEF NoteOK
<1>8. IsSeq(cs) /\ IsSeq(g) /\ IsSeq(open) /\ Len(g) = Len(cs) + 1 /\ g[1] = x /\ g[Len(g)] = x /\ DOMAIN cs = {} /\ DOMAIN open = {}
  <2>1. IsSeq(cs) /\ IsSeq(g) /\ IsSeq(open)
    BY <1>1, IsSeqs
  <2>2. Len(cs) = 0 /\ Len(g) = 1 /\ g[1] = x /\ DOMAIN cs = {}
    OBVIOUS
  <2>. QED
    BY <1>1, <2>1, <2>2
<1>9. Cells(cs, g) = {}
  BY <1>8 DEF Cells
<1>. HIDE DEF cs, g
<1>10. State({}, x, open)
  <2>1. Typed({}) /\ OneOpen({})
    BY DEF Typed, OneOpen
  <2>2. Stand(x, {})
    <3>1. Placed(x, {})
      <4>1. \A D \in DOMAIN x.path : ~(D > 1)
        BY <1>5, <1>6 DEF p
      <4>2. \A D \in DOMAIN x.env : DOMAIN x.env[D] = {}
        BY <1>4, <1>6
      <4>3. DOMAIN x.env[1] = {}
        BY <1>4, <1>6
      <4>. QED
        BY <4>1, <4>2, <4>3 DEF Placed
    <3>2. \A d \in DOMAIN x.path : Accounted(x, {}, d)
      BY DEF Accounted
    <3>. QED
      BY <3>1, <3>2 DEF Stand, Sits
  <2>3. x.path = PathOf(open)
    BY <1>2, <1>6 DEF p
  <2>. QED
    BY <1>7, <1>8, <2>1, <2>2, <2>3 DEF State
<1>11. \E n \in Nat : BlocksOf(cs) = 1 .. n
  <2>1. BlocksOf(cs) = {} /\ 1 .. 0 = {} /\ 0 \in Nat
    BY <1>8 DEF BlocksOf
  <2>. QED
    BY <2>1
<1>12. OneElse(cs)
  BY <1>8 DEF OneElse
<1>13. Trace(cs, g, x, open)
  BY <1>8, <1>9, <1>10, <1>11, <1>12 DEF Trace, x
<1>. QED
  BY <1>1, <1>3, <1>13 DEF Pass, Good, cs

-----------------------------------------------------------------------------
(* The run: the C blocks and their variables                                *)

(* The open C blocks are those of a note: the scopes E at path p, and the   *)
(* value of a return that is kept in the innermost one.                     *)
Holds(bs, p, E, X) ==
  /\ IsSeq(bs) /\ Len(bs) = Len(p)
  /\ \A d \in DOMAIN bs :
       /\ bs[d] = [block |-> p[d].block, vars |-> bs[d].vars]
       /\ bs[d].vars = [n \in DOMAIN bs[d].vars |-> bs[d].vars[n]]
       /\ DOMAIN bs[d].vars = DOMAIN E[d] \cup (IF d = Len(p) THEN X \cap {"ret"} ELSE {})

(* One C block with other variables.                                        *)
LEMMA BlockIs ==
  ASSUME NEW r, NEW b, NEW f, r = [block |-> b, vars |-> f], NEW n, NEW v, NEW w
  PROVE  /\ [r EXCEPT !.vars[n] = v] = [block |-> b, vars |-> [f EXCEPT ![n] = v]]
         /\ [r EXCEPT !.vars = w] = [block |-> b, vars |-> w]
OBVIOUS

HoldsAt(bs, x) == NoteOK(x) /\ x.live /\ Holds(bs, x.path, x.env, x.extra)

(* What the blocks of the C code hold where a note stands.                  *)
LEMMA HoldsIs ==
  ASSUME NEW bs, NEW x, HoldsAt(bs, x)
  PROVE  /\ Len(bs) \in Nat \ {0} /\ DOMAIN bs = 1 .. Len(bs) /\ Len(bs) = Len(x.env) /\ Len(x.path) = Len(x.env)
         /\ DOMAIN x.env = DOMAIN bs /\ DOMAIN x.path = DOMAIN bs /\ EnvOK(x.env)
         /\ bs = [d \in DOMAIN bs |-> bs[d]]
         /\ \A d \in DOMAIN bs : /\ bs[d] = [block |-> x.path[d].block, vars |-> bs[d].vars]
                                 /\ bs[d].block = x.path[d].block
                                 /\ bs[d].vars = [n \in DOMAIN bs[d].vars |-> bs[d].vars[n]]
                                 /\ DOMAIN x.env[d] \subseteq DOMAIN bs[d].vars
                                 /\ DOMAIN bs[d].vars \subseteq DOMAIN x.env[d] \cup {"ret"}
                                 /\ "ret" \notin Names => ("ret" \in DOMAIN bs[d].vars <=> d = Len(bs) /\ "ret" \in x.extra)
         /\ \A d \in DOMAIN bs : DOMAIN x.env[d] \subseteq Names
<1>1. /\ Len(x.env) \in Nat \ {0} /\ DOMAIN x.env = 1 .. Len(x.env) /\ DOMAIN x.path = 1 .. Len(x.env)
      /\ Len(x.path) = Len(x.env) /\ EnvOK(x.env)
  BY PathIs DEF HoldsAt
<1>2. \A d \in DOMAIN x.env : DOMAIN x.env[d] \subseteq Names
  BY <1>1, EnvIs
<1>3. Holds(bs, x.path, x.env, x.extra)
  BY DEF HoldsAt
<1>4. DOMAIN bs = 1 .. Len(bs) /\ bs = [d \in DOMAIN bs |-> bs[d]] /\ Len(bs) = Len(x.env)
  BY <1>1, <1>3 DEF Holds, IsSeq
<1>5. \A d \in DOMAIN bs :
       /\ bs[d] = [block |-> x.path[d].block, vars |-> bs[d].vars]
       /\ bs[d].vars = [n \in DOMAIN bs[d].vars |-> bs[d].vars[n]]
       /\ DOMAIN bs[d].vars = DOMAIN x.env[d] \cup (IF d = Len(x.path) THEN x.extra \cap {"ret"} ELSE {})
  BY <1>3 DEF Holds
<1>. QED
  BY <1>1, <1>2, <1>4, <1>5

(* The innermost C variable of a name is the one of its binding.            *)
LEMMA FrameIs ==
  ASSUME "ret" \notin Names, NEW bs, NEW x, HoldsAt(bs, x), NEW d \in DOMAIN x.env, NEW n \in DOMAIN x.env[d]
  PROVE  /\ Frame(bs, n) = d /\ Value(bs, n) = bs[d].vars[n] /\ n \in Names
         /\ n \in DOMAIN bs[d].vars /\ d \in DOMAIN bs
<1>1. /\ Len(bs) \in Nat \ {0} /\ DOMAIN bs = 1 .. Len(bs) /\ DOMAIN x.env = DOMAIN bs /\ EnvOK(x.env)
      /\ \A e \in DOMAIN bs : /\ DOMAIN x.env[e] \subseteq DOMAIN bs[e].vars
                              /\ DOMAIN bs[e].vars \subseteq DOMAIN x.env[e] \cup {"ret"}
      /\ \A e \in DOMAIN bs : DOMAIN x.env[e] \subseteq Names
  BY HoldsIs
<1>2. \A e \in DOMAIN x.env : n \in DOMAIN x.env[e] => e = d
  BY <1>1, EnvIs
<1>3. n \in Names /\ n # "ret"
  BY <1>1
<1>4. \A e \in DOMAIN bs : n \in DOMAIN bs[e].vars <=> e = d
  BY <1>1, <1>2, <1>3
<1>5. \A e \in (d + 1) .. Len(bs) : e \in DOMAIN bs /\ e # d
  BY <1>1
<1>6. Frame(bs, n) = d
  BY <1>1, <1>4, <1>5 DEF Frame
<1>. QED
  BY <1>1, <1>3, <1>4, <1>6 DEF Value

(* The value of a return.                                                   *)
LEMMA RetIs ==
  ASSUME "ret" \notin Names, NEW bs, NEW x, HoldsAt(bs, x), "ret" \in x.extra
  PROVE  /\ Value(bs, "ret") = bs[Len(bs)].vars["ret"] /\ "ret" \in DOMAIN bs[Len(bs)].vars
         /\ Len(bs) \in DOMAIN bs
<1>1. /\ Len(bs) \in Nat \ {0} /\ DOMAIN bs = 1 .. Len(bs)
      /\ \A d \in DOMAIN bs : "ret" \in DOMAIN bs[d].vars <=> d = Len(bs)
  BY HoldsIs
<1>2. \A e \in (Len(bs) + 1) .. Len(bs) : FALSE
  BY <1>1
<1>3. Len(bs) \in DOMAIN bs
  BY <1>1
<1>4. Frame(bs, "ret") = Len(bs)
  BY <1>1, <1>2, <1>3 DEF Frame
<1>. QED
  BY <1>1, <1>3, <1>4 DEF Value

(* A new value in the variable of a binding.                                *)
LEMMA StoreIs ==
  ASSUME "ret" \notin Names, NEW bs, NEW x, HoldsAt(bs, x), NEW d \in DOMAIN x.env, NEW n \in DOMAIN x.env[d], NEW v
  PROVE  LET F == Store(bs, n, v) IN
         /\ HoldsAt(F, x)
         /\ \A e \in DOMAIN bs : DOMAIN F[e].vars = DOMAIN bs[e].vars
         /\ \A e \in DOMAIN bs : \A m \in DOMAIN bs[e].vars :
              F[e].vars[m] = IF e = d /\ m = n THEN v ELSE bs[e].vars[m]
<1>1. Frame(bs, n) = d /\ n \in DOMAIN bs[d].vars /\ d \in DOMAIN bs
  BY FrameIs
<1>2. /\ Len(bs) \in Nat \ {0} /\ DOMAIN bs = 1 .. Len(bs)
      /\ bs = [e \in DOMAIN bs |-> bs[e]]
      /\ \A e \in DOMAIN bs : /\ bs[e] = [block |-> x.path[e].block, vars |-> bs[e].vars]
                              /\ bs[e].vars = [m \in DOMAIN bs[e].vars |-> bs[e].vars[m]]
  BY HoldsIs
<1>. DEFINE F == Store(bs, n, v)
            w == [bs[d].vars EXCEPT ![n] = v]
<1>3. F = [bs EXCEPT ![d].vars[n] = v]
  BY <1>1 DEF Store
<1>4. DOMAIN F = DOMAIN bs /\ F = [e \in DOMAIN bs |-> F[e]] /\ \A e \in DOMAIN bs : e # d => F[e] = bs[e]
  BY <1>2, <1>3
<1>5. F[d] = [block |-> x.path[d].block, vars |-> w]
  <2>1. F[d] = [bs[d] EXCEPT !.vars[n] = v]
    BY <1>1, <1>2, <1>3
  <2>2. bs[d] = [block |-> x.path[d].block, vars |-> bs[d].vars]
    BY <1>1, <1>2
  <2>. QED
    BY ONLY <2>1, <2>2, BlockIs DEF w
<1>6. DOMAIN w = DOMAIN bs[d].vars /\ w = [m \in DOMAIN w |-> w[m]]
      /\ \A m \in DOMAIN bs[d].vars : w[m] = IF m = n THEN v ELSE bs[d].vars[m]
  BY <1>1, <1>2
<1>. HIDE DEF F, w
<1>7. F[d].vars = w
  BY <1>5
<1>8. Len(F) = Len(bs)
  BY <1>2, <1>4
<1>9. Holds(bs, x.path, x.env, x.extra) /\ NoteOK(x) /\ x.live
  BY DEF HoldsAt
<1>10. /\ \A e \in DOMAIN bs : DOMAIN F[e].vars = DOMAIN bs[e].vars
       /\ \A e \in DOMAIN bs : \A m \in DOMAIN bs[e].vars :
              F[e].vars[m] = IF e = d /\ m = n THEN v ELSE bs[e].vars[m]
       /\ \A e \in DOMAIN bs : /\ F[e] = [block |-> x.path[e].block, vars |-> F[e].vars]
                               /\ F[e].vars = [m \in DOMAIN F[e].vars |-> F[e].vars[m]]
  BY <1>2, <1>4, <1>5, <1>6, <1>7
<1>11. IsSeq(F)
  BY <1>2, <1>4, <1>8 DEF IsSeq
<1>12. Holds(F, x.path, x.env, x.extra)
  BY <1>4, <1>8, <1>9, <1>10, <1>11 DEF Holds
<1>. QED
  BY <1>9, <1>10, <1>12 DEF HoldsAt, F

(* y has what x has and one more variable, n, in the innermost block.       *)
Grows(x, y, n) ==
  /\ NoteOK(y) /\ y.live /\ y.path = x.path
  /\ \A d \in DOMAIN x.env : d # Len(x.env) => DOMAIN y.env[d] = DOMAIN x.env[d]
  /\ DOMAIN y.env[Len(x.env)] \cup (y.extra \cap {"ret"})
           = DOMAIN x.env[Len(x.env)] \cup (x.extra \cap {"ret"}) \cup {n}

(* bs became F by the declaration of n.                                     *)
Declared(bs, F, n, v) ==
  /\ DOMAIN F = DOMAIN bs /\ Len(F) = Len(bs)
  /\ \A e \in DOMAIN bs : e # Len(bs) => F[e] = bs[e]
  /\ DOMAIN F[Len(bs)].vars = DOMAIN bs[Len(bs)].vars \cup {n}
  /\ F[Len(bs)].vars[n] = v
  /\ \A m \in DOMAIN bs[Len(bs)].vars : m # n => F[Len(bs)].vars[m] = bs[Len(bs)].vars[m]

(* A declaration in the innermost block.                                    *)
LEMMA DeclareIs ==
  ASSUME "ret" \notin Names, NEW bs, NEW x, HoldsAt(bs, x), NEW n, NEW v, NEW y, Grows(x, y, n)
  PROVE  HoldsAt(Declare(bs, n, v), y) /\ Declared(bs, Declare(bs, n, v), n, v)
<1>1. /\ NoteOK(y) /\ y.live /\ y.path = x.path
      /\ \A d \in DOMAIN x.env : d # Len(x.env) => DOMAIN y.env[d] = DOMAIN x.env[d]
      /\ DOMAIN y.env[Len(x.env)] \cup (y.extra \cap {"ret"})
           = DOMAIN x.env[Len(x.env)] \cup (x.extra \cap {"ret"}) \cup {n}
  BY DEF Grows
<1>2. /\ Len(bs) \in Nat \ {0} /\ DOMAIN bs = 1 .. Len(bs) /\ Len(bs) = Len(x.env) /\ DOMAIN x.env = DOMAIN bs
      /\ bs = [e \in DOMAIN bs |-> bs[e]]
      /\ \A e \in DOMAIN bs : /\ bs[e] = [block |-> x.path[e].block, vars |-> bs[e].vars]
                              /\ bs[e].vars = [m \in DOMAIN bs[e].vars |-> bs[e].vars[m]]
  BY HoldsIs
<1>. DEFINE F == Declare(bs, n, v)
            l == Len(bs)
            w == Bind(bs[l].vars, n, v)
<1>3. l \in DOMAIN bs
  BY <1>2
<1>4. DOMAIN F = DOMAIN bs /\ F = [e \in DOMAIN bs |-> F[e]] /\ \A e \in DOMAIN bs : e # l => F[e] = bs[e]
  BY <1>2, <1>3 DEF Declare
<1>5. F[l] = [block |-> x.path[l].block, vars |-> w]
  <2>1. F[l] = [bs[l] EXCEPT !.vars = w]
    BY <1>2, <1>3 DEF Declare
  <2>. HIDE DEF w
  <2>2. bs[l] = [block |-> x.path[l].block, vars |-> bs[l].vars]
    BY <1>2, <1>3
  <2>. QED
    BY ONLY <2>1, <2>2, BlockIs
<1>6. DOMAIN w = DOMAIN bs[l].vars \cup {n} /\ w = [m \in DOMAIN w |-> w[m]] /\ w[n] = v
      /\ \A m \in DOMAIN bs[l].vars : m # n => w[m] = bs[l].vars[m]
  BY DEF Bind
<1>. HIDE DEF F, w
<1>7. F[l].vars = w
  BY <1>5
<1>8. Len(F) = Len(bs)
  BY <1>2, <1>4
<1>9. Holds(bs, x.path, x.env, x.extra) /\ Len(x.path) = l
  BY DEF HoldsAt, Holds
<1>10. \A e \in DOMAIN bs : /\ F[e] = [block |-> x.path[e].block, vars |-> F[e].vars]
                            /\ F[e].vars = [m \in DOMAIN F[e].vars |-> F[e].vars[m]]
  <2>. TAKE e \in DOMAIN bs
  <2>1. CASE e = l
    BY ONLY <1>5, <1>6, <1>7, <2>1
  <2>2. CASE e # l
    BY ONLY <1>2, <1>4, <2>2, e \in DOMAIN bs
  <2>. QED
    BY <2>1, <2>2
<1>11. IsSeq(F)
  BY <1>2, <1>4, <1>8 DEF IsSeq
<1>12. \A e \in DOMAIN bs : DOMAIN bs[e].vars = DOMAIN x.env[e] \cup (IF e = l THEN x.extra \cap {"ret"} ELSE {})
  BY <1>9 DEF Holds
<1>13. \A e \in DOMAIN bs : DOMAIN F[e].vars = DOMAIN y.env[e] \cup (IF e = l THEN y.extra \cap {"ret"} ELSE {})
  <2>. TAKE e \in DOMAIN bs
  <2>1. CASE e = l
    BY <1>1, <1>2, <1>6, <1>7, <1>12, <2>1
  <2>2. CASE e # l
    BY <1>1, <1>2, <1>4, <1>12, <2>2
  <2>. QED
    BY <2>1, <2>2
<1>14. Holds(F, y.path, y.env, y.extra)
  BY <1>1, <1>4, <1>8, <1>9, <1>10, <1>11, <1>13 DEF Holds
<1>. QED
  BY <1>1, <1>4, <1>6, <1>7, <1>8, <1>14 DEF HoldsAt, F, Declared

(* A new C block.                                                           *)
LEMMA EnterIs ==
  ASSUME "ret" \notin Names, NEW bs, NEW x, HoldsAt(bs, x), "ret" \notin x.extra, NEW b, NEW w, w = [n \in DOMAIN w |-> w[n]],
         NEW y, NoteOK(y), y.live, "ret" \notin y.extra, NEW k, y.path = Append(x.path, [block |-> b, kind |-> k]),
         \A d \in DOMAIN x.env : DOMAIN y.env[d] = DOMAIN x.env[d], DOMAIN y.env[Len(x.env) + 1] = DOMAIN w
  PROVE  LET F == Append(bs, [block |-> b, vars |-> w]) IN
         /\ HoldsAt(F, y) /\ Len(F) = Len(bs) + 1
         /\ \A e \in DOMAIN bs : F[e] = bs[e]
         /\ F[Len(bs) + 1].vars = w /\ F[Len(bs) + 1].block = b
<1>. DEFINE F == Append(bs, [block |-> b, vars |-> w])
            l == Len(bs)
<1>1. /\ l \in Nat \ {0} /\ DOMAIN bs = 1 .. l /\ l = Len(x.env) /\ DOMAIN x.env = DOMAIN bs
      /\ Len(x.path) = l /\ DOMAIN x.path = DOMAIN bs
      /\ \A e \in DOMAIN bs : /\ bs[e] = [block |-> x.path[e].block, vars |-> bs[e].vars]
                              /\ bs[e].vars = [m \in DOMAIN bs[e].vars |-> bs[e].vars[m]]
  BY HoldsIs
<1>2. Holds(bs, x.path, x.env, x.extra) /\ IsSeq(bs)
  BY DEF HoldsAt, Holds
<1>3. /\ IsSeq(F) /\ Len(F) = l + 1 /\ DOMAIN F = 1 .. l + 1
      /\ \A e \in 1 .. l : F[e] = bs[e]
      /\ F[l + 1] = [block |-> b, vars |-> w]
  BY ONLY <1>2, SeqAppend
<1>4. /\ \A e \in 1 .. l : y.path[e] = x.path[e]
      /\ y.path[l + 1].block = b /\ Len(y.path) = l + 1
  <2>1. IsSeq(x.path)
    <3>1. NoteOK(x) /\ x.live
      BY DEF HoldsAt
    <3>. QED
      BY <3>1, PathIs, <1>1 DEF IsSeq
  <2>. DEFINE r == [block |-> b, kind |-> k]
  <2>2. r.block = b
    OBVIOUS
  <2>. HIDE DEF r
  <2>3. y.path = Append(x.path, r)
    BY DEF r
  <2>. QED
    BY ONLY <1>1, <2>1, <2>2, <2>3, SeqAppend
<1>5. F[l + 1].vars = w /\ F[l + 1].block = b
  BY <1>3
<1>. HIDE DEF F
<1>6. ASSUME NEW e \in DOMAIN F
      PROVE  /\ F[e] = [block |-> y.path[e].block, vars |-> F[e].vars]
             /\ F[e].vars = [m \in DOMAIN F[e].vars |-> F[e].vars[m]]
             /\ DOMAIN F[e].vars = DOMAIN y.env[e] \cup (IF e = l + 1 THEN y.extra \cap {"ret"} ELSE {})
  <2>1. CASE e = l + 1
    <3>1. DOMAIN w = DOMAIN y.env[e]
      BY <1>1, <2>1
    <3>2. y.extra \cap {"ret"} = {}
      OBVIOUS
    <3>. QED
      BY ONLY <1>3, <1>4, <1>5, <2>1, <3>1, <3>2, w = [n \in DOMAIN w |-> w[n]]
  <2>2. CASE e # l + 1
    <3>1. e \in 1 .. l /\ F[e] = bs[e] /\ e \in DOMAIN bs /\ y.path[e] = x.path[e]
      BY <1>1, <1>3, <1>4, <2>2
    <3>2. DOMAIN bs[e].vars = DOMAIN x.env[e]
      <4>1. DOMAIN bs[e].vars = DOMAIN x.env[e] \cup (IF e = Len(x.path) THEN x.extra \cap {"ret"} ELSE {})
        BY <1>2, <3>1 DEF Holds
      <4>2. x.extra \cap {"ret"} = {}
        OBVIOUS
      <4>. QED
        BY ONLY <4>1, <4>2
    <3>3. DOMAIN x.env[e] = DOMAIN y.env[e]
      BY <1>1, <3>1
    <3>. QED
      BY ONLY <1>1, <2>2, <3>1, <3>2, <3>3
  <2>. QED
    BY <2>1, <2>2
<1>7. Holds(F, y.path, y.env, y.extra)
  BY <1>3, <1>4, <1>6 DEF Holds
<1>. QED
  BY <1>1, <1>3, <1>5, <1>7 DEF HoldsAt, F

(* The C blocks outside one of them.                                        *)
LEMMA OutsideIs ==
  ASSUME "ret" \notin Names, NEW x, HoldsAt(frames, x), NEW D \in DOMAIN x.path, D > 1, NEW b, x.path[D].block = b,
         NEW y, NoteOK(y), y.live, "ret" \notin y.extra, Len(y.path) = D - 1,
         \A d \in DOMAIN y.path : y.path[d] = x.path[d], \A d \in DOMAIN y.env : DOMAIN y.env[d] = DOMAIN x.env[d]
  PROVE  /\ HoldsAt(Outside(b), y)
         /\ \A e \in DOMAIN Outside(b) : Outside(b)[e] = frames[e] /\ e \in DOMAIN frames
<1>. DEFINE F == Outside(b)
            bs == frames
<1>1. /\ Len(bs) \in Nat \ {0} /\ DOMAIN bs = 1 .. Len(bs) /\ Len(bs) = Len(x.env) /\ DOMAIN x.env = DOMAIN bs
      /\ Len(x.path) = Len(bs) /\ DOMAIN x.path = DOMAIN bs
      /\ \A e \in DOMAIN bs : /\ bs[e] = [block |-> x.path[e].block, vars |-> bs[e].vars]
                              /\ bs[e].block = x.path[e].block
                              /\ bs[e].vars = [m \in DOMAIN bs[e].vars |-> bs[e].vars[m]]
  <2>. HIDE DEF bs
  <2>. QED
    BY HoldsIs DEF bs
<1>2. Holds(bs, x.path, x.env, x.extra) /\ IsSeq(bs)
  BY DEF HoldsAt, Holds
<1>3. \A d, e \in DOMAIN x.path : x.path[d].block = x.path[e].block => d = e
  BY PathIs DEF HoldsAt
<1>4. (CHOOSE d \in DOMAIN frames : frames[d].block = b) = D
  BY <1>1, <1>3
<1>5. F = SubSeq(bs, 1, D - 1)
  BY <1>4 DEF Outside
<1>6. D \in 2 .. Len(bs)
  BY <1>1
<1>7. IsSeq(F) /\ Len(F) = D - 1 /\ DOMAIN F = 1 .. D - 1 /\ \A e \in 1 .. D - 1 : F[e] = bs[e]
  <2>1. bs \in Seq({bs[i] : i \in 1 .. Len(bs)})
    BY ONLY <1>2, SeqIs
  <2>2. Len(F) = D - 1 /\ DOMAIN F = 1 .. D - 1 /\ \A e \in 1 .. D - 1 : F[e] = bs[e]
    BY ONLY <1>5, <1>6, <2>1, <1>1
  <2>3. F = [e \in 1 .. D - 1 |-> bs[e]]
    BY ONLY <1>5, <1>6, <2>1, <1>1
  <2>. QED
    BY ONLY <1>6, <1>1, <2>2, <2>3 DEF IsSeq
<1>8. DOMAIN y.env = 1 .. D - 1 /\ DOMAIN y.path = 1 .. D - 1
  <2>1. NoteOK(y) /\ y.live
    OBVIOUS
  <2>2. /\ DOMAIN y.env = 1 .. Len(y.env) /\ DOMAIN y.path = 1 .. Len(y.env) /\ Len(y.path) = Len(y.env)
    BY ONLY <2>1, PathIs
  <2>. QED
    BY <2>2
<1>. HIDE DEF F, bs
<1>9. ASSUME NEW e \in DOMAIN F
      PROVE  /\ F[e] = [block |-> y.path[e].block, vars |-> F[e].vars]
             /\ F[e].vars = [m \in DOMAIN F[e].vars |-> F[e].vars[m]]
             /\ DOMAIN F[e].vars = DOMAIN y.env[e] \cup (IF e = Len(y.path) THEN y.extra \cap {"ret"} ELSE {})
  <2>1. e \in 1 .. D - 1 /\ e \in DOMAIN bs /\ F[e] = bs[e] /\ e # Len(bs)
    BY <1>1, <1>6, <1>7
  <2>2. y.path[e] = x.path[e] /\ DOMAIN y.env[e] = DOMAIN x.env[e] /\ y.extra \cap {"ret"} = {}
    BY <1>8, <2>1
  <2>3. DOMAIN bs[e].vars = DOMAIN x.env[e]
    BY <1>1, <1>2, <2>1 DEF Holds
  <2>. QED
    BY ONLY <1>1, <2>1, <2>2, <2>3
<1>10. Holds(F, y.path, y.env, y.extra)
  BY <1>7, <1>9 DEF Holds
<1>. QED
  BY <1>1, <1>6, <1>7, <1>10 DEF HoldsAt, F, bs

-----------------------------------------------------------------------------
(* Where an instruction leads, in the notes of an accepted program          *)
CellAt(g, p) == Cell3(code[p], g[p], g[p + 1])

(* The parts of settled notes.                                              *)
LEMMA SettledIs ==
  ASSUME NEW g, Settled(code, g)
  PROVE  /\ IsSeq(code) /\ IsSeq(g) /\ Len(g) = Len(code) + 1 /\ Len(code) \in Nat /\ DOMAIN code = 1 .. Len(code)
         /\ g[1] = Note(<< << >> >>, <<Body>>) /\ ~g[Len(g)].live
         /\ OneOpen(Cells(code, g))
         /\ \A c \in Cells(code, g) : Fit(c, Cells(code, g)) /\ CellOK(c)
         /\ \A h \in Cells(code, g) : h.ins.op \in Opens => Shut(Cells(code, g), h)
<1>. DEFINE x == Dead
            o == << >>
<1>1. Trace(code, g, x, o)
  BY DEF Settled
<1>2. DOMAIN o = {} /\ ~x.live
  BY DEF Dead
<1>. HIDE DEF x, o
<1>3. /\ IsSeq(code) /\ IsSeq(g) /\ Len(g) = Len(code) + 1 /\ g[1] = Note(<< << >> >>, <<Body>>)
      /\ g[Len(g)] = x /\ State(Cells(code, g), x, o)
  BY <1>1 DEF Trace
<1>4. Typed(Cells(code, g)) /\ OneOpen(Cells(code, g))
      /\ \A h \in Cells(code, g) : h.ins.op \in Opens => Shut(Cells(code, g), h)
  BY <1>2, <1>3 DEF State
<1>5. Len(code) \in Nat /\ DOMAIN code = 1 .. Len(code)
  BY <1>3, SeqIs
<1>. QED
  BY <1>2, <1>3, <1>4, <1>5 DEF Typed, Fit

(* The cell at an instruction.                                              *)
LEMMA CellAtIs ==
  ASSUME NEW g, Settled(code, g), NEW p \in DOMAIN code
  PROVE  /\ CellAt(g, p) \in Cells(code, g) /\ CellOK(CellAt(g, p)) /\ Fit(CellAt(g, p), Cells(code, g))
         /\ CellAt(g, p).ins = code[p] /\ CellAt(g, p).a = g[p] /\ CellAt(g, p).z = g[p + 1]
         /\ NoteOK(g[p]) /\ NoteOK(g[p + 1])
         /\ p \in Nat /\ p + 1 \in Nat /\ p + 1 # 0 /\ p > 0
         /\ g[p + 1].live => p + 1 \in DOMAIN code
<1>1. /\ CellAt(g, p) \in Cells(code, g)
      /\ CellAt(g, p).ins = code[p] /\ CellAt(g, p).a = g[p] /\ CellAt(g, p).z = g[p + 1]
  BY CellIs DEF CellAt, Cells
<1>2. Fit(CellAt(g, p), Cells(code, g)) /\ CellOK(CellAt(g, p))
  BY <1>1, SettledIs
<1>3. NoteOK(g[p]) /\ NoteOK(g[p + 1])
  BY <1>1, <1>2 DEF CellOK
<1>4. Len(code) \in Nat /\ DOMAIN code = 1 .. Len(code) /\ Len(g) = Len(code) + 1 /\ ~g[Len(g)].live
  BY SettledIs
<1>5. g[p + 1].live => p + 1 # Len(g)
  BY <1>4
<1>. QED
  BY <1>1, <1>2, <1>3, <1>4, <1>5

(* Every cell is that of an instruction.                                    *)
LEMMA CellsAre ==
  ASSUME NEW g, NEW c \in Cells(code, g)
  PROVE  \E p \in DOMAIN code : c = CellAt(g, p)
BY DEF Cells, CellAt

(* The marker of a block that was closed.                                   *)
LEMMA MarkerIs ==
  ASSUME NEW g, NEW op, NEW b, HasMark(Cells(code, g), op, b)
  PROVE  /\ Marker(op, b) \in DOMAIN code /\ code[Marker(op, b)].op = op /\ code[Marker(op, b)].block = b
<1>1. PICK c \in Cells(code, g) : c.ins.op = op /\ c.ins.block = b
  BY DEF HasMark
<1>2. PICK p \in DOMAIN code : c = CellAt(g, p)
  BY CellsAre
<1>3. code[p].op = op /\ code[p].block = b
  BY <1>1, <1>2, CellIs DEF CellAt
<1>. QED
  BY <1>3 DEF Marker

(* The statement an instruction closes or leaves.                           *)
LEMMA OpenerIs ==
  ASSUME NEW g, Settled(code, g), NEW p \in DOMAIN code, code[p].op \in Ends
  PROVE  \E q \in DOMAIN code : /\ code[q].op \in Opens /\ code[q].block = code[p].block
                                /\ PairOK(CellAt(g, q), CellAt(g, p))
                                /\ code[q].op # "if" => q = LoopHead(code[p].block)
<1>. DEFINE C == Cells(code, g)
            c == CellAt(g, p)
<1>1. Fit(c, C) /\ c.ins = code[p]
  BY CellAtIs
<1>2. PICK h \in C : h.ins.op \in Opens /\ h.ins.block = code[p].block
  BY <1>1 DEF Fit, HasOpen
<1>3. PICK q \in DOMAIN code : h = CellAt(g, q)
  BY <1>2, CellsAre
<1>4. h.ins = code[q] /\ PairOK(h, c)
  BY <1>1, <1>3, CellAtIs DEF Fit
<1>5. CASE h.ins.op = "if"
  BY <1>2, <1>3, <1>4, <1>5
<1>6. CASE h.ins.op # "if"
  <2>1. code[q].op \in {"while", "for"} /\ code[q].block = code[p].block
    BY <1>2, <1>4, <1>6 DEF Opens
  <2>. DEFINE k == LoopHead(code[p].block)
  <2>2. k \in DOMAIN code /\ code[k].op \in {"while", "for"} /\ code[k].block = code[p].block
    BY <2>1 DEF LoopHead
  <2>3. CellAt(g, k) \in C /\ CellAt(g, k).ins = code[k]
    <3>. HIDE DEF k
    <3>. QED
      BY <2>2, CellAtIs
  <2>4. CellAt(g, k) = h
    BY <1>2, <2>2, <2>3, SettledIs DEF OneOpen, Opens
  <2>. HIDE DEF k, C, c
  <2>5. code[k].op \in Opens /\ PairOK(CellAt(g, k), c)
    BY <2>2, <1>4, <2>4 DEF Opens
  <2>. QED
    BY <2>2, <2>5 DEF k, c
<1>. QED
  BY <1>5, <1>6

(* From x the program goes to y, which stands in the outer scopes alone:    *)
(* nothing is left in the inner ones.                                       *)
Leaves(x, E, q) ==
  /\ Len(q) = Len(E) /\ Len(E) \in Nat \ {0} /\ Len(E) < Len(x.env)
  /\ DOMAIN E = 1 .. Len(E) /\ DOMAIN q = 1 .. Len(E)
  /\ \A d \in 1 .. Len(E) : x.env[d] = E[d] /\ x.path[d] = q[d]
  /\ \A d \in Len(E) + 1 .. Len(x.env) : \A n \in DOMAIN x.env[d] : Gone(x.env[d][n])

(* What an instruction that opens a block leads to.                         *)
LEMMA Entering ==
  ASSUME NEW g, Settled(code, g), NEW p \in DOMAIN code, code[p].op \in Opens
  PROVE  /\ g[p].live /\ g[p].extra = {} /\ code[p].block \in Nat \ {0}
         /\ p + 1 \in DOMAIN code /\ g[p + 1].live
         /\ g[p + 1] = Pushed(CellAt(g, p), KindOf(code[p]), FirstScope(code[p]))
<1>. DEFINE c == CellAt(g, p)
<1>1. CellOK(c) /\ c.ins = code[p] /\ c.a = g[p] /\ c.z = g[p + 1] /\ (g[p + 1].live => p + 1 \in DOMAIN code)
  BY CellAtIs
<1>2. OpenOK(c) /\ c.a.live
  BY <1>1 DEF CellOK, Opens, Closers
<1>3. c.z = Pushed(c, KindOf(c.ins), FirstScope(c.ins))
  BY <1>2 DEF OpenOK
<1>4. c.z.live
  BY <1>3 DEF Pushed, Note
<1>. QED
  BY <1>1, <1>2, <1>3, <1>4 DEF OpenOK

(* An if that goes to its else branch.                                      *)
LEMMA Skipping ==
  ASSUME NEW g, Settled(code, g), NEW p \in DOMAIN code, code[p].op = "if"
  PROVE  LET m == Marker("else", code[p].block) IN
         /\ m + 1 \in DOMAIN code /\ g[m + 1].live
         /\ g[m + 1] = Pushed(CellAt(g, p), "else", << >>)
<1>. DEFINE c == CellAt(g, p)
            m == Marker("else", code[p].block)
            C == Cells(code, g)
            e == CellAt(g, m)
<1>1. c \in C /\ CellOK(c) /\ c.ins = code[p] /\ c.ins.op \in Opens
  BY CellAtIs DEF Opens
<1>2. HasMark(C, "else", code[p].block)
  BY <1>1, SettledIs DEF Shut
<1>3. m \in DOMAIN code /\ code[m].op = "else" /\ code[m].block = code[p].block
  BY <1>2, MarkerIs
<1>. HIDE DEF m
<1>4. Fit(e, C) /\ e.ins = code[m] /\ e.z = g[m + 1] /\ (g[m + 1].live => m + 1 \in DOMAIN code)
  BY <1>3, CellAtIs
<1>. HIDE DEF e, c, C
<1>5. PairOK(c, e)
  BY <1>1, <1>4 DEF Fit
<1>6. ElseOK(c, e)
  BY <1>1, <1>3, <1>4, <1>5 DEF PairOK, Ends, Closers
<1>7. e.z = Pushed(c, "else", << >>)
  BY <1>6 DEF ElseOK
<1>8. e.z.live
  BY <1>7 DEF Pushed, Note
<1>. QED
  BY <1>4, <1>7, <1>8 DEF m, c

(* The end of a branch.                                                     *)
LEMMA Joining ==
  ASSUME NEW g, Settled(code, g), NEW p \in DOMAIN code, code[p].op \in {"else", "endif"}, g[p].live
  PROVE  LET m == Marker("endif", code[p].block) IN
         /\ m + 1 \in DOMAIN code /\ g[m + 1].live /\ g[m + 1].extra = {} /\ g[p].extra = {}
         /\ Leaves(g[p], g[m + 1].env, g[m + 1].path)
         /\ g[p].path[Len(g[m + 1].path) + 1].block = code[p].block
<1>. DEFINE c == CellAt(g, p)
            m == Marker("endif", code[p].block)
            C == Cells(code, g)
            e == CellAt(g, m)
            x == g[p]
            E == g[m + 1].env
<1>1. c \in C /\ Fit(c, C) /\ CellOK(c) /\ c.ins = code[p] /\ c.a = x /\ c.ins.op \in Ends
      /\ c.ins.op \in Closers /\ NoteOK(x)
  BY CellAtIs DEF Ends, Closers
<1>2. PICK q \in DOMAIN code : /\ code[q].op \in Opens /\ code[q].block = code[p].block
                               /\ PairOK(CellAt(g, q), c)
  BY <1>1, OpenerIs
<1>. DEFINE h == CellAt(g, q)
<1>3. h \in C /\ h.ins = code[q] /\ CellOK(h)
  BY CellAtIs
<1>. HIDE DEF h, c
<1>4. h.ins.op = "if"
  BY <1>1, <1>2, <1>3 DEF PairOK, h
<1>5. HasMark(C, "endif", code[p].block)
  BY <1>2, <1>3, <1>4, SettledIs DEF Shut
<1>6. m \in DOMAIN code /\ code[m].op = "endif" /\ code[m].block = code[p].block
  BY <1>5, MarkerIs
<1>. HIDE DEF m
<1>7. e \in C /\ Fit(e, C) /\ e.ins = code[m] /\ e.z = g[m + 1] /\ (g[m + 1].live => m + 1 \in DOMAIN code)
  BY <1>6, CellAtIs
<1>7a. NoteOK(g[m + 1])
  BY <1>6, CellAtIs
<1>. HIDE DEF e, C
<1>8. MergeOK(c, e) /\ PairOK(h, e)
  BY <1>1, <1>3, <1>7 DEF Fit
<1>9. e.z.live /\ SealedButTasks(x, E)
  BY <1>1, <1>6, <1>7, <1>8 DEF MergeOK
<1>10. EndIfOK(h, e)
  BY <1>2, <1>3, <1>4, <1>6, <1>7, <1>8 DEF PairOK, Ends, Closers
<1>11. e.z = Note(E, h.a.path) /\ e.z.path = h.a.path /\ e.z.extra = {}
  BY <1>7, <1>9, <1>10 DEF EndIfOK, Note
<1>12. x.extra = {}
  BY <1>1 DEF CellOK
<1>13. \E k : In(x, h, k)
  <2>1. CASE c.ins.op = "else"
    <3>1. ElseOK(h, c)
      BY <1>1, <1>2, <1>3, <2>1 DEF PairOK, h
    <3>. QED
      BY <1>1, <3>1 DEF ElseOK
  <2>2. CASE c.ins.op = "endif"
    <3>1. EndIfOK(h, c)
      BY <1>1, <1>2, <1>3, <2>2 DEF PairOK, h
    <3>. QED
      BY <1>1, <3>1 DEF EndIfOK
  <2>. QED
    BY <1>1, <2>1, <2>2
<1>14. Len(x.env) = Len(E) + 1 /\ (\A d \in DOMAIN E : x.env[d] = E[d])
       /\ \A n \in DOMAIN x.env[Len(x.env)] : Gone(x.env[Len(x.env)][n])
  <2>1. c \in C /\ c.ins.op \in Closers /\ c.a.live
    BY <1>1
  <2>2. \A n \in DOMAIN c.a.env[Len(c.a.env)] : Gone(c.a.env[Len(c.a.env)][n])
    BY <2>1 DEF Settled, C
  <2>. QED
    BY <1>1, <1>9, <2>2 DEF SealedButTasks
<1>15. Len(E) \in Nat \ {0} /\ DOMAIN E = 1 .. Len(E) /\ Len(h.a.path) = Len(E) /\ DOMAIN h.a.path = 1 .. Len(E)
       /\ IsSeq(h.a.path)
  <2>1. NoteOK(e.z) /\ e.z.live /\ e.z.env = E
    BY <1>7, <1>7a, <1>9
  <2>2. /\ Len(e.z.env) \in Nat \ {0} /\ DOMAIN e.z.env = 1 .. Len(e.z.env)
        /\ DOMAIN e.z.path = 1 .. Len(e.z.env) /\ Len(e.z.path) = Len(e.z.env)
        /\ e.z.path = [d \in 1 .. Len(e.z.env) |-> e.z.path[d]]
    BY ONLY <2>1, PathIs
  <2>. QED
    BY <1>11, <2>1, <2>2, SMTT(60) DEF IsSeq
<1>16. /\ \A d \in 1 .. Len(E) : x.path[d] = h.a.path[d]
       /\ x.path[Len(E) + 1].block = code[p].block
  <2>1. PICK k : x.path = Append(h.a.path, [block |-> h.ins.block, kind |-> k])
    BY <1>13 DEF In
  <2>. DEFINE r == [block |-> h.ins.block, kind |-> k]
              s == h.a.path
  <2>2. r.block = code[p].block
    BY <1>2, <1>3
  <2>3. x.path = Append(s, r)
    BY <2>1
  <2>. HIDE DEF r, s
  <2>4. IsSeq(s) /\ Len(s) = Len(E)
    BY <1>15 DEF s
  <2>5. /\ \A d \in 1 .. Len(s) : x.path[d] = s[d]
        /\ x.path[Len(s) + 1] = r
    BY ONLY <2>3, <2>4, SeqAppend
  <2>. QED
    BY <2>2, <2>4, <2>5 DEF s
<1>17. \A d \in Len(E) + 1 .. Len(x.env) : \A n \in DOMAIN x.env[d] : Gone(x.env[d][n])
  BY <1>14, <1>15
<1>18. Leaves(x, E, h.a.path) /\ Len(h.a.path) < Len(x.env)
  BY <1>14, <1>15, <1>16, <1>17, SMTT(60) DEF Leaves
<1>19. g[m + 1].live /\ m + 1 \in DOMAIN code /\ g[m + 1].path = h.a.path /\ g[m + 1].extra = {}
  BY <1>7, <1>9, <1>11
<1>20. Leaves(x, E, g[m + 1].path) /\ x.path[Len(g[m + 1].path) + 1].block = code[p].block
  BY <1>15, <1>16, <1>18, <1>19
<1>. QED
  BY <1>12, <1>19, <1>20 DEF m

(* The body of a loop is left at its end, or by a break or a continue.      *)
LEMMA Outward ==
  ASSUME NEW g, Settled(code, g), NEW p \in DOMAIN code,
         code[p].op \in {"endloop", "break", "continue"}, g[p].live
  PROVE  LET q == LoopHead(code[p].block)
             h == CellAt(g, q)
         IN
         /\ q \in DOMAIN code /\ code[q].op \in {"while", "for"} /\ code[q].block = code[p].block
         /\ g[p].extra = {} /\ Leaves(g[p], Base(h), g[q].path)
         /\ g[p].path[Len(g[q].path) + 1] = [block |-> code[p].block, kind |-> KindOf(code[q])]
         /\ code[p].op = "break" => ~Owning(code[q])
         /\ code[p].op = "endloop" => Len(g[p].path) = Len(g[q].path) + 1
         /\ \A d \in Len(g[q].path) + 2 .. Len(g[p].path) : g[p].path[d].kind \in {"then", "else"}
<1>. DEFINE c == CellAt(g, p)
            C == Cells(code, g)
            x == g[p]
<1>1. c \in C /\ Fit(c, C) /\ CellOK(c) /\ c.ins = code[p] /\ c.a = x /\ c.ins.op \in Ends
      /\ NoteOK(x) /\ (c.ins.op = "endloop" => c.ins.op \in Closers)
  BY CellAtIs DEF Ends, Closers, Exits
<1>2. PICK q \in DOMAIN code : /\ code[q].op \in Opens /\ code[q].block = code[p].block
                               /\ PairOK(CellAt(g, q), c)
                               /\ code[q].op # "if" => q = LoopHead(code[p].block)
  BY <1>1, OpenerIs
<1>. DEFINE h == CellAt(g, q)
            E == Base(h)
            D == Len(E)
<1>3. h \in C /\ h.ins = code[q] /\ CellOK(h) /\ h.a = g[q]
  BY CellAtIs
<1>. HIDE DEF h, c, C
<1>4. PairOK(h, c) /\ h.ins.op \in Opens
  BY <1>2, <1>3 DEF h
<1>5. h.ins.op # "if" /\ code[q].op \in {"while", "for"} /\ q = LoopHead(code[p].block)
  <2>1. h.ins.op # "if"
    BY <1>1, <1>2, <1>3, <1>4 DEF PairOK
  <2>. QED
    BY <1>2, <1>3, <2>1 DEF Opens
<1>6. /\ NoteOK(h.a) /\ h.a.live /\ EnvOK(E) /\ Len(h.a.path) = D /\ DOMAIN E = DOMAIN h.a.path
  <2>1. CellOK(h) /\ h.ins.op \in Opens
    BY <1>3, <1>4
  <2>2. /\ NoteOK(h.a) /\ h.a.live /\ EnvOK(Base(h)) /\ Len(Base(h)) = Len(h.a.env) /\ Len(h.a.path) = Len(h.a.env)
        /\ DOMAIN Base(h) = DOMAIN h.a.env /\ DOMAIN h.a.path = DOMAIN h.a.env
    BY ONLY <2>1, BaseIs
  <2>. QED
    BY ONLY <2>2
<1>. HIDE DEF E
<1>7. D \in Nat \ {0} /\ DOMAIN E = 1 .. D
  BY <1>6, EnvIs
<1>8. /\ Len(x.env) \in Nat \ {0} /\ DOMAIN x.env = 1 .. Len(x.env) /\ Len(x.path) = Len(x.env)
      /\ DOMAIN x.path = 1 .. Len(x.env)
  BY <1>1, PathIs
<1>9. x.extra = {}
  BY <1>1 DEF CellOK
<1>10. CASE c.ins.op = "endloop"
  <2>1. In(x, h, KindOf(h.ins)) /\ SealedButTasks(x, E)
    BY <1>1, <1>2, <1>3, <1>4, <1>10 DEF PairOK, EndLoopOK, E
  <2>2. Len(x.env) = D + 1 /\ (\A d \in DOMAIN E : x.env[d] = E[d])
    BY <2>1 DEF SealedButTasks
  <2>3. \A n \in DOMAIN x.env[Len(x.env)] : Gone(x.env[Len(x.env)][n])
    <3>1. c \in C /\ c.ins.op \in Closers /\ c.a.live
      BY <1>1, <1>10
    <3>2. \A n \in DOMAIN c.a.env[Len(c.a.env)] : Gone(c.a.env[Len(c.a.env)][n])
      BY <3>1 DEF Settled, C
    <3>. QED
      BY <1>1, <3>2
  <2>4. \A d \in D + 1 .. Len(x.env) : \A n \in DOMAIN x.env[d] : Gone(x.env[d][n])
    BY <1>7, <2>2, <2>3
  <2>. DEFINE s == h.a.path
              r == [block |-> h.ins.block, kind |-> KindOf(h.ins)]
  <2>5. x.path = Append(s, r) /\ r = [block |-> code[p].block, kind |-> KindOf(code[q])]
    BY <1>2, <1>3, <2>1 DEF In
  <2>6. IsSeq(s) /\ Len(s) = D
    BY <1>6, <1>7, PathIs DEF IsSeq
  <2>. HIDE DEF r, s
  <2>7. /\ \A d \in 1 .. D : x.path[d] = s[d]
        /\ x.path[D + 1] = r /\ Len(x.path) = D + 1
    BY ONLY <2>5, <2>6, SeqAppend
  <2>8. Leaves(x, E, s)
    BY <1>6, <1>7, <1>8, <2>2, <2>4, <2>6, <2>7 DEF Leaves, s
  <2>9. \A d \in D + 2 .. Len(x.path) : FALSE
    BY <1>7, <2>7
  <2>10. s = g[q].path
    BY <1>3 DEF s
  <2>. QED
    BY <1>1, <1>2, <1>5, <1>9, <1>10, <2>5, <2>6, <2>7, <2>8, <2>9, <2>10 DEF E, h
<1>11. CASE c.ins.op # "endloop"
  <2>1. c.ins.op \in Exits
    BY <1>1, <1>11 DEF Exits
  <2>2. ExitOK(h, c)
    BY <1>1, <1>2, <1>3, <1>4, <2>1 DEF PairOK
  <2>. DEFINE s == g[q].path
  <2>3. s = h.a.path /\ Len(s) = D
    BY <1>3, <1>6
  <2>4. /\ D < Len(x.path)
        /\ \A d \in DOMAIN s : x.path[d] = s[d]
        /\ x.path[D + 1] = [block |-> code[p].block, kind |-> KindOf(code[q])]
        /\ Sealed(x, D + 1, E)
        /\ \A d \in D + 2 .. Len(x.path) : x.path[d].kind \in {"then", "else"}
        /\ c.ins.op = "break" => ~Owning(code[q])
    BY <1>1, <1>2, <1>3, <2>2, <2>3 DEF ExitOK, E
  <2>5. (\A d \in DOMAIN E : x.env[d] = E[d]) /\ \A d \in D + 1 .. Len(x.env) : \A n \in DOMAIN x.env[d] : Gone(x.env[d][n])
    BY <2>4 DEF Sealed
  <2>6. DOMAIN s = 1 .. D
    BY <1>6, <1>7, <2>3
  <2>. HIDE DEF s
  <2>7. Leaves(x, E, s)
    BY <1>7, <1>8, <2>3, <2>4, <2>5, <2>6 DEF Leaves
  <2>. QED
    BY <1>1, <1>2, <1>5, <1>9, <1>11, <2>3, <2>4, <2>7 DEF E, h, s
<1>. QED
  BY <1>10, <1>11

(* A loop that is over, or left by a break.                                 *)
LEMMA Beyond ==
  ASSUME NEW g, Settled(code, g), NEW q \in DOMAIN code, code[q].op \in {"while", "for"}
  PROVE  LET m == Marker("endloop", code[q].block) IN
         /\ m + 1 \in DOMAIN code /\ g[m + 1].live
         /\ g[m + 1] = WithExtra(Base(CellAt(g, q)), g[q].path, IF Owning(code[q]) THEN {code[q].coll} ELSE {})
<1>. DEFINE h == CellAt(g, q)
            m == Marker("endloop", code[q].block)
            C == Cells(code, g)
            e == CellAt(g, m)
<1>1. h \in C /\ CellOK(h) /\ h.ins = code[q] /\ h.a = g[q] /\ h.ins.op \in Opens /\ h.ins.op # "if"
  BY CellAtIs DEF Opens
<1>2. HasMark(C, "endloop", code[q].block)
  BY <1>1, SettledIs DEF Shut
<1>3. m \in DOMAIN code /\ code[m].op = "endloop" /\ code[m].block = code[q].block
  BY <1>2, MarkerIs
<1>. HIDE DEF m
<1>4. Fit(e, C) /\ e.ins = code[m] /\ e.z = g[m + 1] /\ (g[m + 1].live => m + 1 \in DOMAIN code)
  BY <1>3, CellAtIs
<1>. HIDE DEF e, h, C
<1>5. PairOK(h, e)
  BY <1>1, <1>4 DEF Fit
<1>6. EndLoopOK(h, e)
  BY <1>1, <1>3, <1>4, <1>5 DEF PairOK, Ends, Closers
<1>7. e.z = WithExtra(Base(h), g[q].path, IF Owning(code[q]) THEN {code[q].coll} ELSE {})
  BY <1>1, <1>6 DEF EndLoopOK
<1>8. e.z.live
  BY <1>7 DEF WithExtra
<1>. QED
  BY <1>4, <1>7, <1>8 DEF m, h

-----------------------------------------------------------------------------
(* What an instruction does to the scopes                                   *)

(* A binding after an initializer e that may take it.                       *)
After1(v, n, e) ==
  IF n \in Operands(e)
    THEN IF e.k = "field" THEN [v EXCEPT !.moved_field = TRUE] ELSE [v EXCEPT !.moved = TRUE]
    ELSE v

(* Where an instruction that neither opens nor closes a block leads.        *)
LEMMA StraightShape ==
  ASSUME NEW g, Settled(code, g), NEW p \in DOMAIN code, code[p].op \in Straights
  PROVE  /\ g[p].live /\ NoteOK(g[p]) /\ NoteOK(g[p + 1]) /\ EnvOK(g[p].env)
         /\ CellAt(g, p).ins = code[p] /\ CellAt(g, p).a = g[p] /\ CellAt(g, p).z = g[p + 1]
         /\ g[p + 1].live => p + 1 \in DOMAIN code
         /\ CellOK(CellAt(g, p))
<1>1. /\ CellOK(CellAt(g, p)) /\ CellAt(g, p).ins = code[p] /\ CellAt(g, p).a = g[p] /\ CellAt(g, p).z = g[p + 1]
      /\ NoteOK(g[p]) /\ NoteOK(g[p + 1])
      /\ (g[p + 1].live => p + 1 \in DOMAIN code)
  BY CellAtIs
<1>2. g[p].live
  BY <1>1 DEF CellOK, Straights, Closers
<1>3. EnvOK(g[p].env)
  BY <1>1, <1>2 DEF NoteOK
<1>. QED
  BY <1>1, <1>2, <1>3

(* Where a let leads: one variable more.                                    *)
LEMMA LetShape ==
  ASSUME NEW g, Settled(code, g), NEW p \in DOMAIN code, code[p].op = "let"
  PROVE  LET E == g[p].env
             F == g[p + 1].env
             e == code[p].e
             n == code[p].n
         IN
         /\ p + 1 \in DOMAIN code /\ g[p + 1].live /\ g[p].extra = {} /\ g[p + 1].path = g[p].path
         /\ e \in Expr /\ CanTake(E, e) /\ Len(F) = Len(E) /\ DOMAIN F = DOMAIN E
         /\ \A d \in DOMAIN E : \A m \in DOMAIN E[d] : m \in DOMAIN F[d] /\ F[d][m] = After1(E[d][m], m, e)
         /\ \A d \in DOMAIN E : d # Len(E) => DOMAIN F[d] = DOMAIN E[d]
         /\ n = "ret" => /\ g[p + 1].extra = {"ret"} /\ DOMAIN F[Len(E)] = DOMAIN E[Len(E)]
                         /\ e.k # "int" => TypeOf(E, e) = "vec"
         /\ n # "ret" => /\ g[p + 1].extra = {} /\ DOMAIN F[Len(E)] = DOMAIN E[Len(E)] \cup {n}
                         /\ n \in Names /\ ~Has(E, n) /\ e.k # "int"
                         /\ F[Len(E)][n] \in Infos /\ InfoLet(F[Len(E)][n], TypeOf(E, e))
<1>. DEFINE c == CellAt(g, p)
            E == g[p].env
            F == g[p + 1].env
            e == code[p].e
            n == code[p].n
            T == Taken(E, e)
<1>1. /\ g[p].live /\ c.ins = code[p] /\ c.a = g[p] /\ c.z = g[p + 1] /\ EnvOK(E)
      /\ (g[p + 1].live => p + 1 \in DOMAIN code) /\ CellOK(c)
  BY StraightShape DEF Straights
<1>. HIDE DEF c
<1>2. LetOK(c)
  BY <1>1 DEF CellOK
<1>3. e \in Expr /\ CanTake(E, e) /\ g[p].extra = {}
  BY <1>1, <1>2 DEF LetOK
<1>4. /\ EnvOK(T) /\ Len(T) = Len(E) /\ DOMAIN T = DOMAIN E
      /\ \A d \in DOMAIN E : DOMAIN T[d] = DOMAIN E[d]
      /\ \A d \in DOMAIN E : \A m \in DOMAIN E[d] : T[d][m] = After1(E[d][m], m, e)
  <2>. HIDE DEF E, e
  <2>. QED
    BY <1>1, <1>3, TakenOK DEF After1
<1>5. CASE n = "ret"
  <2>1. (e.k # "int" => TypeOf(E, e) = "vec") /\ c.z = WithExtra(T, g[p].path, {"ret"})
    BY <1>1, <1>2, <1>5 DEF LetOK
  <2>2. c.z.live /\ c.z.env = T /\ c.z.path = g[p].path /\ c.z.extra = {"ret"}
    BY <2>1 DEF WithExtra
  <2>. HIDE DEF T
  <2>. QED
    BY <1>1, <1>3, <1>4, <1>5, <2>1, <2>2, EnvIs
<1>6. CASE n # "ret"
  <2>1. PICK v \in Infos : InfoLet(v, TypeOf(E, e)) /\ c.z = Note(InsertCurrent(T, n, v), g[p].path)
    BY <1>1, <1>2, <1>6 DEF LetOK
  <2>2. n \in Names /\ ~Has(E, n) /\ e.k # "int"
    BY <1>1, <1>2, <1>6 DEF LetOK
  <2>3. c.z.live /\ F = InsertCurrent(T, n, v) /\ c.z.path = g[p].path /\ c.z.extra = {}
    BY <1>1, <2>1 DEF Note
  <2>4. ~Has(T, n)
    BY <1>4, <2>2 DEF Has
  <2>. HIDE DEF T, n, E
  <2>5. /\ Len(F) = Len(T) /\ DOMAIN F = DOMAIN T
        /\ \A d \in DOMAIN T : d # Len(T) => F[d] = T[d]
        /\ DOMAIN F[Len(T)] = DOMAIN T[Len(T)] \cup {n}
        /\ F[Len(T)][n] = v
        /\ \A m \in DOMAIN T[Len(T)] : F[Len(T)][m] = T[Len(T)][m]
    <3>. DEFINE G == InsertCurrent(T, n, v)
    <3>1. /\ Len(G) = Len(T) /\ DOMAIN G = DOMAIN T
          /\ \A d \in DOMAIN T : d # Len(T) => G[d] = T[d]
          /\ DOMAIN G[Len(T)] = DOMAIN T[Len(T)] \cup {n}
          /\ G[Len(T)][n] = v
          /\ \A m \in DOMAIN T[Len(T)] : G[Len(T)][m] = T[Len(T)][m]
      BY ONLY <1>4, <2>1, <2>2, <2>4, InsertOK
    <3>. QED
      BY ONLY <2>3, <3>1
  <2>6. Len(T) \in DOMAIN T
    BY <1>4, EnvIs
  <2>7. \A d \in DOMAIN E : \A m \in DOMAIN E[d] : m \in DOMAIN F[d] /\ F[d][m] = T[d][m]
    BY <1>4, <2>5
  <2>8. /\ \A d \in DOMAIN E : d # Len(E) => DOMAIN F[d] = DOMAIN E[d]
        /\ DOMAIN F[Len(E)] = DOMAIN E[Len(E)] \cup {n} /\ F[Len(E)][n] = v
        /\ Len(F) = Len(E) /\ DOMAIN F = DOMAIN E
    BY <1>4, <2>5, <2>6
  <2>. QED
    BY <1>1, <1>3, <1>4, <1>6, <2>1, <2>2, <2>3, <2>7, <2>8, SMTT(60) DEF n, E
<1>. QED
  BY <1>5, <1>6

(* Where an assignment leads: the same variables.                           *)
LEMMA SetShape ==
  ASSUME NEW g, Settled(code, g), NEW p \in DOMAIN code, code[p].op = "set"
  PROVE  LET E == g[p].env
             F == g[p + 1].env
             e == code[p].e
             n == code[p].n
         IN
         /\ p + 1 \in DOMAIN code /\ g[p + 1].live /\ g[p].extra = {} /\ g[p + 1].path = g[p].path /\ g[p + 1].extra = {}
         /\ e \in Expr /\ CanTake(E, e) /\ e.k # "int" /\ n \in Names /\ Len(F) = Len(E) /\ DOMAIN F = DOMAIN E
         /\ \A d \in DOMAIN E : DOMAIN F[d] = DOMAIN E[d]
         /\ \E d \in DOMAIN E :
              /\ n \in DOMAIN E[d] /\ ~E[d][n].moved_field /\ ~E[d][n].no_drop
              /\ E[d][n].ty = TypeOf(E, e) /\ E[d][n].ty # "task"
              /\ code[p].drop_old = ~After1(E[d][n], n, e).moved
              /\ F[d][n] \in Infos /\ InfoLet(F[d][n], TypeOf(E, e))
              /\ \A b \in DOMAIN E : \A m \in DOMAIN E[b] :
                   ~(b = d /\ m = n) => F[b][m] = After1(E[b][m], m, e)
<1>. DEFINE c == CellAt(g, p)
            E == g[p].env
            F == g[p + 1].env
            e == code[p].e
            n == code[p].n
            T == Taken(E, e)
<1>1. /\ g[p].live /\ c.ins = code[p] /\ c.a = g[p] /\ c.z = g[p + 1] /\ EnvOK(E)
      /\ (g[p + 1].live => p + 1 \in DOMAIN code) /\ CellOK(c)
  BY StraightShape DEF Straights
<1>. HIDE DEF c
<1>2. SetOK(c)
  BY <1>1 DEF CellOK
<1>3. e \in Expr /\ CanTake(E, e) /\ g[p].extra = {} /\ e.k # "int" /\ n \in Names
  BY <1>1, <1>2 DEF SetOK
<1>4. /\ EnvOK(T) /\ Len(T) = Len(E) /\ DOMAIN T = DOMAIN E
      /\ \A d \in DOMAIN E : DOMAIN T[d] = DOMAIN E[d]
      /\ \A d \in DOMAIN E : \A m \in DOMAIN E[d] : T[d][m] = After1(E[d][m], m, e)
  <2>. HIDE DEF E, e
  <2>. QED
    BY <1>1, <1>3, TakenOK DEF After1
<1>5. PICK d \in DOMAIN E :
       /\ n \in DOMAIN E[d]
       /\ ~E[d][n].moved_field /\ ~E[d][n].no_drop
       /\ E[d][n].ty = TypeOf(E, e) /\ E[d][n].ty # "task"
       /\ code[p].drop_old = ~T[d][n].moved
       /\ \E v \in Infos : InfoLet(v, TypeOf(E, e)) /\ c.z = Note(Put(T, d, n, v), g[p].path)
  BY <1>1, <1>2, ZenonT(60) DEF SetOK
<1>6. PICK v \in Infos : InfoLet(v, TypeOf(E, e)) /\ c.z = Note(Put(T, d, n, v), g[p].path)
  BY <1>5
<1>7. c.z.live /\ F = Put(T, d, n, v) /\ c.z.path = g[p].path /\ c.z.extra = {}
  BY <1>1, <1>6 DEF Note
<1>. HIDE DEF T, n, E, F
<1>8. /\ Len(F) = Len(T) /\ DOMAIN F = DOMAIN T
      /\ \A b \in DOMAIN T : DOMAIN F[b] = DOMAIN T[b]
      /\ \A b \in DOMAIN T : \A m \in DOMAIN T[b] :
              F[b][m] = IF b = d /\ m = n THEN v ELSE T[b][m]
  <2>1. d \in DOMAIN T /\ n \in DOMAIN T[d]
    BY <1>4, <1>5
  <2>. DEFINE G == Put(T, d, n, v)
  <2>2. /\ Len(G) = Len(T) /\ DOMAIN G = DOMAIN T
        /\ \A b \in DOMAIN T : DOMAIN G[b] = DOMAIN T[b]
        /\ \A b \in DOMAIN T : \A m \in DOMAIN T[b] :
              G[b][m] = IF b = d /\ m = n THEN v ELSE T[b][m]
    BY ONLY <1>4, <1>6, <2>1, PutOK
  <2>. QED
    BY ONLY <1>7, <2>2
<1>9. /\ Len(F) = Len(E) /\ DOMAIN F = DOMAIN E /\ \A b \in DOMAIN E : DOMAIN F[b] = DOMAIN E[b]
      /\ F[d][n] = v
      /\ \A b \in DOMAIN E : \A m \in DOMAIN E[b] :
                   ~(b = d /\ m = n) => F[b][m] = After1(E[b][m], m, e)
  BY <1>4, <1>5, <1>8
<1>10. code[p].drop_old = ~After1(E[d][n], n, e).moved
  BY <1>4, <1>5
<1>11. p + 1 \in DOMAIN code /\ g[p + 1].live /\ g[p + 1].path = g[p].path /\ g[p + 1].extra = {}
  BY <1>1, <1>7
<1>. QED
  BY <1>3, <1>5, <1>6, <1>9, <1>10, <1>11 DEF n, E, F

(* Where a drop leads: what it frees was there.                             *)
LEMMA DropShape ==
  ASSUME NEW g, Settled(code, g), NEW p \in DOMAIN code, code[p].op = "drop"
  PROVE  LET E == g[p].env
             F == g[p + 1].env
             of == code[p].of
         IN
         /\ p + 1 \in DOMAIN code /\ g[p + 1].live /\ g[p + 1].path = g[p].path
         /\ g[p + 1].extra = g[p].extra /\ g[p].extra \in {{}, {"ret"}}
         /\ Len(F) = Len(E) /\ DOMAIN F = DOMAIN E /\ \A d \in DOMAIN E : DOMAIN F[d] = DOMAIN E[d]
         /\ \A r \in of : /\ r.depth \in DOMAIN E /\ r.n \in DOMAIN E[r.depth]
                          /\ ~Gone(E[r.depth][r.n]) /\ E[r.depth][r.n].ty # "task"
                          /\ r.skip = E[r.depth][r.n].moved_field
                          /\ r = [n |-> r.n, depth |-> r.depth, skip |-> r.skip]
         /\ \A d \in DOMAIN E : \A m \in DOMAIN E[d] :
              F[d][m] = IF <<d, m>> \in DropSet(of) THEN [E[d][m] EXCEPT !.moved = TRUE] ELSE E[d][m]
<1>. DEFINE c == CellAt(g, p)
            E == g[p].env
            F == g[p + 1].env
            of == code[p].of
            S == DropSet(of)
<1>1. /\ g[p].live /\ c.ins = code[p] /\ c.a = g[p] /\ c.z = g[p + 1] /\ EnvOK(E)
      /\ (g[p + 1].live => p + 1 \in DOMAIN code) /\ CellOK(c)
  BY StraightShape DEF Straights
<1>. HIDE DEF c
<1>2. DropOK(c)
  BY <1>1 DEF CellOK
<1>3. \A r \in of : /\ r.depth \in DOMAIN E /\ r.n \in DOMAIN E[r.depth]
                    /\ ~Gone(E[r.depth][r.n]) /\ E[r.depth][r.n].ty # "task"
                    /\ r.skip = E[r.depth][r.n].moved_field
                    /\ r = [n |-> r.n, depth |-> r.depth, skip |-> r.skip]
  BY <1>1, <1>2 DEF DropOK
<1>4. c.z = WithExtra(Moving(E, S), g[p].path, g[p].extra) /\ g[p].extra \in {{}, {"ret"}}
  BY <1>1, <1>2 DEF DropOK
<1>5. c.z.live /\ F = Moving(E, S) /\ c.z.path = g[p].path /\ c.z.extra = g[p].extra
  BY <1>1, <1>4 DEF WithExtra
<1>6. \A d \in DOMAIN E : \A n \in DOMAIN E[d] : <<d, n>> \in S => ~E[d][n].no_drop
  <2>. SUFFICES ASSUME NEW d \in DOMAIN E, NEW n \in DOMAIN E[d], <<d, n>> \in S PROVE ~E[d][n].no_drop
    OBVIOUS
  <2>1. PICK r \in of : r.depth = d /\ r.n = n
    BY DEF DropSet
  <2>. QED
    BY <1>3, <2>1 DEF Gone
<1>. HIDE DEF E, F, S
<1>7. /\ Len(F) = Len(E) /\ DOMAIN F = DOMAIN E
      /\ \A d \in DOMAIN E : DOMAIN F[d] = DOMAIN E[d]
      /\ \A d \in DOMAIN E : \A n \in DOMAIN E[d] :
              F[d][n] = IF <<d, n>> \in S THEN [E[d][n] EXCEPT !.moved = TRUE] ELSE E[d][n]
  <2>. DEFINE G == Moving(E, S)
  <2>1. /\ Len(G) = Len(E) /\ DOMAIN G = DOMAIN E
        /\ \A d \in DOMAIN E : DOMAIN G[d] = DOMAIN E[d]
        /\ \A d \in DOMAIN E : \A n \in DOMAIN E[d] :
              G[d][n] = IF <<d, n>> \in S THEN [E[d][n] EXCEPT !.moved = TRUE] ELSE E[d][n]
    BY ONLY <1>1, <1>6, MovingOK
  <2>. QED
    BY ONLY <1>5, <2>1
<1>. QED
  BY <1>1, <1>3, <1>4, <1>5, <1>7 DEF E, F, S

(* Where a spawn leads: one handle more.                                    *)
LEMMA SpawnShape ==
  ASSUME NEW g, Settled(code, g), NEW p \in DOMAIN code, code[p].op = "spawn"
  PROVE  LET E == g[p].env
             F == g[p + 1].env
             n == code[p].n
         IN
         /\ p + 1 \in DOMAIN code /\ g[p + 1].live /\ g[p + 1].path = g[p].path
         /\ g[p + 1].extra = {} /\ g[p].extra = {}
         /\ n \in Names /\ ~Has(E, n)
         /\ Len(F) = Len(E) /\ DOMAIN F = DOMAIN E /\ \A d \in DOMAIN E : d # Len(E) => F[d] = E[d]
         /\ DOMAIN F[Len(E)] = DOMAIN E[Len(E)] \cup {n} /\ F[Len(E)][n] = Fresh("task")
         /\ \A m \in DOMAIN E[Len(E)] : F[Len(E)][m] = E[Len(E)][m]
<1>. DEFINE c == CellAt(g, p)
            E == g[p].env
            F == g[p + 1].env
            n == code[p].n
            v == Fresh("task")
<1>1. /\ g[p].live /\ c.ins = code[p] /\ c.a = g[p] /\ c.z = g[p + 1] /\ EnvOK(E)
      /\ (g[p + 1].live => p + 1 \in DOMAIN code) /\ CellOK(c)
  BY StraightShape DEF Straights
<1>. HIDE DEF c
<1>2. SpawnOK(c)
  BY <1>1 DEF CellOK
<1>3. g[p].extra = {} /\ n \in Names /\ ~Has(E, n) /\ c.z = Note(InsertCurrent(E, n, v), g[p].path)
  BY <1>1, <1>2 DEF SpawnOK
<1>4. c.z.live /\ F = InsertCurrent(E, n, v) /\ c.z.path = g[p].path /\ c.z.extra = {}
  BY <1>1, <1>3 DEF Note
<1>5. v \in Infos
  BY DEF Fresh, Infos, VarInfo, InfoOK, NoMutex
<1>. HIDE DEF E, F, n, v
<1>6. /\ Len(F) = Len(E) /\ DOMAIN F = DOMAIN E
      /\ \A d \in DOMAIN E : d # Len(E) => F[d] = E[d]
      /\ DOMAIN F[Len(E)] = DOMAIN E[Len(E)] \cup {n}
      /\ F[Len(E)][n] = v
      /\ \A m \in DOMAIN E[Len(E)] : F[Len(E)][m] = E[Len(E)][m]
  <2>. DEFINE G == InsertCurrent(E, n, v)
  <2>1. /\ Len(G) = Len(E) /\ DOMAIN G = DOMAIN E
        /\ \A d \in DOMAIN E : d # Len(E) => G[d] = E[d]
        /\ DOMAIN G[Len(E)] = DOMAIN E[Len(E)] \cup {n}
        /\ G[Len(E)][n] = v
        /\ \A m \in DOMAIN E[Len(E)] : G[Len(E)][m] = E[Len(E)][m]
    BY ONLY <1>1, <1>3, <1>5, InsertOK
  <2>. QED
    BY ONLY <1>4, <2>1
<1>. QED
  BY <1>1, <1>3, <1>4, <1>6 DEF E, F, n, v

(* The handle n, in the innermost scope, was joined.                        *)
JoinedIn(E, F, n) ==
  /\ Len(F) = Len(E) /\ DOMAIN F = DOMAIN E /\ \A d \in DOMAIN E : DOMAIN F[d] = DOMAIN E[d]
  /\ F[Len(E)][n] = [E[Len(E)][n] EXCEPT !.moved = TRUE]
  /\ \A d \in DOMAIN E : \A m \in DOMAIN E[d] : m # n => F[d][m] = E[d][m]

(* Where a join leads: its handle is of its own block.                      *)
LEMMA JoinShape ==
  ASSUME NEW g, Settled(code, g), NEW p \in DOMAIN code, code[p].op = "join"
  PROVE  LET E == g[p].env
             F == g[p + 1].env
             n == code[p].n
         IN
         /\ p + 1 \in DOMAIN code /\ g[p + 1].live /\ g[p + 1].path = g[p].path
         /\ g[p + 1].extra = {} /\ g[p].extra = {}
         /\ Len(E) \in DOMAIN E /\ n \in DOMAIN E[Len(E)] /\ E[Len(E)][n].ty = "task"
         /\ JoinedIn(E, F, n)
<1>. DEFINE c == CellAt(g, p)
            E == g[p].env
            F == g[p + 1].env
            n == code[p].n
            S == {<<Len(E), n>>}
<1>1. /\ g[p].live /\ c.ins = code[p] /\ c.a = g[p] /\ c.z = g[p + 1] /\ EnvOK(E)
      /\ (g[p + 1].live => p + 1 \in DOMAIN code) /\ CellOK(c)
  BY StraightShape DEF Straights
<1>. HIDE DEF c
<1>2. JoinOK(c)
  BY <1>1 DEF CellOK
<1>3. /\ g[p].extra = {} /\ n \in DOMAIN E[Len(E)] /\ E[Len(E)][n].ty = "task"
      /\ c.z = Note(Moving(E, S), g[p].path)
  BY <1>1, <1>2 DEF JoinOK
<1>4. c.z.live /\ F = Moving(E, S) /\ c.z.path = g[p].path /\ c.z.extra = {}
  BY <1>1, <1>3 DEF Note
<1>5. \A d \in DOMAIN E : \A m \in DOMAIN E[d] : <<d, m>> \in S <=> d = Len(E) /\ m = n
  OBVIOUS
<1>6. Len(E) \in DOMAIN E /\ (\A d \in DOMAIN E : \A m \in DOMAIN E[d] : E[d][m] \in Infos)
      /\ \A d \in DOMAIN E : n \in DOMAIN E[d] => d = Len(E)
  <2>. HIDE DEF E, F, n
  <2>1. Len(E) \in DOMAIN E
    BY <1>1, EnvIs
  <2>. QED
    BY <1>1, <1>3, <2>1, EnvIs
<1>7. \A d \in DOMAIN E : \A m \in DOMAIN E[d] : <<d, m>> \in S => ~E[d][m].no_drop
  BY <1>3, <1>5, <1>6, InfoIs DEF InfoOK
<1>. HIDE DEF E, F, S
<1>8. /\ Len(F) = Len(E) /\ DOMAIN F = DOMAIN E
      /\ \A d \in DOMAIN E : DOMAIN F[d] = DOMAIN E[d]
      /\ \A d \in DOMAIN E : \A m \in DOMAIN E[d] :
              F[d][m] = IF <<d, m>> \in S THEN [E[d][m] EXCEPT !.moved = TRUE] ELSE E[d][m]
  <2>. DEFINE G == Moving(E, S)
  <2>1. /\ Len(G) = Len(E) /\ DOMAIN G = DOMAIN E
        /\ \A d \in DOMAIN E : DOMAIN G[d] = DOMAIN E[d]
        /\ \A d \in DOMAIN E : \A m \in DOMAIN E[d] :
              G[d][m] = IF <<d, m>> \in S THEN [E[d][m] EXCEPT !.moved = TRUE] ELSE E[d][m]
    BY ONLY <1>1, <1>7, MovingOK
  <2>. QED
    BY ONLY <1>4, <2>1
<1>9. /\ F[Len(E)][n] = [E[Len(E)][n] EXCEPT !.moved = TRUE]
      /\ \A d \in DOMAIN E : \A m \in DOMAIN E[d] : m # n => F[d][m] = E[d][m]
  BY <1>3, <1>5, <1>6, <1>8, ZenonT(60)
<1>10. JoinedIn(E, F, n)
  BY <1>8, <1>9 DEF JoinedIn
<1>. QED
  BY <1>1, <1>3, <1>4, <1>6, <1>10 DEF E, F, S

(* Where the free of a consumed collection leads.                           *)
LEMMA FreeShape ==
  ASSUME NEW g, Settled(code, g), NEW p \in DOMAIN code, code[p].op = "freebuf"
  PROVE  /\ p + 1 \in DOMAIN code /\ g[p + 1].live /\ g[p + 1].path = g[p].path
         /\ g[p].extra = {code[p].n} /\ code[p].n \in Names /\ g[p + 1].extra = {} /\ g[p + 1].env = g[p].env
         /\ \E d \in DOMAIN g[p].env : /\ code[p].n \in DOMAIN g[p].env[d] /\ g[p].env[d][code[p].n].moved
                                       /\ g[p].env[d][code[p].n].ty = "nest"
<1>. DEFINE c == CellAt(g, p)
<1>1. /\ g[p].live /\ c.ins = code[p] /\ c.a = g[p] /\ c.z = g[p + 1]
      /\ (g[p + 1].live => p + 1 \in DOMAIN code) /\ CellOK(c)
  BY StraightShape DEF Straights
<1>. HIDE DEF c
<1>2. FreeOK(c)
  BY <1>1 DEF CellOK
<1>3. c.z = Note(g[p].env, g[p].path)
  BY <1>1, <1>2 DEF FreeOK
<1>4. c.z.live /\ c.z.env = g[p].env /\ c.z.path = g[p].path /\ c.z.extra = {}
  BY <1>3 DEF Note
<1>. QED
  BY <1>1, <1>2, <1>4 DEF FreeOK

(* Where a use or a call leads.                                             *)
LEMMA PlainShape ==
  ASSUME NEW g, Settled(code, g), NEW p \in DOMAIN code, code[p].op \in {"use", "call"}
  PROVE  /\ p + 1 \in DOMAIN code /\ g[p + 1] = g[p] /\ g[p].extra = {}
         /\ code[p].op = "use" => \E d \in DOMAIN g[p].env :
              /\ code[p].n \in DOMAIN g[p].env[d]
              /\ ~g[p].env[d][code[p].n].moved /\ ~g[p].env[d][code[p].n].moved_field
              /\ g[p].env[d][code[p].n].ty # "task"
<1>. DEFINE c == CellAt(g, p)
<1>1. /\ g[p].live /\ c.ins = code[p] /\ c.a = g[p] /\ c.z = g[p + 1]
      /\ (g[p + 1].live => p + 1 \in DOMAIN code) /\ CellOK(c)
  BY StraightShape DEF Straights
<1>. HIDE DEF c
<1>. QED
  BY <1>1 DEF CellOK, UseOK

(* A return leaves nothing.                                                 *)
LEMMA ReturnShape ==
  ASSUME NEW g, Settled(code, g), NEW p \in DOMAIN code, code[p].op = "return"
  PROVE  /\ g[p].extra = {"ret"} /\ g[p].live
         /\ \A d \in DOMAIN g[p].env : \A n \in DOMAIN g[p].env[d] : Gone(g[p].env[d][n])
         /\ \A d \in DOMAIN g[p].path : g[p].path[d].kind # "for own"
<1>. DEFINE c == CellAt(g, p)
<1>1. CellOK(c) /\ c.ins = code[p] /\ c.a = g[p]
  BY CellAtIs
<1>. HIDE DEF c
<1>2. ReturnOK(c) /\ c.a.live
  BY <1>1 DEF CellOK, Closers
<1>. QED
  BY <1>1, <1>2 DEF ReturnOK

-----------------------------------------------------------------------------
(* The state of a run that has not ended                                    *)

(* A variable holds the handle of task t, which is still to be joined.      *)
Handled(bs, E, t) ==
  \E d \in DOMAIN E : \E n \in DOMAIN E[d] :
    E[d][n].ty = "task" /\ ~E[d][n].moved /\ bs[d].vars[n] = <<-t>>

Thread(r) == r = [body |-> r.body, took |-> r.took, ended |-> r.ended, joined |-> r.joined]

Joinable(bs, E, ts) ==
  IsSeq(ts) /\ \A t \in DOMAIN ts : Thread(ts[t]) /\ (ts[t].joined \/ Handled(bs, E, t))

Runs(g) ==
  ~done /\ pc \in DOMAIN code /\ HoldsAt(frames, g[pc]) /\ Joinable(frames, g[pc].env, tasks)

(* The handles of E are those of F, in the same variables.                  *)
TasksKept(bs, E, cs, F) ==
  \A d \in DOMAIN E : \A n \in DOMAIN E[d] :
    E[d][n].ty = "task" /\ ~E[d][n].moved =>
      /\ d \in DOMAIN F /\ n \in DOMAIN F[d] /\ F[d][n].ty = "task" /\ ~F[d][n].moved
      /\ cs[d].vars[n] = bs[d].vars[n]

(* What leaves the handles alone leaves every task joinable.                *)
LEMMA JoinableStays ==
  ASSUME NEW bs, NEW E, NEW ts, Joinable(bs, E, ts), NEW cs, NEW F, TasksKept(bs, E, cs, F)
  PROVE  Joinable(cs, F, ts)
BY DEF Joinable, Handled, TasksKept

(* A step to the next instruction.                                          *)
LEMMA RunsOn ==
  ASSUME NEW g, Runs(g), ~done', code' = code, pc' \in DOMAIN code, HoldsAt(frames', g[pc']), tasks' = tasks,
         TasksKept(frames, g[pc].env, frames', g[pc'].env)
  PROVE  Runs(g)'
<1>1. Joinable(frames', g[pc'].env, tasks')
  BY JoinableStays DEF Runs
<1>. QED
  BY <1>1 DEF Runs

(* What a run that has not ended is at.                                     *)
LEMMA RunsIs ==
  ASSUME NEW g, Settled(code, g), Runs(g)
  PROVE  /\ pc \in DOMAIN code /\ HoldsAt(frames, g[pc]) /\ NoteOK(g[pc]) /\ g[pc].live /\ EnvOK(g[pc].env)
         /\ pc \in Nat /\ pc > 0 /\ pc + 1 \in Nat
         /\ NoteOK(g[pc + 1])
         /\ \A d \in DOMAIN g[pc].env : \A n \in DOMAIN g[pc].env[d] : g[pc].env[d][n] \in Infos
<1>1. pc \in DOMAIN code /\ HoldsAt(frames, g[pc]) /\ NoteOK(g[pc]) /\ g[pc].live
  BY DEF Runs, HoldsAt
<1>2. EnvOK(g[pc].env)
  BY <1>1 DEF NoteOK
<1>3. pc \in Nat /\ pc > 0 /\ pc + 1 \in Nat /\ NoteOK(g[pc + 1])
  BY <1>1, CellAtIs
<1>. QED
  BY <1>1, <1>2, <1>3, EnvIs

(* The bindings of the innermost scopes go; none of them is a handle.       *)
LEMMA TasksLeft ==
  ASSUME NEW x, NoteOK(x), x.live, NEW E, NEW q, Leaves(x, E, q), NEW bs, NEW cs,
         \A d \in DOMAIN E : cs[d] = bs[d]
  PROVE  TasksKept(bs, x.env, cs, E)
<1>1. /\ DOMAIN x.env = 1 .. Len(x.env) /\ Len(x.env) \in Nat
      /\ \A d \in DOMAIN x.env : \A n \in DOMAIN x.env[d] : x.env[d][n] \in Infos
  BY EnvIs DEF NoteOK
<1>2. \A v \in Infos : v.ty = "task" /\ ~v.moved => ~Gone(v)
  BY InfoIs DEF InfoOK, Gone
<1>3. /\ DOMAIN E = 1 .. Len(E) /\ Len(E) \in Nat
      /\ \A d \in 1 .. Len(E) : x.env[d] = E[d]
      /\ \A d \in Len(E) + 1 .. Len(x.env) : \A n \in DOMAIN x.env[d] : Gone(x.env[d][n])
  BY DEF Leaves
<1>4. ASSUME NEW d \in DOMAIN x.env, NEW n \in DOMAIN x.env[d], x.env[d][n].ty = "task", ~x.env[d][n].moved
      PROVE  d \in DOMAIN E /\ E[d] = x.env[d] /\ cs[d] = bs[d]
  <2>1. ~Gone(x.env[d][n])
    BY <1>1, <1>2, <1>4
  <2>2. d \in 1 .. Len(E)
    BY <1>1, <1>3, <2>1
  <2>. QED
    BY <1>3, <2>2
<1>. QED
  BY <1>4 DEF TasksKept

(* The handles of a loop's Env are those of the Env around its body.        *)
LEMMA BaseTasks ==
  ASSUME NEW h, CellOK(h), h.ins.op \in Opens, NEW bs
  PROVE  TasksKept(bs, h.a.env, bs, Base(h)) /\ TasksKept(bs, Base(h), bs, h.a.env)
<1>. DEFINE E == h.a.env
            F == Base(h)
<1>1. /\ DOMAIN F = DOMAIN E /\ EnvOK(E)
      /\ \A d \in DOMAIN E : DOMAIN F[d] = DOMAIN E[d]
      /\ \A d \in DOMAIN E : \A n \in DOMAIN E[d] : ~(Owning(h.ins) /\ n = h.ins.coll) => F[d][n] = E[d][n]
      /\ h.ins.op = "for" => \A d \in DOMAIN E : h.ins.coll \in DOMAIN E[d] =>
              E[d][h.ins.coll].ty = "nest" /\ F[d][h.ins.coll].ty = "nest"
  <2>1. /\ EnvOK(h.a.env) /\ DOMAIN Base(h) = DOMAIN h.a.env
        /\ \A d \in DOMAIN h.a.env : DOMAIN Base(h)[d] = DOMAIN h.a.env[d]
    BY ONLY CellOK(h), h.ins.op \in Opens, BaseIs
  <2>3. \A d \in DOMAIN h.a.env : \A n \in DOMAIN h.a.env[d] :
              ~(Owning(h.ins) /\ n = h.ins.coll) => Base(h)[d][n] = h.a.env[d][n]
    <3>1. \A d \in DOMAIN h.a.env : \A n \in DOMAIN h.a.env[d] :
              /\ ~(Owning(h.ins) /\ n = h.ins.coll) => Base(h)[d][n] = h.a.env[d][n]
              /\ Base(h)[d][n] = [h.a.env[d][n] EXCEPT !.moved = Base(h)[d][n].moved]
              /\ Owning(h.ins) /\ n = h.ins.coll => Base(h)[d][n].moved = TRUE
      BY ONLY CellOK(h), h.ins.op \in Opens, BaseIs
    <3>. QED
      BY ONLY <3>1
  <2>2. h.ins.op = "for" => \A d \in DOMAIN h.a.env : h.ins.coll \in DOMAIN h.a.env[d] =>
              h.a.env[d][h.ins.coll].ty = "nest" /\ Base(h)[d][h.ins.coll].ty = "nest"
    BY ONLY CellOK(h), h.ins.op \in Opens, BaseIs
  <2>. QED
    BY <2>1, <2>2, <2>3
<1>. HIDE DEF E, F
<1>2. ASSUME NEW d \in DOMAIN E, NEW n \in DOMAIN E[d], E[d][n].ty = "task" \/ F[d][n].ty = "task"
      PROVE  F[d][n] = E[d][n]
  <2>1. ~(Owning(h.ins) /\ n = h.ins.coll)
    BY <1>1, <1>2 DEF Owning
  <2>. QED
    BY <1>1, <2>1
<1>. QED
  BY <1>1, <1>2 DEF TasksKept, E, F

(* An initializer or an assignment leaves the handles where they are.       *)
LEMMA TakenTasks ==
  ASSUME NEW E, EnvOK(E), NEW e \in Expr, CanTake(E, e), NEW d \in DOMAIN E, NEW n \in DOMAIN E[d], E[d][n].ty = "task"
  PROVE  After1(E[d][n], n, e) = E[d][n] /\ n \notin Operands(e)
<1>1. n \notin Operands(e)
  BY TakenOK
<1>. QED
  BY <1>1 DEF After1

(* A let keeps the run with the notes.                                      *)
LEMMA LetRuns ==
  ASSUME "ret" \notin Names, NEW g, Settled(code, g), Runs(g), DoLet
  PROVE  Runs(g)'
<1>. DEFINE x == g[pc]
            y == g[pc + 1]
            E == x.env
            F == y.env
            n == code[pc].n
            e == code[pc].e
<1>1. code[pc].op = "let" /\ ~done /\ ~done' /\ code' = code /\ pc' = pc + 1 /\ tasks' = tasks
  BY DEF DoLet, At, Op, checkVars
<1>2. PICK r : frames' = Declare(frames, n, r.value)
  BY DEF DoLet, Op
<1>3. /\ pc \in DOMAIN code /\ HoldsAt(frames, x) /\ EnvOK(E) /\ NoteOK(y)
  BY RunsIs
<1>4. /\ pc + 1 \in DOMAIN code /\ y.live /\ x.extra = {} /\ y.path = x.path
      /\ e \in Expr /\ CanTake(E, e) /\ Len(F) = Len(E) /\ DOMAIN F = DOMAIN E
      /\ \A d \in DOMAIN E : \A m \in DOMAIN E[d] : m \in DOMAIN F[d] /\ F[d][m] = After1(E[d][m], m, e)
      /\ \A d \in DOMAIN E : d # Len(E) => DOMAIN F[d] = DOMAIN E[d]
      /\ n = "ret" => y.extra = {"ret"} /\ DOMAIN F[Len(E)] = DOMAIN E[Len(E)]
      /\ n # "ret" => y.extra = {} /\ DOMAIN F[Len(E)] = DOMAIN E[Len(E)] \cup {n} /\ ~Has(E, n)
  BY <1>1, <1>3, LetShape
<1>5. DOMAIN F[Len(E)] \cup (y.extra \cap {"ret"}) = DOMAIN E[Len(E)] \cup (x.extra \cap {"ret"}) \cup {n}
  BY <1>4
<1>6. \A d \in DOMAIN E : n \notin DOMAIN E[d]
  <2>1. \A d \in DOMAIN E : DOMAIN E[d] \subseteq Names
    BY <1>3, EnvIs
  <2>. QED
    BY <1>4, <2>1 DEF Has
<1>. DEFINE v == r.value
            G == Declare(frames, n, v)
<1>. HIDE DEF x, y, E, F, n, v
<1>7. /\ HoldsAt(G, y) /\ DOMAIN G = DOMAIN frames
      /\ \A b \in DOMAIN frames : b # Len(frames) => G[b] = frames[b]
      /\ \A m \in DOMAIN frames[Len(frames)].vars : m # n => G[Len(frames)].vars[m] = frames[Len(frames)].vars[m]
  <2>1. "ret" \notin Names /\ HoldsAt(frames, x) /\ Grows(x, y, n)
    BY <1>3, <1>4, <1>5 DEF E, F, Grows
  <2>2. HoldsAt(G, y) /\ Declared(frames, G, n, v)
    BY ONLY <2>1, DeclareIs
  <2>. QED
    BY ONLY <2>2 DEF Declared
<1>8. G = frames'
  BY <1>2 DEF v
<1>. HIDE DEF G
<1>9. /\ DOMAIN E = DOMAIN frames /\ Len(frames) = Len(E)
      /\ \A d \in DOMAIN frames : DOMAIN E[d] \subseteq DOMAIN frames[d].vars
  BY <1>3, HoldsIs DEF E
<1>10. TasksKept(frames, E, G, F)
  <2>. SUFFICES ASSUME NEW d \in DOMAIN E, NEW m \in DOMAIN E[d], E[d][m].ty = "task", ~E[d][m].moved
                PROVE  /\ d \in DOMAIN F /\ m \in DOMAIN F[d] /\ F[d][m] = E[d][m]
                       /\ G[d].vars[m] = frames[d].vars[m]
    BY DEF TasksKept
  <2>1. After1(E[d][m], m, e) = E[d][m]
    BY <1>3, <1>4, TakenTasks
  <2>2. m # n /\ m \in DOMAIN frames[d].vars
    BY <1>6, <1>9
  <2>3. G[d].vars[m] = frames[d].vars[m]
    BY <1>7, <1>9, <2>2
  <2>. QED
    BY <1>4, <2>1, <2>3
<1>11. pc' \in DOMAIN code /\ HoldsAt(frames', g[pc']) /\ TasksKept(frames, g[pc].env, frames', g[pc'].env)
  BY <1>1, <1>4, <1>7, <1>8, <1>10 DEF x, y, E, F
<1>. QED
  BY <1>1, <1>11, RunsOn

(* An assignment keeps the run with the notes.                              *)
LEMMA SetRuns ==
  ASSUME "ret" \notin Names, NEW g, Settled(code, g), Runs(g), DoSet
  PROVE  Runs(g)'
<1>. DEFINE x == g[pc]
            y == g[pc + 1]
            E == x.env
            F == y.env
            n == code[pc].n
            e == code[pc].e
<1>1. code[pc].op = "set" /\ ~done /\ ~done' /\ code' = code /\ pc' = pc + 1 /\ tasks' = tasks
  BY DEF DoSet, At, Op, checkVars
<1>2. PICK r : frames' = Store(frames, n, r.value)
  BY DEF DoSet, Op
<1>3. /\ pc \in DOMAIN code /\ HoldsAt(frames, x) /\ EnvOK(E) /\ NoteOK(y) /\ NoteOK(x) /\ x.live
  BY RunsIs
<1>4. /\ pc + 1 \in DOMAIN code /\ y.live /\ x.extra = {} /\ y.extra = {} /\ y.path = x.path
      /\ e \in Expr /\ CanTake(E, e) /\ Len(F) = Len(E) /\ DOMAIN F = DOMAIN E
      /\ \A d \in DOMAIN E : DOMAIN F[d] = DOMAIN E[d]
  BY <1>1, <1>3, SetShape
<1>5. PICK d \in DOMAIN E :
        /\ n \in DOMAIN E[d] /\ E[d][n].ty # "task"
        /\ \A b \in DOMAIN E : \A m \in DOMAIN E[b] :
                   ~(b = d /\ m = n) => F[b][m] = After1(E[b][m], m, e)
  BY <1>1, <1>3, SetShape
<1>. DEFINE v == r.value
            G == Store(frames, n, v)
<1>. HIDE DEF x, y, E, F, n, v
<1>6. /\ HoldsAt(G, x)
      /\ \A b \in DOMAIN frames : \A m \in DOMAIN frames[b].vars :
              G[b].vars[m] = IF b = d /\ m = n THEN v ELSE frames[b].vars[m]
  BY <1>3, <1>5, StoreIs DEF E
<1>7. G = frames'
  BY <1>2 DEF v
<1>. HIDE DEF G
<1>8. HoldsAt(G, y)
  <2>1. Holds(G, x.path, E, {}) /\ Len(x.path) = Len(E) /\ DOMAIN G = DOMAIN E
    BY <1>4, <1>6, HoldsIs, ZenonT(60) DEF HoldsAt, E
  <2>2. Holds(G, y.path, F, {})
    BY <1>4, <2>1 DEF Holds
  <2>. QED
    BY <1>3, <1>4, <2>2 DEF HoldsAt, F
<1>9. /\ DOMAIN E = DOMAIN frames
      /\ \A b \in DOMAIN frames : DOMAIN E[b] \subseteq DOMAIN frames[b].vars
  BY <1>3, HoldsIs DEF E
<1>10. TasksKept(frames, E, G, F)
  <2>. SUFFICES ASSUME NEW b \in DOMAIN E, NEW m \in DOMAIN E[b], E[b][m].ty = "task", ~E[b][m].moved
                PROVE  /\ b \in DOMAIN F /\ m \in DOMAIN F[b] /\ F[b][m] = E[b][m]
                       /\ G[b].vars[m] = frames[b].vars[m]
    BY DEF TasksKept
  <2>1. After1(E[b][m], m, e) = E[b][m]
    BY <1>3, <1>4, TakenTasks
  <2>2. ~(b = d /\ m = n) /\ m \in DOMAIN frames[b].vars
    BY <1>5, <1>9
  <2>3. G[b].vars[m] = frames[b].vars[m]
    BY <1>6, <1>9, <2>2
  <2>. QED
    BY <1>4, <1>5, <2>1, <2>2, <2>3
<1>11. pc' \in DOMAIN code /\ HoldsAt(frames', g[pc']) /\ TasksKept(frames, g[pc].env, frames', g[pc'].env)
  BY <1>1, <1>4, <1>7, <1>8, <1>10 DEF x, y, E, F
<1>. QED
  BY <1>1, <1>11, RunsOn

(* Instructions that leave the C blocks as they are.                        *)
LEMMA StillRuns ==
  ASSUME "ret" \notin Names, NEW g, Settled(code, g), Runs(g), DoDrop \/ DoUse \/ DoFreeBuffer \/ DoCall
  PROVE  Runs(g)'
<1>. DEFINE x == g[pc]
            y == g[pc + 1]
            E == x.env
            F == y.env
            op == code[pc].op
<1>1. ~done /\ ~done' /\ code' = code /\ pc' = pc + 1 /\ tasks' = tasks /\ frames' = frames
      /\ op \in {"drop", "use", "freebuf", "call"}
  BY DEF DoDrop, DoUse, DoFreeBuffer, DoCall, At, Op, checkVars
<1>2. /\ pc \in DOMAIN code /\ HoldsAt(frames, x) /\ EnvOK(E) /\ NoteOK(y)
      /\ \A d \in DOMAIN E : \A n \in DOMAIN E[d] : E[d][n] \in Infos
  BY RunsIs
<1>3. /\ pc + 1 \in DOMAIN code /\ y.live /\ y.path = x.path
      /\ x.extra \cap {"ret"} = y.extra \cap {"ret"}
      /\ DOMAIN F = DOMAIN E /\ \A d \in DOMAIN E : DOMAIN F[d] = DOMAIN E[d]
      /\ \A d \in DOMAIN E : \A n \in DOMAIN E[d] : E[d][n].ty = "task" => F[d][n] = E[d][n]
  <2>1. CASE op = "drop"
    <3>1. /\ pc + 1 \in DOMAIN code /\ y.live /\ y.path = x.path /\ y.extra = x.extra
          /\ DOMAIN F = DOMAIN E /\ \A d \in DOMAIN E : DOMAIN F[d] = DOMAIN E[d]
          /\ \A r \in code[pc].of : r.depth \in DOMAIN E /\ r.n \in DOMAIN E[r.depth] /\ E[r.depth][r.n].ty # "task"
          /\ \A d \in DOMAIN E : \A m \in DOMAIN E[d] :
              F[d][m] = IF <<d, m>> \in DropSet(code[pc].of) THEN [E[d][m] EXCEPT !.moved = TRUE] ELSE E[d][m]
      BY <1>2, <2>1, DropShape
    <3>2. \A d \in DOMAIN E : \A n \in DOMAIN E[d] : E[d][n].ty = "task" => <<d, n>> \notin DropSet(code[pc].of)
      BY <3>1 DEF DropSet
    <3>. QED
      BY <3>1, <3>2
  <2>2. CASE op = "freebuf"
    <3>1. /\ pc + 1 \in DOMAIN code /\ y.live /\ y.path = x.path /\ y.extra = {} /\ F = E
          /\ x.extra = {code[pc].n} /\ code[pc].n \in Names
      BY <1>2, <2>2, FreeShape
    <3>. QED
      BY <3>1
  <2>3. CASE op \in {"use", "call"}
    <3>1. pc + 1 \in DOMAIN code /\ y = x
      BY <1>2, <2>3, PlainShape
    <3>2. x.live
      BY <1>2 DEF HoldsAt
    <3>. QED
      BY <3>1, <3>2
  <2>. QED
    BY <1>1, <2>1, <2>2, <2>3
<1>. HIDE DEF x, y, E, F, op
<1>4. HoldsAt(frames, y)
  <2>1. Holds(frames, x.path, E, x.extra) /\ Len(x.path) = Len(frames) /\ DOMAIN frames = DOMAIN E
    <3>1. /\ DOMAIN x.env = DOMAIN frames /\ Len(x.path) = Len(x.env) /\ Len(frames) = Len(x.env)
      BY ONLY <1>2, HoldsIs
    <3>. QED
      BY <1>2, <3>1 DEF HoldsAt, E
  <2>2. Holds(frames, y.path, F, y.extra)
    BY <1>3, <2>1 DEF Holds
  <2>. QED
    BY <1>2, <1>3, <2>2 DEF HoldsAt, F
<1>5. TasksKept(frames, E, frames, F)
  BY <1>3 DEF TasksKept
<1>6. pc' \in DOMAIN code /\ HoldsAt(frames', g[pc']) /\ TasksKept(frames, g[pc].env, frames', g[pc'].env)
  BY <1>1, <1>3, <1>4, <1>5 DEF x, y, E, F
<1>. QED
  BY <1>1, <1>6, RunsOn

(* A task that goes on, or is joined, is a task.                            *)
LEMMA ThreadIs ==
  ASSUME NEW r, Thread(r)
  PROVE  /\ Thread([r EXCEPT !.joined = TRUE]) /\ [r EXCEPT !.joined = TRUE].joined
         /\ \A v : Thread([r EXCEPT !.took = v]) /\ [r EXCEPT !.took = v].joined = r.joined
         /\ \A v : Thread([r EXCEPT !.ended = v]) /\ [r EXCEPT !.ended = v].joined = r.joined
<1>1. \A b, w, e, j : Thread([body |-> b, took |-> w, ended |-> e, joined |-> j])
  BY DEF Thread
<1>2. PICK b, w, e, j : r = [body |-> b, took |-> w, ended |-> e, joined |-> j]
  BY DEF Thread
<1>3. ASSUME NEW v
      PROVE  /\ [r EXCEPT !.joined = v] = [body |-> b, took |-> w, ended |-> e, joined |-> v]
             /\ [r EXCEPT !.took = v] = [body |-> b, took |-> v, ended |-> e, joined |-> j]
             /\ [r EXCEPT !.ended = v] = [body |-> b, took |-> w, ended |-> v, joined |-> j]
  BY ONLY <1>2
<1>4. r.joined = j
  BY ONLY <1>2
<1>7. ASSUME NEW q, NEW bb, NEW ww, NEW ee, NEW jj, q = [body |-> bb, took |-> ww, ended |-> ee, joined |-> jj]
      PROVE  Thread(q) /\ q.joined = jj
  BY ONLY <1>7 DEF Thread
<1>5. ASSUME NEW v
      PROVE  /\ Thread([r EXCEPT !.joined = v]) /\ [r EXCEPT !.joined = v].joined = v
             /\ Thread([r EXCEPT !.took = v]) /\ [r EXCEPT !.took = v].joined = r.joined
             /\ Thread([r EXCEPT !.ended = v]) /\ [r EXCEPT !.ended = v].joined = r.joined
  <2>. DEFINE q == [r EXCEPT !.took = v]
              z == [r EXCEPT !.ended = v]
              u == [r EXCEPT !.joined = v]
  <2>1. q = [body |-> b, took |-> v, ended |-> e, joined |-> j]
    BY ONLY <1>2
  <2>2. z = [body |-> b, took |-> w, ended |-> v, joined |-> j]
    BY ONLY <1>2
  <2>6. u = [body |-> b, took |-> w, ended |-> e, joined |-> v]
    BY ONLY <1>2
  <2>. HIDE DEF q, z, u
  <2>3. Thread(q) /\ q.joined = j
    BY ONLY <1>7, <2>1
  <2>4. Thread(z) /\ z.joined = j
    BY ONLY <1>7, <2>2
  <2>7. Thread(u) /\ u.joined = v
    BY ONLY <1>7, <2>6
  <2>5. Thread(q) /\ q.joined = r.joined /\ Thread(z) /\ z.joined = r.joined /\ Thread(u) /\ u.joined = v
    BY ONLY <2>3, <2>4, <2>7, <1>4
  <2>. QED
    BY ONLY <2>5 DEF q, z, u
<1>6. Thread([r EXCEPT !.joined = TRUE]) /\ [r EXCEPT !.joined = TRUE].joined = TRUE
  BY ONLY <1>5, Zenon
<1>. QED
  BY ONLY <1>5, <1>6

(* A spawn keeps the run with the notes: its task has a handle.             *)
LEMMA SpawnRuns ==
  ASSUME "ret" \notin Names, NEW g, Settled(code, g), Runs(g), DoSpawn
  PROVE  Runs(g)'
<1>. DEFINE x == g[pc]
            y == g[pc + 1]
            E == x.env
            F == y.env
            n == code[pc].n
            th == [body |-> code[pc].body, took |-> 0, ended |-> FALSE, joined |-> FALSE]
            ts == Append(tasks, th)
            v == <<-Len(ts)>>
            G == Declare(frames, n, v)
<1>1. code[pc].op = "spawn" /\ ~done /\ ~done' /\ code' = code /\ pc' = pc + 1 /\ tasks' = ts /\ frames' = G
  BY DEF DoSpawn, At, Op, checkVars
<1>2. /\ pc \in DOMAIN code /\ HoldsAt(frames, x) /\ EnvOK(E) /\ NoteOK(y)
  BY RunsIs
<1>3. /\ pc + 1 \in DOMAIN code /\ y.live /\ x.extra = {} /\ y.extra = {} /\ y.path = x.path
      /\ n \in Names /\ ~Has(E, n)
      /\ Len(F) = Len(E) /\ DOMAIN F = DOMAIN E /\ \A d \in DOMAIN E : d # Len(E) => F[d] = E[d]
      /\ DOMAIN F[Len(E)] = DOMAIN E[Len(E)] \cup {n} /\ F[Len(E)][n] = Fresh("task")
      /\ \A m \in DOMAIN E[Len(E)] : F[Len(E)][m] = E[Len(E)][m]
  <2>1. pc \in DOMAIN code /\ code[pc].op = "spawn" /\ Settled(code, g)
    BY <1>1, <1>2
  <2>. QED
    BY ONLY <2>1, <1>2, SpawnShape
<1>4. Thread(th) /\ ~th.joined
  BY DEF Thread
<1>5. Fresh("task").ty = "task" /\ ~Fresh("task").moved
  BY DEF Fresh
<1>6. IsSeq(tasks) /\ \A t \in DOMAIN tasks : Thread(tasks[t]) /\ (tasks[t].joined \/ Handled(frames, E, t))
  BY DEF Runs, Joinable
<1>. HIDE DEF th
<1>7. /\ IsSeq(ts) /\ Len(ts) = Len(tasks) + 1 /\ DOMAIN ts = 1 .. Len(tasks) + 1
      /\ DOMAIN tasks = 1 .. Len(tasks)
      /\ \A i \in 1 .. Len(tasks) : ts[i] = tasks[i]
      /\ ts[Len(tasks) + 1] = th
  <2>1. IsSeq(tasks)
    BY <1>6
  <2>. QED
    BY ONLY <2>1, SeqAppend, SeqIs
<1>. HIDE DEF ts, x, y, E, F, n, v
<1>8. Grows(x, y, n)
  BY <1>2, <1>3 DEF E, F, Grows
<1>9. HoldsAt(G, y) /\ Declared(frames, G, n, v)
  BY ONLY "ret" \notin Names, <1>2, <1>8, DeclareIs
<1>. HIDE DEF G
<1>10. /\ DOMAIN E = DOMAIN frames /\ Len(frames) = Len(E) /\ Len(E) \in DOMAIN E
       /\ \A d \in DOMAIN frames : DOMAIN E[d] \subseteq DOMAIN frames[d].vars
  <2>1. Len(E) \in DOMAIN E
    BY <1>2, EnvIs
  <2>. QED
    BY <1>2, <2>1, HoldsIs DEF E
<1>11. \A d \in DOMAIN E : n \notin DOMAIN E[d]
  BY <1>3 DEF Has
<1>12. \A d \in DOMAIN E : \A m \in DOMAIN E[d] :
         d \in DOMAIN F /\ m \in DOMAIN F[d] /\ F[d][m] = E[d][m] /\ G[d].vars[m] = frames[d].vars[m]
  <2>. TAKE d \in DOMAIN E
  <2>. TAKE m \in DOMAIN E[d]
  <2>1. m # n /\ m \in DOMAIN frames[d].vars
    BY <1>10, <1>11
  <2>2. CASE d = Len(E)
    BY <1>3, <1>9, <1>10, <2>1, <2>2 DEF Declared
  <2>3. CASE d # Len(E)
    BY <1>3, <1>9, <1>10, <2>1, <2>3 DEF Declared
  <2>. QED
    BY <2>2, <2>3
<1>13. \A t : Handled(frames, E, t) => Handled(G, F, t)
  BY <1>12 DEF Handled
<1>14. Handled(G, F, Len(ts))
  <2>1. F[Len(E)][n].ty = "task" /\ ~F[Len(E)][n].moved /\ n \in DOMAIN F[Len(E)] /\ Len(E) \in DOMAIN F
    BY <1>3, <1>5, <1>10
  <2>2. G[Len(E)].vars[n] = <<-Len(ts)>>
    BY <1>9, <1>10 DEF Declared, v
  <2>. QED
    BY <2>1, <2>2 DEF Handled
<1>15. Joinable(G, F, ts)
  <2>1. ASSUME NEW t \in DOMAIN ts PROVE Thread(ts[t]) /\ (ts[t].joined \/ Handled(G, F, t))
    <3>1. Len(tasks) \in Nat
      BY <1>6 DEF IsSeq
    <3>2. CASE t = Len(tasks) + 1
      BY <1>4, <1>7, <1>14, <3>2
    <3>3. CASE t # Len(tasks) + 1
      <4>1. t \in DOMAIN tasks /\ ts[t] = tasks[t]
        BY <1>7, <3>1, <3>3
      <4>. QED
        BY <1>6, <1>13, <4>1
    <3>. QED
      BY <3>2, <3>3
  <2>. QED
    BY <1>7, <2>1 DEF Joinable
<1>. QED
  BY <1>1, <1>3, <1>9, <1>15 DEF Runs, x, y, F

(* A join keeps the run with the notes: its task has ended.                 *)
LEMMA JoinRuns ==
  ASSUME "ret" \notin Names, NEW g, Settled(code, g), Runs(g), DoJoin
  PROVE  Runs(g)'
<1>. DEFINE x == g[pc]
            y == g[pc + 1]
            E == x.env
            F == y.env
            n == code[pc].n
            k == TaskOf(n)
            ts == [tasks EXCEPT ![k].joined = TRUE]
<1>1. code[pc].op = "join" /\ ~done /\ ~done' /\ code' = code /\ pc' = pc + 1 /\ tasks' = ts /\ frames' = frames
  BY DEF DoJoin, At, Op, checkVars
<1>2. /\ pc \in DOMAIN code /\ HoldsAt(frames, x) /\ EnvOK(E) /\ NoteOK(y)
  BY RunsIs
<1>3. /\ pc + 1 \in DOMAIN code /\ y.live /\ x.extra = {} /\ y.extra = {} /\ y.path = x.path
      /\ Len(E) \in DOMAIN E /\ n \in DOMAIN E[Len(E)] /\ E[Len(E)][n].ty = "task"
      /\ Len(F) = Len(E) /\ DOMAIN F = DOMAIN E /\ \A d \in DOMAIN E : DOMAIN F[d] = DOMAIN E[d]
      /\ \A d \in DOMAIN E : \A m \in DOMAIN E[d] : m # n => F[d][m] = E[d][m]
  <2>1. pc \in DOMAIN code /\ code[pc].op = "join" /\ Settled(code, g)
    BY <1>1, <1>2
  <2>2. /\ pc + 1 \in DOMAIN code /\ y.live /\ x.extra = {} /\ y.extra = {} /\ y.path = x.path
    BY ONLY <2>1, JoinShape
  <2>3. /\ Len(E) \in DOMAIN E /\ n \in DOMAIN E[Len(E)] /\ E[Len(E)][n].ty = "task"
    BY ONLY <2>1, JoinShape
  <2>4. JoinedIn(E, F, n)
    BY ONLY <2>1, JoinShape
  <2>. QED
    BY ONLY <2>2, <2>3, <2>4 DEF JoinedIn
<1>4. IsSeq(tasks) /\ \A t \in DOMAIN tasks : Thread(tasks[t]) /\ (tasks[t].joined \/ Handled(frames, E, t))
  BY DEF Runs, Joinable
<1>. HIDE DEF x, y, E, F, n, k
<1>5. Value(frames, n) = frames[Len(E)].vars[n]
  BY <1>2, <1>3, FrameIs DEF E
<1>6. \A d \in DOMAIN E : n \in DOMAIN E[d] => d = Len(E)
  BY <1>2, <1>3, EnvIs
<1>7. \A r : Thread(r) => Thread([r EXCEPT !.joined = TRUE]) /\ [r EXCEPT !.joined = TRUE].joined
  BY ThreadIs
<1>8. /\ IsSeq(ts) /\ DOMAIN ts = DOMAIN tasks
      /\ \A t \in DOMAIN tasks : ts[t] = IF t = k THEN [tasks[t] EXCEPT !.joined = TRUE] ELSE tasks[t]
  <2>1. DOMAIN tasks = 1 .. Len(tasks) /\ tasks = [i \in 1 .. Len(tasks) |-> tasks[i]] /\ Len(tasks) \in Nat
    BY <1>4, SeqIs DEF IsSeq
  <2>2. /\ DOMAIN ts = DOMAIN tasks /\ ts = [i \in 1 .. Len(tasks) |-> ts[i]]
        /\ \A t \in DOMAIN tasks : ts[t] = IF t = k THEN [tasks[t] EXCEPT !.joined = TRUE] ELSE tasks[t]
    BY <2>1
  <2>. HIDE DEF ts
  <2>3. Len(ts) = Len(tasks)
    BY <2>1, <2>2
  <2>. QED
    BY <2>1, <2>2, <2>3 DEF IsSeq
<1>. HIDE DEF ts
<1>9. ASSUME NEW t \in DOMAIN tasks PROVE Thread(ts[t]) /\ (ts[t].joined \/ Handled(frames, F, t))
  <2>0. t \in Nat
    BY <1>4, SeqIs
  <2>1. CASE t = k
    BY <1>4, <1>7, <1>8, <2>1
  <2>2. CASE t # k
    <3>1. ts[t] = tasks[t]
      BY <1>8, <2>2
    <3>2. ASSUME Handled(frames, E, t) PROVE Handled(frames, F, t)
      <4>0. PICK d \in DOMAIN E : \E m \in DOMAIN E[d] :
              E[d][m].ty = "task" /\ ~E[d][m].moved /\ frames[d].vars[m] = <<-t>>
        BY <3>2 DEF Handled
      <4>1. PICK m \in DOMAIN E[d] :
              E[d][m].ty = "task" /\ ~E[d][m].moved /\ frames[d].vars[m] = <<-t>>
        BY <4>0
      <4>2. m # n
        <5>1. SUFFICES ASSUME m = n PROVE FALSE
          OBVIOUS
        <5>2. d = Len(E)
          BY <1>6, <5>1
        <5>3. k = -(-t)
          <6>1. Value(frames, n) = <<-t>>
            BY <1>5, <4>1, <5>1, <5>2
          <6>2. Value(frames, n)[1] = -t
            BY <6>1
          <6>. QED
            BY <6>2 DEF k, TaskOf
        <5>. QED
          BY <2>0, <2>2, <5>3
      <4>3. d \in DOMAIN F /\ m \in DOMAIN F[d] /\ F[d][m] = E[d][m]
        BY <1>3, <4>2
      <4>. QED
        BY <4>1, <4>3 DEF Handled
    <3>. QED
      BY <1>4, <3>1, <3>2
  <2>. QED
    BY <2>1, <2>2
<1>10. Joinable(frames, F, ts)
  BY <1>8, <1>9 DEF Joinable
<1>11. HoldsAt(frames, y)
  <2>1. Holds(frames, x.path, E, {}) /\ Len(x.path) = Len(frames) /\ DOMAIN frames = DOMAIN E
    <3>1. /\ DOMAIN x.env = DOMAIN frames /\ Len(x.path) = Len(x.env) /\ Len(frames) = Len(x.env)
      BY ONLY <1>2, HoldsIs
    <3>. QED
      BY <1>2, <1>3, <3>1 DEF HoldsAt, E
  <2>2. Holds(frames, y.path, F, {})
    BY <1>3, <2>1 DEF Holds
  <2>. QED
    BY <1>2, <1>3, <2>2 DEF HoldsAt, F
<1>. QED
  BY <1>1, <1>3, <1>10, <1>11 DEF Runs, x, y, F

-----------------------------------------------------------------------------
(* Control flow *)

(* The Env of a body: the Env around it and a scope.                         *)
LEMMA PushedIs ==
  ASSUME NEW h, CellOK(h), h.ins.op \in Opens, NEW k, NEW s, NEW y, NoteOK(y), y = Pushed(h, k, s),
         NEW l, l = Len(h.a.env)
  PROVE  /\ y.live /\ y.extra = {} /\ y.path = Append(h.a.path, [block |-> h.ins.block, kind |-> k])
         /\ \A d \in DOMAIN h.a.env : d \in DOMAIN y.env /\ y.env[d] = Base(h)[d]
         /\ l \in Nat /\ l + 1 \in DOMAIN y.env /\ y.env[l + 1] = s
<1>. DEFINE B == Base(h)
            r == [block |-> h.ins.block, kind |-> k]
<1>1. /\ EnvOK(Base(h)) /\ Len(Base(h)) = Len(h.a.env) /\ DOMAIN Base(h) = DOMAIN h.a.env
  BY ONLY CellOK(h), h.ins.op \in Opens, BaseIs
<1>2. y = Note(Append(B, s), Append(h.a.path, r))
  BY DEF Pushed
<1>. HIDE DEF B, r
<1>3. y.live /\ y.extra = {} /\ y.path = Append(h.a.path, r) /\ y.env = Append(B, s)
  BY ONLY <1>2 DEF Note
<1>4. B \in Seq(Scope) /\ Len(B) = l /\ DOMAIN B = DOMAIN h.a.env
  BY ONLY <1>1, l = Len(h.a.env) DEF EnvOK, B
<1>5. IsSeq(B)
  BY ONLY <1>4, SeqIsSeq
<1>6. DOMAIN B = 1 .. Len(B) /\ Len(B) \in Nat
  BY ONLY <1>5, SeqIs
<1>7. /\ Len(Append(B, s)) = Len(B) + 1 /\ DOMAIN Append(B, s) = 1 .. Len(B) + 1
      /\ \A i \in 1 .. Len(B) : Append(B, s)[i] = B[i]
      /\ Append(B, s)[Len(B) + 1] = s
  BY ONLY <1>5, SeqAppend
<1>8. /\ \A d \in DOMAIN B : d \in DOMAIN y.env /\ y.env[d] = B[d]
      /\ l \in Nat /\ l + 1 \in DOMAIN y.env /\ y.env[l + 1] = s
  BY ONLY <1>3, <1>4, <1>6, <1>7
<1>. QED
  BY ONLY <1>3, <1>4, <1>8 DEF B, r

(* A body is entered: its C block holds w.                                   *)
LEMMA EnterRuns ==
  ASSUME "ret" \notin Names, NEW g, Settled(code, g), Runs(g), code[pc].op \in Opens,
         NEW q \in DOMAIN code, NEW k, NEW s, g[q] = Pushed(CellAt(g, pc), k, s),
         NEW w, w = [n \in DOMAIN w |-> w[n]], DOMAIN w = DOMAIN s,
         ~done', code' = code, pc' = q, tasks' = tasks,
         frames' = Append(frames, [block |-> code[pc].block, vars |-> w])
  PROVE  Runs(g)'
<1>. DEFINE x == g[pc]
            y == g[q]
            h == CellAt(g, pc)
            b == code[pc].block
            F == Append(frames, [block |-> b, vars |-> w])
<1>1. pc \in DOMAIN code /\ HoldsAt(frames, x)
  BY RunsIs
<1>2. CellOK(h) /\ h.ins = code[pc] /\ h.a = x
  BY <1>1, CellAtIs
<1>3. NoteOK(y)
  BY CellAtIs
<1>. HIDE DEF h, y, x
<1>. DEFINE l == Len(x.env)
<1>. HIDE DEF b, l
<1>4. /\ y.live /\ y.extra = {} /\ y.path = Append(x.path, [block |-> b, kind |-> k])
      /\ \A d \in DOMAIN x.env : d \in DOMAIN y.env /\ y.env[d] = Base(h)[d]
      /\ l \in Nat /\ l + 1 \in DOMAIN y.env /\ y.env[l + 1] = s
  <2>1. CellOK(h) /\ h.ins.op \in Opens /\ NoteOK(y) /\ y = Pushed(h, k, s) /\ l = Len(h.a.env)
    BY <1>2, <1>3 DEF y, h, l
  <2>2. /\ y.live /\ y.extra = {} /\ y.path = Append(h.a.path, [block |-> h.ins.block, kind |-> k])
        /\ \A d \in DOMAIN h.a.env : d \in DOMAIN y.env /\ y.env[d] = Base(h)[d]
        /\ l \in Nat /\ l + 1 \in DOMAIN y.env /\ y.env[l + 1] = s
    BY ONLY <2>1, PushedIs
  <2>3. h.ins.block = b /\ h.a = x
    BY ONLY <1>2 DEF b
  <2>5. y.path = Append(x.path, [block |-> b, kind |-> k])
    BY ONLY <2>3, <2>2
  <2>6. \A d \in DOMAIN x.env : d \in DOMAIN y.env /\ y.env[d] = Base(h)[d]
    BY ONLY <2>3, <2>2
  <2>. QED
    BY ONLY <2>2, <2>5, <2>6
<1>5. x.extra = {} /\ \A d \in DOMAIN x.env : DOMAIN Base(h)[d] = DOMAIN x.env[d]
  <2>1. h.ins.op \in Opens
    BY <1>2
  <2>2. h.a.extra = {} /\ \A d \in DOMAIN h.a.env : DOMAIN Base(h)[d] = DOMAIN h.a.env[d]
    BY ONLY <1>2, <2>1, BaseIs
  <2>. QED
    BY <1>2, <2>2
<1>6. /\ HoldsAt(F, y) /\ Len(F) = Len(frames) + 1
      /\ \A e \in DOMAIN frames : F[e] = frames[e]
  <2>1. "ret" \notin x.extra /\ "ret" \notin y.extra /\ \A d \in DOMAIN x.env : DOMAIN y.env[d] = DOMAIN x.env[d]
    BY <1>4, <1>5
  <2>2. DOMAIN y.env[Len(x.env) + 1] = DOMAIN w
    <3>1. DOMAIN y.env[l + 1] = DOMAIN w
      BY <1>4
    <3>. QED
      BY <3>1 DEF l
  <2>3. y.live /\ y.path = Append(x.path, [block |-> b, kind |-> k])
    BY <1>4
  <2>. QED
    BY ONLY "ret" \notin Names, <1>1, <2>1, <1>3, <2>2, <2>3, w = [n \in DOMAIN w |-> w[n]], EnterIs
<1>. HIDE DEF F
<1>7. TasksKept(frames, x.env, F, y.env)
  <2>1. TasksKept(frames, x.env, frames, Base(h))
    <3>1. h.ins.op \in Opens
      BY <1>2
    <3>2. TasksKept(frames, h.a.env, frames, Base(h))
      BY ONLY <1>2, <3>1, BaseTasks
    <3>. QED
      BY <1>2, <3>2
  <2>2. DOMAIN x.env = DOMAIN frames
    BY ONLY <1>1, HoldsIs
  <2>. QED
    BY <1>4, <1>6, <2>1, <2>2 DEF TasksKept
<1>. QED
  BY <1>6, <1>7, RunsOn DEF x, y, F, b

(* A conditional goes to one of its branches.                                *)
LEMMA IfRuns ==
  ASSUME "ret" \notin Names, NEW g, Settled(code, g), Runs(g), DoIf
  PROVE  Runs(g)'
<1>. DEFINE w == << >>
            b == code[pc].block
<1>1. /\ code[pc].op = "if" /\ ~done /\ ~done' /\ code' = code /\ tasks' = tasks
      /\ pc' = pc + 1 \/ pc' = Marker("else", b) + 1
      /\ frames' = Append(frames, [block |-> b, vars |-> w])
  BY DEF DoIf, At, Op, checkVars, Entered
<1>2. pc \in DOMAIN code /\ code[pc].op \in Opens
  BY <1>1, RunsIs DEF Opens
<1>3. FirstScope(code[pc]) = << >>
  BY <1>1 DEF FirstScope
<1>4. w = [n \in DOMAIN w |-> w[n]] /\ DOMAIN w = DOMAIN << >>
  OBVIOUS
<1>. HIDE DEF w
<1>5. CASE pc' = pc + 1
  <2>1. pc + 1 \in DOMAIN code /\ g[pc + 1] = Pushed(CellAt(g, pc), KindOf(code[pc]), << >>)
    BY <1>2, <1>3, Entering
  <2>. QED
    BY <1>1, <1>2, <1>4, <1>5, <2>1, EnterRuns
<1>6. CASE pc' = Marker("else", b) + 1
  <2>. DEFINE q == Marker("else", b) + 1
  <2>1. q \in DOMAIN code /\ g[q] = Pushed(CellAt(g, pc), "else", << >>)
    BY <1>1, <1>2, Skipping
  <2>. HIDE DEF q
  <2>2. pc' = q
    BY <1>6 DEF q
  <2>. QED
    BY <1>1, <1>2, <1>4, <2>1, <2>2, EnterRuns
<1>. QED
  BY <1>1, <1>5, <1>6

(* A turn of a loop.                                                         *)
LEMMA TurnRuns ==
  ASSUME "ret" \notin Names, NEW g, Settled(code, g), Runs(g), At("while") \/ At("for"),
         NEW w, w = [n \in DOMAIN w |-> w[n]], DOMAIN w = IF code[pc].op = "for" THEN {code[pc].n} ELSE {},
         Turn(w), code' = code, tasks' = tasks, done' = done
  PROVE  Runs(g)'
<1>1. /\ code[pc].op \in {"while", "for"} /\ ~done' /\ pc' = pc + 1
      /\ frames' = Append(frames, [block |-> code[pc].block, vars |-> w])
  BY DEF At, Op, Turn
<1>2. pc \in DOMAIN code /\ code[pc].op \in Opens
  BY <1>1, RunsIs DEF Opens
<1>. DEFINE s == FirstScope(code[pc])
<1>3. DOMAIN s = DOMAIN w
  BY <1>1 DEF FirstScope, Bind
<1>. HIDE DEF s
<1>4. pc + 1 \in DOMAIN code /\ g[pc + 1] = Pushed(CellAt(g, pc), KindOf(code[pc]), s)
  BY <1>2, Entering DEF s
<1>. QED
  BY <1>1, <1>2, <1>3, <1>4, EnterRuns

(* A loop is over.                                                           *)
LEMMA OverRuns ==
  ASSUME "ret" \notin Names, NEW g, Settled(code, g), Runs(g), At("while") \/ At("for"),
         Over, code' = code, tasks' = tasks, done' = done
  PROVE  Runs(g)'
<1>. DEFINE x == g[pc]
            h == CellAt(g, pc)
            q == Marker("endloop", code[pc].block) + 1
            X == IF Owning(code[pc]) THEN {code[pc].coll} ELSE {}
            y == g[q]
<1>1. code[pc].op \in {"while", "for"} /\ ~done' /\ pc' = q /\ frames' = frames
  BY DEF At, Op, Over
<1>2. pc \in DOMAIN code /\ HoldsAt(frames, x)
  BY RunsIs
<1>3. CellOK(h) /\ h.ins = code[pc] /\ h.a = x /\ h.ins.op \in Opens
  BY <1>1, <1>2, CellAtIs DEF Opens
<1>4. q \in DOMAIN code /\ y.live /\ y = WithExtra(Base(h), x.path, X)
  BY <1>1, <1>2, Beyond
<1>5. NoteOK(y)
  BY <1>4, CellAtIs
<1>6. "ret" \notin X
  <2>1. CASE Owning(code[pc])
    <3>1. OpenOK(h) /\ code[pc].op = "for"
      BY <1>3, <2>1 DEF CellOK, Owning
    <3>2. \E d \in DOMAIN x.env : code[pc].coll \in DOMAIN x.env[d]
      BY <1>3, <3>1 DEF OpenOK
    <3>3. \A d \in DOMAIN x.env : DOMAIN x.env[d] \subseteq Names
      BY <1>2, RunsIs, EnvIs
    <3>4. code[pc].coll # "ret"
      BY <3>2, <3>3
    <3>. QED
      BY <3>4, <2>1
  <2>2. CASE ~Owning(code[pc])
    BY <2>2
  <2>. QED
    BY <2>1, <2>2
<1>. HIDE DEF h, x, y, q, X
<1>7. y.path = x.path /\ y.env = Base(h) /\ y.extra = X
  BY ONLY <1>4 DEF WithExtra
<1>8. /\ x.extra = {} /\ DOMAIN Base(h) = DOMAIN x.env /\ Len(Base(h)) = Len(x.env)
      /\ \A d \in DOMAIN x.env : DOMAIN Base(h)[d] = DOMAIN x.env[d]
  <2>2. /\ h.a.extra = {} /\ DOMAIN Base(h) = DOMAIN h.a.env /\ Len(Base(h)) = Len(h.a.env)
        /\ \A d \in DOMAIN h.a.env : DOMAIN Base(h)[d] = DOMAIN h.a.env[d]
    BY ONLY <1>3, BaseIs
  <2>. QED
    BY <1>3, <2>2
<1>9. HoldsAt(frames, y)
  <2>1. Holds(frames, x.path, x.env, {}) /\ Len(x.path) = Len(frames) /\ DOMAIN frames = DOMAIN x.env
    <3>1. /\ DOMAIN x.env = DOMAIN frames /\ Len(x.path) = Len(x.env) /\ Len(frames) = Len(x.env)
      BY ONLY <1>2, HoldsIs
    <3>. QED
      BY <1>2, <1>8, <3>1 DEF HoldsAt
  <2>2. X \cap {"ret"} = {}
    BY <1>6
  <2>3. Holds(frames, y.path, y.env, y.extra)
    BY <1>7, <1>8, <2>1, <2>2 DEF Holds
  <2>. QED
    BY <1>4, <1>5, <2>3 DEF HoldsAt
<1>10. TasksKept(frames, x.env, frames, y.env)
  <2>1. TasksKept(frames, h.a.env, frames, Base(h))
    BY ONLY <1>3, BaseTasks
  <2>. QED
    BY <1>3, <1>7, <2>1
<1>. QED
  BY <1>1, <1>4, <1>9, <1>10, RunsOn DEF x, y

(* The head of a loop keeps the run with the notes.                         *)
LEMMA LoopRuns ==
  ASSUME "ret" \notin Names, NEW g, Settled(code, g), Runs(g), DoWhile \/ DoFor
  PROVE  Runs(g)'
<1>1. code' = code /\ tasks' = tasks /\ done' = done /\ (At("while") \/ At("for"))
  BY DEF DoWhile, DoFor, checkVars
<1>2. CASE DoWhile
  <2>. DEFINE w == << >>
  <2>1. w = [n \in DOMAIN w |-> w[n]] /\ DOMAIN w = IF code[pc].op = "for" THEN {code[pc].n} ELSE {}
    BY <1>2 DEF DoWhile, At, Op
  <2>2. Turn(w) \/ Over
    BY <1>2 DEF DoWhile
  <2>. HIDE DEF w
  <2>. QED
    BY <1>1, <2>1, <2>2, TurnRuns, OverRuns
<1>3. CASE DoFor
  <2>. DEFINE v == <<Value(frames, Op.coll)[trips[Op.block] + 2]>>
              w == Bind(<< >>, Op.n, v)
  <2>2. Turn(w) \/ Over
    BY <1>3 DEF DoFor
  <2>. HIDE DEF v
  <2>1. w = [n \in DOMAIN w |-> w[n]] /\ DOMAIN w = IF code[pc].op = "for" THEN {code[pc].n} ELSE {}
    BY <1>3 DEF DoFor, At, Op, Bind
  <2>. HIDE DEF w
  <2>. QED
    BY <1>1, <2>1, <2>2, TurnRuns, OverRuns
<1>. QED
  BY <1>2, <1>3

-----------------------------------------------------------------------------

(* Handles that two steps in a row leave alone.                             *)
LEMMA KeptOn ==
  ASSUME NEW bs, NEW E, NEW cs, NEW F, TasksKept(bs, E, cs, F), NEW ds, NEW G, TasksKept(cs, F, ds, G)
  PROVE  TasksKept(bs, E, ds, G)
BY DEF TasksKept

(* Bodies are left: E is the Env around the outermost one, whose block is    *)
(* that of the instruction.                                                  *)
LEMMA LeaveRuns ==
  ASSUME "ret" \notin Names, NEW g, Settled(code, g), Runs(g),
         NEW q \in DOMAIN code, g[q].live, "ret" \notin g[q].extra,
         NEW E, Leaves(g[pc], E, g[q].path), NEW l, l = Len(g[q].path), g[pc].path[l + 1].block = code[pc].block,
         \A d \in DOMAIN E : DOMAIN g[q].env[d] = DOMAIN E[d], \A bs : TasksKept(bs, E, bs, g[q].env),
         ~done', code' = code, pc' = q, tasks' = tasks, frames' = Outside(code[pc].block)
  PROVE  Runs(g)'
<1>. DEFINE x == g[pc]
            y == g[q]
            b == code[pc].block
            F == Outside(b)
            D == l + 1
            p == y.path
<1>1. HoldsAt(frames, x) /\ NoteOK(x) /\ x.live
  BY RunsIs
<1>2. NoteOK(y) /\ y.live /\ "ret" \notin y.extra
  BY CellAtIs
<1>3. /\ Len(p) = Len(E) /\ Len(E) \in Nat \ {0} /\ Len(E) < Len(x.env) /\ l = Len(p)
      /\ DOMAIN E = 1 .. Len(E) /\ DOMAIN p = 1 .. Len(E)
      /\ \A d \in 1 .. Len(E) : x.env[d] = E[d] /\ x.path[d] = p[d]
  BY DEF Leaves
<1>4. x.path[D].block = b /\ \A d \in DOMAIN E : DOMAIN y.env[d] = DOMAIN E[d]
  OBVIOUS
<1>10. Leaves(x, E, p) /\ TasksKept(F, E, F, y.env)
  OBVIOUS
<1>. HIDE DEF x, y, b, p
<1>5. /\ Len(x.env) \in Nat /\ DOMAIN x.path = 1 .. Len(x.env)
  BY ONLY <1>1, PathIs
<1>6. DOMAIN y.env = 1 .. Len(E) /\ DOMAIN y.path = 1 .. Len(E) /\ Len(y.path) = Len(E)
  <2>1. DOMAIN y.env = 1 .. Len(y.env) /\ Len(y.path) = Len(y.env) /\ DOMAIN y.path = 1 .. Len(y.env)
    BY ONLY <1>2, PathIs
  <2>. QED
    BY <1>3, <2>1 DEF p
<1>7. /\ D \in DOMAIN x.path /\ D > 1 /\ Len(y.path) = D - 1
      /\ \A d \in DOMAIN y.path : y.path[d] = x.path[d]
      /\ \A d \in DOMAIN y.env : DOMAIN y.env[d] = DOMAIN x.env[d]
  BY <1>3, <1>4, <1>5, <1>6 DEF p
<1>. HIDE DEF D
<1>8. /\ HoldsAt(Outside(b), y)
      /\ \A e \in DOMAIN Outside(b) : Outside(b)[e] = frames[e] /\ e \in DOMAIN frames
  BY ONLY "ret" \notin Names, <1>1, <1>2, <1>4, <1>7, OutsideIs
<1>. HIDE DEF F
<1>9. \A d \in DOMAIN E : F[d] = frames[d]
  <2>1. HoldsAt(F, y)
    BY <1>8 DEF F
  <2>2. DOMAIN y.env = DOMAIN F
    BY ONLY <2>1, HoldsIs
  <2>. QED
    BY <1>3, <1>6, <1>8, <2>2 DEF F
<1>11. TasksKept(frames, x.env, F, E)
  BY ONLY <1>1, <1>9, <1>10, TasksLeft
<1>12. TasksKept(frames, x.env, F, y.env)
  BY ONLY <1>10, <1>11, KeptOn
<1>13. pc' \in DOMAIN code /\ HoldsAt(frames', g[pc']) /\ TasksKept(frames, g[pc].env, frames', g[pc'].env)
  BY <1>8, <1>12 DEF x, y, F, b
<1>. QED
  BY <1>13, RunsOn

(* Where nothing is changed the handles are left alone.                     *)
LEMMA KeptSame ==
  \A bs, E : TasksKept(bs, E, bs, E)
BY DEF TasksKept

(* The end of a branch.                                                      *)
LEMMA EndBranchRuns ==
  ASSUME "ret" \notin Names, NEW g, Settled(code, g), Runs(g), DoEndBranch
  PROVE  Runs(g)'
<1>. DEFINE q == Marker("endif", code[pc].block) + 1
            E == g[q].env
            l == Len(g[q].path)
<1>1. /\ code[pc].op \in {"else", "endif"} /\ ~done' /\ code' = code /\ tasks' = tasks /\ pc' = q
      /\ frames' = Outside(code[pc].block)
  BY DEF DoEndBranch, At, Op, checkVars
<1>2. pc \in DOMAIN code /\ g[pc].live
  BY RunsIs
<1>3. /\ q \in DOMAIN code /\ g[q].live /\ g[q].extra = {}
      /\ Leaves(g[pc], E, g[q].path)
      /\ g[pc].path[l + 1].block = code[pc].block
  <2>1. Settled(code, g) /\ pc \in DOMAIN code /\ code[pc].op \in {"else", "endif"} /\ g[pc].live
    BY <1>1, <1>2
  <2>2. /\ q \in DOMAIN code /\ g[q].live /\ g[q].extra = {}
        /\ Leaves(g[pc], g[q].env, g[q].path)
    BY ONLY <2>1, Joining
  <2>3. g[pc].path[Len(g[q].path) + 1].block = code[pc].block
    BY ONLY <2>1, Joining
  <2>. QED
    BY ONLY <2>2, <2>3
<1>4. \A bs : TasksKept(bs, E, bs, g[q].env)
  BY KeptSame
<1>5. \A d \in DOMAIN E : DOMAIN g[q].env[d] = DOMAIN E[d]
  OBVIOUS
<1>6. l = Len(g[q].path)
  OBVIOUS
<1>. HIDE DEF q, E, l
<1>. QED
  BY <1>1, <1>3, <1>4, <1>5, <1>6, LeaveRuns, ZenonT(60)

(* The end of a loop's body, and the instructions that leave it.             *)
LEMMA ExitRuns ==
  ASSUME "ret" \notin Names, NEW g, Settled(code, g), Runs(g), DoEndLoop \/ DoBreak
  PROVE  Runs(g)'
<1>. DEFINE i == LoopHead(code[pc].block)
            h == CellAt(g, i)
            E == Base(h)
            m == Marker("endloop", code[pc].block) + 1
            q == IF code[pc].op = "break" THEN m ELSE i
            l == Len(g[q].path)
<1>1. /\ code[pc].op \in {"endloop", "break", "continue"} /\ ~done' /\ code' = code /\ tasks' = tasks
      /\ pc' = q
      /\ frames' = Outside(code[pc].block)
  <2>1. CASE DoEndLoop
    BY <2>1 DEF DoEndLoop, At, Op, checkVars
  <2>2. CASE DoBreak
    BY <2>2 DEF DoBreak, At, Op, checkVars
  <2>. QED
    BY <2>1, <2>2
<1>2. pc \in DOMAIN code /\ g[pc].live
  BY RunsIs
<1>3. /\ i \in DOMAIN code /\ code[i].op \in {"while", "for"} /\ code[i].block = code[pc].block
      /\ Leaves(g[pc], E, g[i].path)
      /\ g[pc].path[Len(g[i].path) + 1] = [block |-> code[pc].block, kind |-> KindOf(code[i])]
      /\ code[pc].op = "break" => ~Owning(code[i])
  BY <1>1, <1>2, Outward
<1>4. CellOK(h) /\ h.ins = code[i] /\ h.a = g[i] /\ h.ins.op \in Opens
  BY <1>3, CellAtIs DEF Opens
<1>5. h.a.live /\ h.a.extra = {} /\ \A d \in DOMAIN h.a.env : DOMAIN Base(h)[d] = DOMAIN h.a.env[d]
  BY ONLY <1>4, BaseIs
<1>12. DOMAIN h.a.env = DOMAIN Base(h)
  BY ONLY <1>4, BaseIs
<1>13. \A bs : TasksKept(bs, Base(h), bs, h.a.env)
  BY ONLY <1>4, BaseTasks
<1>6. code[pc].op = "break" => m \in DOMAIN code /\ g[m].live /\ g[m] = WithExtra(E, g[i].path, {})
  BY <1>3, Beyond
<1>7. CASE code[pc].op = "break"
  <2>1. q = m /\ m \in DOMAIN code /\ g[q].live /\ g[q] = WithExtra(E, g[i].path, {})
    BY <1>6, <1>7
  <2>. HIDE DEF E, h, q, m, i, l
  <2>2. g[q].live /\ g[q].path = g[i].path /\ g[q].env = E /\ g[q].extra = {}
    BY ONLY <2>1 DEF WithExtra
  <2>3. \A bs : TasksKept(bs, E, bs, g[q].env)
    BY <2>2, KeptSame
  <2>4. l = Len(g[q].path) /\ Leaves(g[pc], E, g[q].path) /\ g[pc].path[l + 1].block = code[pc].block
    BY <1>3, <2>2 DEF l
  <2>. QED
    BY <1>1, <2>1, <2>2, <2>3, <2>4, LeaveRuns
<1>8. CASE code[pc].op # "break"
  <2>1. q = i
    BY <1>8
  <2>. HIDE DEF h, q, m, i, l
  <2>2. g[q].live /\ g[q].path = g[i].path /\ g[q].env = h.a.env /\ g[q].extra = {}
    BY <1>4, <1>5, <2>1
  <2>3. \A d \in DOMAIN E : DOMAIN g[q].env[d] = DOMAIN E[d]
    BY <1>5, <1>12, <2>2
  <2>5. \A bs : TasksKept(bs, E, bs, g[q].env)
    BY <1>13, <2>2
  <2>. HIDE DEF E
  <2>4. l = Len(g[q].path) /\ Leaves(g[pc], E, g[q].path) /\ g[pc].path[l + 1].block = code[pc].block
    BY <1>3, <2>2 DEF l
  <2>6. q \in DOMAIN code /\ pc' = q
    BY <1>1, <1>3, <2>1
  <2>. QED
    BY <1>1, <2>2, <2>3, <2>4, <2>5, <2>6, LeaveRuns, ZenonT(60)
<1>. QED
  BY <1>7, <1>8

-----------------------------------------------------------------------------
(* The run of an accepted program *)

(* A task's thread goes on: what is joined does not change.                  *)
Threads(ts) == IsSeq(ts) /\ \A t \in DOMAIN ts : Thread(ts[t])

SameTasks(ts, us) ==
  DOMAIN us = DOMAIN ts /\ \A t \in DOMAIN ts : us[t].joined = ts[t].joined

(* A thread that takes a step stays a thread, and the rest of the run       *)
(* waits.                                                                   *)
LEMMA ThreadGoes ==
  ASSUME Threads(tasks), NEW i \in DOMAIN tasks, TaskLock(i) \/ TaskEnd(i)
  PROVE  /\ Threads(tasks') /\ SameTasks(tasks, tasks')
         /\ pc' = pc /\ frames' = frames /\ done' = done /\ code' = code
<1>1. pc' = pc /\ frames' = frames /\ done' = done /\ code' = code
  BY DEF TaskLock, TaskEnd, checkVars
<1>2. IsSeq(tasks) /\ \A t \in DOMAIN tasks : Thread(tasks[t])
  BY DEF Threads
<1>3. DOMAIN tasks = 1 .. Len(tasks) /\ tasks = [j \in 1 .. Len(tasks) |-> tasks[j]] /\ Len(tasks) \in Nat
  BY ONLY <1>2, SeqIs DEF IsSeq
<1>4. \E r : Thread(r) /\ r.joined = tasks[i].joined /\ tasks' = [tasks EXCEPT ![i] = r]
  <2>1. CASE TaskLock(i)
    <3>. DEFINE v == tasks[i].took + 1
    <3>1. tasks' = [tasks EXCEPT ![i] = [tasks[i] EXCEPT !.took = v]]
      BY <2>1, <1>3 DEF TaskLock
    <3>. HIDE DEF v
    <3>2. Thread([tasks[i] EXCEPT !.took = v]) /\ [tasks[i] EXCEPT !.took = v].joined = tasks[i].joined
      BY <1>2, ThreadIs
    <3>. QED
      BY ONLY <3>1, <3>2
  <2>2. CASE TaskEnd(i)
    <3>. DEFINE v == TRUE
    <3>1. tasks' = [tasks EXCEPT ![i] = [tasks[i] EXCEPT !.ended = v]]
      BY <2>2, <1>3 DEF TaskEnd
    <3>. HIDE DEF v
    <3>2. Thread([tasks[i] EXCEPT !.ended = v]) /\ [tasks[i] EXCEPT !.ended = v].joined = tasks[i].joined
      BY <1>2, ThreadIs
    <3>. QED
      BY ONLY <3>1, <3>2
  <2>. QED
    BY <2>1, <2>2
<1>5. PICK r : Thread(r) /\ r.joined = tasks[i].joined /\ tasks' = [tasks EXCEPT ![i] = r]
  BY <1>4
<1>. DEFINE us == [tasks EXCEPT ![i] = r]
<1>6. /\ DOMAIN us = DOMAIN tasks /\ us = [j \in 1 .. Len(tasks) |-> us[j]]
      /\ \A t \in DOMAIN tasks : us[t] = IF t = i THEN r ELSE tasks[t]
  BY ONLY <1>3, i \in DOMAIN tasks
<1>. HIDE DEF us
<1>7. Len(us) = Len(tasks)
  BY ONLY <1>3, <1>6
<1>8. IsSeq(us) /\ \A t \in DOMAIN us : Thread(us[t]) /\ us[t].joined = tasks[t].joined
  BY ONLY <1>2, <1>3, <1>5, <1>6, <1>7 DEF IsSeq
<1>9. tasks' = us
  BY <1>5 DEF us
<1>. QED
  BY ONLY <1>1, <1>6, <1>8, <1>9 DEF Threads, SameTasks

(* So a thread keeps the run with the notes.                                *)
LEMMA ThreadRuns ==
  ASSUME NEW g, Runs(g), NEW i \in DOMAIN tasks, TaskLock(i) \/ TaskEnd(i)
  PROVE  Runs(g)'
<1>1. IsSeq(tasks) /\ \A t \in DOMAIN tasks : Thread(tasks[t]) /\ (tasks[t].joined \/ Handled(frames, g[pc].env, t))
  BY DEF Runs, Joinable
<1>2. Threads(tasks)
  BY <1>1 DEF Threads
<1>3. /\ Threads(tasks') /\ SameTasks(tasks, tasks')
      /\ pc' = pc /\ frames' = frames /\ done' = done /\ code' = code
  BY <1>2, ThreadGoes
<1>4. Joinable(frames, g[pc].env, tasks')
  BY ONLY <1>1, <1>3 DEF Joinable, Threads, SameTasks
<1>. QED
  BY ONLY <1>3, <1>4, Runs(g) DEF Runs

(* A function that returns has joined its tasks.                             *)
Returned == done /\ pc = 0 /\ Threads(tasks) /\ \A t \in DOMAIN tasks : tasks[t].joined

(* A return finds every task joined.                                        *)
LEMMA ReturnEnds ==
  ASSUME NEW g, Settled(code, g), Runs(g), DoReturn
  PROVE  Returned'
<1>1. code[pc].op = "return" /\ done' /\ pc' = 0 /\ tasks' = tasks
  BY DEF DoReturn, At, Op
<1>2. pc \in DOMAIN code
  BY RunsIs
<1>3. \A d \in DOMAIN g[pc].env : \A n \in DOMAIN g[pc].env[d] : Gone(g[pc].env[d][n])
  BY <1>1, <1>2, ReturnShape
<1>4. IsSeq(tasks) /\ \A t \in DOMAIN tasks : Thread(tasks[t]) /\ (tasks[t].joined \/ Handled(frames, g[pc].env, t))
  BY DEF Runs, Joinable
<1>5. \A d \in DOMAIN g[pc].env : \A n \in DOMAIN g[pc].env[d] : g[pc].env[d][n] \in Infos
  BY RunsIs
<1>6. \A v \in Infos : v.ty = "task" /\ ~v.moved => ~Gone(v)
  BY InfoIs DEF InfoOK, Gone
<1>7. \A t : ~Handled(frames, g[pc].env, t)
  BY ONLY <1>3, <1>5, <1>6 DEF Handled
<1>. QED
  BY ONLY <1>1, <1>4, <1>7 DEF Returned, Threads

(* After the return no thread does anything that unjoins it.                *)
LEMMA ThreadEnds ==
  ASSUME Returned, NEW i \in DOMAIN tasks, TaskLock(i) \/ TaskEnd(i)
  PROVE  Returned'
<1>1. Threads(tasks)
  BY DEF Returned
<1>2. Threads(tasks') /\ SameTasks(tasks, tasks') /\ pc' = pc /\ done' = done
  BY <1>1, ThreadGoes
<1>. QED
  BY ONLY <1>2, Returned DEF Returned, SameTasks

(* The run starts at the first instruction.                                  *)
LEMMA StartRuns ==
  ASSUME NEW g, Settled(code, g), RunInit, Start
  PROVE  Runs(g)'
<1>. DEFINE x == g[1]
<1>1. /\ ~done' /\ pc' = 1 /\ frames' = frames /\ tasks' = tasks /\ code' = code /\ frames = <<[block |-> 0, vars |-> << >>]>> /\ tasks = << >>
  BY DEF RunInit, Start, checkVars
<1>2. /\ IsSeq(code) /\ Len(g) = Len(code) + 1 /\ Len(code) \in Nat /\ DOMAIN code = 1 .. Len(code)
      /\ x = Note(<< << >> >>, <<Body>>) /\ ~g[Len(g)].live
  BY SettledIs
<1>. HIDE DEF x
<1>3. x.live /\ x.env = << << >> >> /\ x.path = <<Body>> /\ x.extra = {}
  BY <1>2 DEF Note
<1>4. 1 \in DOMAIN code
  <2>1. Len(g) # 1
    BY <1>2, <1>3 DEF x
  <2>. QED
    BY <1>2, <2>1
<1>5. NoteOK(x)
  BY <1>4, CellAtIs DEF x
<1>6. HoldsAt(frames, x)
  <2>. DEFINE w == << >>
              r == [block |-> 0, vars |-> w]
              bs == <<r>>
  <2>1. w = [n \in DOMAIN w |-> w[n]] /\ DOMAIN w = DOMAIN << >>
    OBVIOUS
  <2>2. r.block = 0 /\ r.vars = w /\ Body.block = 0 /\ r = [block |-> Body.block, vars |-> r.vars]
    BY DEF Body
  <2>3. frames = bs
    BY <1>1
  <2>. HIDE DEF w, r
  <2>4. Len(bs) = 1 /\ DOMAIN bs = {1} /\ bs[1] = r /\ bs = [i \in 1 .. 1 |-> bs[i]]
    OBVIOUS
  <2>5. Len(x.path) = 1 /\ x.path[1] = Body /\ x.env[1] = << >>
    BY ONLY <1>3
  <2>6. x.extra \cap {"ret"} = {}
    BY <1>3
  <2>. HIDE DEF bs
  <2>7. Holds(bs, x.path, x.env, x.extra)
    BY ONLY <2>1, <2>2, <2>4, <2>5, <2>6 DEF Holds, IsSeq
  <2>. QED
    BY ONLY <1>3, <1>5, <2>3, <2>7 DEF HoldsAt
<1>7. Joinable(frames, x.env, tasks)
  <2>1. Len(tasks) = 0 /\ DOMAIN tasks = {} /\ tasks = [i \in 1 .. 0 |-> tasks[i]]
    BY <1>1
  <2>. QED
    BY ONLY <2>1 DEF Joinable, IsSeq
<1>. QED
  BY ONLY <1>1, <1>4, <1>6, <1>7 DEF Runs, x

(* Every step of the run.                                                    *)
LEMMA StepRuns ==
  ASSUME "ret" \notin Names, NEW g, Settled(code, g), Runs(g), Step
  PROVE  Runs(g)' \/ Returned'
<1>1. ~Start
  <2>1. pc # 0
    BY RunsIs
  <2>. QED
    BY <2>1 DEF Start
<1>2. CASE DoLet
  BY <1>2, LetRuns
<1>3. CASE DoSet
  BY <1>3, SetRuns
<1>4. CASE DoDrop \/ DoUse \/ DoFreeBuffer \/ DoCall
  BY <1>4, StillRuns
<1>5. CASE DoReturn
  BY <1>5, ReturnEnds
<1>6. CASE DoIf
  BY <1>6, IfRuns
<1>7. CASE DoEndBranch
  BY <1>7, EndBranchRuns
<1>8. CASE DoWhile \/ DoFor
  BY <1>8, LoopRuns
<1>9. CASE DoEndLoop \/ DoBreak
  BY <1>9, ExitRuns
<1>10. CASE DoSpawn
  BY <1>10, SpawnRuns
<1>11. CASE DoJoin
  BY <1>11, JoinRuns
<1>12. ASSUME NEW i \in DOMAIN tasks, TaskLock(i) \/ TaskEnd(i)
       PROVE  Runs(g)'
  BY <1>12, ThreadRuns
<1>. QED
  BY <1>1, <1>2, <1>3, <1>4, <1>5, <1>6, <1>7, <1>8, <1>9, <1>10, <1>11, <1>12 DEF Step

(* Nor does any other step.                                                 *)
LEMMA StepEnds ==
  ASSUME Returned, Step
  PROVE  Returned'
<1>1. ~At("let") /\ ~At("set") /\ ~At("drop") /\ ~At("use") /\ ~At("freebuf") /\ ~At("return") /\ ~At("if")
      /\ ~At("else") /\ ~At("endif") /\ ~At("while") /\ ~At("for") /\ ~At("endloop") /\ ~At("continue")
      /\ ~At("break") /\ ~At("spawn") /\ ~At("join") /\ ~At("call") /\ done
  BY DEF Returned, At
<1>2. PICK i \in DOMAIN tasks : TaskLock(i) \/ TaskEnd(i)
  BY ONLY <1>1, Step DEF Step, Start, DoLet, DoSet, DoDrop, DoUse, DoFreeBuffer, DoReturn, DoIf, DoEndBranch,
                         DoWhile, DoFor, DoEndLoop, DoBreak, DoSpawn, DoJoin, DoCall
<1>. QED
  BY <1>2, ThreadEnds

-----------------------------------------------------------------------------
(* The pass and the run *)

(* The pass goes on until it finishes, and then accepts or not.             *)
LEMMA PassEnds ==
  ASSUME CheckStep
  PROVE  /\ ~accepted \/ open # << >>
         /\ Finish \/ accepted' = accepted
<1>1. CASE \E n \in Names, e \in Exprs : Let(n, e) \/ Assign(n, e)
  BY <1>1 DEF Let, Assign, Statement
<1>2. CASE \E n \in Names : Use(n) \/ TaskJoin(n) \/ \E body \in TaskBodies : TaskSpawn(n, body)
  BY <1>2 DEF Use, TaskJoin, TaskSpawn, Statement
<1>3. CASE \E f \in DOMAIN Callees, m \in Mutexes : Call(f, m)
  BY <1>3 DEF Call, Statement
<1>4. CASE \E e \in Exprs \cup {[k |-> "int"]} : Return(e)
  BY <1>4 DEF Return, Statement
<1>5. CASE If \/ While
  BY <1>5 DEF If, While, Statement
<1>6. CASE Else \/ EndIf \/ EndLoop
  BY <1>6 DEF Else, EndIf, EndLoop
<1>7. CASE \E v, c \in Names, own \in BOOLEAN : ForIter(v, c, own)
  BY <1>7 DEF ForIter, Statement
<1>8. CASE \E op \in {"break", "continue"} : Leave(op)
  BY <1>8 DEF Leave, Statement
<1>9. CASE Finish
  BY <1>9 DEF Finish
<1>. QED
  BY <1>1, <1>2, <1>3, <1>4, <1>5, <1>6, <1>7, <1>8, <1>9 DEF CheckStep

(* A run leaves what the pass wrote.                                        *)
LEMMA StepKeeps ==
  ASSUME Step
  PROVE  UNCHANGED checkVars
BY DEF Step, Start, DoLet, DoSet, DoDrop, DoUse, DoFreeBuffer, DoReturn, DoIf, DoEndBranch, DoWhile, DoFor,
       DoEndLoop, DoBreak, DoSpawn, DoJoin, DoCall, TaskLock, TaskEnd

(* A run starts from an accepted body.                                      *)
LEMMA FirstStep ==
  ASSUME RunInit, Step
  PROVE  Start /\ accepted
<1>1. /\ ~At("let") /\ ~At("set") /\ ~At("drop") /\ ~At("use") /\ ~At("freebuf") /\ ~At("return") /\ ~At("if")
      /\ ~At("else") /\ ~At("endif") /\ ~At("while") /\ ~At("for") /\ ~At("endloop") /\ ~At("continue")
      /\ ~At("break") /\ ~At("spawn") /\ ~At("join") /\ ~At("call")
  BY DEF RunInit, At
<1>2. tasks = << >>
  BY DEF RunInit
<1>3. DOMAIN tasks = {}
  BY ONLY <1>2
<1>4. Start
  BY ONLY <1>1, <1>3, Step DEF Step, DoLet, DoSet, DoDrop, DoUse, DoFreeBuffer, DoReturn, DoIf, DoEndBranch,
                         DoWhile, DoFor, DoEndLoop, DoBreak, DoSpawn, DoJoin, DoCall
<1>. QED
  BY <1>4 DEF Start

(* While the pass runs it keeps its notes and nothing has run; an accepted   *)
(* program has the notes its run follows.                                    *)
PassInv ==
  IF accepted THEN open = << >> /\ \E g : Settled(code, g) /\ (RunInit \/ Runs(g) \/ Returned)
              ELSE Pass /\ RunInit

(* The invariant holds at first.                                            *)
LEMMA PassInvInit ==
  ASSUME ProgramInit
  PROVE  PassInv
<1>1. Pass
  BY InitPass DEF ProgramInit
<1>2. accepted = FALSE /\ RunInit
  BY DEF ProgramInit, Init
<1>. QED
  BY <1>1, <1>2 DEF PassInv

(* Every step keeps the invariant.                                          *)
LEMMA PassInvNext ==
  ASSUME Tame, "ret" \notin Names, PassInv, [Next]_vars
  PROVE  PassInv'
<1>1. CASE UNCHANGED vars
  <2>1. /\ scopes' = scopes /\ code' = code /\ open' = open /\ closed' = closed /\ accepted' = accepted /\ menu' = menu
        /\ pc' = pc /\ frames' = frames /\ frees' = frees /\ trips' = trips /\ tasks' = tasks /\ held' = held
        /\ stale' = stale /\ result' = result /\ done' = done
    BY <1>1 DEF vars, checkVars, runVars
  <2>2. RunInit => RunInit'
    BY ONLY <2>1 DEF RunInit
  <2>3. Pass => Pass'
    BY ONLY <2>1 DEF Pass, Good, Current
  <2>4. \A g : Runs(g) => Runs(g)'
    BY ONLY <2>1 DEF Runs
  <2>5. Returned => Returned'
    BY ONLY <2>1 DEF Returned
  <2>. QED
    BY ONLY <2>1, <2>2, <2>3, <2>4, <2>5, PassInv DEF PassInv
<1>2. CASE CheckStep /\ UNCHANGED runVars /\ menu' = menu
  <2>1. ~accepted /\ Pass /\ RunInit
    BY <1>2, PassEnds DEF PassInv
  <2>2. RunInit'
    BY ONLY <1>2, <2>1 DEF RunInit, runVars
  <2>3. CASE Finish
    <3>1. PICK g : Settled(code, g)
      BY ONLY <2>1, <2>3, FinishSettles
    <3>2. accepted' /\ code' = code /\ open' = << >>
      BY <2>3 DEF Finish
    <3>. QED
      BY ONLY <2>2, <3>1, <3>2 DEF PassInv
  <2>4. CASE accepted' = accepted
    <3>1. Pass'
      BY <1>2, <2>1, PassStep
    <3>. QED
      BY ONLY <2>1, <2>2, <2>4, <3>1 DEF PassInv
  <2>. QED
    BY <1>2, <2>3, <2>4, PassEnds
<1>3. CASE Step /\ menu' = menu
  <2>1. open' = open /\ code' = code /\ accepted' = accepted
    BY <1>3, StepKeeps DEF checkVars
  <2>2. accepted
    BY <1>3, FirstStep DEF PassInv
  <2>3. open = << >>
    BY <2>2 DEF PassInv
  <2>4. PICK g : Settled(code, g) /\ (RunInit \/ Runs(g) \/ Returned)
    BY <2>2 DEF PassInv
  <2>5. Runs(g)' \/ Returned'
    <3>1. CASE RunInit
      BY <1>3, <2>4, <3>1, FirstStep, StartRuns
    <3>2. CASE Runs(g)
      BY <1>3, <2>4, <3>2, StepRuns
    <3>3. CASE Returned
      BY <1>3, <3>3, StepEnds
    <3>. QED
      BY <2>4, <3>1, <3>2, <3>3
  <2>. QED
    BY ONLY <2>1, <2>2, <2>3, <2>4, <2>5 DEF PassInv
<1>. QED
  BY <1>1, <1>2, <1>3 DEF Next

(* "requires a matching join before the handle's scope ends, even on         *)
(* early-return paths" (README.md:282): when an accepted function returns,   *)
(* through whatever blocks, loops and exits, each task it spawned, however   *)
(* often, was joined.                                                        *)
THEOREM TasksAreJoined ==
  ASSUME Tame, "ret" \notin Names
  PROVE  Spec => []TasksJoined
<1>1. ProgramInit => PassInv
  BY PassInvInit
<1>2. PassInv /\ [Next]_vars => PassInv'
  BY PassInvNext
<1>3. PassInv => TasksJoined
  <2>1. SUFFICES ASSUME PassInv, done PROVE \A i \in DOMAIN tasks : tasks[i].joined
    BY DEF TasksJoined
  <2>2. ~RunInit /\ \A g : ~Runs(g)
    BY <2>1 DEF RunInit, Runs
  <2>3. Returned
    BY <2>1, <2>2 DEF PassInv
  <2>. QED
    BY <2>3 DEF Returned
<1>. QED
  BY <1>1, <1>2, <1>3, PTL DEF Spec

(* While a run is with the notes its names are declared.                    *)
LEMMA NamesAreThere ==
  ASSUME "ret" \notin Names, NEW g, Settled(code, g), Runs(g)
  PROVE  NamesDeclared
<1>. DEFINE E == g[pc].env
            D == UNION {DOMAIN frames[d].vars : d \in DOMAIN frames}
            i == code[pc]
<1>1. pc \in DOMAIN code /\ HoldsAt(frames, g[pc])
  BY RunsIs
<1>2. DOMAIN E = DOMAIN frames /\ \A d \in DOMAIN frames : DOMAIN E[d] \subseteq DOMAIN frames[d].vars
  BY <1>1, HoldsIs
<1>. HIDE DEF E, D
<1>3. \A d \in DOMAIN E : \A n \in DOMAIN E[d] : n \in D
  BY <1>2 DEF D
<1>4. i.op = "set" => i.n \in D
  BY <1>1, <1>3, SetShape DEF E
<1>5. i.op = "use" => i.n \in D
  BY <1>1, <1>3, PlainShape DEF E
<1>6. i.op = "freebuf" => i.n \in D
  BY <1>1, <1>3, FreeShape DEF E
<1>7. i.op = "join" => i.n \in D
  <2>1. SUFFICES ASSUME i.op = "join" PROVE i.n \in D
    OBVIOUS
  <2>2. Settled(code, g) /\ pc \in DOMAIN code /\ code[pc].op = "join"
    BY <1>1, <2>1
  <2>3. Len(g[pc].env) \in DOMAIN g[pc].env /\ code[pc].n \in DOMAIN g[pc].env[Len(g[pc].env)]
    BY ONLY <2>2, JoinShape
  <2>. QED
    BY <1>3, <2>3 DEF E
<1>8. i.op = "drop" => \A r \in i.of : r.n \in D
  <2>1. SUFFICES ASSUME i.op = "drop" PROVE \A r \in i.of : r.n \in D
    OBVIOUS
  <2>2. Settled(code, g) /\ pc \in DOMAIN code /\ code[pc].op = "drop"
    BY <1>1, <2>1
  <2>3. \A r \in code[pc].of : r.depth \in DOMAIN g[pc].env /\ r.n \in DOMAIN g[pc].env[r.depth]
    BY <2>2, DropShape
  <2>. QED
    BY <1>3, <2>3 DEF E
<1>9. i.op = "for" => i.coll \in D
  <2>1. SUFFICES ASSUME i.op = "for" PROVE i.coll \in D
    OBVIOUS
  <2>2. OpenOK(CellAt(g, pc)) /\ CellAt(g, pc).ins = i /\ CellAt(g, pc).a = g[pc]
    BY <1>1, <2>1, CellAtIs DEF CellOK, Opens
  <2>3. \E d \in DOMAIN E : i.coll \in DOMAIN E[d]
    BY <2>1, <2>2 DEF OpenOK, E
  <2>. QED
    BY <1>3, <2>3
<1>. HIDE DEF i
<1>10. NamesDeclared <=> ((pc > 0 /\ ~done) =>
         (CASE i.op \in {"set", "use", "freebuf", "join"} -> i.n \in D
            [] i.op = "drop" -> \A d \in i.of : d.n \in D
            [] i.op = "for" -> i.coll \in D
            [] OTHER -> TRUE))
  BY DEF NamesDeclared, D, i, Op
<1>. QED
  BY ONLY <1>4, <1>5, <1>6, <1>7, <1>8, <1>9, <1>10

(* What the emitted C needs of the pass: whatever an instruction of an       *)
(* accepted program names is a variable of a C block that is still open.     *)
THEOREM NamesInScope ==
  ASSUME Tame, "ret" \notin Names
  PROVE  Spec => []NamesDeclared
<1>1. ProgramInit => PassInv
  BY PassInvInit
<1>2. PassInv /\ [Next]_vars => PassInv'
  BY PassInvNext
<1>3. PassInv => NamesDeclared
  <2>1. ASSUME RunInit \/ Returned PROVE NamesDeclared
    <3>1. ~(pc > 0 /\ ~done)
      BY <2>1 DEF RunInit, Returned
    <3>. QED
      BY <3>1 DEF NamesDeclared
  <2>. QED
    BY <2>1, NamesAreThere DEF PassInv
<1>. QED
  BY <1>1, <1>2, <1>3, PTL DEF Spec
=============================================================================
