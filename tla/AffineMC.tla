------------------------------ MODULE AffineMC ------------------------------
(* Instances of AffineProgram for TLC. *)
EXTENDS AffineProgram, TLC

\* Names are interchangeable; a drop of several names is one instruction, so
\* no definition depends on their order.
Symmetry == Permutations(Names)

Menu(budget, turns, allowed) == [budget |-> budget, trips |-> turns, allowed |-> allowed]

AllMenus ==
  {Menu(6, 1, {"vec", "assign", "if"}),
   Menu(6, 2, {"vec", "assign", "while", "exit"}),
   Menu(5, 2, {"vec", "assign", "use", "if", "while", "exit", "return vec"}),
   Menu(5, 1, {"vec", "pair", "nest", "push", "cond", "field", "assign", "use", "if", "while",
               "exit", "for ref", "for own", "task"}),
   Menu(5, 1, {"guard", "task", "if"}),
   Menu(4, 2, {"guard", "call", "task", "if", "while", "exit"})}

\* leaf locks; chain does by leaf and ring; ring calls itself by chain; idle
\* locks nothing; sly locks inside an if-expression.
AllCallees ==
  LET Callee(locks, hides, calls) == [locks |-> locks, hides |-> hides, calls |-> calls]
  IN "leaf" :> Callee(TRUE, FALSE, {}) @@ "ring" :> Callee(FALSE, FALSE, {"chain", "leaf"})
       @@ "chain" :> Callee(FALSE, FALSE, {"ring"}) @@ "idle" :> Callee(FALSE, FALSE, {})
       @@ "sly" :> Callee(FALSE, TRUE, {})

TaskMenu == {Menu(5, 1, {"task", "if", "exit past task"})}
=============================================================================
