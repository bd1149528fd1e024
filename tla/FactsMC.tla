------------------------------ MODULE FactsMC ------------------------------
(* Functions small enough to enumerate, by the facts they exercise.         *)
EXTENDS FactsProgram

X == Var("x")
I == Var("i")
J == Var("j")
XS == Var(Length)
Ret == Var("_return")

Lt(a, b) == Bin("lt", a, b)
Le(a, b) == Bin("le", a, b)
Ge(a, b) == Bin("ge", a, b)
Eq(a, b) == Bin("eq", a, b)
Plus(a, n) == Bin("add", a, Num(n))

Menu == [budget |-> 0, requires |-> {{}}, ensures |-> {{}}, names |-> {"i"}, values |-> {},
         conds |-> {}, claims |-> {}, invs |-> {{}}, indices |-> {}, starts |-> {}, ends |-> {},
         results |-> {Num(0)}, allowed |-> {}]

\* Straight-line facts: rebinding, branches that return, callee contracts.
Branches ==
  [Menu EXCEPT !.budget = 5, !.requires = {{Lt(X, XS)}}, !.ensures = {{}, {Ge(Ret, X)}},
               !.values = {X, I, Num(1)}, !.conds = {Lt(I, X)},
               !.claims = {Lt(X, I)}, !.indices = {I}, !.results = {I},
               !.allowed = {"let", "assign", "call", "prove", "read", "if", "return"}]

\* A parameter whose facts an assignment ends.
Parameter ==
  [Menu EXCEPT !.budget = 4, !.requires = {{Lt(X, XS)}, {Le(X, XS)}}, !.names = {"x"}, !.values = {Num(0), Plus(X, 1)},
               !.conds = {Lt(X, XS)}, !.indices = {X},
               !.allowed = {"let", "assign", "read", "if", "return"}]

\* A while loop that counts up to x under an invariant.
Counting ==
  [Menu EXCEPT !.budget = 6, !.requires = {{Le(X, XS)}}, !.ensures = {{Ge(Ret, X)}},
               !.values = {Num(0), Plus(I, 1)}, !.conds = {Lt(I, X)}, !.claims = {Eq(I, X)},
               !.invs = {{Le(I, X)}}, !.indices = {I}, !.results = {I, X},
               !.allowed = {"let", "assign", "prove", "read", "while", "if", "break", "continue", "return"}]

\* Two variables whose new values depend on each other.
Coupled ==
  [Menu EXCEPT !.budget = 6, !.names = {"i", "j"}, !.values = {Num(0), Plus(I, 1)},
               !.conds = {Lt(I, X)}, !.invs = {{Eq(J, I)}},
               !.allowed = {"let", "assign", "while", "return"}]

\* for loops, one in the other or one after the other.
Ranges ==
  [Menu EXCEPT !.budget = 5, !.requires = {{Le(X, XS)}}, !.names = {"i", "j"}, !.conds = {Lt(J, XS)},
               !.claims = {Le(I, J)}, !.indices = {I, J}, !.starts = {Num(0), I}, !.ends = {X, XS},
               !.allowed = {"for", "prove", "read", "if", "break", "continue", "return"}]

MCMenus == {Branches, Parameter, Counting, Coupled, Ranges}

\* A loop variable's name, used again.
MCAgain ==
  {[Menu EXCEPT !.budget = 4, !.starts = {Num(0)}, !.ends = {XS}, !.indices = {X},
                !.allowed = {"for", "read", "return", "loop variable again"}]}
=============================================================================
