----------------------------- MODULE FactsLogic -----------------------------
(***************************************************************************)
(* The formulas of requires, ensures, invariants, conditions and proofs,   *)
(* what the checker does to them, and the question it puts to the solver.  *)
(*                                                                         *)
(* Integers are unsigned words of Width bits: smt.rs encodes them as bit   *)
(* vectors that wrap around, as the emitted code does.  The solver answers *)
(* every query on formulas of this form.                                   *)
(***************************************************************************)
EXTENDS Integers, FiniteSets, SequencesExt, TLC

CONSTANT Width

ASSUME WidthAssumption == Width \in Nat \ {0}

MaxWord == 2 ^ Width - 1
Values == 0 .. MaxWord

\* The name of the symbolic length of the parameter xs.
Length == "len"

Num(n) == [op |-> "int", n |-> n]
Var(v) == [op |-> "var", v |-> v]
Bin(op, a, b) == [op |-> op, args |-> <<a, b>>]

RECURSIVE Mentions(_)
Mentions(e) == CASE e.op = "int" -> {}
                 [] e.op = "var" -> {e.v}
                 [] OTHER -> Mentions(e.args[1]) \cup Mentions(e.args[2])

NamesOf(formulas) == UNION {Mentions(f) : f \in formulas}

RECURSIVE Eval(_, _)
Eval(e, store) ==
  IF e.op = "int" THEN e.n ELSE IF e.op = "var" THEN store[e.v]
  ELSE LET a == Eval(e.args[1], store)
           b == Eval(e.args[2], store)
       IN CASE e.op = "add" -> (a + b) % (MaxWord + 1)
            [] e.op = "lt" -> a < b
            [] e.op = "le" -> a <= b
            [] e.op = "gt" -> a > b
            [] e.op = "ge" -> a >= b
            [] e.op = "eq" -> a = b
            [] e.op = "ne" -> a # b

\* substitute_expr, where subs maps names to expressions.
RECURSIVE Substitute(_, _)
Substitute(e, subs) ==
  CASE e.op = "int" -> e
    [] e.op = "var" -> IF e.v \in DOMAIN subs THEN subs[e.v] ELSE e
    [] OTHER -> Bin(e.op, Substitute(e.args[1], subs), Substitute(e.args[2], subs))

\* A comparison is negated by its operator.
Negate(e) ==
  LET flipped == [lt |-> "ge", ge |-> "lt", le |-> "gt", gt |-> "le", eq |-> "ne", ne |-> "eq"]
  IN [e EXCEPT !.op = flipped[e.op]]

\* Faulty: facts outlive the value they are about.
FactsKept(facts, v) == facts

\* drop_facts_mentioning.
FactsWithout(facts, v) == {f \in facts : v \notin Mentions(f)}

\* build_query: a fact about a name that is not declared is left out; the
\* claim is proven when no values of the names refute it.
Entails(facts, claim, declared) ==
  LET usable == {f \in facts : Mentions(f) \subseteq declared}
  IN \A store \in [NamesOf(usable \cup {claim}) -> Values] :
       (\A f \in usable : Eval(f, store)) => Eval(claim, store)

\* try_satisfiable.
Satisfiable(formulas) ==
  \E store \in [NamesOf(formulas) -> Values] : \A f \in formulas : Eval(f, store)
=============================================================================
