----------------------------- MODULE SsaSource -----------------------------
(***************************************************************************)
(* The control-flow core of the typed AST that ssa.rs lowers, and what it  *)
(* means: the C that the tree backend (backend_c.rs) prints for it, one C  *)
(* block per body and one C variable per `let`.                            *)
(*                                                                         *)
(* A function has an integer parameter x, an array parameter xs and a      *)
(* local y = 1, runs a body and returns x or y; Menus bounds the body.      *)
(* Integers stay small and a Bool is 0 or 1.                               *)
(***************************************************************************)
EXTENDS Integers, FiniteSets, SequencesExt

CONSTANTS Menus,    \* bounds on the programs: a budget of statements (nested
                    \* ones included), the features they may use, and the
                    \* backends that emit them
          Fuel      \* loop turns a run may take

ASSUME SourceAssumption == Fuel \in Nat /\ \A menu \in Menus : menu.budget \in Nat

Trap == -1           \* stands for the result of a division by zero
Array == <<1, 0>>    \* the elements of xs

----------------------------------------------------------------------------
(* Expressions and statements *)

Num(n) == [op |-> "int", n |-> n]
Var(v) == [op |-> "var", v |-> v]
Bin(op, a, b) == [op |-> op, args |-> <<a, b>>]

Add1(v) == Bin("add", Var(v), Num(1))
Below2(v) == Bin("lt", Var(v), Num(2))
Guarded(v) == Bin("and", Bin("ne", Var(v), Num(0)),
                         Bin("lt", Num(0), Bin("div", Num(2), Var(v))))

Assign(v, e) == [op |-> "assign", v |-> v, e |-> e]
Let(v, e) == [op |-> "let", v |-> v, e |-> e]
If(e, body, other) == [op |-> "if", e |-> e, body |-> body, other |-> other]
Loop(op, v, e, body) == [op |-> op, v |-> v, e |-> e, body |-> body]

When(menu, feature, S) == IF feature \in menu.features THEN S ELSE {}

Conditions(menu) == When(menu, "test x", {Below2("x")}) \cup When(menu, "test y", {Below2("y")})
              \cup When(menu, "and", {Guarded("x")})

\* The statements without a body, where scope tells what is around them.
Simple(menu, scope) ==
  When(menu, "add", {Assign("x", Add1("x")), Assign("y", Add1("x"))})
  \cup When(menu, "set", {Assign("y", Num(0))})
  \cup When(menu, "div", {Assign("y", Bin("div", Num(2), Add1("x")))})
  \cup When(menu, "div by x", {Assign("y", Bin("div", Num(2), Var("x")))})
  \cup When(menu, "copy", {Assign("y", Var("x")), Assign("x", Var("y"))})
  \cup When(menu, "assert", {[op |-> "assert", e |-> Below2("y"), message |-> TRUE]})
  \cup When(menu, "bare assert", {[op |-> "assert", e |-> Below2("y"), message |-> FALSE]})
  \cup (IF "i" \in scope THEN When(menu, "count", {Assign("y", Add1("i"))}) ELSE {})
  \cup (IF scope # {} THEN When(menu, "shadow", {Let("x", Num(2))}) ELSE {})

Jumps(menu, scope) ==
  When(menu, "return", {[op |-> "return", e |-> Var("x")]})
  \cup (IF "loop" \in scope THEN When(menu, "break", {[op |-> "break"]})
                                 \cup When(menu, "continue", {[op |-> "continue"]})
                            ELSE {})

\* Every body of at most n statements.  A second `let` of a name in a scope
\* is a Reassign by the time the checker is done, so it is not written.
RECURSIVE Bodies(_, _, _)
Bodies(menu, n, scope) ==
  LET InnerBodies(k, more) == Bodies(menu, k, scope \cup {"inner"} \cup more)
      Ifs(k) == UNION {{If(c, b, o) : c \in Conditions(menu), b \in InnerBodies(j, {}) \ {<< >>},
                                  o \in InnerBodies(k - j, {})} : j \in 1 .. k}
      Whiles(k) == {Loop("while", "", c, b) : c \in Conditions(menu), b \in InnerBodies(k, {"loop"})}
      Fors(op, e, k) == {Loop(op, "i", e, b) : b \in InnerBodies(k, {"loop", "i"})}
      Nested(k) == When(menu, "if", Ifs(k)) \cup When(menu, "while", Whiles(k))
                   \cup When(menu, "for", Fors("for", Num(2), k))
                   \cup When(menu, "for to y", Fors("for", Var("y"), k))
                   \cup When(menu, "each", Fors("each", Num(0), k))
      Redeclared(s, rest) ==
        s.op = "let" /\ \E i \in DOMAIN rest : rest[i].op = "let" /\ rest[i].v = s.v
      Headed(S, k) == {<<s>> \o rest : s \in S, rest \in Bodies(menu, n - k, scope)}
  IN {<< >>} \cup (IF n = 0 THEN {}
                   ELSE {<<j>> : j \in Jumps(menu, scope)}
                        \cup {b \in Headed(Simple(menu, scope), 1) : ~Redeclared(Head(b), Tail(b))}
                        \cup UNION {Headed(Nested(k), k + 1) : k \in 0 .. n - 1})

Programs(menu) == {Append(b, [op |-> "return", e |-> Var(v)]) :
                     b \in Bodies(menu, menu.budget, {}), v \in {"x", "y"}}

----------------------------------------------------------------------------
(* What a program does *)

\* The result of an operator on two integers.
Apply(op, a, b) ==
  CASE a = Trap \/ b = Trap -> Trap
    [] op = "add" -> a + b
    [] op = "div" -> IF b = 0 THEN Trap ELSE a \div b
    [] op = "lt" -> IF a < b THEN 1 ELSE 0
    [] op = "ne" -> IF a # b THEN 1 ELSE 0
    [] op = "and" -> IF a = 1 /\ b = 1 THEN 1 ELSE 0

\* The innermost declaration of a name among the scopes, the last one first.
Scope(env, v) == CHOOSE d \in DOMAIN env : v \in DOMAIN env[d]
                                           /\ \A e \in d + 1 .. Len(env) : v \notin DOMAIN env[e]

RECURSIVE Eval(_, _)
Eval(e, env) ==
  CASE e.op = "int" -> e.n
    [] e.op = "var" -> env[Scope(env, e.v)][e.v]
    [] e.op = "and" -> LET a == Eval(e.args[1], env)
                       IN IF a = 1 THEN Eval(e.args[2], env) ELSE a
    [] OTHER -> Apply(e.op, Eval(e.args[1], env), Eval(e.args[2], env))

Going(m) == m.how = "next"

Outcome(how, value) == [how |-> how, value |-> value]

RECURSIVE Exec(_, _)
ExecBody(ss, m, vars) ==    \* a C block, vars its own variables
  LET end == FoldLeft(LAMBDA k, s : IF Going(k) THEN Exec(s, k) ELSE k,
                      [m EXCEPT !.env = Append(@, vars)], ss)
  IN [end EXCEPT !.env = Front(@)]

\* One turn of a loop taken; break and continue stop here.
AfterTurn(m) == IF m.how = "continue" THEN [m EXCEPT !.how = "next"] ELSE m
AfterLoop(m) == IF m.how = "break" THEN [m EXCEPT !.how = "next"] ELSE m

\* `for (i = n; i < end; i++)` with the condition read again each time; the
\* body sees i, or for `each` the element i indexes.
RECURSIVE Turns(_, _, _)
Turns(s, n, m) ==
  LET cond == CASE s.op = "while" -> Eval(s.e, m.env)
                [] s.op = "for" -> Apply("lt", n, Eval(s.e, m.env))
                [] s.op = "each" -> Apply("lt", n, Len(Array))
      vars == CASE s.op = "while" -> << >>
                [] s.op = "for" -> [v \in {s.v} |-> n]
                [] s.op = "each" -> [v \in {s.v} |-> Array[n + 1]]
      turn == AfterTurn(ExecBody(s.body, [m EXCEPT !.fuel = @ - 1], vars))
  IN CASE m.fuel = 0 -> [m EXCEPT !.how = "diverges"]
       [] cond = Trap -> [m EXCEPT !.how = "abort"]
       [] cond = 0 -> m
       [] OTHER -> IF Going(turn) THEN Turns(s, n + 1, turn) ELSE turn

Exec(s, m) ==
  LET value == Eval(s.e, m.env)
      Set(d) == [m EXCEPT !.env[d] = [v \in DOMAIN @ \cup {s.v} |-> IF v = s.v THEN value ELSE @[v]]]
  IN CASE s.op \in {"break", "continue"} -> [m EXCEPT !.how = s.op]
       [] s.op \in {"while", "for", "each"} -> AfterLoop(Turns(s, 0, m))
       [] s.op \notin {"while", "for", "each"} /\ value = Trap -> [m EXCEPT !.how = "abort"]
       [] s.op = "assign" -> Set(Scope(m.env, s.v))
       [] s.op = "let" -> Set(Len(m.env))
       [] s.op = "return" -> [m EXCEPT !.how = "return", !.value = value]
       [] s.op = "assert" -> IF value = 1 THEN m ELSE [m EXCEPT !.how = "abort"]
       [] s.op = "if" -> ExecBody(IF value = 1 THEN s.body ELSE s.other, m, << >>)

\* How the function called with x ends: it returns a value, aborts (a failed
\* assertion, the guard of a division) or runs out of Fuel.
Meaning(program, x) ==
  LET start == [env |-> << >>, how |-> "next", value |-> 0, fuel |-> Fuel]
      end == ExecBody(program, start, [v \in {"x", "y"} |-> IF v = "x" THEN x ELSE 1])
  IN Outcome(end.how, end.value)
=============================================================================
