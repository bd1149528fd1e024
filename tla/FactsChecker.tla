---------------------------- MODULE FactsChecker ----------------------------
(***************************************************************************)
(* The verifying part of check_one_stmt (checker.rs): it walks a function  *)
(* in text order with a list of facts, known to hold here, and with the    *)
(* constants it knows of variables; it discharges proofs, contracts and    *)
(* loop invariants from them, and removes the bounds check of an index it  *)
(* can prove in range.  As in AffineChecker the program is chosen while    *)
(* the pass walks it, one action per statement form, and a diagnostic is a *)
(* guard.                                                                  *)
(*                                                                         *)
(* The function has an integer parameter x and an array parameter xs.      *)
(***************************************************************************)
EXTENDS FactsLogic

CONSTANT Menus   \* what a function may be: budget, contracts, expressions,
                 \* conditions, claims, invariants, names, the statement forms
                 \* and hazardous combinations allowed

Forms == {"let", "assign", "call", "prove", "read", "if", "while", "for",
          "break", "continue", "return"}

\* What the checker accepts without accounting for it; see Declarable,
\* Assignable, UpToDate and Jump, which name the code that would have to.
Hazards == {"shadow", "outlived fact", "loop constant", "use after step",
            "jump after step", "loop variable again", "moving bound",
            "call rebinds argument", "parameter reassigned"}

ASSUME MenusAssumption ==
  \A m \in Menus : m.budget \in Nat /\ m.allowed \subseteq Forms \cup Hazards

VARIABLES menu,      \* the menu of this function
          contract,  \* its requires and ensures, sets of formulas
          env,       \* Env.scopes: outermost first, name -> constant or Unknown
          facts,     \* smt_facts
          code,      \* the typed body written so far
          open,      \* the statements whose bodies are being walked
          closed,    \* the `terminated` of the innermost check_stmt_list
          left,      \* statements the function may still have
          accepted   \* the function passed the check

checkVars == <<contract, env, facts, code, open, closed, left, accepted>>

Unknown == -1
Allows(f) == f \in menu.allowed

----------------------------------------------------------------------------
(* Env *)

Bound(v) == \E d \in DOMAIN env : v \in DOMAIN env[d]

\* lookup: the innermost scope that has the name.
Home(scopes, v) == CHOOSE d \in DOMAIN scopes :
                     v \in DOMAIN scopes[d] /\ \A e \in d + 1 .. Len(scopes) : v \notin DOMAIN scopes[e]

Insert(scopes, v, constant) == [scopes EXCEPT ![Len(scopes)] = (v :> constant) @@ @]

PushScope(scopes) == Append(scopes, << >>)

Declared(scopes) == UNION {DOMAIN scopes[d] : d \in DOMAIN scopes} \cup {Length}

\* The part of current_smt_facts that env contributes.
ConstantFacts(scopes) ==
  UNION {{Bin("eq", Var(v), Num(scopes[d][v])) : v \in {w \in DOMAIN scopes[d] : scopes[d][w] # Unknown}}
         : d \in DOMAIN scopes}

\* clear_constants_for, in every scope.
ClearConstants(scopes, names) ==
  [d \in DOMAIN scopes |-> [v \in DOMAIN scopes[d] |-> IF v \in names THEN Unknown ELSE scopes[d][v]]]

\* all_bindings gives a name that is bound twice to the solver twice: it
\* answers with an error, and the verdict is Unknown.
Confused(scopes) ==
  \E d, e \in DOMAIN scopes : d # e /\ DOMAIN scopes[d] \cap DOMAIN scopes[e] # {}

\* prove_with_calls.
Proven(claim, known, scopes) ==
  /\ ~Confused(scopes)
  /\ Entails(known \cup ConstantFacts(scopes), claim, Declared(scopes))

\* For a callee's requires and for ensures, Unknown is no diagnostic.
NotRefuted(claim, known, scopes) == Confused(scopes) \/ Proven(claim, known, scopes)

\* check_expr folds an expression whose names are all known constants.  A sum
\* that does not fit its type is a diagnostic.
Folds(e) == \A v \in Mentions(e) : v # Length /\ env[Home(env, v)][v] # Unknown
Folded(e) == Eval(e, [v \in Mentions(e) |-> env[Home(env, v)][v]])
Constant(e) == IF Folds(e) THEN Folded(e) ELSE Unknown
WellFormed(e) ==
  /\ Mentions(e) \subseteq Declared(env)
  /\ (e.op = "add" /\ Folds(e)) => Folded(e) >= Folded(e.args[2])

----------------------------------------------------------------------------
(* The typed body.  Loops and branches are bracketed; every jump of the    *)
(* emitted code goes to a bracket.                                         *)

LoopKinds == {"while", "for"}
Queries == LoopKinds \cup {"prove", "read", "call", "return"}
Loops == {k \in DOMAIN open : open[k].kind \in LoopKinds}
InLoop == Loops # {}
Innermost == CHOOSE k \in Loops : \A j \in Loops : j <= k

Emit(instrs) == code' = code \o instrs

\* The statements of the body, or of both branches, that follow code[head].
Since(head) == SubSeq(code, head + 1, Len(code))

\* collect_branch_mutations: assignments at any depth, and not lets.
Mutated(stmts) == {s.v : s \in {t \in ToSet(stmts) : t.op = "set" /\ ~t.let}}

Nesting(n, s) == CASE s.op \in LoopKinds -> n + 1 [] s.op = "end loop" -> n - 1 [] OTHER -> n

\* Faulty: no loop is left by a break.
BreaksMissed(stmts) == FALSE

\* contains_break: a break of this loop, not of a nested one.
ContainsBreak(stmts) ==
  FoldLeft(LAMBDA acc, s : [n |-> Nesting(acc.n, s), found |-> acc.found \/ (s.op = "break" /\ acc.n = 0)],
           [n |-> 0, found |-> FALSE], stmts).found

\* Faulty: the last assignment only, whatever it read.
ComposeLast(acc, s) ==
  LET at == [acc EXCEPT !.n = Nesting(@, s)]
  IN IF s.op = "set" THEN [at EXCEPT !.subs = (s.v :> s.e) @@ @] ELSE at

\* walk_for_reassigns: what each name holds after the body, in terms of what
\* names hold before it.  The branches of an if count as if both were run; a
\* name that a nested loop changes holds a fresh unknown.
Havoc(v, n) == v \o "__havoc_" \o ToString(n)
Compose(acc, s) ==
  LET at == [acc EXCEPT !.n = Nesting(@, s), !.fresh = @ + 1]
  IN CASE s.op = "set" /\ acc.n = 0 -> [at EXCEPT !.subs = (s.v :> Substitute(s.e, @)) @@ @]
       [] s.op = "set" /\ ~s.let /\ acc.n > 0 -> [at EXCEPT !.subs = (s.v :> Var(Havoc(s.v, at.fresh))) @@ @]
       [] OTHER -> at

LastReassigns(stmts) == FoldLeft(Compose, [n |-> 0, fresh |-> 0, subs |-> << >>], stmts).subs

----------------------------------------------------------------------------
(* Where a name, an assignment or a jump would make facts wrong that the   *)
(* checker goes on using.                                                  *)

\* A let in a loop keeps the facts about an older binding (checker.rs:7515) and
\* stands for an assignment to an outer one in the preservation check (23745);
\* under a name bound twice an ensures is accepted unproven (22731).  The fact
\* that a for loop leaves behind names a variable whose scope is gone (8923).
Declarable(v) ==
  /\ Allows("shadow") \/ ~Bound(v)
       \/ (~InLoop /\ (v \in DOMAIN Last(env) \/ contract.ensures = {}))
  /\ Allows("loop variable again") \/ Bound(v) \/ v \notin NamesOf(facts)
  /\ Allows("parameter reassigned") \/ v \notin NamesOf(contract.ensures)

\* The facts and the constants that hold where a body begins are put back when
\* it ends, and a loop is checked with the constants of its first iteration.
Assignable(v) ==
  /\ Bound(v)
  /\ \A k \in DOMAIN open :
       /\ Allows("outlived fact") \/ v \notin NamesOf(open[k].facts \cup open[k].known)
       /\ open[k].kind # "if" =>
            /\ Allows("moving bound") \/ v \notin open[k].range
            /\ \/ Allows("loop constant")
               \/ v \notin NamesOf(ConstantFacts(open[k].env))
               \/ \A s \in ToSet(Since(open[k].head)) : s.op \notin Queries
  /\ Allows("parameter reassigned") \/ v \notin NamesOf(contract.ensures)

\* In a loop an assignment drops no fact (7764).
UpToDate ==
  \/ Allows("use after step")
  \/ \A k \in Loops : Mutated(Since(open[k].head)) \cap NamesOf(facts \cup ConstantFacts(env)) = {}

\* No invariant is checked where a loop is left or continued in its body (9182).
Jumps(stepped) ==
  /\ InLoop
  /\ Allows("jump after step") \/ NamesOf(open[Innermost].invs)
       \cap (Mutated(Since(open[Innermost].head)) \cup stepped) = {}

----------------------------------------------------------------------------
(* Statements *)

Write(form) ==
  /\ Allows(form) /\ ~accepted /\ ~closed /\ left > 0
  /\ left' = left - 1
  /\ UNCHANGED <<menu, contract, accepted>>

Set(v, e, isLet) == [op |-> "set", v |-> v, e |-> e, let |-> isLet]

\* A let that shadows a name of its own scope drops the facts about it, like
\* an assignment.
Let(v, e) ==
  /\ Write("let") /\ WellFormed(e) /\ Declarable(v)
  /\ facts' = IF v \in DOMAIN Last(env) /\ ~InLoop THEN FactsWithout(facts, v) ELSE facts
  /\ env' = Insert(env, v, Constant(e))
  /\ Emit(<<Set(v, e, TRUE)>>)
  /\ UNCHANGED <<open, closed>>

Assign(v, e) ==
  /\ Write("assign") /\ WellFormed(e) /\ Assignable(v)
  /\ env' = [env EXCEPT ![Home(env, v)][v] = Unknown]
  /\ facts' = IF InLoop THEN facts ELSE FactsWithout(facts, v)
  /\ Emit(<<Set(v, e, FALSE)>>)
  /\ UNCHANGED <<open, closed>>

\* record_ensures_facts: the callee's ensures, with v for _return and a for n.
Promised(v, a) == Bin("gt", Var(v), a)

\* let v = above(a), where above(n) requires n < MaxWord and ensures
\* _return > n.
Call(v, a) ==
  /\ Write("call") /\ WellFormed(a) /\ Declarable(v) /\ UpToDate /\ ~InLoop
  /\ Allows("call rebinds argument") \/ v \notin Mentions(a)
  /\ NotRefuted(Bin("lt", a, Num(MaxWord)), facts, env)  \* verify_call_args_in_expr
  /\ facts' = (IF v \in DOMAIN Last(env) THEN FactsWithout(facts, v) ELSE facts)
                \cup {Promised(v, a)}
  /\ env' = Insert(env, v, Unknown)
  /\ Emit(<<[op |-> "call", v |-> v, e |-> a, proven |-> ~Confused(env)]>>)
  /\ UNCHANGED <<open, closed>>

\* A claim that folds to a constant is not put to the solver; a proof adds no
\* fact.
Prove(claim) ==
  /\ Write("prove") /\ WellFormed(claim) /\ UpToDate
  /\ IF Folds(claim) THEN Folded(claim) ELSE Proven(claim, facts, env)
  /\ Emit(<<[op |-> "prove", e |-> claim]>>)
  /\ UNCHANGED <<env, facts, open, closed>>

\* try_elide_bounds_in_typed_expr: what cannot be proven stays checked.
Read(index) ==
  /\ Write("read") /\ WellFormed(index) /\ UpToDate
  /\ Emit(<<[op |-> "read", e |-> index,
             checked |-> ~Proven(Bin("lt", index, Var(Length)), facts, env)]>>)
  /\ UNCHANGED <<env, facts, open, closed>>

\* verify_ensures_at_return.
Return(e) ==
  /\ Write("return") /\ WellFormed(e) /\ UpToDate
  /\ \A f \in contract.ensures : NotRefuted(Substitute(f, "_return" :> e), facts, env)
  /\ Emit(<<[op |-> "return", e |-> e]>>)
  /\ closed' = TRUE
  /\ UNCHANGED <<env, facts, open>>

If(cond) ==
  /\ Write("if") /\ WellFormed(cond)
  /\ open' = Append(open, [kind |-> "if", head |-> Len(code) + 1, cond |-> cond, known |-> {cond},
                           env |-> env, facts |-> facts, elseAt |-> 0, thenClosed |-> FALSE])
  /\ Emit(<<[op |-> "if", e |-> cond, else |-> 0]>>)
  /\ env' = PushScope(env)
  /\ facts' = facts \cup {cond}
  /\ UNCHANGED closed

\* The end of a then branch.
Else ==
  /\ ~accepted /\ open # << >>
  /\ LET branch == Last(open)
         here == Len(code) + 1
     IN /\ branch.kind = "if" /\ branch.elseAt = 0
        /\ open' = [open EXCEPT ![Len(open)].elseAt = here, ![Len(open)].thenClosed = closed]
        /\ code' = Append([code EXCEPT ![branch.head].else = here], [op |-> "else", end |-> 0])
        /\ env' = PushScope(branch.env)
        /\ facts' = branch.facts \cup {Negate(branch.cond)}
  /\ closed' = FALSE
  /\ UNCHANGED <<menu, contract, left, accepted>>

\* Faulty: as if the then branch never came through.
NarrowedAlways(cond, thenClosed, elseClosed) == {Negate(cond)}

\* What the condition tells past the merge when one branch does not come
\* through.
Narrowed(cond, thenClosed, elseClosed) ==
  CASE thenClosed /\ ~elseClosed -> {Negate(cond)}
    [] elseClosed /\ ~thenClosed -> {cond}
    [] OTHER -> {}

\* Past the merge the other facts are those before the if.
EndIf ==
  /\ ~accepted /\ open # << >>
  /\ LET branch == Last(open)
     IN /\ branch.kind = "if" /\ branch.elseAt # 0
        /\ facts' = branch.facts \cup Narrowed(branch.cond, branch.thenClosed, closed)
        /\ env' = ClearConstants(branch.env, Mutated(Since(branch.head)))
        /\ code' = Append([code EXCEPT ![branch.elseAt].end = Len(code) + 1], [op |-> "end if"])
        /\ closed' = (closed /\ branch.thenClosed)
  /\ open' = Front(open)
  /\ UNCHANGED <<menu, contract, left, accepted>>

\* The invariants are proven from what is known before the loop; the body
\* assumes them and the condition.
While(cond, invs) ==
  /\ Write("while") /\ WellFormed(cond) /\ UpToDate
  /\ \A f \in invs : WellFormed(f) /\ Proven(f, facts, env)
  /\ open' = Append(open, [kind |-> "while", head |-> Len(code) + 1, cond |-> cond, invs |-> invs,
                           known |-> {}, range |-> {}, env |-> env, facts |-> facts])
  /\ Emit(<<[op |-> "while", e |-> cond, invs |-> invs, end |-> 0]>>)
  /\ env' = PushScope(env)
  /\ facts' = facts \cup invs \cup {cond}
  /\ UNCHANGED closed

\* The variable lives in the scope of the body; on entry it equals start.
For(v, start, end, invs) ==
  /\ Write("for") /\ WellFormed(start) /\ WellFormed(end) /\ UpToDate
  /\ Declarable(v) /\ (Allows("loop variable again") \/ ~Bound(v))
  /\ LET inner == Insert(PushScope(env), v, Unknown)
     IN /\ env' = inner
        /\ \A f \in invs : /\ Mentions(f) \subseteq Declared(inner)
                           /\ Proven(f, facts \cup {Bin("eq", Var(v), start)}, inner)
  /\ open' = Append(open, [kind |-> "for", head |-> Len(code) + 2, cond |-> Bin("lt", Var(v), end),
                           invs |-> invs, known |-> {}, range |-> {v} \cup Mentions(start) \cup Mentions(end),
                           v |-> v, env |-> env, facts |-> facts])
  /\ Emit(<<[op |-> "init", v |-> v, e |-> start],
            [op |-> "for", v |-> v, e |-> Bin("lt", Var(v), end), invs |-> invs, end |-> 0]>>)
  /\ facts' = facts \cup invs \cup {Bin("ge", Var(v), start), Bin("lt", Var(v), end)}
  /\ UNCHANGED closed

\* A body that comes through must restore the invariants, in terms of what its
\* names hold at its end.
Preserved(loop, body) ==
  LET step == IF loop.kind = "for" THEN loop.v :> Bin("add", Var(loop.v), Num(1)) ELSE << >>
      subs == step @@ LastReassigns(body)
  IN \A f \in loop.invs :
       LET claim == Substitute(f, subs)
       IN ~Confused(env) /\ Entails(facts \cup ConstantFacts(env), claim, Declared(env) \cup Mentions(claim))

\* After the loop: the facts before it, the invariants, and the negated
\* condition unless a break skips it.
EndLoop ==
  /\ ~accepted /\ open # << >>
  /\ LET loop == Last(open)
         body == Since(loop.head)
     IN /\ loop.kind \in LoopKinds
        /\ closed \/ Preserved(loop, body)
        /\ env' = ClearConstants(loop.env, Mutated(body))
        /\ facts' = loop.facts \cup loop.invs
             \cup (IF ContainsBreak(body) THEN {} ELSE {Negate(loop.cond)})
        /\ code' = Append([code EXCEPT ![loop.head].end = Len(code) + 1], [op |-> "end loop", head |-> loop.head])
  /\ open' = Front(open)
  /\ closed' = FALSE
  /\ UNCHANGED <<menu, contract, left, accepted>>

Jump(form, stepped) ==
  /\ Write(form) /\ Jumps(stepped)
  /\ Emit(<<[op |-> form, head |-> open[Innermost].head]>>)
  /\ closed' = TRUE
  /\ UNCHANGED <<env, facts, open>>

Break == Jump("break", {})
Continue == Jump("continue", IF InLoop /\ open[Innermost].kind = "for" THEN {open[Innermost].v} ELSE {})

\* Every way through the function returns.
Accept ==
  /\ ~accepted /\ open = << >> /\ closed
  /\ accepted' = TRUE
  /\ UNCHANGED <<menu, contract, env, facts, code, open, closed, left>>

CheckInit ==
  /\ menu \in Menus
  /\ contract \in [requires : menu.requires, ensures : menu.ensures]
  /\ Satisfiable(contract.requires)
  /\ env = << "x" :> Unknown >>
  /\ facts = contract.requires
  /\ code = << >> /\ open = << >>
  /\ closed = FALSE /\ accepted = FALSE
  /\ left = menu.budget

CheckStep ==
  \/ \E v \in menu.names, e \in menu.values : Let(v, e) \/ Assign(v, e) \/ Call(v, e)
  \/ \E e \in menu.claims : Prove(e)
  \/ \E e \in menu.indices : Read(e)
  \/ \E e \in menu.results : Return(e)
  \/ \E e \in menu.conds : If(e)
  \/ \E e \in menu.conds, invs \in menu.invs : While(e, invs)
  \/ \E v \in menu.names, e \in menu.starts, f \in menu.ends, invs \in menu.invs : For(v, e, f, invs)
  \/ Else \/ EndIf \/ EndLoop \/ Break \/ Continue \/ Accept
=============================================================================
