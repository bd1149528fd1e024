---------------------------- MODULE FactsProgram ----------------------------
(***************************************************************************)
(* A function that passed FactsChecker, run on inputs that its requires    *)
(* admit.  The emitted code checks nothing that was proven: a proof is a   *)
(* comment (backend_c.rs:7741), and an index proven in range is read with  *)
(* no bounds check (backend_c.rs:8468).                                    *)
(***************************************************************************)
EXTENDS FactsChecker

VARIABLES input,  \* x and the length of xs at the call
          store,  \* the live scopes, outermost first, name -> value
          pc      \* into code; 0 before the call, Len(code) + 1 after it

vars == <<menu, contract, env, facts, code, open, closed, left, accepted, input, store, pc>>

Value(e) == Eval(e, [v \in Mentions(e) |-> IF v = Length THEN input.len ELSE store[Home(store, v)][v]])

Stopped == Len(code) + 1
Running == accepted /\ pc \in DOMAIN code
At(op) == Running /\ code[pc].op = op
Instr == code[pc]

Go(to) == pc' = to /\ UNCHANGED <<menu, contract, env, facts, code, open, closed, left, accepted, input>>
Advance == Go(pc + 1)

\* The scopes that surround the loop head at h: every bracket open there.
DepthAt(h) ==
  FoldLeft(LAMBDA d, s : CASE s.op \in {"if", "while", "init"} -> d + 1
                           [] s.op \in {"end if", "end loop"} -> d - 1
                           [] OTHER -> d, 1, SubSeq(code, 1, h - 1))
Outside(h) == SubSeq(store, 1, DepthAt(h))

\* A for loop steps its variable, and forgets what its body declared.
NextRound(h) ==
  IF code[h].op = "for"
  THEN LET v == code[h].v
       IN [Outside(h) EXCEPT ![DepthAt(h)] = v :> (@[v] + 1) % (MaxWord + 1)]
  ELSE Outside(h)

\* The runtime asserts its requires on entry.
Start ==
  /\ accepted /\ pc = 0
  /\ \E x, len \in Values :
       /\ input' = [x |-> x, len |-> len]
       /\ store' = << "x" :> x >>
       /\ \A f \in contract.requires : Eval(f, input')
  /\ pc' = 1
  /\ UNCHANGED <<menu, contract, env, facts, code, open, closed, left, accepted>>

RunSet ==
  /\ At("set")
  /\ LET d == IF Instr.let THEN Len(store) ELSE Home(store, Instr.v)
     IN store' = [store EXCEPT ![d] = (Instr.v :> Value(Instr.e)) @@ @]
  /\ Advance

\* The callee asserts its requires and keeps its ensures.
RunCall ==
  /\ At("call")
  /\ IF Value(Instr.e) = MaxWord THEN Go(Stopped) /\ UNCHANGED store
     ELSE \E r \in Value(Instr.e) + 1 .. MaxWord :
            Advance /\ store' = [store EXCEPT ![Len(store)] = (Instr.v :> r) @@ @]

RunProve == At("prove") /\ Advance /\ UNCHANGED store

\* A failed bounds check stops the program.
RunRead ==
  /\ At("read")
  /\ Go(IF Instr.checked /\ Value(Instr.e) >= input.len THEN Stopped ELSE pc + 1)
  /\ UNCHANGED store

RunReturn == At("return") /\ Go(Stopped) /\ UNCHANGED store

RunIf ==
  /\ At("if")
  /\ Go(IF Value(Instr.e) THEN pc + 1 ELSE Instr.else + 1)
  /\ store' = PushScope(store)

\* The end of a then branch.
RunElse == At("else") /\ Go(Instr.end) /\ UNCHANGED store
RunEndIf == At("end if") /\ Advance /\ store' = Front(store)

RunInit ==
  /\ At("init")
  /\ store' = Append(store, Instr.v :> Value(Instr.e))
  /\ Advance

RunTest ==
  /\ At("while") \/ At("for")
  /\ IF Value(Instr.e)
     THEN Advance /\ store' = IF Instr.op = "while" THEN PushScope(store) ELSE store
     ELSE Go(Instr.end + 1) /\ store' = IF Instr.op = "for" THEN Front(store) ELSE store

RunEndLoop ==
  /\ At("end loop") \/ At("continue")
  /\ Go(Instr.head)
  /\ store' = NextRound(Instr.head)

RunBreak ==
  /\ At("break")
  /\ Go(code[Instr.head].end + 1)
  /\ store' = IF code[Instr.head].op = "for" THEN Front(Outside(Instr.head)) ELSE Outside(Instr.head)

RunStep ==
  \/ Start \/ RunSet \/ RunCall \/ RunProve \/ RunRead \/ RunReturn \/ RunIf \/ RunElse
  \/ RunEndIf \/ RunInit \/ RunTest \/ RunEndLoop \/ RunBreak

Init ==
  /\ CheckInit
  /\ input = [x |-> 0, len |-> 0] /\ store = << >> /\ pc = 0

Next ==
  \/ CheckStep /\ UNCHANGED <<input, store, pc>>
  \/ RunStep

Spec == Init /\ [][Next]_vars

----------------------------------------------------------------------------
(* What the facts are worth at run time.                                   *)

\* A claim the checker proved, and the requires it proved of a call, holds
\* whenever control is there, on every admitted input and in every iteration
\* (prove and call sites: facts, constants and conditions of other iterations
\* or other bindings of a name must not have taken part).
ProvedHolds ==
  /\ At("prove") => Value(Instr.e)
  /\ (At("call") /\ Instr.proven) => Value(Instr.e) < MaxWord

\* A read that lost its bounds check is in bounds (bounds elision).
ElidedInBounds == (At("read") /\ ~Instr.checked) => Value(Instr.e) < input.len

\* Loop invariants hold each time the condition is evaluated, however the
\* iteration before it ended (entry and preservation checks).
InvariantsHold == (At("while") \/ At("for")) => \A f \in Instr.invs : Value(f)

\* What the function ensures holds of its arguments and of the value it
\* returns, at every return (callers assume it without looking).
EnsuresHold ==
  At("return") =>
    \A f \in contract.ensures : Eval(Substitute(f, "_return" :> Num(Value(Instr.e))), input)
=============================================================================
