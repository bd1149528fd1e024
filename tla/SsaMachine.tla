---------------------------- MODULE SsaMachine ----------------------------
(***************************************************************************)
(* A function is lowered to SSA, possibly optimized, emitted by one of the *)
(* two SSA backends and run, and compared with what its source means.      *)
(*                                                                         *)
(* ssa_backend_llvm.rs prints a phi for every block parameter, so an edge  *)
(* assigns its parameters at once.  ssa_backend_c.rs prints assignments    *)
(* to C variables, one after the other, and a goto.                        *)
(***************************************************************************)
EXTENDS SsaPasses

CONSTANTS Inputs,      \* the values of x
          MaxBlocks    \* blocks a run may enter

ASSUME MachineAssumption ==
  /\ Inputs \subseteq Nat /\ MaxBlocks \in Nat
  /\ \A menu \in Menus : menu.backends \subseteq {"c", "llvm"}

VARIABLES program,   \* the source
          input,     \* the argument x
          backend,   \* the backend that emits it
          phase,     \* "source", "lowered", "folded", "optimized", "running", "done"
          expected,  \* what the source means
          blocks,    \* the function in SSA form
          at,        \* the block control is in
          regs,      \* the SSA values, C variables or LLVM registers
          entered,   \* how many blocks were entered
          outcome    \* how the run ended

vars == <<program, input, backend, phase, expected, blocks, at, regs, entered, outcome>>

Undef == -2
NoOutcome == Outcome("none", 0)

Init ==
  /\ \E menu \in Menus : program \in Programs(menu) /\ backend \in menu.backends
  /\ input \in Inputs
  /\ phase = "source" /\ expected = NoOutcome /\ blocks = << >>
  /\ at = 0 /\ regs = << >> /\ entered = 0 /\ outcome = NoOutcome

----------------------------------------------------------------------------
(* The compiler *)

\* A program that does not end within Fuel loop turns is left alone.
Lower ==
  /\ phase = "source"
  /\ LET meaning == Meaning(program, input)
     IN meaning.how # "diverges" /\ expected' = meaning
  /\ blocks' = LowerFunction(program)
  /\ phase' = "lowered"
  /\ UNCHANGED <<program, input, backend, at, regs, entered, outcome>>

Fold ==
  /\ phase = "lowered"
  /\ blocks' = FoldConstants(blocks) /\ phase' = "folded"
  /\ UNCHANGED <<program, input, backend, expected, at, regs, entered, outcome>>

Optimize ==
  /\ phase \in {"lowered", "folded"}
  /\ blocks' = Dce(blocks) /\ phase' = "optimized"
  /\ UNCHANGED <<program, input, backend, expected, at, regs, entered, outcome>>

----------------------------------------------------------------------------
(* The program *)

Ids == UNION {ToSet(blocks[k].params) \cup {blocks[k].code[j].id : j \in DOMAIN blocks[k].code}
              : k \in DOMAIN blocks}

Enter ==
  /\ phase \in {"lowered", "folded", "optimized"}
  /\ phase' = "running" /\ at' = 1 /\ entered' = 1
  /\ regs' = [v \in Ids |-> IF v = 1 THEN input ELSE Undef]
  /\ UNCHANGED <<program, input, backend, expected, blocks, outcome>>

Read(rs, operand) == IF IsConst(operand) THEN operand.n
                     ELSE IF operand.n \in DOMAIN rs THEN rs[operand.n] ELSE Undef

Result(ins, arg) == CASE ins.op = "const" -> arg[1]
                      [] ins.op = "len" -> Len(Array)
                      [] ins.op = "index" -> Array[arg[1] + 1]
                      [] OTHER -> Apply(ins.op, arg[1], arg[2])

\* One instruction.  Reading a variable without a value and dividing by zero
\* are undefined behaviour: neither SSA backend emits a guard.
EmitInstr(m, ins) ==
  LET arg == [k \in DOMAIN ins.args |-> Read(m.regs, ins.args[k])]
      undefined == Undef \in ToSet(arg) \/ Result(ins, arg) = Trap
  IN CASE m.how # "next" -> m
       [] m.how = "next" /\ ins.op = "intent_assert_fail" -> [m EXCEPT !.how = "abort"]
       [] OTHER -> IF undefined THEN [m EXCEPT !.how = "undefined"]
                   ELSE [m EXCEPT !.regs[ins.id] = Result(ins, arg)]

\* The registers after an edge: a phi per parameter, or C assignments.
Phis(rs, params, args) ==
  [v \in DOMAIN rs |-> IF v \in ToSet(params)
                       THEN Read(rs, args[CHOOSE k \in DOMAIN params : params[k] = v]) ELSE rs[v]]
BlockArgAssignments(rs, params, args) ==
  FoldLeftDomain(LAMBDA acc, k : [acc EXCEPT ![params[k]] = Read(acc, args[k])], rs, args)

Transfer(rs, edge) ==
  IF backend = "llvm" THEN Phis(rs, blocks[edge.to].params, edge.args)
  ELSE BlockArgAssignments(rs, blocks[edge.to].params, edge.args)

Stop(how, value) ==
  /\ outcome' = Outcome(how, value) /\ phase' = "done"
  /\ UNCHANGED <<at, regs, entered>>

\* What the terminator "unreachable" is printed as: abort() by the C backend,
\* LLVM's unreachable, which may do anything, by the other.
Unreached == IF backend = "c" THEN "abort" ELSE "undefined"

\* Control runs the block it is in and takes one of its edges.
Step ==
  /\ phase = "running"
  /\ LET m == FoldLeft(EmitInstr, [regs |-> regs, how |-> "next"], blocks[at].code)
         t == blocks[at].term
         cond == IF t.op \in {"branch", "return"} THEN Read(m.regs, t.cond) ELSE 1
         edge == t.edges[IF cond = 0 THEN 2 ELSE 1]
         how == CASE m.how # "next" -> m.how
                  [] m.how = "next" /\ t.op = "unreachable" -> Unreached
                  [] m.how = "next" /\ cond = Undef -> "undefined"
                  [] m.how = "next" /\ t.op = "return" /\ cond # Undef -> "return"
                  [] OTHER -> IF entered = MaxBlocks THEN "runaway" ELSE "next"
     IN \/ how # "next" /\ Stop(how, IF how = "return" THEN cond ELSE 0)
        \/ /\ how = "next"
           /\ at' = edge.to /\ regs' = Transfer(m.regs, edge) /\ entered' = entered + 1
           /\ UNCHANGED <<phase, outcome>>
  /\ UNCHANGED <<program, input, backend, expected, blocks>>

Next == Lower \/ Fold \/ Optimize \/ Enter \/ Step

Spec == Init /\ [][Next]_vars

----------------------------------------------------------------------------
(* Properties *)

\* The compiled function returns and aborts as its source does, optimized or
\* not and through either backend (ssa.rs lowering, ssa_pass.rs passes).
SameOutcome == phase = "done" => outcome = expected

\* No instruction, branch or return reads a value no instruction before it
\* computed, on any path taken, after any pass (remove_dead_instructions keeps
\* what block arguments use).
NoUndefinedRead == outcome.how # "undefined"

\* Every edge leads to a block and passes one argument per parameter of it,
\* and a value has one definition (loop carries, merges and break edges are
\* built in different places and must agree).
WellFormed ==
  /\ \A k \in DOMAIN blocks : \A e \in ToSet(blocks[k].term.edges) :
       e.to \in DOMAIN blocks /\ Len(e.args) = Len(blocks[e.to].params)
  /\ LET ids == FlattenSeq([k \in DOMAIN blocks |->
                  blocks[k].params \o [j \in DOMAIN blocks[k].code |-> blocks[k].code[j].id]])
     IN IsInjective(ids)

\* A loop that ends in the source ends in the compiled function: no path
\* back to the header leaves the counter behind (ssa.rs, closures #185 and
\* #187).
LoopsEnd == outcome.how # "runaway"
=============================================================================
