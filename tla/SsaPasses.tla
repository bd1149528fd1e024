----------------------------- MODULE SsaPasses -----------------------------
(***************************************************************************)
(* ssa_pass.rs: constant folding, and dead-code elimination as branch      *)
(* threading, removal of unreachable blocks and removal of dead            *)
(* instructions, repeated until nothing changes.  The operations take the  *)
(* blocks of a function and return the blocks they leave.                  *)
(***************************************************************************)
EXTENDS SsaLowering

IsConst(operand) == operand.k = "const"

----------------------------------------------------------------------------
(* Constant folding: one pass over the blocks in order *)

\* The operands, where env gives the constant values found so far.
Substitute(args, env) ==
  [k \in DOMAIN args |-> IF args[k].k = "value" /\ args[k].n \in DOMAIN env
                         THEN Const(env[args[k].n]) ELSE args[k]]

\* An operator of two constants is folded unless it traps.
Foldable(ins) ==
  /\ ins.op \in {"const", "add", "lt", "ne", "and", "div"}
  /\ \A k \in DOMAIN ins.args : IsConst(ins.args[k])
  /\ ins.op = "div" => ins.args[2].n # 0

Folded(ins) == IF ins.op = "const" THEN ins.args[1].n
               ELSE Apply(ins.op, ins.args[1].n, ins.args[2].n)

FoldInstr(f, ins) ==
  LET subst == [ins EXCEPT !.args = Substitute(@, f.env)]
  IN IF Foldable(subst)
     THEN [code |-> Append(f.code, [ins EXCEPT !.op = "const", !.args = <<Const(Folded(subst))>>]),
           env |-> [v \in DOMAIN f.env \cup {ins.id} |->
                      IF v = ins.id THEN Folded(subst) ELSE f.env[v]]]
     ELSE [f EXCEPT !.code = Append(@, subst)]

FoldTerm(t, env) ==
  LET edges == [k \in DOMAIN t.edges |-> [t.edges[k] EXCEPT !.args = Substitute(@, env)]]
  IN IF t.op \in {"branch", "return"}
     THEN [t EXCEPT !.edges = edges, !.cond = Substitute(<<@>>, env)[1]]
     ELSE [t EXCEPT !.edges = edges]

FoldBlock(f, block) ==
  LET done == FoldLeft(FoldInstr, [code |-> << >>, env |-> f.env], block.code)
  IN [blocks |-> Append(f.blocks, [block EXCEPT !.code = done.code,
                                                !.term = FoldTerm(@, done.env)]),
      env |-> done.env]

FoldConstants(blocks) == FoldLeft(FoldBlock, [blocks |-> << >>, env |-> << >>], blocks).blocks

----------------------------------------------------------------------------
(* Dead-code elimination *)

ThreadBranch(t) ==
  IF t.op = "branch" /\ IsConst(t.cond)
  THEN LET edge == t.edges[IF t.cond.n = 1 THEN 1 ELSE 2] IN Jump(edge.to, edge.args)
  ELSE t

ThreadBranches(blocks) == [k \in DOMAIN blocks |-> [blocks[k] EXCEPT !.term = ThreadBranch(@)]]

Successors(blocks, S) == {e.to : e \in UNION {ToSet(blocks[k].term.edges) : k \in S}}

RECURSIVE Reachable(_, _)
Reachable(blocks, S) ==
  LET more == S \cup Successors(blocks, S) IN IF more = S THEN S ELSE Reachable(blocks, more)

\* The blocks an edge path from the entry reaches, renumbered in their order.
RemoveUnreachable(blocks) ==
  LET reachable == Reachable(blocks, {1})
      kept == SelectSeq([k \in DOMAIN blocks |-> k], LAMBDA k : k \in reachable)
      New(old) == CHOOSE k \in DOMAIN kept : kept[k] = old
      Renumber(t) == [t EXCEPT !.edges = [k \in DOMAIN @ |-> [@[k] EXCEPT !.to = New(@)]]]
  IN [k \in DOMAIN kept |-> [blocks[kept[k]] EXCEPT !.term = Renumber(@)]]

\* The uses without those by block arguments.
OperandsOfCode(block) ==
  UNION {ToSet(block.code[k].args) : k \in DOMAIN block.code}
  \cup (IF block.term.op \in {"branch", "return"} THEN {block.term.cond} ELSE {})
OperandsOf(block) ==
  UNION {ToSet(block.code[k].args) : k \in DOMAIN block.code}
  \cup UNION {ToSet(e.args) : e \in ToSet(block.term.edges)}
  \cup (IF block.term.op \in {"branch", "return"} THEN {block.term.cond} ELSE {})

Used(blocks) == {o.n : o \in {p \in UNION {OperandsOf(blocks[k]) : k \in DOMAIN blocks} : ~IsConst(p)}}

\* Instructions without an effect and without a trap.
SafeToDrop == {"const", "add", "lt", "ne", "and", "len"}

RemoveDead(blocks) ==
  LET used == Used(blocks)
      Live(ins) == ins.id \in used \/ ins.op \notin SafeToDrop
  IN [k \in DOMAIN blocks |-> [blocks[k] EXCEPT !.code = SelectSeq(@, Live)]]

RECURSIVE Dce(_)
Dce(blocks) ==
  LET next == RemoveDead(RemoveUnreachable(ThreadBranches(blocks)))
  IN IF next = blocks THEN blocks ELSE Dce(next)
=============================================================================
