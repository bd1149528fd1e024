---------------------------- MODULE SsaLowering ----------------------------
(***************************************************************************)
(* ssa.rs: a body of typed statements becomes basic blocks whose           *)
(* parameters stand for phi nodes.  While lowering, `locals` maps each     *)
(* name to the value it has at this point; a loop carries the names its    *)
(* body reassigns, an `if` merges the names on which its branches differ.  *)
(*                                                                         *)
(* The builder is a record: the blocks so far, the current block, the next *)
(* value, the open loops, locals, and the names `let` introduced in the    *)
(* body being lowered.  Values and blocks are numbered from 1; the order   *)
(* in which parameters get their numbers is not the source's.              *)
(***************************************************************************)
EXTENDS SsaSource

\* Operands, terminators and blocks.
Value(v) == [k |-> "value", n |-> v]
Const(n) == [k |-> "const", n |-> n]
Values(ids) == [k \in DOMAIN ids |-> Value(ids[k])]

Edge(to, args) == [to |-> to, args |-> args]
Open == [op |-> "open", edges |-> << >>]
Jump(to, args) == [op |-> "jump", edges |-> <<Edge(to, args)>>]
Branch(c, then, else) == [op |-> "branch", cond |-> c, edges |-> <<then, else>>]
Return(v) == [op |-> "return", cond |-> v, edges |-> << >>]
Unreachable == [op |-> "unreachable", edges |-> << >>]

Block(params) == [params |-> params, code |-> << >>, term |-> Open]

Terminated(b) == b.blocks[b.cur].term # Open

\* A block keeps the first terminator it is given.
Terminate(b, t) == IF Terminated(b) THEN b ELSE [b EXCEPT !.blocks[b.cur].term = t]

NewBlocks(b, paramLists) ==
  [b EXCEPT !.blocks = @ \o [k \in DOMAIN paramLists |-> Block(paramLists[k])]]

Emit(b, op, args) ==
  [op |-> Value(b.next),
   b |-> [b EXCEPT !.next = @ + 1,
                   !.blocks[b.cur].code = Append(@, [id |-> b.next, op |-> op, args |-> args])]]

Bind(locals, names, ids) ==
  [v \in DOMAIN locals \cup ToSet(names) |->
     IF v \in ToSet(names) THEN ids[CHOOSE k \in DOMAIN names : names[k] = v] ELSE locals[v]]

\* Names in the order of a BTreeMap.
Sorted(names) == SelectSeq(<<"i", "idx", "x", "y">>, LAMBDA v : v \in names)

----------------------------------------------------------------------------
(* Expressions: the operands first, left to right, whatever the operator *)

RECURSIVE LowerExpr(_, _)
LowerExpr(e, b) ==
  CASE e.op = "int" -> [op |-> Const(e.n), b |-> b]
    [] e.op = "var" -> [op |-> Value(b.locals[e.v]), b |-> b]
    [] OTHER -> LET left == LowerExpr(e.args[1], b)
                    right == LowerExpr(e.args[2], left.b)
                IN Emit(right.b, e.op, <<left.op, right.op>>)

\* The value of e: a name for a constant, and no copy of a variable's.
LowerToValue(e, b) ==
  LET r == LowerExpr(e, b)
  IN IF r.op.k = "const" THEN Emit(r.b, "const", <<r.op>>) ELSE r

----------------------------------------------------------------------------
(* Statements *)

\* The names a loop body reassigns: `inner` collects the names declared so
\* far in the walk, whatever their scope.
RECURSIVE WalkStmt(_, _)
Walk(w, body) == FoldLeft(WalkStmt, w, body)
WalkStmt(w, s) ==
  CASE s.op = "let" -> [w EXCEPT !.inner = @ \cup {s.v}]
    [] s.op = "assign" -> [w EXCEPT !.out = @ \cup ({s.v} \ w.inner)]
    [] s.op = "if" -> Walk(Walk(w, s.body), s.other)
    [] s.op \in {"while", "for", "each"} -> Walk(w, s.body)
    [] OTHER -> w

\* A walk that stays at the top level of the body.
ModifiedAtTop(body) == {body[k].v : k \in {j \in DOMAIN body : body[j].op = "assign"}}
ModifiedInBody(body) == Walk([inner |-> {}, out |-> {}], body).out

RECURSIVE LowerStmt(_, _)
LowerStmts(body, b) ==
  FoldLeft(LAMBDA k, s : IF Terminated(k) THEN k ELSE LowerStmt(s, k), [b EXCEPT !.intro = {}], body)

\* Arguments for the names of the source only.
NamedCarryArgs(frame, locals) ==
  LET named == SelectSeq(frame.carry, LAMBDA v : v # "idx") IN [k \in DOMAIN named |-> Value(locals[named[k]])]
LoopCarryArgs(frame, locals) == [k \in DOMAIN frame.carry |-> Value(locals[frame.carry[k]])]

\* Where continue and the end of the body go: the header, or the step block
\* of a counted loop.
BackTarget(header, counted) == IF counted THEN header + 2 ELSE header

\* The counter a loop carries: `for` has its own variable, for-each a hidden
\* index, while none.
Counter(s) == CASE s.op = "while" -> "" [] s.op = "for" -> s.v [] s.op = "each" -> "idx"

\* The header's test, where bound is the operand the counter runs up to.
LowerCondition(s, bound, b) ==
  IF s.op = "while" THEN LowerExpr(s.e, b)
  ELSE Emit(b, "lt", <<Value(b.locals[Counter(s)]), bound>>)

\* for-each loads its element at the head of the body.
EnterBody(s, b) ==
  LET element == Emit(b, "index", <<Value(b.locals["idx"])>>)
  IN IF s.op = "each" THEN [element.b EXCEPT !.locals = Bind(@, <<s.v>>, <<element.op.n>>)] ELSE b

\* The blocks of a loop.  A counted loop carries its counter first and has a
\* step block, the target of continue, that increments it.
LowerLoop(s, start, bound, b) ==
  LET counted == s.op # "while"
      carried == Sorted((ModifiedInBody(s.body) \cap DOMAIN b.locals) \ {s.v})
      names == (IF counted THEN <<Counter(s)>> ELSE << >>) \o carried
      Ids(j) == [k \in DOMAIN names |-> b.next + j * Len(names) + k - 1]
      header == Len(b.blocks) + 1
      step == header + 2
      exit == IF counted THEN header + 3 ELSE header + 2
      frame == [header |-> BackTarget(header, counted), exit |-> exit, carry |-> names]
      opened == [NewBlocks(b, <<Ids(0), << >>>> \o (IF counted THEN <<Ids(2)>> ELSE << >>) \o <<Ids(1)>>)
                 EXCEPT !.next = @ + 3 * Len(names)]
      entry == [k \in DOMAIN names |-> IF counted /\ k = 1 THEN start ELSE Value(b.locals[names[k]])]
      inHeader == LowerCondition(s, bound, [Terminate(opened, Jump(header, entry)) EXCEPT
                                            !.cur = header, !.locals = Bind(@, names, Ids(0))])
      inBody == EnterBody(s, [Terminate(inHeader.b, Branch(inHeader.op, Edge(header + 1, << >>),
                                                                 Edge(exit, Values(Ids(0)))))
                       EXCEPT !.cur = header + 1, !.loops = Append(@, frame)])
      lowered == LowerStmts(s.body, inBody)
      closed == Terminate(lowered, Jump(frame.header, LoopCarryArgs(frame, lowered.locals)))
      bumped == Emit([closed EXCEPT !.cur = step], "add", <<Value(Ids(2)[1]), Const(1)>>)
      stepped == Terminate(bumped.b, Jump(header, <<bumped.op>> \o Tail(Values(Ids(2)))))
  IN [(IF counted THEN stepped ELSE closed)
      EXCEPT !.cur = exit, !.loops = b.loops, !.intro = b.intro,
             !.locals = Bind(b.locals, carried, SubSeq(Ids(1), IF counted THEN 2 ELSE 1, Len(names)))]

LowerWhile(s, b) == LowerLoop(s, Const(0), Const(0), b)

\* The range's ends are evaluated once, before the loop.
LowerIntegerFor(s, b) ==
  LET start == LowerToValue(Num(0), b)
      end == LowerExpr(s.e, start.b)
  IN LowerLoop(s, start.op, end.op, end.b)

LowerForIter(s, b) ==
  LET len == Emit(b, "len", << >>)
  IN LowerLoop(s, Const(0), len.op, len.b)

\* A name that a branch declares goes back to the value it had before.
Restored(after, entry) ==
  [v \in DOMAIN entry |-> IF v \in after.intro THEN entry[v] ELSE after.locals[v]]

LowerIf(s, b) ==
  LET cond == LowerExpr(s.e, b)
      thenB == Len(cond.b.blocks) + 1
      elseB == thenB + 1
      entry == b.locals
      branched == Terminate(NewBlocks(cond.b, <<<< >>, << >>>>),
                            Branch(cond.op, Edge(thenB, << >>), Edge(elseB, << >>)))
      after1 == LowerStmts(s.body, [branched EXCEPT !.cur = thenB])
      after2 == LowerStmts(s.other, [after1 EXCEPT !.cur = elseB, !.locals = entry])
      locals1 == Restored(after1, entry)
      locals2 == Restored(after2, entry)
      merged == Sorted({v \in DOMAIN entry : locals1[v] # locals2[v]})
      ids == [k \in DOMAIN merged |-> after2.next + k - 1]
      merge == Len(after2.blocks) + 1
      ToMerge(locals) == Jump(merge, [k \in DOMAIN merged |-> Value(locals[merged[k]])])
      opened == [NewBlocks(after2, <<ids>>) EXCEPT !.next = @ + Len(ids)]
      then == Terminate([opened EXCEPT !.cur = after1.cur], ToMerge(locals1))
      else == Terminate([then EXCEPT !.cur = after2.cur], ToMerge(locals2))
  IN IF Terminated(after1) /\ Terminated(after2) THEN [after2 EXCEPT !.intro = b.intro, !.locals = entry]
     ELSE [else EXCEPT !.cur = merge, !.intro = b.intro, !.locals = Bind(entry, merged, ids)]

\* A failed assertion with a message calls the helper that prints it and
\* aborts; one without has nothing before the end of its block.
LowerAssert(s, b) ==
  LET cond == LowerExpr(s.e, b)
      ok == Len(cond.b.blocks) + 1
      branched == Terminate(NewBlocks(cond.b, <<<< >>, << >>>>),
                            Branch(cond.op, Edge(ok, << >>), Edge(ok + 1, << >>)))
      fail == [branched EXCEPT !.cur = ok + 1]
      told == IF s.message THEN Emit(fail, "intent_assert_fail", << >>).b ELSE fail
  IN [Terminate(told, Unreachable) EXCEPT !.cur = ok]

\* Faulty: continue skips the step block of a counted loop.
JumpPastStep(s, b) ==
  LET frame == Last(b.loops)
      header == IF frame.exit = frame.header + 1 THEN frame.header - 2 ELSE frame.header
      target == IF s.op = "break" THEN frame.exit ELSE header
  IN Terminate(b, Jump(target, LoopCarryArgs(frame, b.locals)))

LowerJump(s, b) ==
  LET frame == Last(b.loops)
      target == IF s.op = "break" THEN frame.exit ELSE frame.header
  IN Terminate(b, Jump(target, LoopCarryArgs(frame, b.locals)))

LowerStmt(s, b) ==
  CASE s.op \in {"let", "assign"} ->
         LET r == LowerToValue(s.e, b)
         IN [r.b EXCEPT !.locals = Bind(@, <<s.v>>, <<r.op.n>>),
                        !.intro = IF s.op = "let" THEN @ \cup {s.v} ELSE @]
    [] s.op = "return" -> LET r == LowerExpr(s.e, b) IN Terminate(r.b, Return(r.op))
    [] s.op = "assert" -> LowerAssert(s, b)
    [] s.op \in {"break", "continue"} -> LowerJump(s, b)
    [] s.op = "if" -> LowerIf(s, b)
    [] s.op = "while" -> LowerWhile(s, b)
    [] s.op = "for" -> LowerIntegerFor(s, b)
    [] s.op = "each" -> LowerForIter(s, b)

\* The blocks of fn f(x, xs) { let y = 1; program }; block 1 is the entry.
LowerFunction(program) ==
  LET start == [blocks |-> <<Block(<<1>>)>>, cur |-> 1, next |-> 2, loops |-> << >>,
                locals |-> [v \in {"x"} |-> 1], intro |-> {}]
  IN Terminate(LowerStmts(<<Let("y", Num(1))>> \o program, start), Unreachable).blocks
=============================================================================
