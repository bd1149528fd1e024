---------------------------- MODULE ParallelFor ----------------------------
(***************************************************************************)
(* A parallel for from the checker to its threads.  First a body is        *)
(* chosen, statement by statement, among those the race check of the       *)
(* checker accepts; then the loop is launched over some range and the      *)
(* threads of the emitted code run it.  "c" is the OpenMP loop of the C    *)
(* backend, "tree_llvm" and "ssa_llvm" the outlined function of the two    *)
(* LLVM backends.                                                          *)
(***************************************************************************)
EXTENDS Partition, Sequences, FiniteSets, SequencesExt

CONSTANTS
    Captured,     \* scalars of the enclosing function that the body may name
    Acc,          \* the one of them a reduce clause may be about
    Container,    \* a Vec, HashSet, Graph, ... of the enclosing function
    Backends,
    Ops,          \* "rmw": the reduction has an atomicrmw; "mul": it has none
    MaxBody,      \* bound: length of a body, brackets included
    MaxSimple,    \* bound: its lets and assignments
    MaxThreads,   \* bound: the largest team
    Loops,        \* ranges tried with a body that is one update
    SmallLoops,   \* and with the others
    Allowed       \* the hazardous combinations of this run

Hazards == {"block let", "hidden read", "reduce in iter", "changing call", "filling call",
            "wrap", "past half"}

ASSUME ParallelAssumption ==
    /\ Acc \in Captured
    /\ Container \notin Captured
    /\ Backends \subseteq {"c", "tree_llvm", "ssa_llvm"}
    /\ Ops \subseteq {"rmw", "mul"}
    /\ MaxThreads \in Nat \ {0, 1} /\ MaxThreads < WideHalf
    /\ Allowed \subseteq Hazards

ASSUME LoopsAssumption ==
    \A l \in Loops \cup SmallLoops :
        /\ l \in [ty : [signed : BOOLEAN, wide : BOOLEAN], start : Int, end : Int]
        /\ l.start \in InType(l.ty) /\ l.end \in InType(l.ty)

VARIABLES
    reduce,       \* names with a reduce clause
    body,         \* statements so far
    open,         \* brackets not yet closed: [kind, at]
    visible,      \* stack of name -> binding; 0 is the captured variable
    flat,         \* name -> last let above, in whatever block
    phase,
    backend, op, loop, nt,  \* chosen when the loop is launched
    thr,          \* thread -> where it is
    acc,          \* the reduction variable: contributions it holds
    applied,      \* history: contributions made
    ran, twice    \* history: indices the body was entered with; more than once

static == <<reduce, body, open, visible, flat>>
launched == <<backend, op, loop, nt>>
vars == <<static, phase, launched, thr, acc, applied, ran, twice>>

Threads == 0 .. MaxThreads - 1
\* An initializer or right-hand side, by the captured name it reads and where:
\* "hidden" below an if-expression, "update" n op c, "update hidden" n op (.. n ..).
Exprs == [shape : {"const", "read", "hidden"}, v : {Acc}]
Updates == [shape : {"update", "update hidden"}, v : {Acc}]

\* A call about the container: `does` is "query", "fill" for a query that stores
\* what it computed behind the shared reference (the tables of a Graph), "change"
\* for one that takes `mut ref`, and "vec" for the constructors vec, push, set
\* and clone that return a vector.  A pure fn may make the same calls.
Calls == [via : {"builtin", "pure fn", "fn"}, does : {"query", "fill", "change", "vec"}]

Reads(e) == IF e.shape = "const" THEN {} ELSE {e.v}
\* What contains_var sees: it does not look into if-expressions, fields, tuples.
Seen(e) == IF e.shape \in {"const", "hidden"} THEN {} ELSE {e.v}

Now == Last(visible)
InIter == \E i \in 1..Len(open) : open[i].kind = "iter"
DeclaredHere(n) == Now[n] > (IF open = <<>> THEN 0 ELSE Last(open).at)

-----------------------------------------------------------------------------
(* The checker: what strip_reduction_uses and check_for_captured_mutations  *)
(* accept.  Neither strip nor the rewrite of the backend enters a for-iter. *)

\* extract_reduction_other_side: n op X with n not seen in X.
ReductionShape(n, e) == e.shape \in {"update", "update hidden"} /\ e.v = n
NoReductionRead(e) == InIter \/ Seen(e) \cap reduce = {}
\* Faulty: a target need not be declared in the body.
AcceptsAssignCaptured(n, e) ==
    IF n \in reduce THEN InIter \/ ReductionShape(n, e) ELSE NoReductionRead(e)
AcceptsAssign(n, e) ==
    IF n \in reduce THEN InIter \/ ReductionShape(n, e)
                    ELSE flat[n] # 0 /\ NoReductionRead(e)

\* verify_pure_body: the body of a pure fn passed the same test.
AcceptsCall(c) == c.via # "fn" /\ c.does # "vec"

\* The combinations the check lets through and the properties do not survive.
Tame(n, e, target) ==
    /\ "block let" \in Allowed \/ ~(target /\ Now[n] = 0 /\ flat[n] # 0 /\ n \notin reduce)
    /\ "hidden read" \in Allowed \/
           ~(e.shape \in {"hidden", "update hidden"} /\ e.v \in reduce /\ Now[e.v] = 0)
    /\ "reduce in iter" \in Allowed \/
           ~(InIter /\ \E m \in Reads(e) \cup (IF target THEN {n} ELSE {}) :
                           m \in reduce /\ Now[m] = 0)

TameCall(c) ==
    /\ c.does = "change" => "changing call" \in Allowed
    /\ c.does = "fill" => "filling call" \in Allowed

Stmt(s, n, e) ==
    [s |-> s, v |-> n, e |-> e, inIter |-> InIter,
     bind |-> IF s = "let" THEN Len(body) + 1 ELSE Now[n],
     read |-> Now[e.v],
     valid |-> \A m \in Reads(e) \cup (IF s = "let" THEN {} ELSE {n}) : Now[m] = flat[m],
     d |-> Len(open)]
Bracket(s) == [s |-> s, v |-> Acc, e |-> [shape |-> "const", v |-> Acc],
               inIter |-> InIter, bind |-> 0, read |-> 0, valid |-> TRUE,
               d |-> Len(open) - (IF s \in {"else", "end"} THEN 1 ELSE 0)]
CallStmt(c) == [Bracket("call") EXCEPT !.e.shape = c.does]

Writing == phase = "write" /\ Len(body) + Len(open) < MaxBody
RunVars == <<phase, launched, thr, acc, applied, ran, twice>>

Simple == Cardinality({i \in 1..Len(body) : body[i].s \in {"let", "assign", "call"}}) < MaxSimple

Let(n, e) ==
    /\ Writing /\ Simple
    /\ ~DeclaredHere(n)
    /\ NoReductionRead(e)
    /\ Tame(n, e, FALSE)
    /\ body' = Append(body, Stmt("let", n, e))
    /\ visible' = [visible EXCEPT ![Len(visible)][n] = Len(body) + 1]
    /\ flat' = [flat EXCEPT ![n] = Len(body) + 1]
    /\ UNCHANGED <<reduce, open, RunVars>>

Assign(n, e) ==
    /\ Writing /\ Simple
    /\ AcceptsAssign(n, e)
    /\ Tame(n, e, TRUE)
    /\ body' = Append(body, Stmt("assign", n, e))
    /\ UNCHANGED <<reduce, open, visible, flat, RunVars>>

Call(c) ==
    /\ Writing /\ Simple
    /\ AcceptsCall(c)
    /\ TameCall(c)
    /\ body' = Append(body, CallStmt(c))
    /\ UNCHANGED <<reduce, open, visible, flat, RunVars>>

Continue ==
    /\ Writing
    /\ open # <<>> /\ Last(open).at < Len(body)
    /\ body' = Append(body, Bracket("continue"))
    /\ UNCHANGED <<reduce, open, visible, flat, RunVars>>

\* if c { , for x in xs { : the body is a scope of its own.
Open(kind) ==
    /\ Writing /\ Len(body) + Len(open) + 2 < MaxBody
    /\ body' = Append(body, Bracket(kind))
    /\ open' = Append(open, [kind |-> kind, at |-> Len(body) + 1])
    /\ visible' = Append(visible, Now)
    /\ UNCHANGED <<reduce, flat, RunVars>>

Else ==
    /\ Writing
    /\ open # <<>> /\ Last(open).kind = "if" /\ Last(open).at < Len(body)
    /\ body' = Append(body, Bracket("else"))
    /\ open' = [open EXCEPT ![Len(open)] = [kind |-> "else", at |-> Len(body) + 1]]
    /\ visible' = [visible EXCEPT ![Len(visible)] = visible[Len(visible) - 1]]
    /\ UNCHANGED <<reduce, flat, RunVars>>

Close ==
    /\ phase = "write" /\ open # <<>> /\ Last(open).at < Len(body)
    /\ body' = Append(body, Bracket("end"))
    /\ open' = Front(open)
    /\ visible' = Front(visible)
    /\ UNCHANGED <<reduce, flat, RunVars>>

-----------------------------------------------------------------------------
(* Lowering.  A binding the flat name table of the tree LLVM backend gets   *)
(* wrong does not dominate its use: LLVM rejects the module.  The SSA       *)
(* backend takes some bodies and leaves the others to the tree backend.     *)

\* A reduction is updated once, outside every branch, or in one or in both
\* branches of one if, after the ifs inside them.  A continue is a second way to the step block.
\* Left out: loops in the body, which the SSA backend takes if nothing in them
\* is reduced, and containers.
SsaUpdates(n) ==
    LET sites == {i \in 1..Len(body) : body[i].s \in {"let", "assign"} /\ body[i].v = n}
        outermost(i, j) == {body[k].s : k \in {k \in i + 1 .. j - 1 : body[k].d = 0}}
    IN  /\ sites # {} /\ \A i \in sites : body[i].s = "assign"
        /\ \/ Cardinality(sites) = 1 /\ \A i \in sites : body[i].d = 0
           \/ /\ \A i \in sites : body[i].d = 1
              /\ \A i \in sites : \A k \in i + 1 .. Len(body) :
                    body[k].s = "if" /\ body[k].d = 1 => outermost(i, k) # {}
              /\ \A i, j \in sites : i < j => outermost(i, j) = {"else"}
SsaTakes ==
    /\ \A i \in 1..Len(body) : body[i].s \in {"let", "assign", "if", "else", "end"}
    /\ \A i \in 1..Len(body) :
          body[i].s \in {"let", "assign"} /\ body[i].v \notin reduce => body[i].bind # 0
    /\ \A n \in reduce : SsaUpdates(n)

Compiles(b) ==
    CASE b = "c" -> TRUE
      [] b = "tree_llvm" -> \A i \in 1..Len(body) : body[i].valid
      [] OTHER -> SsaTakes

\* rewrite_body_for_reductions
Rewritten(st) ==
    /\ backend # "c"
    /\ st.s = "assign" /\ st.v \in reduce
    /\ ~st.inIter
\* reduction(op:acc) makes the variable private in C.
Private(n, bind) == bind # 0 \/ (backend = "c" /\ n \in reduce)

Counts(st) == st.s = "assign" /\ st.v \in reduce /\ st.bind = 0
Atomics(st) == IF Rewritten(st) /\ st.bind = 0 THEN {st.v} ELSE {}
PlainReads(st) ==
    IF st.s = "call" THEN {Container}
    ELSE IF Rewritten(st) /\ st.e.shape = "update" THEN {}
    ELSE {n \in Reads(st.e) : ~Private(n, st.read)}
PlainWrites(st) ==
    IF st.s = "call" THEN (IF st.e.shape = "query" THEN {} ELSE {Container})
    ELSE IF st.s = "assign" /\ ~Rewritten(st) /\ ~Private(st.v, st.bind) THEN {st.v} ELSE {}

\* The indices of the loop, each as the wide type reads it.
Indices == {Wide(i) : i \in Reading(loop.ty, loop.start) .. Reading(loop.ty, loop.end) - 1}

Idle == [at |-> "off", ctr |-> 0, hi |-> 0, pc |-> 0, old |-> 0, part |-> 0]

\* Bound: only bodies that name a captured variable, and every range and team
\* only for the one that is a single reduction update.
Touches == \E i \in 1..Len(body) :
    \/ body[i].s = "call"
    \/ body[i].s \in {"let", "assign"} /\ (body[i].bind = 0 \/ (Reads(body[i].e) # {} /\ body[i].read = 0))
Sweep(b) == Len(body) = 1 /\ Counts(body[1]) /\ b # "c"

\* The ranges the slices and counters get wrong.  The SSA backend compares
\* signed, but in the wide type.
TameLoop(b, l, k) == b # "c" =>
    /\ "wrap" \in Allowed \/
           /\ WideSafe(l.start, l.end, k)
           /\ b = "tree_llvm" => CounterSafe(l.ty, l.start, l.end, k)
    /\ "past half" \in Allowed \/
           OneHalf(l.ty, l.start, l.end) \/ (b = "ssa_llvm" /\ ~l.ty.wide)

Launch(b, o, l, k) ==
    /\ phase = "write" /\ open = <<>> /\ Touches
    /\ Compiles(b)
    /\ o = "mul" => \E i \in 1..Len(body) : Counts(body[i])
    /\ TameLoop(b, l, k)
    /\ backend' = b
    /\ op' = o
    /\ phase' = "run"
    /\ loop' = l
    /\ nt' = k
    /\ thr' = [t \in Threads |-> IF t < k THEN [Idle EXCEPT !.at = "start"] ELSE Idle]
    /\ UNCHANGED <<static, acc, applied, ran, twice>>

-----------------------------------------------------------------------------
(* The threads. *)
Goto(t, r) == thr' = [thr EXCEPT ![t] = r]

Start(t) ==
    /\ thr[t].at = "start"
    /\ LET lo == Lo(loop.start, loop.end, nt, t)
           hi == IF backend = "ssa_llvm" THEN SsaHi(loop.start, loop.end, nt, t)
                                         ELSE TreeHi(loop.start, loop.end, nt, t)
       IN  IF backend = "tree_llvm"
           THEN Goto(t, [thr[t] EXCEPT !.at = "head", !.hi = hi, !.ctr = Trunc(loop.ty, lo)])
           ELSE Goto(t, [thr[t] EXCEPT !.at = IF backend = "c" \/ lo < hi THEN "head" ELSE "done",
                                       !.hi = hi, !.ctr = lo])
    /\ UNCHANGED <<static, phase, launched, acc, applied, ran, twice>>

Enter(t, i, ctr) ==
    /\ Goto(t, [thr[t] EXCEPT !.at = "body", !.pc = 1, !.ctr = ctr])
    /\ ran' = ran \cup {i}
    /\ twice' = IF i \in ran THEN twice \cup {i} ELSE twice
    /\ UNCHANGED <<acc, applied>>

\* C: the OpenMP runtime hands out the iterations (any schedule).  A thread
\* that gets no more adds its private copy to the variable.
HeadC(t) ==
    /\ backend = "c"
    /\ \/ \E i \in Indices \ ran : Enter(t, i, i)
       \/ /\ Indices \subseteq ran
          /\ acc' = acc + thr[t].part
          /\ Goto(t, [thr[t] EXCEPT !.at = "done", !.part = 0])
          /\ UNCHANGED <<applied, ran, twice>>

HeadLlvm(t) ==
    /\ backend # "c"
    /\ LET c == thr[t].ctr
           more == IF backend = "tree_llvm" THEN TreeMore(loop.ty, c, thr[t].hi)
                                            ELSE c < thr[t].hi
       IN  IF more THEN Enter(t, IndexOf(loop.ty, c), c)
           ELSE /\ Goto(t, [thr[t] EXCEPT !.at = "done"])
                /\ UNCHANGED <<acc, applied, ran, twice>>

Header(t) ==
    /\ thr[t].at = "head"
    /\ HeadC(t) \/ HeadLlvm(t)
    /\ UNCHANGED <<static, phase, launched>>

\* The next of these brackets after position i that belongs to its block.
Matching(i, brackets) ==
    CHOOSE j \in i + 1 .. Len(body) :
        /\ body[j].d = body[i].d /\ body[j].s \in brackets
        /\ \A k \in i + 1 .. j - 1 : ~(body[k].d = body[i].d /\ body[k].s \in brackets)
EndOf(i) == Matching(i, {"end"})

\* The for-iters around position i, innermost last.
Around(i) == {j \in 1 .. i - 1 : body[j].s = "iter" /\ EndOf(j) > i}

Step(t) ==
    LET me == thr[t]
        st == body[me.pc]
        to(pc) == Goto(t, [me EXCEPT !.pc = pc, !.at = "body", !.old = 0])
    IN
    /\ me.at = "body" /\ me.pc \in 1 .. Len(body)
    /\ \/ /\ st.s = "if"                        \* the condition is arbitrary
          /\ to(me.pc + 1) \/ to(Matching(me.pc, {"else", "end"}) + 1)
          /\ UNCHANGED <<acc, applied>>
       \/ /\ st.s = "iter"                      \* at most one turn
          /\ to(me.pc + 1) \/ to(EndOf(me.pc) + 1)
          /\ UNCHANGED <<acc, applied>>
       \/ /\ st.s = "else"
          /\ to(EndOf(me.pc) + 1)
          /\ UNCHANGED <<acc, applied>>
       \/ /\ st.s = "end" \/ (st.s \in {"let", "assign", "call"} /\ ~Counts(st))
          /\ to(me.pc + 1)
          /\ UNCHANGED <<acc, applied>>
       \/ /\ st.s = "continue"                  \* the innermost loop's step
          /\ IF Around(me.pc) = {} THEN to(Len(body) + 1)
             ELSE to(EndOf(CHOOSE j \in Around(me.pc) : \A k \in Around(me.pc) : k <= j) + 1)
          /\ UNCHANGED <<acc, applied>>
       \/ /\ Counts(st) /\ backend = "c"        \* the private copy
          /\ Goto(t, [me EXCEPT !.pc = @ + 1, !.part = @ + 1])
          /\ applied' = applied + 1
          /\ UNCHANGED acc
       \/ /\ Counts(st) /\ Rewritten(st) /\ op = "rmw"
          /\ acc' = acc + 1 /\ applied' = applied + 1
          /\ to(me.pc + 1)
       \/ /\ Counts(st) /\ backend # "c"        \* load, then compare-exchange or store
          /\ ~(Rewritten(st) /\ op = "rmw")
          /\ Goto(t, [me EXCEPT !.at = "loaded", !.old = acc])
          /\ UNCHANGED <<acc, applied>>
    /\ UNCHANGED <<static, phase, launched, ran, twice>>

\* Faulty: a failed compare-exchange is not retried.
StoreOnce(t) ==
    LET me == thr[t] IN
    /\ me.at = "loaded"
    /\ acc' = IF Rewritten(body[me.pc]) /\ acc # me.old THEN acc ELSE me.old + 1
    /\ applied' = applied + 1
    /\ Goto(t, [me EXCEPT !.at = "body", !.pc = @ + 1, !.old = 0])
    /\ UNCHANGED <<static, phase, launched, ran, twice>>

\* cmpxchg with a retry when the reduction has no atomicrmw; a plain store
\* for an update that was not rewritten.
Store(t) ==
    LET me == thr[t]
        st == body[me.pc]
    IN
    /\ me.at = "loaded"
    /\ IF Rewritten(st) /\ acc # me.old
       THEN Goto(t, [me EXCEPT !.at = "body", !.old = 0]) /\ UNCHANGED <<acc, applied>>
       ELSE /\ acc' = me.old + 1 /\ applied' = applied + 1
            /\ Goto(t, [me EXCEPT !.at = "body", !.pc = @ + 1, !.old = 0])
    /\ UNCHANGED <<static, phase, launched, ran, twice>>

\* Faulty: the back edge goes to the header, past the step.
AdvanceSame(t) ==
    /\ thr[t].at = "body" /\ thr[t].pc > Len(body)
    /\ Goto(t, [thr[t] EXCEPT !.at = "head", !.pc = 0])
    /\ UNCHANGED <<static, phase, launched, acc, applied, ran, twice>>

\* The step block: the counter is incremented in its own type.
Advance(t) ==
    /\ thr[t].at = "body" /\ thr[t].pc > Len(body)
    /\ Goto(t, [thr[t] EXCEPT !.at = "head", !.pc = 0,
                              !.ctr = IF backend = "tree_llvm" THEN Trunc(loop.ty, @ + 1)
                                                               ELSE Wide(@ + 1)])
    /\ UNCHANGED <<static, phase, launched, acc, applied, ran, twice>>

\* GOMP_parallel returns, or WaitForSingleObject for every thread did.
Join ==
    /\ phase = "run"
    /\ \A t \in Threads : t < nt => thr[t].at = "done"
    /\ phase' = "joined"
    /\ UNCHANGED <<static, launched, thr, acc, applied, ran, twice>>

ThreadStep(t) == phase = "run" /\ (Start(t) \/ Header(t) \/ Step(t) \/ Store(t) \/ Advance(t))

Init ==
    /\ backend = "c" /\ op = "rmw"
    /\ reduce \in {{}, {Acc}}
    /\ body = <<>> /\ open = <<>>
    /\ visible = <<[n \in Captured |-> 0]>>
    /\ flat = [n \in Captured |-> 0]
    /\ phase = "write"
    /\ loop = [ty |-> [signed |-> TRUE, wide |-> TRUE], start |-> 0, end |-> 0]
    /\ nt = 0
    /\ thr = [t \in Threads |-> Idle]
    /\ acc = 0 /\ applied = 0
    /\ ran = {} /\ twice = {}

Next ==
    \/ \E n \in Captured, e \in Exprs : Let(n, e) \/ (n \notin reduce /\ Assign(n, e))
    \/ \E n \in reduce, e \in Updates : Assign(n, e)
    \/ \E c \in Calls : Call(c)
    \/ \E kind \in {"if", "iter"} : Open(kind)
    \/ Else \/ Close \/ Continue
    \/ \E b \in Backends, o \in Ops :
          \/ Sweep(b) /\ \E l \in Loops, k \in 1..MaxThreads : Launch(b, o, l, k)
          \/ ~Sweep(b) /\ \E l \in SmallLoops : Launch(b, o, l, 2)
    \/ \E t \in Threads : ThreadStep(t)
    \/ Join

Fairness == WF_vars(Join) /\ \A t \in Threads : WF_vars(ThreadStep(t))
Spec == Init /\ [][Next]_vars /\ Fairness

-----------------------------------------------------------------------------
\* The statement a thread is at touches shared variables in these ways.
At(t) == IF phase = "run" /\ thr[t].at \in {"body", "loaded"} /\ thr[t].pc \in 1..Len(body)
         THEN body[thr[t].pc] ELSE Bracket("end")

\* What the race check promises: no two threads touch a captured variable at
\* the same time unless both only read it or both use atomic operations.
NoDataRace ==
    \A t, u \in Threads : t # u =>
        /\ PlainWrites(At(t)) \cap (PlainReads(At(u)) \cup PlainWrites(At(u)) \cup Atomics(At(u))) = {}
        /\ PlainReads(At(t)) \cap Atomics(At(u)) = {}

\* The slices cover the range and do not overlap: the body is entered once with
\* every index from start to end - 1 and with no other value.
EachIndexOnce ==
    /\ twice = {}
    /\ ran \subseteq Indices
    /\ phase = "joined" => ran = Indices

\* The reduction variable holds every contribution after the loop, as the
\* sequential loop's would: no update is lost between threads.
ReductionExact == phase = "joined" => acc = applied

\* The loop ends: the counter reaches its bound in every thread.
LoopEnds == phase = "run" ~> phase = "joined"
=============================================================================
