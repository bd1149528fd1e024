--------------------------- MODULE AffineProgram ---------------------------
(***************************************************************************)
(* A program accepted by AffineChecker, run as the C that backend_c.rs     *)
(* emits for it: one C block per body, one C variable per `let`, names     *)
(* resolved to the innermost declaration.  Conditions are arbitrary.       *)
(*                                                                         *)
(* A heap buffer is a number; `frees` counts what was done to it.  A value *)
(* is the sequence of buffers it owns: one for a Vec, the field's for a    *)
(* struct, the outer buffer and its slots for a Vec of Vecs.  A guard is a  *)
(* buffer too: it holds its mutex until it is freed.  A task's handle is    *)
(* the negative of its number.  Buffer 0 is whatever an uninitialized C     *)
(* variable holds.                                                         *)
(*                                                                         *)
(* The threads of tasks run beside the function.  mutex_lock is the lock   *)
(* that FutexMutex is shown to implement: one step, taken when it is free. *)
(***************************************************************************)
EXTENDS AffineChecker, Integers

VARIABLES pc,        \* the next instruction of code; 0 before and after the run
          frames,    \* the open C blocks: number, variables
          frees,     \* how often each buffer was freed
          trips,     \* turns taken by each loop that is running
          tasks,     \* the task threads: body, locks taken, ended, joined
          held,      \* the owner of each mutex
          stale,     \* a freed or uninitialized buffer was used
          result,    \* the buffers the caller received
          done       \* the function returned

runVars == <<pc, frames, frees, trips, tasks, held, stale, result, done>>
vars == <<menu, checkVars, runVars>>

----------------------------------------------------------------------------
(* Values and variables *)

Slots == 2    \* elements of a Vec of Vecs

Size(t) == IF t = "nest" THEN 1 + Slots ELSE 1

Buffers(value) == {value[i] : i \in DOMAIN value}

\* The innermost C variable called n, in blocks bs.
Frame(bs, n) == CHOOSE d \in DOMAIN bs :
                  /\ n \in DOMAIN bs[d].vars
                  /\ \A e \in (d + 1) .. Len(bs) : n \notin DOMAIN bs[e].vars

Value(bs, n) == bs[Frame(bs, n)].vars[n]

Declare(bs, n, value) == [bs EXCEPT ![Len(bs)].vars = Bind(@, n, value)]

Store(bs, n, value) == [bs EXCEPT ![Frame(bs, n)].vars[n] = value]

\* Reading the memory of a buffer that is not live.
Dangling(value) == \E b \in Buffers(value) : b = 0 \/ frees[b] > 0

\* counts, after each buffer of the sequence was passed to free once.
Freed(counts, value) ==
  [b \in DOMAIN counts |-> counts[b] + Cardinality({i \in DOMAIN value : value[i] = b})]

\* What an initializer may produce: the value, the buffers it freed on the
\* way (inject_branch_drops) and the buffer it wrote to.
Evaluate(bs, e) ==
  LET heap == Len(frees)
      Of(v, d, w) == [value |-> v, dropped |-> d, wrote |-> w]
  IN CASE e.k = "int" -> {Of(<< >>, << >>, << >>)}
       [] e.k = "mutex_lock" -> {Of(<<heap + 1>>, << >>, << >>)}
       [] e.k = "new" -> {Of([i \in 1 .. Size(e.ty) |-> heap + i], << >>, << >>)}
       [] e.k \in {"var", "field"} -> {Of(Value(bs, e.n), << >>, << >>)}
       [] e.k = "push" -> {Of(Value(bs, e.n), << >>, Value(bs, e.n))}
       [] e.k = "cond" -> LET Pick(n, m) == Of(Value(bs, n),
                                               IF n = m THEN << >> ELSE Value(bs, m), << >>)
                          IN {Pick(e.n, e.m), Pick(e.m, e.n)}

\* The heap with room for the buffers of a new value.
Grown(e) == frees \o (CASE e.k = "new" -> [i \in 1 .. Size(e.ty) |-> 0]
                        [] e.k = "mutex_lock" -> <<0>>
                        [] OTHER -> << >>)

----------------------------------------------------------------------------
(* Mutexes *)

Nobody == <<"nobody">>

\* The mutex a parameter refers to; two parameters may refer to one.
Cell(m) == IF Allows("two names") THEN CHOOSE c \in Mutexes : \A d \in Mutexes : c <= d ELSE m

Free(m) == held[Cell(m)] = Nobody

\* held, after e took its mutex and with the guards that counts says are gone.
Locked(e, counts) ==
  LET took == IF e.k = "mutex_lock"
                THEN [held EXCEPT ![Cell(e.m)] = <<"guard", Len(frees) + 1>>] ELSE held
  IN [m \in Mutexes |-> IF took[m][1] = "guard" /\ counts[took[m][2]] > 0 THEN Nobody ELSE took[m]]

\* e waits for a mutex.
Waits(e) == e.k = "mutex_lock" /\ ~Free(e.m)

Running(i) == ~tasks[i].ended

\* The thread of task i takes the next mutex of its body ...
TaskLock(i) ==
  /\ Running(i) /\ tasks[i].took < Len(tasks[i].body)
  /\ LET m == tasks[i].body[tasks[i].took + 1] IN
       /\ Free(m)
       /\ held' = [held EXCEPT ![Cell(m)] = <<"task", i>>]
  /\ tasks' = [tasks EXCEPT ![i].took = @ + 1]
  /\ UNCHANGED <<checkVars, pc, frames, frees, trips, stale, result, done>>

\* ... and drops its guards at the end of it.
TaskEnd(i) ==
  /\ Running(i) /\ tasks[i].took = Len(tasks[i].body)
  /\ held' = [m \in Mutexes |-> IF held[m] = <<"task", i>> THEN Nobody ELSE held[m]]
  /\ tasks' = [tasks EXCEPT ![i].ended = TRUE]
  /\ UNCHANGED <<checkVars, pc, frames, frees, trips, stale, result, done>>

----------------------------------------------------------------------------
(* Steps *)

Op == code[pc]
At(op) == done = FALSE /\ pc > 0 /\ Op.op = op

Start ==
  /\ accepted /\ pc = 0 /\ ~done
  /\ pc' = 1
  /\ trips' = [b \in Blocks |-> 0]
  /\ UNCHANGED <<checkVars, frames, frees, tasks, held, stale, result, done>>

\* TypedStmt::Let.  The C variable is in scope in its own initializer.
DoLet ==
  /\ At("let")
  /\ ~Waits(Op.e)
  /\ LET bs == Declare(frames, Op.n, <<0>>) IN
       \E r \in Evaluate(bs, Op.e) :
         /\ frames' = Declare(frames, Op.n, r.value)
         /\ frees' = Freed(Grown(Op.e), r.dropped)
         /\ stale' = (stale \/ Dangling(r.wrote) \/ 0 \in Buffers(r.value))
  /\ held' = Locked(Op.e, frees')
  /\ pc' = pc + 1
  /\ UNCHANGED <<checkVars, trips, tasks, result, done>>

\* TypedStmt::Reassign: evaluate, free the old value, store.  An old guard is
\* not freed: its mutex stays locked.
DoSet ==
  /\ At("set")
  /\ ~Waits(Op.e)
  /\ \E r \in Evaluate(frames, Op.e) :
       LET old == IF Op.drop_old /\ Op.ty # "guard" THEN Value(frames, Op.n) ELSE << >> IN
       /\ frees' = Freed(Freed(Grown(Op.e), r.dropped), old)
       /\ frames' = Store(frames, Op.n, r.value)
       /\ stale' = (stale \/ Dangling(r.wrote))
  /\ held' = Locked(Op.e, frees')
  /\ pc' = pc + 1
  /\ UNCHANGED <<checkVars, trips, tasks, result, done>>

\* A run of TypedStmt::Drop; a struct's drop skips a field that was moved out.
DoDrop ==
  /\ At("drop")
  /\ LET Frees(b) == {d \in Op.of : ~d.skip /\ b \in Buffers(Value(frames, d.n))} IN
       frees' = [b \in DOMAIN frees |-> frees[b] + Cardinality(Frees(b))]
  /\ held' = Locked([k |-> "int"], frees')
  /\ pc' = pc + 1
  /\ UNCHANGED <<checkVars, frames, trips, tasks, stale, result, done>>

DoUse ==
  /\ At("use")
  /\ stale' = (stale \/ Dangling(Value(frames, Op.n)))
  /\ pc' = pc + 1
  /\ UNCHANGED <<checkVars, frames, frees, trips, tasks, held, result, done>>

\* The free of a consumed collection's own buffer, after its loop.
DoFreeBuffer ==
  /\ At("freebuf")
  /\ frees' = Freed(frees, <<Value(frames, Op.n)[1]>>)
  /\ pc' = pc + 1
  /\ UNCHANGED <<checkVars, frames, trips, tasks, held, stale, result, done>>

\* TypedStmt::Return; the caller owns the value.
DoReturn ==
  /\ At("return")
  /\ result' = Buffers(Value(frames, "ret"))
  /\ done' = TRUE
  /\ pc' = 0
  /\ UNCHANGED <<checkVars, frames, frees, trips, tasks, held, stale>>

----------------------------------------------------------------------------
(* Control flow: every body is a C block, left at its closing instruction or *)
(* by a break or continue that leaves all the blocks of the loop's body.     *)

Entered(b) == Append(frames, [block |-> b, vars |-> << >>])

\* The blocks that stay open outside block b.
Outside(b) == SubSeq(frames, 1, (CHOOSE d \in DOMAIN frames : frames[d].block = b) - 1)

LoopHead(b) == CHOOSE i \in DOMAIN code : code[i].op \in {"while", "for"} /\ code[i].block = b

DoIf ==
  /\ At("if")
  /\ \/ pc' = pc + 1
     \/ pc' = Marker("else", Op.block) + 1
  /\ frames' = Entered(Op.block)
  /\ UNCHANGED <<checkVars, frees, trips, tasks, held, stale, result, done>>

DoEndBranch ==
  /\ At("else") \/ At("endif")
  /\ pc' = Marker("endif", Op.block) + 1
  /\ frames' = Outside(Op.block)
  /\ UNCHANGED <<checkVars, frees, trips, tasks, held, stale, result, done>>

\* One more turn of the loop at pc, its body's block holding vars.
Turn(vars0) ==
  /\ pc' = pc + 1
  /\ frames' = Append(frames, [block |-> Op.block, vars |-> vars0])
  /\ trips' = [trips EXCEPT ![Op.block] = @ + 1]

\* The loop at pc is over; its counter is ready for the next time it is met.
Over ==
  /\ pc' = Marker("endloop", Op.block) + 1
  /\ trips' = [trips EXCEPT ![Op.block] = 0]
  /\ UNCHANGED frames

DoWhile ==
  /\ At("while")
  /\ \/ trips[Op.block] < menu.trips /\ Turn(<< >>)
     \/ Over
  /\ UNCHANGED <<checkVars, frees, tasks, held, stale, result, done>>

\* emit_for_iter: the length and the slot are read from the collection at each
\* turn, and the variable is a copy of the slot.
DoFor ==
  /\ At("for")
  /\ LET coll == Value(frames, Op.coll)
         i == trips[Op.block]
     IN /\ IF i < Slots THEN Turn(Bind(<< >>, Op.n, <<coll[i + 2]>>)) ELSE Over
        /\ stale' = (stale \/ Dangling(<<coll[1]>>))
  /\ UNCHANGED <<checkVars, frees, tasks, held, result, done>>

DoEndLoop ==
  /\ At("endloop") \/ At("continue")
  /\ pc' = LoopHead(Op.block)
  /\ frames' = Outside(Op.block)
  /\ UNCHANGED <<checkVars, frees, trips, tasks, held, stale, result, done>>

DoBreak ==
  /\ At("break")
  /\ pc' = Marker("endloop", Op.block) + 1
  /\ frames' = Outside(Op.block)
  /\ trips' = [trips EXCEPT ![Op.block] = 0]
  /\ UNCHANGED <<checkVars, frees, tasks, held, stale, result, done>>

\* TypedStmt::TaskSpawn: the thread starts.
DoSpawn ==
  /\ At("spawn")
  /\ tasks' = Append(tasks, [body |-> Op.body, took |-> 0, ended |-> FALSE, joined |-> FALSE])
  /\ frames' = Declare(frames, Op.n, <<-Len(tasks')>>)
  /\ pc' = pc + 1
  /\ UNCHANGED <<checkVars, frees, trips, held, stale, result, done>>

\* The task whose handle n is.
TaskOf(n) == -Value(frames, n)[1]

\* TypedStmt::TaskJoin: waits for the thread to end.
DoJoin ==
  /\ At("join")
  /\ ~Running(TaskOf(Op.n))
  /\ tasks' = [tasks EXCEPT ![TaskOf(Op.n)].joined = TRUE]
  /\ pc' = pc + 1
  /\ UNCHANGED <<checkVars, frames, frees, trips, held, stale, result, done>>

\* f locks its parameter, itself or by a function it passes it to.
Locks(f) ==
  LET Reached[n \in Nat] ==
        {f} \cup IF n = 0 THEN {} ELSE UNION {Callees[g].calls : g \in Reached[n - 1]} \cup Reached[n - 1]
  IN \E g \in Reached[Cardinality(DOMAIN Callees)] : Callees[g].locks \/ Callees[g].hides

\* The call of a function that locks its parameter and unlocks it, or does not.
DoCall ==
  /\ At("call")
  /\ Locks(Op.f) => Free(Op.m)
  /\ pc' = pc + 1
  /\ UNCHANGED <<checkVars, frames, frees, trips, tasks, held, stale, result, done>>

RunInit ==
  /\ pc = 0
  /\ frames = <<[block |-> 0, vars |-> << >>]>>
  /\ frees = << >>
  /\ trips = << >>
  /\ tasks = << >>
  /\ held = [m \in Mutexes |-> Nobody]
  /\ stale = FALSE
  /\ result = {}
  /\ done = FALSE

Step == \/ Start \/ DoLet \/ DoSet \/ DoDrop \/ DoUse \/ DoFreeBuffer \/ DoReturn
        \/ DoIf \/ DoEndBranch \/ DoWhile \/ DoFor \/ DoEndLoop \/ DoBreak
        \/ DoSpawn \/ DoJoin \/ DoCall
        \/ \E i \in DOMAIN tasks : TaskLock(i) \/ TaskEnd(i)

ProgramInit == Init /\ RunInit

Next == UNCHANGED menu /\ ((CheckStep /\ UNCHANGED runVars) \/ Step)

Spec == ProgramInit /\ [][Next]_vars

----------------------------------------------------------------------------
(* Properties *)

\* "Drop fires exactly once on the new owner" (README.md:276): whatever path
\* an accepted program takes, no buffer is freed a second time.
NoDoubleFree == \A b \in DOMAIN frees : frees[b] <= 1

\* What the emitted C needs from the checker: at each statement, every name it
\* mentions was declared in a block that is still open.
NamesDeclared ==
  (pc > 0 /\ ~done) =>
    LET Declared == UNION {DOMAIN frames[d].vars : d \in DOMAIN frames} IN
    CASE Op.op \in {"set", "use", "freebuf", "join"} -> Op.n \in Declared
      [] Op.op = "drop" -> \A d \in Op.of : d.n \in Declared
      [] Op.op = "for" -> Op.coll \in Declared
      [] OTHER -> TRUE

\* "Use-after-free: caught" (README.md:277): a binding the checker lets the
\* program read never holds a freed or an uninitialized buffer, and whatever a
\* statement reads, frees or joins is in scope there.
NoStaleUse == ~stale /\ NamesDeclared

\* "Every heap-owning binding has exactly one owner [...] free at scope exit"
\* (README.md:275): when the function has returned, every buffer it allocated
\* was freed, except those the caller received, which were not.
NothingLeaked ==
  done => \A b \in DOMAIN frees : IF b \in result THEN frees[b] = 0 ELSE frees[b] >= 1

\* "requires a matching join before the handle's scope ends, even on
\* early-return paths" (README.md:282): no thread outlives the function.
TasksJoined == done => \A i \in DOMAIN tasks : tasks[i].joined

\* The function waits for a mutex or for a task.
MainWaits ==
  /\ pc > 0 /\ ~done
  /\ CASE Op.op \in {"let", "set"} -> Waits(Op.e)
       [] Op.op = "call" -> Locks(Op.f) /\ ~Free(Op.m)
       [] Op.op = "join" -> Running(TaskOf(Op.n))
       [] OTHER -> FALSE

TaskWaits(i) == tasks[i].took < Len(tasks[i].body) /\ ~Free(tasks[i].body[tasks[i].took + 1])

\* "The lock is non-reentrant, so the deadlock that would otherwise occur at
\* runtime turns into a compile-time error" (README.md:2632): an accepted
\* function and its tasks never all wait for each other, be it for a mutex
\* that the function itself, a guard in an outer scope, or a task holds.
NoDeadlock == ~(MainWaits /\ \A i \in DOMAIN tasks : Running(i) => TaskWaits(i))

============================================================================
