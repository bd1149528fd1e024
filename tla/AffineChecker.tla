--------------------------- MODULE AffineChecker ---------------------------
(***************************************************************************)
(* The ownership pass of checker.rs (check_one_stmt and its helpers): it   *)
(* walks the statements of a function once, in text order, keeps for every *)
(* binding whether it was moved, and writes the drops into the typed body. *)
(* The program is not an input: each statement the pass meets is chosen    *)
(* here, so a behaviour is one accepted program.  A diagnostic rejects the *)
(* program, hence every check that reports one is a guard.                 *)
(*                                                                         *)
(* The typed body is the sequence `code`: blocks are bracketed by their    *)
(* opening and closing instructions, which carry the block's number.       *)
(***************************************************************************)
EXTENDS Naturals, Sequences, FiniteSets, SequencesExt

CONSTANTS Names,     \* the identifiers a program may bind
          Mutexes,   \* the function's parameters of type ref Mutex, numbered
          Callees,   \* the other functions, each with one such parameter
          Menus      \* what a program may be: its budget of statements (a
                     \* closing brace is free), the turns of a while loop,
                     \* the statement forms and hazardous combinations used

Forms == {"vec", "pair", "nest", "push", "field", "cond", "assign", "use", "if",
          "while", "exit", "return vec", "for ref", "for own", "task", "guard", "call"}

Hazards == {"shadow", "self assign", "field in block", "field then assign",
            "exit past field", "exit past view", "own view", "change iterated",
            "exit own loop", "exit past task", "guard moved", "guard reassigned",
            "hidden lock", "two names", "other order", "join under guard"}

ASSUME MutexesAssumption == Mutexes \subseteq Nat \ {0}

\* What the body of a function does with its parameter: mutex_lock in a place
\* compute_locks_params looks at, in one it does not (`hides`: an if-expression,
\* a match, an indirect call), and the functions it passes it to.
ASSUME CalleesAssumption ==
  \A f \in DOMAIN Callees :
    Callees[f] \in [locks : BOOLEAN, hides : BOOLEAN, calls : SUBSET DOMAIN Callees]

ASSUME MenusAssumption ==
  \A m \in Menus : m.budget \in Nat /\ m.trips \in Nat /\ m.allowed \subseteq Forms \cup Hazards

VARIABLES menu,      \* the menu of this program
          scopes,    \* Env.scopes: outermost first, each name -> VarInfo
          code,      \* the typed body written so far
          open,      \* the statements whose bodies are being walked
          closed,    \* the `terminated` of the innermost check_stmt_list
          left,      \* statements the program may still have
          accepted   \* the function passed the whole check

checkVars == <<scopes, code, open, closed, left, accepted>>

Allows(f) == f \in menu.allowed

----------------------------------------------------------------------------
(* Env and VarInfo *)

\* Heap types: a Vec<i64>, a struct with one owning field, a Vec<Vec<i64>>.
HeapTypes == {t \in {"vec", "pair", "nest"} : Allows(t)}

NoMutex == 0

VarInfo == [ty : {"vec", "pair", "nest", "task", "guard"}, moved : BOOLEAN,
            moved_field : BOOLEAN, no_drop : BOOLEAN,
            guarded_mutex : Mutexes \cup {NoMutex}]

Fresh(t) == [ty |-> t, moved |-> FALSE, moved_field |-> FALSE, no_drop |-> FALSE,
             guarded_mutex |-> NoMutex]

\* all_bindings: every binding of every scope, hidden ones included.
Bindings(env) == {b \in (DOMAIN env) \X Names : b[2] \in DOMAIN env[b[1]]}

Bound(env, n) == \E d \in DOMAIN env : n \in DOMAIN env[d]

\* The scope lookup and lookup_mut find: the innermost that has the name.
Home(env, n) == CHOOSE d \in DOMAIN env :
                   /\ n \in DOMAIN env[d]
                   /\ \A e \in (d + 1) .. Len(env) : n \notin DOMAIN env[e]

Lookup(env, n) == env[Home(env, n)][n]

SetInfo(env, n, info) == [env EXCEPT ![Home(env, n)][n] = info]

Bind(f, n, x) == [m \in DOMAIN f \cup {n} |-> IF m = n THEN x ELSE f[m]]

InsertCurrent(env, n, info) ==
  [env EXCEPT ![Len(env)] = Bind(@, n, info)]

PushScope(env) == Append(env, << >>)

----------------------------------------------------------------------------
(* The double-lock analysis *)

\* compute_locks_params; alone, without the pass below, it is Faulty.
direct_locks == [f \in DOMAIN Callees |-> Callees[f].locks]

\* propagate_locks_params until no flag changes: at most one sweep per function.
locks_params ==
  LET Sweep[n \in Nat] ==
        [f \in DOMAIN Callees |->
           \/ direct_locks[f]
           \/ n > 0 /\ \E g \in Callees[f].calls : Sweep[n - 1][g]]
  IN Sweep[Cardinality(DOMAIN Callees)]

\* The mutexes the live guards are known to lock.
Guarded(env) ==
  {env[b[1]][b[2]].guarded_mutex : b \in {c \in Bindings(env) : ~env[c[1]][c[2]].moved}}
    \ {NoMutex}

\* The double-acquisition check of mutex_lock.
MayAcquire(env, m) == m \notin Guarded(env)

\* Taking m in this order of mutexes, which the analysis does not look at.
MayLock(env, m) == (\E h \in Guarded(env) : h > m) => Allows("other order")

----------------------------------------------------------------------------
(* Expressions *)

\* The expressions a program may bind: a literal, a variable, a field read,
\* push(n, k) and a conditional of two variables.
Exprs == [k : {"new"}, ty : HeapTypes]
           \cup [k : {"var"}, n : Names]
           \cup (IF Allows("push") THEN [k : {"push"}, n : Names] ELSE {})
           \cup (IF Allows("field") THEN [k : {"field"}, n : Names] ELSE {})
           \cup (IF Allows("cond") THEN [k : {"cond"}, n : Names, m : Names] ELSE {})
           \cup (IF Allows("guard") THEN [k : {"mutex_lock"}, m : Mutexes] ELSE {})

Operands(e) == CASE e.k \in {"new", "int", "mutex_lock"} -> {}
                 [] e.k = "cond" -> {e.n, e.m}
                 [] OTHER -> {e.n}

TypeOf(env, e) == CASE e.k = "new" -> e.ty
                    [] e.k = "int" -> "int"
                    [] e.k = "mutex_lock" -> "guard"
                    [] e.k = "field" -> "vec"
                    [] OTHER -> Lookup(env, e.n).ty

\* check_expr and diagnose_partial_then_whole_move report nothing.  A task
\* handle is no operand: verify_task_affine rejects the program that moves it.
Accepts(env, e) ==
  /\ \A n \in Operands(e) :
       /\ Bound(env, n)
       /\ LET info == Lookup(env, n) IN
            /\ ~info.moved
            /\ ~info.moved_field
            /\ info.ty # "task"
            /\ e.k \in {"push", "cond"} => info.ty = "vec"
            /\ e.k = "field" => info.ty = "pair"
  /\ e.k = "mutex_lock" => MayAcquire(env, e.m)

\* consume_if_moved_var; push consumes its argument inside check_expr.
Consume(env, e) ==
  CASE e.k \in {"var", "push"} ->
         SetInfo(env, e.n, [Lookup(env, e.n) EXCEPT !.moved = TRUE])
    [] e.k = "field" ->
         SetInfo(env, e.n, [Lookup(env, e.n) EXCEPT !.moved_field = TRUE])
    [] e.k = "cond" ->
         [d \in DOMAIN env |-> [n \in DOMAIN env[d] |->
            IF n \in Operands(e) /\ d = Home(env, n)
              THEN [env[d][n] EXCEPT !.moved = TRUE] ELSE env[d][n]]]
    [] OTHER -> env

----------------------------------------------------------------------------
(* The typed body *)

\* The number of the block being written; 0 is the function's body.
Here == IF open = << >> THEN 0 ELSE Last(open).block

Emit(instrs) == code' = code \o instrs

\* Which body of that statement: the branches of a conditional are two blocks.
Branch == IF open = << >> THEN "body" ELSE Last(open).kind

\* One instruction stands for a run of consecutive Drop statements; a hidden
\* binding and the one that hides it are two drops of the same name.
Drops(set) == IF set = {} THEN << >> ELSE <<[op |-> "drop", of |-> set]>>

\* Faulty: a struct's drop frees no field.
DropOfShell(env, d, n) == [n |-> n, depth |-> d, skip |-> env[d][n].ty = "pair"]

DropOf(env, d, n) == [n |-> n, depth |-> d, skip |-> env[d][n].moved_field]

\* emit_current_scope_drops.
ScopeDrops(env) ==
  LET top == Len(env) IN
  Drops({DropOf(env, top, n) : n \in
           {m \in DOMAIN env[top] : /\ env[top][m].ty # "task"
                                    /\ ~env[top][m].no_drop
                                    /\ ~env[top][m].moved}})

\* The drops of Stmt::Return: every binding of every scope.
ReturnDrops(env) ==
  Drops({DropOf(env, b[1], b[2]) : b \in
           {c \in Bindings(env) : /\ ~env[c[1]][c[2]].moved
                                  /\ ~env[c[1]][c[2]].no_drop}})

\* Faulty: also drops the scope around the loop.
LoopDropsOuter(env, depth) ==
  Drops({[n |-> b[2], depth |-> b[1], skip |-> FALSE] : b \in
           {c \in Bindings(env) : c[1] >= depth - 1 /\ ~env[c[1]][c[2]].moved}})

\* emit_drops_through_loop: the scopes opened since the loop's body began.
LoopDrops(env, depth) ==
  Drops({[n |-> b[2], depth |-> b[1], skip |-> FALSE] : b \in
           {c \in Bindings(env) : c[1] >= depth /\ ~env[c[1]][c[2]].moved}})

Blocks == {code[i].block : i \in {j \in DOMAIN code : code[j].op \in {"if", "while", "for"}}}
NewBlock == Cardinality(Blocks) + 1

\* Where the marker `op` of block b stands.
Marker(op, b) == CHOOSE i \in DOMAIN code : code[i].op = op /\ code[i].block = b

----------------------------------------------------------------------------
(* Which programs are generated *)

InnerOf(n) == Bound(scopes, n) /\ Home(scopes, n) < Len(scopes)

\* A new binding that hides an outer one.
MayBind(n) == InnerOf(n) => Allows("shadow")

\* The collections being iterated.
Iterated == {open[i].coll : i \in {j \in DOMAIN open : open[j].kind \in {"for ref", "for own"}}}

MayOverwrite(n) ==
  LET info == Lookup(scopes, n) IN
  /\ info.no_drop => Allows("own view")
  /\ info.moved_field => Allows("field then assign")
  /\ n \in Iterated => Allows("change iterated")
  /\ info.ty = "guard" => Allows("guard reassigned")

MayMove(e) ==
  /\ e.k = "field" => (InnerOf(e.n) => Allows("field in block"))
  /\ Operands(e) \cap Iterated # {} => Allows("change iterated")
  /\ (\E n \in Operands(e) : Lookup(scopes, n).no_drop) => Allows("own view")
  /\ (\E n \in Operands(e) : Lookup(scopes, n).ty = "guard") => Allows("guard moved")
  /\ e.k = "mutex_lock" => MayLock(scopes, e.m)

\* Leaving the scopes from `depth` on by break, continue or return.
MayLeave(depth, how) ==
  LET inner == {Lookup(<<scopes[b[1]]>>, b[2]) : b \in {c \in Bindings(scopes) : c[1] >= depth}}
      own == \E i \in DOMAIN open : open[i].kind = "for own" /\ open[i].depth >= depth
  IN /\ how # "return" =>
          /\ (\E v \in inner : v.moved_field) => Allows("exit past field")
          /\ (\E v \in inner : v.no_drop /\ ~v.moved) => Allows("exit past view")
     /\ (\E v \in inner : v.ty = "task" /\ ~v.moved) => Allows("exit past task")
     /\ (own /\ how # "continue") => Allows("exit own loop")

----------------------------------------------------------------------------
(* Statements *)

Init ==
  /\ menu \in Menus
  /\ scopes = << << >> >>
  /\ code = << >>
  /\ open = << >>
  /\ closed = FALSE
  /\ left = menu.budget
  /\ accepted = FALSE

\* check_stmt_list: nothing may follow a statement that leaves the list.
Statement == ~accepted /\ ~closed /\ left > 0 /\ left' = left - 1

\* Stmt::Let.  A name of the current scope is reassigned, and its old value
\* dropped unless the initializer has just moved it; any other name is new.
Let(n, e) ==
  /\ Statement
  /\ Accepts(scopes, e) /\ MayMove(e)
  /\ LET env == Consume(scopes, e)
         t == TypeOf(scopes, e)
     IN /\ IF n \in DOMAIN Last(env)
             THEN /\ Last(env)[n].ty = t
                  /\ MayOverwrite(n)
                  /\ Emit(<<[op |-> "set", n |-> n, ty |-> t, e |-> e,
                             drop_old |-> ~Last(env)[n].moved]>>)
             ELSE /\ MayBind(n)
                  /\ Emit(<<[op |-> "let", n |-> n, e |-> e]>>)
        /\ scopes' = InsertCurrent(env, n,
                        [Fresh(t) EXCEPT !.guarded_mutex =
                           IF e.k = "mutex_lock" THEN e.m ELSE NoMutex])
  /\ UNCHANGED <<open, closed, accepted>>

\* Stmt::Assign.  `existing` is cloned before a moved variable is recorded but
\* after check_expr; the binding keeps its moved_fields, no_drop and
\* guarded_mutex.
Assign(n, e) ==
  /\ Allows("assign")
  /\ Statement
  /\ Bound(scopes, n) /\ Accepts(scopes, e) /\ MayMove(e)
  /\ Lookup(scopes, n).ty = TypeOf(scopes, e)
  /\ MayOverwrite(n)
  /\ (e.k \in {"var", "cond"} /\ n \in Operands(e)) => Allows("self assign")
  /\ LET existing == Lookup(IF e.k = "push" THEN Consume(scopes, e) ELSE scopes, n)
         env == Consume(scopes, e)
     IN /\ Emit(<<[op |-> "set", n |-> n, ty |-> existing.ty, e |-> e,
                   drop_old |-> ~existing.moved]>>)
        /\ scopes' = SetInfo(env, n, [Lookup(env, n) EXCEPT !.moved = FALSE])
  /\ UNCHANGED <<open, closed, accepted>>

\* A statement that borrows n, as print len(&n) and guard_get(&n) do.
Use(n) ==
  /\ Allows("use")
  /\ Statement
  /\ Bound(scopes, n)
  /\ ~Lookup(scopes, n).moved
  /\ Lookup(scopes, n).ty \in {"vec", "nest", "guard"}
  /\ Emit(<<[op |-> "use", n |-> n]>>)
  /\ UNCHANGED <<scopes, open, closed, accepted>>

\* A call of f with a mutex, and what check_call asks of it: no guard of that
\* mutex may be alive when f locks its parameter.
Call(f, m) ==
  /\ Allows("call")
  /\ Statement
  /\ locks_params[f] => m \notin Guarded(scopes)
  /\ Callees[f].hides => Allows("hidden lock")
  /\ MayLock(scopes, m)
  /\ Emit(<<[op |-> "call", f |-> f, m |-> m]>>)
  /\ UNCHANGED <<scopes, open, closed, accepted>>

\* Stmt::Return.  The value is kept in a temporary, then every binding of
\* every scope is dropped by name, then the temporary is returned.
Return(e) ==
  /\ Statement
  /\ Accepts(scopes, e) /\ MayMove(e)
  /\ TypeOf(scopes, e) = (IF Allows("return vec") THEN "vec" ELSE "int")
  /\ MayLeave(1, "return")
  /\ LET env == Consume(scopes, e) IN
       /\ Emit(<<[op |-> "let", n |-> "ret", e |-> e]>> \o ReturnDrops(env)
                 \o <<[op |-> "return"]>>)
       /\ scopes' = env
  /\ closed' = TRUE
  /\ UNCHANGED <<open, accepted>>

----------------------------------------------------------------------------
(* Conditionals *)

OpenBlock(frame, env) ==
  /\ open' = Append(open, frame)
  /\ scopes' = env
  /\ closed' = FALSE

\* Stmt::If: the then branch is walked in a scope of its own.
If ==
  /\ Allows("if")
  /\ Statement
  /\ Emit(<<[op |-> "if", block |-> NewBlock]>>)
  /\ OpenBlock([kind |-> "then", block |-> NewBlock, pre |-> scopes], PushScope(scopes))
  /\ UNCHANGED accepted

\* The end of the then branch; the else branch starts from the same Env.
Else ==
  /\ open # << >> /\ Last(open).kind = "then"
  /\ LET f == Last(open) IN
       /\ Emit((IF closed THEN << >> ELSE ScopeDrops(scopes))
                 \o <<[op |-> "else", block |-> f.block]>>)
       /\ open' = Append(Front(open),
                         [kind |-> "else", block |-> f.block, pre |-> f.pre,
                          then_env |-> Front(scopes), then_closed |-> closed])
       /\ scopes' = PushScope(f.pre)
  /\ closed' = FALSE
  /\ UNCHANGED <<left, accepted>>

\* What the branch that kept a binding must drop when the other one moved it.
Balance(pre, kept, moved) ==
  Drops({[n |-> b[2], depth |-> b[1], skip |-> FALSE] : b \in
           {c \in Bindings(pre) : /\ ~Lookup(kept, c[2]).moved
                                  /\ Lookup(moved, c[2]).moved}})

\* The Env after the conditional: the one before it, with the merged `moved`.
Merge(pre, then_env, then_closed, else_env, else_closed) ==
  LET Moved(n) == CASE then_closed /\ else_closed -> Lookup(pre, n).moved
                    [] then_closed -> Lookup(else_env, n).moved
                    [] else_closed -> Lookup(then_env, n).moved
                    [] OTHER -> Lookup(then_env, n).moved \/ Lookup(else_env, n).moved
  IN [d \in DOMAIN pre |-> [n \in DOMAIN pre[d] |->
        IF d = Home(pre, n) THEN [pre[d][n] EXCEPT !.moved = Moved(n)] ELSE pre[d][n]]]

\* The end of the else branch, and the merge.
EndIf ==
  /\ open # << >> /\ Last(open).kind = "else"
  /\ LET f == Last(open)
         else_env == Front(scopes)
         both == ~f.then_closed /\ ~closed
         at == Marker("else", f.block)
         then_drops == IF both THEN Balance(f.pre, f.then_env, else_env) ELSE << >>
         else_drops == (IF closed THEN << >> ELSE ScopeDrops(scopes))
                         \o (IF both THEN Balance(f.pre, else_env, f.then_env) ELSE << >>)
     IN /\ code' = SubSeq(code, 1, at - 1) \o then_drops \o SubSeq(code, at, Len(code))
                     \o else_drops \o <<[op |-> "endif", block |-> f.block]>>
        /\ scopes' = Merge(f.pre, f.then_env, f.then_closed, else_env, closed)
        /\ closed' = (f.then_closed /\ closed)
  /\ open' = Front(open)
  /\ UNCHANGED <<left, accepted>>

----------------------------------------------------------------------------
(* Loops *)

IsLoop(f) == f.kind \in {"while", "for ref", "for own"}

\* validate_loop_balance, from the bindings that existed before the loop.
Balanced(pre, env) ==
  \A b \in Bindings(pre) : pre[b[1]][b[2]].moved = Lookup(env, b[2]).moved

\* Stmt::While.
While ==
  /\ Allows("while")
  /\ Statement
  /\ Emit(<<[op |-> "while", block |-> NewBlock]>>)
  /\ OpenBlock([kind |-> "while", block |-> NewBlock, pre |-> scopes,
                depth |-> Len(scopes) + 1], PushScope(scopes))
  /\ UNCHANGED accepted

\* Faulty: the loop's variable owns its slot in either form.
SlotOwned(own) == Fresh("vec")

\* The loop's variable: the owner of its slot, or a view that is not dropped.
Slot(own) == [Fresh("vec") EXCEPT !.no_drop = ~own]

\* Stmt::ForIter over a Vec of Vecs.  Without `own` the variable is a view of
\* a slot; with it the collection is moved before the body is walked.
ForIter(v, c, own) ==
  LET kind == IF own THEN "for own" ELSE "for ref"
      pre == IF own THEN SetInfo(scopes, c, [Lookup(scopes, c) EXCEPT !.moved = TRUE])
                    ELSE scopes
  IN
  /\ Allows(kind)
  /\ Statement
  /\ Bound(scopes, c)
  /\ ~Lookup(scopes, c).moved /\ Lookup(scopes, c).ty = "nest"
  /\ Bound(scopes, v) => Allows("shadow")
  /\ c \in Iterated => Allows("change iterated")
  /\ Emit(<<[op |-> "for", block |-> NewBlock, n |-> v, coll |-> c, own |-> own]>>)
  /\ OpenBlock([kind |-> kind, block |-> NewBlock, pre |-> pre, coll |-> c,
                depth |-> Len(scopes) + 1],
               Append(pre, Bind(<< >>, v, Slot(own))))
  /\ UNCHANGED accepted

\* The end of a loop's body: drop, check the balance, restore the Env.  A
\* consuming loop is followed by the free of the collection's own buffer.
EndLoop ==
  /\ open # << >> /\ IsLoop(Last(open))
  /\ LET f == Last(open) IN
       /\ closed \/ Balanced(f.pre, Front(scopes))
       /\ Emit((IF closed THEN << >> ELSE ScopeDrops(scopes))
                 \o <<[op |-> "endloop", block |-> f.block]>>
                 \o (IF f.kind = "for own" THEN <<[op |-> "freebuf", n |-> f.coll]>>
                                          ELSE << >>))
       /\ scopes' = f.pre
  /\ open' = Front(open)
  /\ closed' = FALSE
  /\ UNCHANGED <<left, accepted>>

\* Stmt::Break and Stmt::Continue, in the innermost loop.
Leave(op) ==
  /\ Allows("exit")
  /\ Statement
  /\ \E i \in DOMAIN open :
       /\ IsLoop(open[i])
       /\ \A j \in (i + 1) .. Len(open) : ~IsLoop(open[j])
       /\ MayLeave(open[i].depth, op)
       /\ Balanced(open[i].pre, scopes)
       /\ Emit(LoopDrops(scopes, open[i].depth) \o <<[op |-> op, block |-> open[i].block]>>)
  /\ closed' = TRUE
  /\ UNCHANGED <<scopes, open, accepted>>

----------------------------------------------------------------------------
(* Tasks *)

\* The bodies of tasks: each binds a guard of one mutex after the other.
TaskBodies == UNION {[1 .. k -> Mutexes] : k \in 0 .. 2}

\* The lets of a task's body: each mutex_lock sees the guards of the function
\* and those the body has bound before.
AcceptsBody(body) ==
  /\ body # << >> => Allows("guard")
  /\ \A i \in DOMAIN body :
       /\ MayAcquire(scopes, body[i])
       /\ \A j \in 1 .. (i - 1) : body[j] # body[i] /\ (body[j] > body[i] => Allows("other order"))

\* Stmt::TaskSpawn.  The body may capture Copy values only, so it owns none of
\* the bindings modelled here; a reference to a mutex is one.
TaskSpawn(n, body) ==
  /\ Allows("task")
  /\ Statement
  /\ n \notin DOMAIN Last(scopes)
  /\ MayBind(n)
  /\ AcceptsBody(body)
  /\ Emit(<<[op |-> "spawn", n |-> n, in |-> Here, branch |-> Branch, body |-> body]>>)
  /\ scopes' = InsertCurrent(scopes, n, Fresh("task"))
  /\ UNCHANGED <<open, closed, accepted>>

\* The mutexes that tasks of this name lock.
LockedBy(n) == UNION {ToSet(code[i].body) : i \in {j \in DOMAIN code : code[j].op = "spawn" /\ code[j].n = n}}

\* Stmt::TaskJoin.
TaskJoin(n) ==
  /\ Allows("task")
  /\ Statement
  /\ Bound(scopes, n)
  /\ Lookup(scopes, n).ty = "task" /\ ~Lookup(scopes, n).moved
  /\ (\E m \in LockedBy(n), h \in Guarded(scopes) : m <= h) => Allows("join under guard")
  /\ Emit(<<[op |-> "join", n |-> n, in |-> Here, branch |-> Branch]>>)
  /\ scopes' = SetInfo(scopes, n, [Lookup(scopes, n) EXCEPT !.moved = TRUE])
  /\ UNCHANGED <<open, closed, accepted>>

\* Faulty: any later join of that name will do, in whatever block.
TaskAffineAnywhere ==
  \A i \in DOMAIN code : code[i].op = "spawn" =>
    \E j \in (i + 1) .. Len(code) : code[j].op = "join" /\ code[j].n = code[i].n

\* verify_task_affine: in every block each spawned name is spawned once, and
\* joined once, later in the same block.
TaskAffine ==
  LET Spawns == {i \in DOMAIN code : code[i].op = "spawn"}
      Joins == {i \in DOMAIN code : code[i].op = "join"}
      SamePlace(i, j) == /\ code[i].n = code[j].n /\ code[i].in = code[j].in
                         /\ code[i].branch = code[j].branch
  IN /\ \A i \in Spawns : Cardinality({j \in Joins : SamePlace(i, j)}) = 1
     /\ \A i, j \in Spawns : SamePlace(i, j) => i = j
     /\ \A j \in Joins : \E i \in Spawns : i < j /\ SamePlace(i, j)

\* The end of the function: it must have returned on every path.
Finish ==
  /\ ~accepted
  /\ open = << >> /\ closed
  /\ TaskAffine
  /\ accepted' = TRUE
  /\ UNCHANGED <<scopes, code, open, closed, left>>

CheckStep ==
  \/ \E n \in Names, e \in Exprs : Let(n, e) \/ Assign(n, e)
  \/ \E n \in Names : Use(n) \/ TaskJoin(n) \/ \E body \in TaskBodies : TaskSpawn(n, body)
  \/ \E f \in DOMAIN Callees, m \in Mutexes : Call(f, m)
  \/ \E e \in Exprs \cup {[k |-> "int"]} : Return(e)
  \/ If \/ Else \/ EndIf \/ While \/ EndLoop
  \/ \E v, c \in Names, own \in BOOLEAN : ForIter(v, c, own)
  \/ \E op \in {"break", "continue"} : Leave(op)
  \/ Finish

============================================================================
