# TLA+ models of vani

vani is a compiler (Rust, `src/src/`) for a small affine language. It parses
`.vani` programs, checks types, ownership, purity and SMT obligations
(`checker.rs`, `smt.rs`), and emits C or LLVM IR through two tree backends
(`backend_c.rs`, `backend_llvm.rs`) or through an SSA form (`ssa*.rs`). The
emitted text contains a runtime: locks, condition variables, channels, tasks,
parallel loops and containers. This directory models that runtime and the
parts of the compiler that decide what the emitted program does at run time.

## Inventory

| Component | State | Operations | What is hard | What makes it correct | Module |
|---|---|---|---|---|---|
| Mutex, Guard (`backend_c.rs:4016`, `backend_llvm.rs:4341,2183`) | futex word 0/1/2, the cell | lock, get, set, unlock on drop | three-step unlock against newcomers, early returns of the kernel wait | one owner, no lost update, no sleeper forgotten | FutexMutex |
| Condvar (`backend_c.rs:3930`, `backend_llvm.rs:4535`) | 32-bit `seq` | wait, wait_timeout, notify_one, notify_all | notify between release and park; timeout against notify; wake taken by another waiter | no lost notify; result tells notify from timeout; predicate stable | Condvar |
| Channel (`backend_c.rs:3818`, `backend_llvm.rs:4086`) | ring, per-slot sequence numbers, head, tail | new, send, recv | producers racing for a slot; reuse of a slot in the next round; capacity 1 | FIFO, bounded, no concurrent plain access | Channel |
| Atomic | one cell | load, store, fetch_add | nothing below one instruction | - | - |
| Tasks (`checker.rs:9220,9330,7306`, `backend_c.rs:7949`) | handles, captured context | spawn, join | leaving the scope between spawn and join | every task is joined exactly once | Affine* |
| Ownership (`checker.rs:7306-9840`) | per binding: moved, moved fields, no_drop | let, move, assign, if, while, for, break, return | joins of branches, shadowing, early exits | each heap value is freed exactly once | Affine* |
| parallel for (`checker.rs:22830`, `backend_llvm.rs:26643`) | slices, counters, the reduction variable | check, partition, body, combine, join | narrow index types, empty ranges, more threads than iterations, aliases by name | every index runs once; no race; reductions equal the sequential loop | Partition, ParallelFor |
| Double-lock analysis (`checker.rs:15269`) | the mutex each live guard names, `locks_params` of every function | mutex_lock, calls, spawn | a guard that is moved, locks inside a callee, two names of one mutex, two mutexes | no wait that nothing can end | Affine* |
| Keyed containers (`backend_c.rs:900-3700`) | tables with tombstones, sorted arrays, an AVL arena, a skip list, a trie arena | insert, remove, clear, queries, growth | tombstones, slots reused, rotations after a removal | each implements a finite map | HashTable, SortedTable, AvlTree, SkipList, Trie |
| Vec (`backend_c.rs:5650-6540`, `backend_llvm.rs:22275-25434`) | buffer, length, capacity | push, pop, set, clone, clear, sort, searches, folds and filters | what an element type frees and copies, decided by each emitter; unbounded scans of the C quicksort; filters in two passes | each element has one owner; the answers are what the names say | OwnedVec, IntVec |
| Graph, BloomFilter (`backend_llvm.rs:17422-20360`) | an edge list and two adjacency tables built on demand; a set of bits | add_edge, clear, searches, shortest paths, spanning trees; insert, contains | tables stale after a change, stored behind a shared reference; node numbers cut to 32 bits | each query answers what the edges say; no inserted key is missed | Graph, BloomFilter |
| Number calls on i64 (`backend_llvm.rs:7037-9420,13875-14795`) | none | division, roots, logarithms, bits, primes, divisors, counts | values that wrap on the way to an answer that fits | the answer is the one of the integers | IntMath |
| Queues and union-find (`backend_c.rs:780-890,1700-1800`) | a ring, a heap array, parents and ranks | push, pop, union, find | growth of a wrapped ring; path compression | a sequence, a sorted bag, a partition | Deque, BinaryHeap, UnionFind |
| SMT facts (`checker.rs:7490-9290,22700-24900`, `smt.rs`) | fact list, known constants, loop frames | assume, prove, merge, preserve, elide | stale facts after a mutation, facts by name, loops | what is proved holds at run time | Facts* |
| SSA (`ssa.rs`, `ssa_pass.rs`, `ssa_backend_*.rs`) | blocks, values, block parameters | lower, fold, eliminate, emit | loops, block arguments, jumps | compiled code does what the source does | Ssa* |
| Types, inference, generics (`checker.rs`) | substitutions, signatures | unify, instantiate | - | - | - |
| Driver, manifest, LSP (`main.rs`, `manifest.rs`, `lsp*.rs`) | files, documents | include, change | include cycles, stale documents | no endless inclusion; answers about the latest text | - |
| Lexer, parser, formatter | text | - | - | - | - |

Where they meet: the checker hands the backends a typed tree in which drops
are explicit statements; a `Drop` of a `Guard` is the mutex's unlock; `wait`
unlocks and re-locks the mutex of the guard it is given; the fact list decides
which bounds checks the backends leave out; the race check decides which
bodies become threads. `FutexMutex` is composed into `Condvar`,
`AffineChecker` into `AffineProgram`, `FactsChecker` into `FactsProgram`,
the race check and the launched threads in `ParallelFor`.

## Modules

```
AbstractLock <- FutexMutex <- Condvar            AbstractChannel <- Channel
AbstractMap, AbstractQueue <- Tables: HashTable Deque UnionFind
Tables <- Containers: SortedTable AvlTree SkipList Trie BinaryHeap Graph
                      BloomFilter OwnedVec IntVec IntMath
Partition <- ParallelFor                         AffineChecker <- AffineProgram
SsaSource <- SsaLowering <- SsaPasses <- SsaMachine
FactsLogic <- FactsChecker <- FactsProgram
proofs: FutexMutexProofs <- CondvarProofs        ChannelProofs, ParallelForProofs
        HashTableProofs <- TablesProofs          AffineNotes <- AffineProofs
```

Each `...MC` module holds the instances TLC runs; FutexMutex, Condvar and
Channel are run as they are, their configurations give the constants.

### AbstractLock, FutexMutex

`FutexMutex` is the lock of `emit_intent_mutex_helpers_c`, which the LLVM
backend inlines at every `mutex_lock` and at every drop of a `Guard`. `locked`
and `value` are the fields of `intent_mutex_i64`; `pc` says where each thread
is. Each compare-exchange, exchange, fetch_sub, store, futex call and access to
the cell is one action. The kernel is modelled by what futex(2) promises:
compare and queue are one step, a wake takes any one sleeper, and a wait may
return early (`SpuriousReturn`). `host` is chosen at the start: `"polling"` is
the spin loop of hosts without a kernel wait. `seen` is a history variable:
what the owner last read or wrote.

`AbstractLock` is what the program may rely on: one owner, changes by the owner
only, and a free lock that somebody wants is granted. There is no promise that
a particular thread gets it: a newcomer may overtake a woken thread for ever,
so starvation freedom is not claimed.

### Condvar

Composes `FutexMutex` (as `M`) with `intent_condvar`. A waiter's `wait` is
snapshot, unlock (all the steps of the mutex), park, compute the result,
re-lock. `backend` is the emitted variant, any of `Backends`; variants differ
in `Notified`, the result of `wait_timeout`, and in whether the wait polls.
The program around it is the documented loop: test the predicate under the
lock, wait, test again. `signalled` is a history variable: the waiters whose
wait a notify met, because it woke them or because they will find `seq`
changed.

### AbstractChannel, Channel

The Vyukov ring: `buf`, `seq`, `head`, `tail` as emitted, one action for every
atomic operation and for every plain access to a slot. `sent` and `received`
are history. A send takes effect at its claim (a successful compare-exchange on
`tail`), a receive when it releases its slot; with this mapping `Channel`
implements `AbstractChannel`.

### Tables, Containers

One module per runtime; a container has one owner, so a call is one action.
Every module has the memory layout of the emitted struct (the arrays and
counters as record fields), the calls as operators on it, `Content`, what the
memory means, and `LookupsAgree`, which compares every query with `Content`.
`Containers` runs one of them (`kind`) and states that the keyed ones
implement `AbstractMap`, the deque and the heap `AbstractQueue`. It extends
`Tables`, which composes the four that live in one array of slots or cells
(hash set, hash map, deque, union-find) and states what is also proved. `out` is the
answer of the last call, so that the refinement is about answers as well as
contents. Hash values are a CONSTANT (any function of the keys); the instance
makes two keys collide at the last slot, so that walks wrap around.
Except for vectors the C and the LLVM runtime agree; a line of the map is of
one of the two emitters. Allocation never fails in the model (the runtime aborts).

`Graph` keeps the edges in the order they came, and the two adjacency tables a
query builds and leaves behind; `add_edge` and `clear` throw them away. Node
numbers are cut to 32 bits when they are stored. `LookupsAgree` compares every
search with the paths and spanning trees of the edge list, on the tables that
are there. A* never takes a settled node again, so it is compared for
consistent heuristics only: with edges 0-1 and 1-2 of weight 1, 0-2 and 2-3 of
weight 3 and estimates 4 at node 1 (its true distance) and 0 elsewhere, it answers 6 for
0 to 3, where 5 is the shortest; `examples/graph_algo2.vani:7` asks for
admissible heuristics.
`BloomFilter` is its bits and a history of the keys; it may find a key that was
not inserted, and only one whose bits are all set by others.

`OwnedVec` is a `Vec<T>` whose elements own memory. A type is the path to that
memory (`<<"struct", "enum", "str">>`); what an element frees (`Drops`,
`Clears`) and what a clone copies (`Duplicates`) is decided by walking it, and
the two emitters walk differently. `live` is the allocated cells, `held` an
element moved out into a binding. `IntVec` is the calls on `Vec<i64>`, one
operator per call under the call's name. C sorts with a quicksort whose scans
have no bound but the pivot, and which leaves short pieces to an insertion
sort; LLVM sorts by insertion. `LookupsAgree` states laws between the calls
(sorted, the same numbers, a fused pass against its two halves), so that no
answer is compared with a copy of itself.

`IntMath` is the calls on a plain `i64`, with the wrapping arithmetic of the
LLVM emitter in words of `Bits` bits (C writes the same loops, where an
overflow is undefined). `LookupsAgree` compares them with the integers: floor
division, common divisors, the definition of a prime, Pascal's rule and so on.
Where a value on the way wraps, an answer that would fit is lost; these
combinations are named in `Hazards` and listed below.

### Partition, ParallelFor

`Partition` is the arithmetic of a slice: rounding division and clamping in
the wide type, the counter in the loop's own type, as each backend does it.
`ParallelFor` chooses a body statement by statement among those the race check
accepts (`AcceptsAssign`, `NoReductionRead` are `check_for_captured_mutations`
and `strip_reduction_uses`, `AcceptsCall` is `verify_pure_body`), launches it over some range with some number of
threads, and interleaves the threads by statement, an update of a reduction
being one atomic step, or a load and a compare-exchange when the operation has
no `atomicrmw`, or a private copy combined at the end (C, OpenMP). Of a call the
model keeps whether it reads or writes the container. `SsaTakes` is the part of
the bodies the SSA backend lowers itself; the others fall back to the tree
backend, as do the bodies with loops, which the model leaves to it as well.

### AffineChecker, AffineProgram

`AffineChecker` is the checker's walk over a function. `scopes` is `Env.scopes`
with the four parts of `VarInfo` that decide about drops; `open` is the stack
of statements being walked with the `Env` clones each keeps (`pre_env`,
`then_env`, the `LoopFrame`); `code` is the typed body, a flat list in which
blocks are bracketed. One action per statement form: what the walk does before
the body, between branches and after the body are separate actions, because
arbitrary statements come in between. The input program is chosen statement by
statement, so the behaviours are all programs a menu allows; a diagnostic is a
guard, and a rejected program simply stops.

`AffineProgram` runs an accepted program as the C of `emit_stmt`: C blocks and
C name lookup, an initializer that already sees its own variable, a reassign
that evaluates, frees and stores. Conditions are arbitrary, while loops take at
most `trips` turns. `frees` counts the frees of every buffer.

A `Guard` is a buffer that stands for its mutex: the unlock is its free, and an
assignment stores over a guard without freeing it.
`direct_locks`, `locks_params` and `Guarded` are the double-lock analysis; the
callees a program may call are given as a table (`Callees`: their mutex
parameter's uses, and whom they call). Tasks take locks one after the other
and give them back when they end, beside the function that spawned them. A
`mutex_lock` is one step here, as `FutexMutex` is shown to implement
`AbstractLock`. `"two names"` passes one mutex under both of a function's
parameters.

### SsaSource, SsaLowering, SsaPasses, SsaMachine

`SsaSource` is the statement language and its meaning, the C of the tree
backend: block scopes, guarded division, short-circuit `and`, range ends
evaluated as that backend evaluates them. `SsaLowering` is `ssa.rs`: the
builder as a record, one operator per statement form; loops carry the names
their body reassigns, an `if` merges the names on which its branches differ.
`SsaPasses` is the two passes of `ssa_pass.rs`: constant folding, and branch
threading, removal of unreachable blocks and of dead instructions to a fixed
point. The machine
takes a program, lowers it, folds and optimizes it or not, and runs the blocks
as a backend emits them: block arguments at once (LLVM's phi) or as C
assignments one after the other; `unreachable` as `abort()` in C and as
undefined behaviour in LLVM. A failed assertion with a message calls
`intent_assert_fail`, which aborts in both; one without has only
`unreachable`, so the passing run puts it through C alone. `expected` is what `SsaSource` computes for
the same input. In the repository the two passes are called from tests only;
the driver emits the raw lowering and falls back to the tree backends for what
SSA cannot express (`main.rs:596-632`).

### FactsLogic, FactsChecker, FactsProgram

`FactsLogic` is terms, formulas over unsigned words, and the ideal solver:
`Entails` quantifies over all values of the names, so the model's solver
answers every query correctly. What is checked is the use made of it.
`FactsChecker` is the verifying part of `check_one_stmt`: `facts` is
`smt_facts`, `env` the scopes with the constants known of variables, `open` the
loop and branch frames. It discharges `prove`, a callee's `requires`, loop
invariants on entry and at the end of the body (substituting the composed
assignments of the body), `ensures` at `return`, and marks each read checked or
not. `FactsProgram` then runs the accepted function on every input its
`requires` admits, with no check where the backends emit none.

### Menus

The four program models choose their program in the checker's walk. A `Menu`
bounds it (`budget`: statements; a closing brace is free) and names the
statement forms. The forms named in `Hazards` (and the `features` of
`SsaSource` listed under "Behaviour left out of the passing runs") are
combinations the code accepts and does not handle; they are in the model, and
a run has them only if its menu says so.

## Runs

Every run finishes in minutes. `tlc -config X.cfg M` reproduces one.

| Run | Config, module | Instance | Shows |
|---|---|---|---|
| futex_mutex | FutexMutex.cfg, FutexMutex | 4 threads, 2 values, both hosts | TypeOK, MutualExclusion, NoLostUpdate, NoLostWakeup; refinement of AbstractLock; LockProgress |
| condvar | Condvar.cfg, Condvar | 2 waiters, 2 notifiers, 1 post each; C on Linux and polling | PredicateStable, NoLostNotify, NotifyReported, ItemsTaken |
| channel | Channel_ring.cfg, Channel | 2 producers x 3 messages, 2 slots | TypeOK, NoDataRace, SendBlocksWhenFull; refinement of AbstractChannel; AllDelivered |
| containers | Containers.cfg, ContainersMC | all fifteen kinds, 3 keys (5 in the tree), tables of 2 to 8 slots, rings of 2 to 4, 5 words, 4 union-find elements, graphs of 3 nodes and 4 edges, 3 Bloom filters, 2 vectors of up to 3 elements of 9 types, integer vectors of up to 5 of 3 numbers, all 256 words of 8 bits with 23 second and third arguments | TypeOK; WalksEnd, JoinsOnlyThese and the refinement TablesImplemented of the four of Tables; of the others LookupsAgree, OneOwner, ArenasKept and the refinement TreesImplemented of AbstractMap and AbstractQueue |
| bst_slot_reuse | Bst_slot_reuse.cfg, ContainersMC | the tree, past the reuse of a slot | finding 1 |
| parallel_for | ParallelFor.cfg, ParallelForMC | 3 backends, 1-3 threads, bodies of up to 5 entries, narrow type of 8 values, wide type of 64 | NoDataRace, EachIndexOnce, ReductionExact, LoopEnds |
| affine | Affine.cfg, AffineMC | 2 names, 2 mutexes, 5 callees; menus of 4 to 6 statements | NoDoubleFree, NoStaleUse, NothingLeaked, TasksJoined, NoDeadlock |
| affine_task_return | Affine_task_return.cfg, AffineMC | 5 statements with a return between spawn and join | finding 2 |
| ssa | Ssa.cfg, SsaMC | 5 menus of 3 or 4 statements, inputs 0 and 1, both backends | SameOutcome, NoUndefinedRead, WellFormed, LoopsEnd |
| ssa_c_block_args | Ssa_c_block_args.cfg, SsaMC | 3 statements with copies, C backend | finding 3 |
| facts | Facts.cfg, FactsMC | 5 menus of 4 to 6 statements, 2-bit words | ProvedHolds, ElidedInBounds, InvariantsHold, EnsuresHold |
| facts_loop_variable | Facts_loop_variable.cfg, FactsMC | 4 statements, a loop name used twice | finding 4 |

Bounds, and why they are enough:

- Four threads let a lock have an owner, an unlocker in its slow path, a
  sleeper and a newcomer at once.
- Six messages through two slots use each slot for three rounds, so every
  sequence number a slot can be confused with occurs. `Posts` and `PerProducer`
  bound how often a notifier posts and a producer sends.
- Three keys, two of which collide, fill a table of two slots, make it grow,
  and leave tombstones before and after a present key. Five keys in the tree are
  enough for rotations on both sides and for the removal of a node with two
  children. Four edges of a menu of eight on three nodes have cycles, loops,
  parallel edges and ends that are no node. `MaxLen`,
  `MaxNodes` and the arena sizes only cap how much is inserted.
- Ranges of up to four indices with up to three threads give slices that are
  empty, partial and full, and more threads than indices. A signed narrow type
  is swept from end to end, so that slices touch both its limits; an unsigned
  one too on the SSA backend, and up to its half on the tree backend, which
  skips what lies above (`"past half"` below). Unsigned wide ranges lie on
  either side of the half of their type and do not cross it. Longer bodies are
  run by two threads over two indices: a race needs two.
- Two names are enough for one binding to hide, feed or outlive another; six
  statements with branches alone, or with loops and exits alone, give two
  bindings, a body with two statements in it and one after it, or two nested
  bodies; five where both occur still put a jump in a branch of a loop. Two
  turns of a loop tell a first from a later turn.
- Two mutexes and a task that takes up to two of them give every order of two
  locks; the callees lock their parameter, lock it through a call, through a
  cycle of calls, or not at all.
- `SortCutoff` is 16 in the emitted C; with 2 here, vectors of five numbers are
  split before they are sorted by insertion.
- Words of eight bits have squares and powers of 2 and 10 on both sides of their
  limit, and the second arguments both ends, zero, signs, primes and powers;
  `MaxFactorial` and `MaxFibonacci` (20 and 92 in the code) are 5 and 11 there.
- Four statements nest two loops, or put an `if` with a jump in a loop, with
  one assignment before and after. `Fuel` and `MaxBlocks` are above what any
  of these programs needs; a source that runs out of fuel is left alone.
- Words of two bits have a value below, at and above every constant in the
  menus, and overflow.

Every property can be broken at these sizes: each has a faulty variant of one
definition (marked `Faulty`) under which the same configuration finds a
counterexample.

Deadlock is checked for the mutex. It is not elsewhere, because those systems
stop: producers and notifiers make a bounded number of calls and the other side
then waits, a program ends or is rejected, a container that reached its bound
takes no more.

Fairness. Threads inside the runtime are scheduled (weak fairness of each
thread's next step: `InRuntime` in FutexMutex, the lock, waiter and notifier
steps in Condvar, each producer and the consumer in Channel, each worker and
the join in ParallelFor), as an operating system does with runnable threads.
Nothing is assumed of timeouts and of early returns of the kernel. `SpinWins`
says that a compare-exchange loop on a lock that stays free succeeds at last.
The sequential models need none: LoopsEnd and WalksEnd are invariants.

## Findings

1. Bst (`backend_c.rs:2292`, `2175`): a removal lowers `len`, and the next
   insertion takes slot `len`, which may hold a live node. insert 1, insert 2,
   remove 1, insert 1 makes the root point at itself. The containers run does
   not insert into such a tree (`SlotReuse = FALSE`).
2. `task t {..} if c { return 0; } join t;` (`checker.rs:7366`) is accepted
   and the thread is not joined on the return; `src/README.md:282` promises a
   join "even on early-return paths".
3. SSA C backend (`ssa_backend_c.rs:2574`): block arguments are assigned one
   after the other, so `while x < 2 { y = x; x = x + 1; }` leaves `y` one
   ahead. LLVM's phi nodes do not have the problem.
4. Facts (`checker.rs:8923`): the exit fact `i >= end` of a `for` loop stays
   under the bare name `i`; a second `for i in 0..len(xs)` adds `i < end`, the
   facts are contradictory, and every bounds check in its body goes.

## Behaviour left out of the passing runs

The passing runs exclude the following, because a property fails there. Each
is in the model: with the constant named set accordingly, TLC finds the
counterexample.

| Model | Constant | Program | Property | Where |
|---|---|---|---|---|
| Condvar | `Backends = {"llvm_linux"}` | a notify between release and park returns EAGAIN, reported as a timeout; C also looks at `seq` | NotifyReported | `backend_llvm.rs:4726` against `memory/project_vani_condvar_design.md:49` |
| Condvar | `Backends = {"c_windows"}` | a snapshot taken between a notify's increment and its wake | NotifyReported | `backend_c.rs:3975` |
| Channel | `Cap = 1` | a full one-slot channel accepts another send | SendBlocksWhenFull | `backend_c.rs:3846` |
| ParallelFor | `"block let"` in `Allowed` | a `let` in an inner block hides the captured name from the race check afterwards | NoDataRace | `checker.rs:22875` |
| ParallelFor | `"hidden read"` | the reduction variable read inside an if-expression | NoDataRace | `checker.rs:23109` |
| ParallelFor | `"reduce in iter"` | an update inside a `for` over a collection is not made atomic | NoDataRace | `checker.rs:23109` |
| ParallelFor | `"changing call"` | `parallel for .. { let n = push(mut ref xs, i); }` is accepted: of the calls that take `mut ref` only names that build a vector are refused, against `src/README.md:280` | NoDataRace | `checker.rs:23331` |
| ParallelFor | `"filling call"` | a query of a shared Graph stores the tables it builds | NoDataRace | `backend_c.rs:2624` |
| ParallelFor | `"wrap"` | more threads than indices near the end of the type (`i8`, 3 threads over 126..127): a thread that should run nothing starts past the type's end, at its smallest value, and runs up from there | EachIndexOnce | `backend_llvm.rs:26823`, `26841` |
| ParallelFor | `"past half"` | tree backend: `parallel for i in 120u8..200u8` skips every index from 128 on, as the counter is sign-extended and compared with `ult` | EachIndexOnce | `backend_llvm.rs:26848` |
| ParallelFor | `"past half"` | `u64` ranges that start and end on two sides of 2^63, such as the empty 2^64 - 2 .. 0: the tree backend caps the slice with `slt` and compares with `ult`, the SSA backend compares with `slt` | EachIndexOnce | `backend_llvm.rs:26829`, `ssa_backend_llvm.rs:2410` |
| Affine | `"exit past view"` | `for v in &xs { break; }` with owning elements: the view is freed | NoDoubleFree | `checker.rs:9522` |
| Affine | `"shadow"` | `return` below an inner `let x` that hides an owning `x` | NoDoubleFree | `checker.rs:7839` |
| Affine | `"shadow"` | inner `let xs = push(xs, 1);`: C reads the new, uninitialized variable | NoStaleUse | `backend_c.rs:7036` |
| Affine | `"self assign"` | `xs = xs;` | NoDoubleFree | `checker.rs:7746` |
| Affine | `"field in block"` | `if c { let f = p.f; }` | NoDoubleFree | `checker.rs:8106` |
| Affine | `"field then assign"` | `let f = p.f; p = P { .. };` | NoDoubleFree | `backend_c.rs:7120` |
| Affine | `"exit past field"` | `break` after `let f = p.f;` in the loop's body | NoDoubleFree | `checker.rs:9526` |
| Affine | `"own view"` | `for v in &xs { let y = v; }` | NoDoubleFree | `checker.rs:9848` |
| Affine | `"change iterated"` | `for v in &xs { xs = ..; use v }` | NoStaleUse | `checker.rs:7746` |
| Affine | `"exit own loop"` | `for v in xs { break; }`: the slots not reached leak | NothingLeaked | `backend_c.rs:8112` |
| Affine | `"guard moved"` | `let h = g; let k = mutex_lock(m);` | NoDeadlock | `checker.rs:7579` against `src/README.md:2632` |
| Affine | `"guard reassigned"` | `g = mutex_lock(m2);` or a second `let g` in the scope: C stores the new guard and never unlocks the old mutex | NothingLeaked | `backend_c.rs:7191` |
| Affine | `"guard reassigned"` with `"assign"` | `let g = mutex_lock(m1); g = mutex_lock(m2); g = mutex_lock(m2);`: the checker still takes `g` for the guard of `m1` | NoDeadlock | `checker.rs:7766` |
| Affine | `"hidden lock"` | the callee locks inside an if-expression, a match or a call through a function value | NoDeadlock | `checker.rs:15516` |
| Affine | `"two names"` | two `ref` parameters are given the same mutex | NoDeadlock | `checker.rs:14618` |
| Affine | `"other order"` | a task takes the two mutexes in the other order | NoDeadlock | `src/README.md:681` |
| Affine | `"join under guard"` | `join t;` while holding a mutex `t` locks | NoDeadlock | `checker.rs:9330` |
| OwnedVec | `"clear leaks"` | LLVM: `clear` of elements that are structs or enums | OneOwner | `backend_llvm.rs:22720` |
| OwnedVec | `"shallow clone"` | `clone` of `Vec<enum with a Vec>`, in LLVM also of structs that hold a Vec or a struct with a Str | OneOwner | `backend_c.rs:6815`, `backend_llvm.rs:25115` |
| OwnedVec | `"enum field"` | elements that are structs with an owning enum: never freed | OneOwner | `backend_c.rs:8175` |
| OwnedVec | `"set past end"` | LLVM: `set` does not check the index | OneOwner | `backend_llvm.rs:24816` |
| IntVec | `"no order"` | `sort_by` with a comparator that is no order: the scans leave the array | LookupsAgree | `backend_c.rs:5903` |
| IntVec | `"impure predicate"` | a predicate that answers differently in the second pass of a filter | LookupsAgree | `backend_c.rs:6206` |
| IntVec | `"index past end"` | `swap` past the end | LookupsAgree | `backend_c.rs:9815` |
| IntMath | `"least"` | gcd and lcm of the least number, whose magnitude does not fit | LookupsAgree | `backend_llvm.rs:13875` |
| IntMath | `"most"` | `i64_isqrt` of the largest number, whose n + 1 wraps; `i64_div_round` when the sum wraps | LookupsAgree | `backend_llvm.rs:13968`, `9031` |
| IntMath | `"wide range"` | `i64_abs_diff` and `i64_wrap` of numbers that lie too far apart; against the comment a range that is not empty is left alone | LookupsAgree | `backend_llvm.rs:7037`, `14777` |
| IntMath | `"past last square"` | primes and divisors of a number at or above the last square of the width: the square of the trial divisor wraps | LookupsAgree | `backend_llvm.rs:14192` |
| IntMath | `"past last power"` | `i64_next_power_of_2` and `i64_log10_ceil` above the last power that fits; the latter may never end | LookupsAgree | `backend_llvm.rs:9311`, `14078` |
| IntMath | `"large modulus"` | `i64_pow_mod` when (m - 1) squared wraps, `i64_mod_inverse` when 2 m does | LookupsAgree | `backend_llvm.rs:14116`, `14635` |
| Ssa | `"copy"` with `"if"` | an `if` whose branches copy variables: a name whose new value equals the entry value of another is not merged | SameOutcome | `ssa.rs:1792` |
| Ssa | `"shadow"` | `let x` in a loop's body counts as an assignment to the outer `x` | SameOutcome | `ssa.rs:1345`, `1761` |
| Ssa | `"and"` | the right operand of `&&` is evaluated whatever the left one is | SameOutcome | `ssa.rs:1911` |
| Ssa | `"div by x"` | no guard against a zero divisor | SameOutcome | `ssa_backend_c.rs:1585` |
| Ssa | `"bare assert"` with the backend `"llvm"` | a failed `assert` without a message runs into LLVM's `unreachable`, undefined behaviour; C aborts, as `src/README.md:438` says of both | SameOutcome | `ssa.rs:695`, `ssa_backend_llvm.rs:4872` |
| Ssa | `"for to y"` | SSA evaluates the end of a range once, the tree C at every turn | SameOutcome | `backend_c.rs:7919` |
| Facts | `"outlived fact"` | the facts before an `if` or a loop are put back, although the body assigned the name | ElidedInBounds | `checker.rs:8048`, `8259` |
| Facts | `"loop constant"` | a constant known before a loop is used in its body, which changes it | ElidedInBounds | `checker.rs:23653` |
| Facts | `"use after step"` | a read after the step of a loop's variable: assignments in a loop drop no fact (`src/README.md:1729`) | ElidedInBounds | `checker.rs:7764` |
| Facts | `"jump after step"` | `continue` after an assignment: invariants are not checked there | InvariantsHold | `checker.rs:9182` |
| Facts | `"moving bound"` | the bound of a `for` range is assigned in its body | InvariantsHold | `checker.rs:8836` |
| Facts | `"call rebinds argument"` | `let i = above(i)`: the callee's promise mixes old and new `i` | ProvedHolds | `checker.rs:7515` |
| Facts | `"parameter reassigned"` | `ensures` is proved of the current value of a parameter that was rebound | EnsuresHold | `checker.rs:22715` |

`"shadow"` of FactsChecker (a name bound in two scopes at once) is left out for
another reason: the solver is then given a name twice and answers Unknown,
which `ensures` and call sites accept; no counterexample was looked for at
larger sizes.

## Proofs

TLC checks the instances above; the following holds for every value of the
constants. Nothing is assumed but the modules' ASSUMEs and what is said here.

`FutexMutexProofs`, for any set of threads and values and both hosts: type
correctness, `MutualExclusion`, `NoLostUpdate`, `NoLostWakeup` and the
refinement of `AbstractLock`. The inductive invariant is `LockInv`: `TypeOK`,
one owner, and `WordTracksOwner`, the word is 0 exactly when nobody owns the
lock, where a thread about to store 0 in its unlock still owns it. Mutual
exclusion alone is not inductive: nothing would say that the word a newcomer
finds at 0 means that there is no owner. `NoLostUpdate` and `NoLostWakeup` are
then proved with `LockInv` as a lemma.

`ChannelProofs`, for any producers and messages and every capacity from 2 on
(at capacity 1 the ring is not a bounded queue, see the table): `TypeOK`,
`NoDataRace`, `SendBlocksWhenFull` and the refinement of `AbstractChannel`. The
inductive invariant `RingInv` has four parts: types; `TicketInv`, the sequence
number of every slot is one of the two values its round allows; `ProducerInv`,
a writing producer holds a ticket between head and tail that no other producer
holds and whose slot says so; `ConsumerInv`, the same of the consumer's slot.
It says nothing of messages; `ContentInv`, which is proved with it as a lemma,
says that each claimed and unreceived ticket stands for one message, in its
slot when it is published and with its producer before. The queue of the
refinement is the function from tickets to messages, and a step of the ring is
a send, a receive or a stutter on it.

`CondvarProofs`, for any number of waiters, notifiers and posts and all five
variants: the condition variable and the program around it use the mutex as
`FutexMutex` specifies it (`MutexEmbedded`), so `LockInv` holds inside them
through INSTANCE; then `PredicateStable` and `NoLostNotify`, and
`NotifyReported` for the variants that compare `seq` with the snapshot (C on
Linux and polling; the others are in the table above). `ProgramInv` says how far
the lock code can be from where the program is, that what a guard showed is
still there when the waiter acts on it, and that the value is bounded by the
posts made, which are counted as pairs of a notifier and a number.
`NoLostNotify` is not inductive: it says nothing of a waiter between its
snapshot and its sleep, who has not yet heard of anything. `NotifyInv` adds
`SnapInv` (a snapshot is never ahead of `seq`), `BumpComing` (while there is an
item, a waiter that could still sleep on the present `seq` has a notifier before
its increment) and `WakeComing` (when all waiters sleep, one of them began after
the last increment, unless the wake that follows it is still to come); `Heard`
says of every waiter a notify met what its result will be computed from.

`ParallelForProofs` begins with the slices, for any bounds, worker counts and
widths that fit the wide type (`Admitted` excludes the overflow of the
intermediate sums): every index lies in exactly one slice (`SlicesCover`,
`SlicesInside`, `SlicesDisjoint`, `EachIndexInOneSlice`), the two LLVM backends
cut the same slices (`BackendsAgree`), and the truncated counter leaves the loop
at the slice's end or, if it is narrow and unsigned, at half its type when that
comes first (`CounterExact`). Then the three safety properties
of the run, for any captured names, bodies of any length, any loop and team:
`NoDataRace`, by `BodyInv`, every accepted statement is harmless (what it
touches is local, only read by all, or an atomic update of the reduction);
`ReductionExact`, by `CountInv`, the shared variable and the private copies not
yet combined add up to the updates made; `EachIndexOnce`, by `IndexInv`, a
thread has run the indices of its slice below its counter and no others, no
index was run twice, and slices do not meet. What is proved of the indices
first (`IndicesRun`) also covers narrow unsigned ranges past half their type:
no index is run twice, and exactly those below the half are run by the tree
backend; `EachIndexOnce` (`IndicesSafe`) is the case without such ranges.
`ThreadInv` and `TeamInv` say which
threads there are and what is known of the loop they were launched for. The first two
need the five combinations left out that the race check lets through
(`Allowed \subseteq {"wrap", "past half"}`), the third the loops that wrap
around and those that pass the half of an unsigned type (neither `"wrap"` nor
`"past half"` in `Allowed`); these are the counterexamples of the table.

`HashTableProofs`, for any capacities and any hash, under `Sized` (a first
capacity of at least two, hashes that are numbers): the invariant `Table` says
that occupied slots hold distinct keys (`Once`), that no slot between a key's
own slot and where it is is empty (`Reached`), that `len` and `tombstones` count
the slots, and that a slot is left over (`Spare`). Without the last a probe for
an absent key would not end, and it depends on when the table grows. `WalkFinds`
says where a walk stops; `Stored`, `Overwritten`, `RemovedSafe` and
`InsertRawSafe` what each change does to the content, and `MovedIs` and
`GrownSafe` that moving all entries to a larger table loses and doubles none.

`TablesProofs` brings these together for the containers of `Tables`, which the
run containers checks beside the others, and adds the deque: the invariant
`Ring`, and what each operation does to the content read from `front` on,
growing a wrapped ring included, and the union-find, for any number of
elements: `Sound` says that ranks grow along every link (`Ranked`), that every
rank below one in use is in use too (`Filled`, so that no rank reaches the
number of elements), and that `sets` counts the blocks. Ranks bound the length
of a path, so every find comes to a root (`PathEnds`); compression is shown to
change no element's root (`RootsKnown`), so a union joins the two blocks and
nothing else. `WalksSafe`, `TablesRefine` and `UnionsJoin`
hold of `TableSpec`, the part of the system with these four kinds, for any
keys, values, hashes, capacities and sizes; nothing is assumed but
`TablesAssumption`. What they say of a `Containers` program is the same: it has
one container, and `kind` never changes.

The facts about division and remainder that slots of a ring need are stated
where they are used. Three about induction are in `HashTableProofs`: a set of
numbers that is not empty has a least one (`LeastNumber`), and what holds of 0
and goes from each number to the next holds of all, said of the set of those
numbers (`UpTo`). The library's induction theorems take an operator and cannot
be used; for a set of numbers the well-foundedness of `<` is enough, so walks,
moves and paths, which are recursive functions of a number, are within reach.
Induction over other data (trees, programs, terms) is not.

`AffineNotes` and `AffineProofs` are about the ownership pass and the program it
lets through: `TasksAreJoined` (`TasksJoined`) and `NamesInScope` (every
variable an instruction names is declared in a C block that is still open, the
second half of `NoStaleUse`). They hold for any names, bodies, menus, mutexes and
callees under two assumptions: `Tame`, no menu allows one of the `Hazards`, the
forms with which the pass is known to be wrong (that is how `Affine.cfg` is
bounded, and dropping it is the run `affine_task_return`), and `"ret" \notin Names`, as
no binding has the name the C backend gives the returned value.
The pass is forgotten when the program runs, so the proof keeps what it knew: a
*note* for every instruction, the Env the checker had there, the blocks it
stands in and what waits besides. That notes exist is an invariant of the pass
(`Pass`, with `State` for what is written so far): each operation of the checker,
the drops it inserts at the end of a scope, at a jump, and in the branch of a
conditional that moved less, extends them. It is not inductive to say only that
each note follows from the one before: jumps go to the end or the head of a loop
and branches meet, so `Fit` says of every instruction how it agrees with the one
that opened its block, and `MergeOK` how the two branches agree. The drops of a
then branch are inserted before an `else` that is already written, which moves
every later instruction (`InsertedTrace`). A body in which the check finds a join
outside the block of its spawn stays refused whatever follows (`Lost`). When the
pass accepts, the notes are `Settled`, and `Runs` says of the run that the C
blocks hold the variables of the note at `pc` and no others, and that every task
not yet joined is in a variable that the note calls an unjoined handle. A return
stands at a note where nothing is left, hence `TasksJoined`.

Only model-checked:

- every liveness property (LockProgress, ItemsTaken, AllDelivered, LoopEnds):
  fairness and ENABLED are out of the prover's reach;
- the containers that `Containers` adds to `Tables`: the AVL tree, the heap,
  the vector sorts and the number calls are RECURSIVE operators and some use
  Bitwise, which the provers cannot reach, and the module that composes them
  reaches them all; the sorted table, the skip list, the trie and the graph
  could be proved about by themselves and are not;
- SSA and the facts: `SsaSource`, `SsaLowering`, `SsaPasses` and `FactsLogic` are
  recursive over programs and terms;
- of the ownership pass, `NoDoubleFree`, `NothingLeaked`, the `stale` half of
  `NoStaleUse` and `NoDeadlock`: the first three need the invariant of the run to
  say what every variable holds and which buffer belongs to whom, the last an
  order of the locks.

## Not modelled

- Of the runtime: the 32-bit wrap-around of a condition variable's `seq` (it
  takes 2^32 notifies between two instructions); a second consumer of a
  channel (the channel is documented as single-consumer and nothing checks
  it); weak memory (every atomic access is sequentially consistent in the
  emitted code, and the plain accesses are shown not to overlap); `Atomic<T>`;
  matrices, strings and floating-point helpers; number calls with a zero
  divisor or a bit count outside the word, which check nothing; `try_vec`; sorting and searching of
  fixed arrays and the SSA emitter's copies of the vector calls; the
  wrap-around of sums.
- Of the double-lock analysis: callees with more than one mutex parameter, and
  of task bodies all but their locks.
- Of the ownership pass: counted loops, tuple and let-else bindings, index and
  field assignment, match, block expressions, calls that move arguments, and
  the LLVM form of the program (it evaluates an initializer before it
  registers the variable, so the uninitialized read is the C backend's).
- Of the race check: calls with effects other than on a container (printing,
  assertions, struct updates), and loops in bodies the SSA backend lowers.
- Of SSA: heap values and drops, calls, parallel regions and tasks, bounds
  elision and the two audits. `remove_dead_instructions` does not count the
  operands of RefOf, Drop and IndexAssign as uses (`ssa_pass.rs:442-505`);
  these are outside the model.
- Of facts: array elements and their versions, Vec builtins, struct fields,
  floats, inlined calls, division and shift guards, the query cache and solver
  timeouts; integers are unsigned words.
- `lib.rs` is the crate's test suite for all but a few lines. Type checking
  and inference, the lexer, parser and formatter are sequential tree and text
  processing whose interest is in their data. The driver, the manifest search
  and the language server are file and protocol input and output.

## What could come next

1. Moved call arguments, match and let-else in the ownership pass.
2. Facts about array elements (versions), Vec builtins and the query cache.
3. SSA drops and parallel regions with their audits.
4. The include cycle check and the language server's document store.
5. Proofs: `NoDoubleFree` and `NothingLeaked`, on the notes of `AffineNotes`; the
   sorted table as a further part of `Tables`.
