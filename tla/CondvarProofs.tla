---------------------------- MODULE CondvarProofs ----------------------------
(***************************************************************************)
(* Proofs about Condvar for any number of waiters and notifiers, any       *)
(* number of posts and every emitted variant.                              *)
(*                                                                         *)
(* The program of a condition variable uses the mutex as FutexMutex says,  *)
(* so what FutexMutexProofs shows of a step of the lock holds here. That   *)
(* the posted values fit the cell needs a count: a post is a pair of a     *)
(* notifier and the number of posts it had left.                           *)
(***************************************************************************)
EXTENDS Condvar, FiniteSetTheorems, TLAPS

MP == INSTANCE FutexMutexProofs WITH
        host <- IF KernelWait THEN "kernel" ELSE "polling"

(* Where the two roles can be.                                              *)
WaiterPlaces == {"lock", "snapshot", "release", "cvpark", "cvasleep", "result", "take", "drop"}
NotifierPlaces == {"lock", "postdrop", "bump", "wakeone", "wakeall", "drop", "done"}

Types == /\ backend \in Backends
         /\ seq \in Nat
         /\ cpc \in [Threads -> WaiterPlaces \union NotifierPlaces]
         /\ \A w \in Waiters : cpc[w] \in WaiterPlaces
         /\ \A n \in Notifiers : cpc[n] \in NotifierPlaces
         /\ snap \in [Waiters -> Nat]
         /\ timed \in [Waiters -> BOOLEAN]
         /\ rc \in [Waiters -> {"none", "again", "timeout", "woken", "eintr"}]
         /\ result \in [Waiters -> BOOLEAN]
         /\ signalled \subseteq Waiters
         /\ left \in [Notifiers -> 0 .. Posts]

(* How far the lock code can be, from where the program is.                 *)
GuardPlaces ==
  \A t \in Threads :
    /\ cpc[t] = "lock" => pc[t] \in {"idle", "mark", "park", "asleep", "spin", "held"}
    /\ cpc[t] \in {"snapshot", "take"} => pc[t] = "held"
    /\ cpc[t] \in {"release", "postdrop", "drop"} => pc[t] \in {"held", "reset", "wake"}
    /\ cpc[t] \in {"cvpark", "cvasleep", "result", "done"} => pc[t] = "idle"
    /\ cpc[t] \in {"bump", "wakeone", "wakeall"} => pc[t] \in {"held", "idle"}

(* What the guard showed is still there when the waiter acts on it.         *)
GuardCurrent ==
  \A w \in Waiters : /\ cpc[w] = "take" => value > 0 /\ seen[w] = value
                     /\ cpc[w] = "snapshot" => value = 0

(* The posts made so far.                                                   *)
Posted == {p \in Notifiers \X (1 .. Posts) : p[2] > left[p[1]]}
ValueCounts == value \in Nat /\ value <= Cardinality(Posted)

ProgramInv == Types /\ GuardPlaces /\ GuardCurrent /\ ValueCounts

-----------------------------------------------------------------------------
(* The mutex in Condvar and in the proofs about it are the same.            *)
LEMMA SameMutex == [M!Next]_M!vars <=> [MP!Next]_MP!vars
BY DEF M!Next, MP!Next, M!vars, MP!vars, M!Lock, MP!Lock, M!Unlock, MP!Unlock,
       M!GuardGet, MP!GuardGet, M!GuardSet, MP!GuardSet, M!SpuriousReturn, MP!SpuriousReturn,
       M!Goto, MP!Goto, M!LockFast, MP!LockFast, M!LockSpin, MP!LockSpin,
       M!LockMark, MP!LockMark, M!LockPark, MP!LockPark, M!UnlockSub, MP!UnlockSub,
       M!UnlockReset, MP!UnlockReset, M!UnlockWake, MP!UnlockWake,
       M!UnlockSpin, MP!UnlockSpin, M!Sleepers, MP!Sleepers

(* There are at most Posts posts of each notifier.                          *)
LEMMA PostedBounded ==
  ASSUME left \in [Notifiers -> 0 .. Posts]
  PROVE  IsFiniteSet(Posted) /\ Cardinality(Posted) <= Posts * Cardinality(Notifiers)
<1>1. IsFiniteSet(1 .. Posts) /\ Cardinality(1 .. Posts) = Posts
  BY PostsAssumption, FS_Interval
<1>2. /\ IsFiniteSet(Notifiers \X (1 .. Posts))
      /\ Cardinality(Notifiers \X (1 .. Posts)) = Cardinality(Notifiers) * Posts
  BY <1>1, FiniteAssumption, FS_Product
<1>3. Posted \subseteq Notifiers \X (1 .. Posts)
  BY DEF Posted
<1>4. IsFiniteSet(Posted) /\ Cardinality(Posted) <= Cardinality(Notifiers) * Posts
  BY <1>2, <1>3, FS_Subset
<1>5. Cardinality(Notifiers) \in Nat
  BY FiniteAssumption, FS_CardinalityType
<1>. QED
  BY <1>4, <1>5, PostsAssumption

(* A post is a new one.                                                     *)
LEMMA PostedGrows ==
  ASSUME left \in [Notifiers -> 0 .. Posts],
         NEW n \in Notifiers, left[n] > 0,
         left' = [left EXCEPT ![n] = @ - 1]
  PROVE  Cardinality(Posted') = Cardinality(Posted) + 1
<1>1. Posted' = Posted \union {<<n, left[n]>>}
  BY PostsAssumption DEF Posted
<1>2. <<n, left[n]>> \notin Posted
  BY DEF Posted
<1>3. IsFiniteSet(Posted)
  BY PostedBounded
<1>. QED
  BY <1>1, <1>2, <1>3, FS_AddElement

LEMMA ValuesFit ==
  ASSUME ProgramInv
  PROVE  /\ value \in Values
         /\ \A n \in Notifiers : left[n] > 0 => value + 1 \in Values
<1>1. /\ Cardinality(Posted) <= Posts * Cardinality(Notifiers)
      /\ Cardinality(Posted) \in Nat /\ Posts * Cardinality(Notifiers) \in Nat
  BY PostedBounded, FiniteAssumption, PostsAssumption, FS_CardinalityType DEF ProgramInv, Types
<1>2. value \in Values
  BY <1>1 DEF Values, ProgramInv, ValueCounts
<1>3. ASSUME NEW n \in Notifiers, left[n] > 0
      PROVE  value + 1 \in Values
  <2>. DEFINE rest == (Notifiers \X (1 .. Posts)) \ {<<n, left[n]>>}
  <2>1. Posted \subseteq rest
    BY DEF Posted
  <2>2. <<n, left[n]>> \in Notifiers \X (1 .. Posts)
    BY <1>3 DEF ProgramInv, Types
  <2>3. IsFiniteSet(1 .. Posts) /\ Cardinality(1 .. Posts) = Posts
    BY PostsAssumption, FS_Interval
  <2>4. /\ IsFiniteSet(Notifiers \X (1 .. Posts))
        /\ Cardinality(Notifiers \X (1 .. Posts)) = Cardinality(Notifiers) * Posts
    BY <2>3, FiniteAssumption, FS_Product
  <2>5. IsFiniteSet(rest) /\ Cardinality(rest) = Cardinality(Notifiers) * Posts - 1
    BY <2>2, <2>4, FS_RemoveElement
  <2>6. Cardinality(Posted) <= Cardinality(rest)
    BY <2>1, <2>5, FS_Subset
  <2>7. Cardinality(Notifiers) \in Nat
    BY FiniteAssumption, FS_CardinalityType
  <2>. HIDE DEF rest
  <2>. QED
    BY <1>1, <2>5, <2>6, <2>7, PostsAssumption DEF Values, ProgramInv, ValueCounts
<1>. QED
  BY <1>2, <1>3

(* Whatever the program does, the mutex makes one of its own steps or none: *)
(* the runtime touches the cell only through the guard.                     *)
LEMMA MutexStep == ProgramInv /\ [Next]_vars => [M!Next]_M!vars
<1>. SUFFICES ASSUME ProgramInv, [Next]_vars
              PROVE  M!Next \/ UNCHANGED M!vars
  OBVIOUS
<1>0. UNCHANGED (IF KernelWait THEN "kernel" ELSE "polling")
  BY DEF Next, vars, KernelWait
<1>1. ASSUME NEW t \in Threads, LockStep(t) \/ MutexSpurious(t)
      PROVE  M!Next
  BY <1>0, <1>1 DEF LockStep, Acquire, ReleaseGuard, MutexSpurious, M!Next
<1>2. ASSUME NEW w \in Waiters, TestPredicate(w)
      PROVE  M!Next
  BY <1>0, <1>2 DEF TestPredicate, M!Next, Threads
<1>3. ASSUME NEW w \in Waiters, TakeItem(w)
      PROVE  M!Next
  <2>1. value \in Values /\ value > 0 /\ seen[w] = value
    BY <1>3, ValuesFit DEF TakeItem, ProgramInv, GuardCurrent
  <2>2. seen[w] - 1 \in Values
    BY <2>1, PostsAssumption, FiniteAssumption, FS_CardinalityType DEF Values
  <2>3. w \in Threads /\ M!GuardSet(w, seen[w] - 1)
    BY <1>3 DEF TakeItem, Threads
  <2>. QED
    BY <1>0, <2>2, <2>3 DEF M!Next
<1>4. ASSUME NEW n \in Notifiers, Post(n)
      PROVE  M!Next
  <2>1. value + 1 \in Values
    BY <1>4, ValuesFit DEF Post
  <2>2. n \in Threads /\ M!GuardSet(n, value + 1)
    BY <1>4 DEF Post, Threads
  <2>. QED
    BY <1>0, <2>1, <2>2 DEF M!Next
<1>5. ASSUME UNCHANGED mutexVars
      PROVE  UNCHANGED M!vars
  BY <1>0, <1>5 DEF mutexVars, M!vars
<1>6. ASSUME NEW w \in Waiters, WaitSnapshot(w) \/ WaitPark(w) \/ WaitResult(w)
                                \/ WaitTimeout(w) \/ WaitSpurious(w)
      PROVE  UNCHANGED mutexVars
  BY <1>6 DEF WaitSnapshot, WaitPark, WaitResult, WaitTimeout, WaitSpurious
<1>7. ASSUME NEW n \in Notifiers, NotifyBump(n) \/ NotifyWake(n)
      PROVE  UNCHANGED mutexVars
  BY <1>7 DEF NotifyBump, NotifyWake
<1>8. ASSUME UNCHANGED vars
      PROVE  UNCHANGED mutexVars
  BY <1>8 DEF vars
<1>. QED
  BY <1>1, <1>2, <1>3, <1>4, <1>5, <1>6, <1>7, <1>8 DEF Next, WaiterStep, NotifierStep

(* A wake reaches somebody when a thread sleeps in the kernel, and the      *)
(* notifier is never one of those it wakes.                                 *)
LEMMA WakeChoice ==
  ASSUME NEW n \in Notifiers, NotifyWake(n)
  PROVE  \E woken \in SUBSET CvSleepers :
           /\ n \notin woken
           /\ ~KernelWait => woken = {}
           /\ KernelWait /\ CvSleepers # {} => woken # {}
           /\ rc' = [w \in Waiters |-> IF w \in woken THEN "woken" ELSE rc[w]]
           /\ cpc' = [t \in Threads |-> IF t \in woken THEN "result"
                                       ELSE IF t = n THEN AfterNotify(n) ELSE cpc[t]]
           /\ signalled' = signalled \union woken \union
                 {w \in Waiters : cpc[w] \in {"release", "cvpark"} /\ seq # snap[w]}
<1>1. \A woken \in SUBSET CvSleepers : n \notin woken
  BY DEF CvSleepers, NotifyWake
<1>. QED
  BY <1>1, FS_EmptySet, SMTT(60) DEF NotifyWake

-----------------------------------------------------------------------------
(* ProgramInv is inductive. One lemma for each of its parts.                *)

(* The program's own state keeps its types.                                 *)
LEMMA TypesStep == ProgramInv /\ [Next]_vars => Types'
<1>. SUFFICES ASSUME ProgramInv, [Next]_vars PROVE Types'
  OBVIOUS
<1>0. backend' = backend
  BY DEF Next, vars
<1>. USE <1>0 DEF ProgramInv, Types, WaiterPlaces, NotifierPlaces, Goto, waitVars, LeaveKernel
<1>1. ASSUME NEW t \in Threads, Acquire(t) PROVE Types'
  BY <1>1 DEF Acquire
<1>2. ASSUME NEW t \in Threads, ReleaseGuard(t) PROVE Types'
  BY <1>2, RolesAssumption DEF ReleaseGuard, AfterUnlock, Threads
<1>3. ASSUME NEW t \in Threads, MutexSpurious(t) PROVE Types'
  BY <1>3 DEF MutexSpurious
<1>4. ASSUME NEW w \in Waiters, TestPredicate(w) PROVE Types'
  BY <1>4, RolesAssumption DEF TestPredicate, Threads
<1>5. ASSUME NEW w \in Waiters, TakeItem(w) PROVE Types'
  BY <1>5, RolesAssumption DEF TakeItem, Threads
<1>6. ASSUME NEW w \in Waiters, WaitSnapshot(w) PROVE Types'
  BY <1>6, RolesAssumption, WaitsAssumption DEF WaitSnapshot, Threads
<1>7. ASSUME NEW w \in Waiters, WaitPark(w) PROVE Types'
  BY <1>7, RolesAssumption DEF WaitPark, Threads
<1>8. ASSUME NEW w \in Waiters, WaitTimeout(w) PROVE Types'
  BY <1>8, RolesAssumption DEF WaitTimeout, Threads
<1>9. ASSUME NEW w \in Waiters, WaitSpurious(w) PROVE Types'
  BY <1>9, RolesAssumption DEF WaitSpurious, Threads
<1>10. ASSUME NEW w \in Waiters, WaitResult(w) PROVE Types'
  BY <1>10, RolesAssumption DEF WaitResult, Notified, Threads
<1>11. ASSUME NEW n \in Notifiers, Post(n) PROVE Types'
  BY <1>11, RolesAssumption, PostsAssumption DEF Post, Threads
<1>12. ASSUME NEW n \in Notifiers, NotifyBump(n) PROVE Types'
  BY <1>12, RolesAssumption DEF NotifyBump, Threads
<1>13. ASSUME NEW n \in Notifiers, NotifyWake(n) PROVE Types'
  <2>1. UNCHANGED <<seq, snap, timed, result, left>>
    BY <1>13 DEF NotifyWake
  <2>. QED
    BY <1>13, <2>1, WakeChoice, RolesAssumption DEF AfterNotify, CvSleepers, Threads
<1>14. CASE UNCHANGED vars
  BY <1>14 DEF vars
<1>. QED
  BY <1>1, <1>2, <1>3, <1>4, <1>5, <1>6, <1>7, <1>8, <1>9, <1>10, <1>11, <1>12, <1>13, <1>14
     DEF Next, LockStep, WaiterStep, NotifierStep

(* The lock code and the program stay in step: nobody but its owner moves a *)
(* guard, and a wake-up of the mutex reaches only a thread that locks it.    *)
LEMMA GuardPlacesStep == ProgramInv /\ MP!LockInv /\ [Next]_vars => GuardPlaces'
<1>. SUFFICES ASSUME ProgramInv, MP!LockInv, [Next]_vars PROVE GuardPlaces'
  OBVIOUS
<1>0. backend' = backend
  BY DEF Next, vars
<1>. USE <1>0, RolesAssumption DEF ProgramInv, Types, GuardPlaces, MP!LockInv, MP!TypeOK, MP!PCs, Threads, Goto, M!Goto, LeaveKernel,
           WaiterPlaces, NotifierPlaces
<1>1. ASSUME NEW t \in Threads, Acquire(t) PROVE GuardPlaces'
  BY <1>1 DEF Acquire, M!Lock, M!LockFast, M!LockMark, M!LockPark, M!LockSpin
<1>2. ASSUME NEW t \in Threads, ReleaseGuard(t) PROVE GuardPlaces'
  BY <1>2 DEF ReleaseGuard, AfterUnlock, M!Unlock, M!UnlockSub, M!UnlockReset,
               M!UnlockWake, M!UnlockSpin, M!Sleepers
<1>3. ASSUME NEW t \in Threads, MutexSpurious(t) PROVE GuardPlaces'
  BY <1>3 DEF MutexSpurious, M!SpuriousReturn
<1>4. ASSUME NEW w \in Waiters, TestPredicate(w) PROVE GuardPlaces'
  BY <1>4 DEF TestPredicate, M!GuardGet
<1>5. ASSUME NEW w \in Waiters, TakeItem(w) PROVE GuardPlaces'
  BY <1>5 DEF TakeItem, M!GuardSet
<1>6. ASSUME NEW w \in Waiters, WaitSnapshot(w) PROVE GuardPlaces'
  BY <1>6 DEF WaitSnapshot, mutexVars
<1>7. ASSUME NEW w \in Waiters, WaitPark(w) PROVE GuardPlaces'
  BY <1>7 DEF WaitPark, mutexVars
<1>8. ASSUME NEW w \in Waiters, WaitTimeout(w) PROVE GuardPlaces'
  BY <1>8 DEF WaitTimeout, mutexVars
<1>9. ASSUME NEW w \in Waiters, WaitSpurious(w) PROVE GuardPlaces'
  BY <1>9 DEF WaitSpurious, mutexVars
<1>10. ASSUME NEW w \in Waiters, WaitResult(w) PROVE GuardPlaces'
  BY <1>10 DEF WaitResult, mutexVars
<1>11. ASSUME NEW n \in Notifiers, Post(n) PROVE GuardPlaces'
  BY <1>11 DEF Post, M!GuardSet
<1>12. ASSUME NEW n \in Notifiers, NotifyBump(n) PROVE GuardPlaces'
  BY <1>12 DEF NotifyBump, mutexVars
<1>13. ASSUME NEW n \in Notifiers, NotifyWake(n) PROVE GuardPlaces'
  <2>1. UNCHANGED mutexVars
    BY <1>13 DEF NotifyWake
  <2>2. cpc[n] \in {"wakeone", "wakeall"}
    BY <1>13 DEF NotifyWake
  <2>. QED
    BY <1>13, <2>1, <2>2, WakeChoice DEF AfterNotify, CvSleepers, mutexVars
<1>14. CASE UNCHANGED vars
  BY <1>14 DEF vars, mutexVars, waitVars
<1>. QED
  BY <1>1, <1>2, <1>3, <1>4, <1>5, <1>6, <1>7, <1>8, <1>9, <1>10, <1>11, <1>12, <1>13, <1>14
     DEF Next, LockStep, WaiterStep, NotifierStep

(* A thread with the guard keeps what it saw in the cell: whoever else      *)
(* writes it would have to be a second owner.                              *)
LEMMA GuardCurrentStep == ProgramInv /\ MP!LockInv /\ [Next]_vars => GuardCurrent'
<1>. SUFFICES ASSUME ProgramInv, MP!LockInv, [Next]_vars PROVE GuardCurrent'
  OBVIOUS
<1>0. backend' = backend
  BY DEF Next, vars
<1>. USE <1>0, RolesAssumption DEF ProgramInv, Types, GuardPlaces, GuardCurrent, ValueCounts,
           MP!LockInv, MP!TypeOK, MP!MutualExclusion, MP!Owners, Threads, Goto, M!Goto, LeaveKernel,
           WaiterPlaces, NotifierPlaces
<1>1. ASSUME NEW t \in Threads, Acquire(t) PROVE GuardCurrent'
  BY <1>1 DEF Acquire, M!Lock, M!LockFast, M!LockMark, M!LockPark, M!LockSpin
<1>2. ASSUME NEW t \in Threads, ReleaseGuard(t) PROVE GuardCurrent'
  BY <1>2 DEF ReleaseGuard, AfterUnlock, M!Unlock, M!UnlockSub, M!UnlockReset,
               M!UnlockWake, M!UnlockSpin, M!Sleepers
<1>3. ASSUME NEW t \in Threads, MutexSpurious(t) PROVE GuardCurrent'
  BY <1>3 DEF MutexSpurious, M!SpuriousReturn
<1>4. ASSUME NEW w \in Waiters, TestPredicate(w) PROVE GuardCurrent'
  BY <1>4 DEF TestPredicate, M!GuardGet
<1>5. ASSUME NEW w \in Waiters, TakeItem(w) PROVE GuardCurrent'
  BY <1>5 DEF TakeItem, M!GuardSet
<1>6. ASSUME NEW w \in Waiters, WaitSnapshot(w) PROVE GuardCurrent'
  BY <1>6 DEF WaitSnapshot, mutexVars
<1>7. ASSUME NEW w \in Waiters, WaitPark(w) PROVE GuardCurrent'
  BY <1>7 DEF WaitPark, mutexVars
<1>8. ASSUME NEW w \in Waiters, WaitTimeout(w) PROVE GuardCurrent'
  BY <1>8 DEF WaitTimeout, mutexVars
<1>9. ASSUME NEW w \in Waiters, WaitSpurious(w) PROVE GuardCurrent'
  BY <1>9 DEF WaitSpurious, mutexVars
<1>10. ASSUME NEW w \in Waiters, WaitResult(w) PROVE GuardCurrent'
  BY <1>10 DEF WaitResult, mutexVars
<1>11. ASSUME NEW n \in Notifiers, Post(n) PROVE GuardCurrent'
  BY <1>11 DEF Post, M!GuardSet
<1>12. ASSUME NEW n \in Notifiers, NotifyBump(n) PROVE GuardCurrent'
  BY <1>12 DEF NotifyBump, mutexVars
<1>13. ASSUME NEW n \in Notifiers, NotifyWake(n) PROVE GuardCurrent'
  <2>1. UNCHANGED mutexVars
    BY <1>13 DEF NotifyWake
  <2>2. cpc[n] \in {"wakeone", "wakeall"}
    BY <1>13 DEF NotifyWake
  <2>. QED
    BY <1>13, <2>1, <2>2, WakeChoice DEF AfterNotify, CvSleepers, mutexVars
<1>14. CASE UNCHANGED vars
  BY <1>14 DEF vars, mutexVars, waitVars
<1>. QED
  BY <1>1, <1>2, <1>3, <1>4, <1>5, <1>6, <1>7, <1>8, <1>9, <1>10, <1>11, <1>12, <1>13, <1>14
     DEF Next, LockStep, WaiterStep, NotifierStep

(* The cell never holds more than was posted.                               *)
LEMMA ValueCountsStep == ProgramInv /\ [Next]_vars => ValueCounts'
<1>. SUFFICES ASSUME ProgramInv, [Next]_vars PROVE ValueCounts'
  OBVIOUS
<1>0. Cardinality(Posted) \in Nat
  BY PostedBounded, FS_CardinalityType DEF ProgramInv, Types
<1>1. ASSUME UNCHANGED <<value, left>>
      PROVE  ValueCounts'
  BY <1>1 DEF ProgramInv, ValueCounts, Posted
<1>2. ASSUME NEW t \in Threads, LockStep(t) \/ MutexSpurious(t)
      PROVE  UNCHANGED <<value, left>>
  BY <1>2 DEF LockStep, Acquire, ReleaseGuard, MutexSpurious, M!SpuriousReturn, M!Lock, M!LockFast,
              M!LockMark, M!LockPark, M!LockSpin, M!Unlock, M!UnlockSub, M!UnlockReset,
              M!UnlockWake, M!UnlockSpin
<1>3. ASSUME NEW w \in Waiters, TestPredicate(w)
      PROVE  UNCHANGED <<value, left>>
  BY <1>3 DEF TestPredicate, M!GuardGet
<1>4. ASSUME NEW w \in Waiters, TakeItem(w)
      PROVE  ValueCounts'
  <2>1. value > 0 /\ seen[w] = value
    BY <1>4 DEF TakeItem, ProgramInv, GuardCurrent
  <2>2. value' = value - 1 /\ Posted' = Posted
    BY <1>4, <2>1 DEF TakeItem, M!GuardSet, Posted
  <2>. QED
    BY <1>0, <2>1, <2>2 DEF ProgramInv, ValueCounts
<1>5. ASSUME NEW n \in Notifiers, Post(n)
      PROVE  ValueCounts'
  <2>1. value' = value + 1
    BY <1>5 DEF Post, M!GuardSet
  <2>2. Cardinality(Posted') = Cardinality(Posted) + 1
    BY <1>5, PostedGrows DEF Post, ProgramInv, Types
  <2>. QED
    BY <1>0, <2>1, <2>2 DEF ProgramInv, ValueCounts
<1>6. ASSUME NEW w \in Waiters, WaitSnapshot(w) \/ WaitPark(w) \/ WaitResult(w)
                                \/ WaitTimeout(w) \/ WaitSpurious(w)
      PROVE  UNCHANGED <<value, left>>
  BY <1>6 DEF WaitSnapshot, WaitPark, WaitResult, WaitTimeout, WaitSpurious, mutexVars
<1>7. ASSUME NEW n \in Notifiers, NotifyBump(n) \/ NotifyWake(n)
      PROVE  UNCHANGED <<value, left>>
  BY <1>7 DEF NotifyBump, NotifyWake, mutexVars
<1>8. CASE UNCHANGED vars
  BY <1>1, <1>8 DEF vars, mutexVars
<1>. QED
  BY <1>1, <1>2, <1>3, <1>4, <1>5, <1>6, <1>7, <1>8 DEF Next, WaiterStep, NotifierStep

-----------------------------------------------------------------------------
LEMMA ProgramInvInductive == Spec => [](ProgramInv /\ MP!LockInv)
<1>1. Init => ProgramInv /\ MP!LockInv
  <2>. SUFFICES ASSUME Init PROVE ProgramInv /\ MP!LockInv
    OBVIOUS
  <2>1. Types
    BY PostsAssumption, RolesAssumption DEF Init, Types, Threads, WaiterPlaces, NotifierPlaces
  <2>2. GuardPlaces /\ GuardCurrent
    BY DEF Init, GuardPlaces, GuardCurrent, Threads
  <2>3. ValueCounts
    BY <2>1, PostedBounded, FS_CardinalityType DEF Init, ValueCounts, Types
  <2>4. value \in Values
    BY <2>1, <2>2, <2>3, ValuesFit DEF ProgramInv
  <2>5. MP!LockInv
    BY <2>4 DEF Init, MP!LockInv, MP!TypeOK, MP!Hosts, MP!PCs, MP!MutualExclusion,
                MP!WordTracksOwner, MP!Owners
  <2>. QED
    BY <2>1, <2>2, <2>3, <2>5 DEF ProgramInv
<1>2. ProgramInv /\ MP!LockInv /\ [Next]_vars => (ProgramInv /\ MP!LockInv)'
  <2>. SUFFICES ASSUME ProgramInv, MP!LockInv, [Next]_vars
                PROVE  ProgramInv' /\ MP!LockInv'
    OBVIOUS
  <2>1. MP!LockInv'
    BY MutexStep, SameMutex, MP!LockInvStep, NoValueAssumption
  <2>2. ProgramInv'
    BY TypesStep, GuardPlacesStep, GuardCurrentStep, ValueCountsStep DEF ProgramInv
  <2>. QED
    BY <2>1, <2>2
<1>. QED
  BY <1>1, <1>2, PTL DEF Spec

(* wait, notify and the program around them use the mutex as FutexMutex     *)
(* specifies it, cell included: every step of theirs is a step of the lock  *)
(* or leaves it alone. So what is proved of the mutex holds inside them.    *)
THEOREM MutexEmbedded == Spec => M!Spec
<1>1. Init => M!Init
  <2>1. Init => value \in Values
    BY PostsAssumption, FiniteAssumption, FS_CardinalityType DEF Init, Values
  <2>. QED
    BY <2>1 DEF Init, M!Init, M!Hosts
<1>. QED
  BY <1>1, MutexStep, ProgramInvInductive, PTL DEF Spec, M!Spec

(* wait returns with the mutex held, so what the loop test showed stays     *)
(* true until the waiter takes the item (guard_get ... guard_set under one  *)
(* guard in examples/condvar.vani).                                         *)
THEOREM PredicateSafe == Spec => []PredicateStable
<1>1. ProgramInv => PredicateStable
  BY DEF ProgramInv, GuardCurrent, PredicateStable
<1>. QED
  BY <1>1, ProgramInvInductive, PTL

-----------------------------------------------------------------------------
(* No lost notify                                                           *)

(* seq only grows, and only a host with a kernel wait has sleepers.         *)
SnapInv == \A w \in Waiters : /\ snap[w] <= seq
                              /\ cpc[w] = "cvasleep" => KernelWait

(* A wait whose snapshot is still current began before the post: then the   *)
(* poster has yet to advance seq.                                           *)
BumpComing ==
  value > 0 =>
    \A w \in Waiters : (cpc[w] \in {"release", "cvpark", "cvasleep"} /\ snap[w] = seq) =>
      \E n \in Notifiers : cpc[n] \in {"postdrop", "bump"}

(* When all waiters sleep, one of them slept after the last advance, unless *)
(* the wake that belongs to it is still to come.                            *)
WakeComing ==
  (Waiters # {} /\ CvSleepers = Waiters) =>
    \/ \E w \in Waiters : snap[w] = seq
    \/ \E n \in Notifiers : cpc[n] \in {"wakeone", "wakeall"}

NotifyInv == SnapInv /\ BumpComing /\ WakeComing

(* The snapshot is taken under the mutex with nothing to take, and each     *)
(* advance of seq is followed by its own wake.                              *)
LEMMA NotifyInvStep == ProgramInv /\ NotifyInv /\ [Next]_vars => NotifyInv'
<1>. SUFFICES ASSUME ProgramInv, NotifyInv, [Next]_vars PROVE NotifyInv'
  OBVIOUS
<1>0. backend' = backend
  BY DEF Next, vars
<1>. USE <1>0, RolesAssumption DEF ProgramInv, Types, GuardCurrent, ValueCounts, NotifyInv, SnapInv, BumpComing, WakeComing,
           CvSleepers, Threads, Goto, LeaveKernel, KernelWait, WaiterPlaces, NotifierPlaces
<1>1. ASSUME NEW t \in Threads, Acquire(t) PROVE NotifyInv'
  BY <1>1 DEF Acquire, waitVars, M!Lock, M!LockFast, M!LockMark, M!LockPark, M!LockSpin
<1>2. ASSUME NEW t \in Threads, ReleaseGuard(t) PROVE NotifyInv'
  BY <1>2 DEF ReleaseGuard, AfterUnlock, waitVars, M!Unlock, M!UnlockSub, M!UnlockReset,
               M!UnlockWake, M!UnlockSpin
<1>3. ASSUME NEW t \in Threads, MutexSpurious(t) PROVE NotifyInv'
  BY <1>3 DEF MutexSpurious, M!SpuriousReturn, waitVars
<1>4. ASSUME NEW w \in Waiters, TestPredicate(w) PROVE NotifyInv'
  BY <1>4 DEF TestPredicate, M!GuardGet
<1>5. ASSUME NEW w \in Waiters, TakeItem(w) PROVE NotifyInv'
  BY <1>5 DEF TakeItem, M!GuardSet, waitVars
<1>6. ASSUME NEW w \in Waiters, WaitSnapshot(w) PROVE NotifyInv'
  BY <1>6 DEF WaitSnapshot, mutexVars, waitVars
<1>7. ASSUME NEW w \in Waiters, WaitPark(w) PROVE NotifyInv'
  BY <1>7 DEF WaitPark, mutexVars, waitVars
<1>8. ASSUME NEW w \in Waiters, WaitTimeout(w) PROVE NotifyInv'
  BY <1>8 DEF WaitTimeout, mutexVars, waitVars
<1>9. ASSUME NEW w \in Waiters, WaitSpurious(w) PROVE NotifyInv'
  BY <1>9 DEF WaitSpurious, mutexVars, waitVars
<1>10. ASSUME NEW w \in Waiters, WaitResult(w) PROVE NotifyInv'
  BY <1>10 DEF WaitResult, mutexVars, waitVars
<1>11. ASSUME NEW n \in Notifiers, Post(n) PROVE NotifyInv'
  BY <1>11 DEF Post, M!GuardSet, waitVars
<1>12. ASSUME NEW n \in Notifiers, NotifyBump(n) PROVE NotifyInv'
  BY <1>12 DEF NotifyBump, mutexVars, waitVars
<1>13. ASSUME NEW n \in Notifiers, NotifyWake(n) PROVE NotifyInv'
  <2>1. UNCHANGED mutexVars /\ UNCHANGED <<seq, snap, timed, result, left>>
    BY <1>13 DEF NotifyWake
  <2>2. cpc[n] \in {"wakeone", "wakeall"}
    BY <1>13 DEF NotifyWake
  <2>. QED
    BY <1>13, <2>1, <2>2, WakeChoice DEF AfterNotify, CvSleepers, mutexVars
<1>14. CASE UNCHANGED vars
  BY <1>14 DEF vars, mutexVars, waitVars
<1>. QED
  BY <1>1, <1>2, <1>3, <1>4, <1>5, <1>6, <1>7, <1>8, <1>9, <1>10, <1>11, <1>12, <1>13, <1>14
     DEF Next, LockStep, WaiterStep, NotifierStep

(* "The seq trick prevents lost notifies" (backend_c.rs): with an item to   *)
(* take, the waiters never all sleep with no notifier on its way to wake    *)
(* one, however many notifies, timeouts and early returns interleave.       *)
THEOREM NotifySafe == Spec => []NoLostNotify
<1>1. Init => NotifyInv
  BY DEF Init, NotifyInv, SnapInv, BumpComing, WakeComing, CvSleepers, Threads
<1>2. NotifyInv => NoLostNotify
  BY DEF NotifyInv, BumpComing, WakeComing, CvSleepers, NoLostNotify
<1>. QED
  BY <1>1, <1>2, NotifyInvStep, ProgramInvInductive, PTL DEF Spec

-----------------------------------------------------------------------------
(* What wait_timeout reports                                                *)

(* A waiter that a notify met during its wait still has what tells it so:   *)
(* the advanced seq, or the kernel's answer.                                *)
Heard ==
  \A w \in signalled :
    \/ cpc[w] \in {"release", "cvpark"} /\ seq # snap[w]
    \/ cpc[w] = "result" /\ (seq # snap[w] \/ (KernelWait /\ rc[w] = "woken"))
    \/ cpc[w] = "lock" /\ result[w]

(* The variants whose result looks at both: the C backend's on Linux and on *)
(* hosts without a kernel wait.                                             *)
ReportingBackends == {"c_linux", "c_other"}

(* Nothing between the notify and the return takes the evidence away.       *)
LEMMA HeardStep == ProgramInv /\ SnapInv /\ Heard /\ backend \in ReportingBackends /\ [Next]_vars => Heard'
<1>. SUFFICES ASSUME ProgramInv, SnapInv, Heard, backend \in ReportingBackends, [Next]_vars PROVE Heard'
  OBVIOUS
<1>0. backend' = backend
  BY DEF Next, vars
<1>. USE <1>0, RolesAssumption DEF ProgramInv, Types, GuardCurrent, ValueCounts, NotifyInv, SnapInv, BumpComing, WakeComing,
           CvSleepers, Threads, Goto, LeaveKernel, KernelWait, WaiterPlaces, NotifierPlaces, Heard
<1>1. ASSUME NEW t \in Threads, Acquire(t) PROVE Heard'
  BY <1>1 DEF Acquire, waitVars, M!Lock, M!LockFast, M!LockMark, M!LockPark, M!LockSpin
<1>2. ASSUME NEW t \in Threads, ReleaseGuard(t) PROVE Heard'
  BY <1>2 DEF ReleaseGuard, AfterUnlock, waitVars, M!Unlock, M!UnlockSub, M!UnlockReset,
               M!UnlockWake, M!UnlockSpin
<1>3. ASSUME NEW t \in Threads, MutexSpurious(t) PROVE Heard'
  BY <1>3 DEF MutexSpurious, M!SpuriousReturn, waitVars
<1>4. ASSUME NEW w \in Waiters, TestPredicate(w) PROVE Heard'
  BY <1>4 DEF TestPredicate, M!GuardGet
<1>5. ASSUME NEW w \in Waiters, TakeItem(w) PROVE Heard'
  BY <1>5 DEF TakeItem, M!GuardSet, waitVars
<1>6. ASSUME NEW w \in Waiters, WaitSnapshot(w) PROVE Heard'
  BY <1>6 DEF WaitSnapshot, mutexVars, waitVars
<1>7. ASSUME NEW w \in Waiters, WaitPark(w) PROVE Heard'
  BY <1>7 DEF WaitPark, mutexVars, waitVars
<1>8. ASSUME NEW w \in Waiters, WaitTimeout(w) PROVE Heard'
  BY <1>8 DEF WaitTimeout, mutexVars, waitVars
<1>9. ASSUME NEW w \in Waiters, WaitSpurious(w) PROVE Heard'
  BY <1>9 DEF WaitSpurious, mutexVars, waitVars
<1>10. ASSUME NEW w \in Waiters, WaitResult(w) PROVE Heard'
  BY <1>10 DEF WaitResult, Notified, mutexVars, ReportingBackends
<1>11. ASSUME NEW n \in Notifiers, Post(n) PROVE Heard'
  BY <1>11 DEF Post, M!GuardSet, waitVars
<1>12. ASSUME NEW n \in Notifiers, NotifyBump(n) PROVE Heard'
  BY <1>12 DEF NotifyBump, mutexVars, waitVars
<1>13. ASSUME NEW n \in Notifiers, NotifyWake(n) PROVE Heard'
  <2>1. UNCHANGED mutexVars /\ UNCHANGED <<seq, snap, timed, result, left>>
    BY <1>13 DEF NotifyWake
  <2>2. cpc[n] \in {"wakeone", "wakeall"}
    BY <1>13 DEF NotifyWake
  <2>. QED
    BY <1>13, <2>1, <2>2, WakeChoice DEF AfterNotify, CvSleepers, mutexVars
<1>14. CASE UNCHANGED vars
  BY <1>14 DEF vars, mutexVars, waitVars
<1>. QED
  BY <1>1, <1>2, <1>3, <1>4, <1>5, <1>6, <1>7, <1>8, <1>9, <1>10, <1>11, <1>12, <1>13, <1>14
     DEF Next, LockStep, WaiterStep, NotifierStep

(* A timed wait that a notify met returns true (wait_timeout: "true on      *)
(* notify, false on timeout"), in the variants that compare seq with the    *)
(* snapshot as well.                                                        *)
THEOREM ReportSafe ==
  ASSUME Backends \subseteq ReportingBackends
  PROVE  Spec => []NotifyReported
<1>1. Init => NotifyInv /\ Heard
  BY DEF Init, NotifyInv, SnapInv, BumpComing, WakeComing, CvSleepers, Heard, Threads
<1>2. ProgramInv /\ NotifyInv /\ Heard /\ [Next]_vars => NotifyInv' /\ Heard'
  BY NotifyInvStep, HeardStep DEF ProgramInv, Types, NotifyInv
<1>3. Heard => NotifyReported
  BY DEF Heard, NotifyReported
<1>. QED
  BY <1>1, <1>2, <1>3, ProgramInvInductive, PTL DEF Spec
=============================================================================
