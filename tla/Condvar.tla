------------------------------ MODULE Condvar ------------------------------
(***************************************************************************)
(* The condition variable runtime, composed with the mutex it releases and *)
(* re-acquires: intent_condvar_wait, _wait_timeout, _notify_one and        *)
(* _notify_all as the C backend emits them and as the LLVM backend inlines *)
(* them. Every step of the lock is a step of FutexMutex.                   *)
(*                                                                         *)
(* The program around it is the one the sources document                   *)
(* (examples/condvar.vani): a waiter runs                                  *)
(*     lock; while guard_get = 0 { wait }; guard_set(v - 1); drop          *)
(* over and over, a notifier runs                                          *)
(*     lock; guard_set(v + 1); notify and drop, in either order            *)
(* Posts times.                                                            *)
(***************************************************************************)
EXTENDS Naturals, FiniteSets

CONSTANTS Waiters, Notifiers,  \* the threads, by role
          Posts,               \* how often each notifier posts (bound)
          TimedWaits,          \* the kinds of wait a waiter may choose
          Backends,            \* the emitted variants to run
          NoValue, None        \* as in FutexMutex

Threads  == Waiters \union Notifiers
Values   == 0 .. Posts * Cardinality(Notifiers)

ASSUME RolesAssumption   == Waiters \intersect Notifiers = {}
ASSUME FiniteAssumption  == IsFiniteSet(Notifiers)
ASSUME PostsAssumption   == Posts \in Nat \ {0}
ASSUME NoValueAssumption == NoValue \notin Values /\ None \notin Threads
ASSUME WaitsAssumption   == TimedWaits \subseteq BOOLEAN
ASSUME BackendAssumption ==
  Backends \subseteq {"c_linux", "c_windows", "c_other", "llvm_linux", "llvm_windows"}

VARIABLES backend,    \* the variant this program was compiled to
          locked, value, pc, seen,  \* the mutex and its guards (FutexMutex)
          seq,        \* cv->seq
          cpc,        \* where each thread is outside the lock code
          snap,       \* wait's snapshot of seq
          timed,      \* the wait in progress has a timeout
          rc,         \* how the kernel wait ended
          result,     \* what wait_timeout returned last
          signalled,  \* waiters that a notify met while they were waiting
          left        \* posts each notifier still makes

mutexVars == <<locked, value, pc, seen>>
waitVars  == <<snap, timed, rc, result>>
vars == <<backend, mutexVars, seq, cpc, waitVars, signalled, left>>

KernelWait == backend # "c_other"
M == INSTANCE FutexMutex WITH host <- IF KernelWait THEN "kernel" ELSE "polling"

(* The values of cpc:                                                       *)
(* "lock"     in mutex_lock (or back from a wait, re-acquiring)             *)
(* "snapshot" predicate found false, about to read cv->seq                  *)
(* "release"  wait is unlocking the mutex                                   *)
(* "cvpark"   about to call futex_wait(&seq, snap)                          *)
(* "cvasleep" queued by the kernel on &seq                                  *)
(* "result"   out of the kernel, about to compute `notified`                *)
(* "take"     predicate found true under the lock                           *)
(* "postdrop" posted, dropping the guard before it notifies                 *)
(* "bump"     about to increment seq                                        *)
(* "wakeone", "wakeall"  about to call futex_wake(&seq, 1 or INT_MAX)       *)
(* "drop"     dropping the guard                                            *)
(* "done"     made all its posts                                            *)

Init == /\ backend \in Backends
        /\ locked = 0
        /\ value = 0
        /\ pc = [t \in Threads |-> "idle"]
        /\ seen = [t \in Threads |-> NoValue]
        /\ seq = 0
        /\ cpc = [t \in Threads |-> "lock"]
        /\ snap = [w \in Waiters |-> 0]
        /\ timed = [w \in Waiters |-> FALSE]
        /\ rc = [w \in Waiters |-> "none"]
        /\ result = [w \in Waiters |-> TRUE]
        /\ signalled = {}
        /\ left = [n \in Notifiers |-> Posts]

Goto(t, label) == cpc' = [cpc EXCEPT ![t] = label]

-----------------------------------------------------------------------------
(* The lock, wherever a thread uses it                                      *)

Acquire(t) ==
  /\ cpc[t] = "lock"
  /\ M!Lock(t)
  /\ UNCHANGED <<seq, cpc, waitVars, signalled, left>>

(* Where a thread continues when its guard is gone.                         *)
AfterUnlock(t) == CASE cpc[t] = "release"  -> "cvpark"
                    [] cpc[t] = "postdrop" -> "bump"
                    [] cpc[t] = "drop"     -> IF t \in Notifiers /\ left[t] = 0
                                                THEN "done" ELSE "lock"

ReleaseGuard(t) ==
  /\ cpc[t] \in {"release", "postdrop", "drop"}
  /\ M!Unlock(t)
  /\ IF pc'[t] = "idle" THEN Goto(t, AfterUnlock(t)) ELSE UNCHANGED cpc
  /\ UNCHANGED <<seq, waitVars, signalled, left>>

MutexSpurious(t) ==
  /\ M!SpuriousReturn(t)
  /\ UNCHANGED <<seq, cpc, waitVars, signalled, left>>

-----------------------------------------------------------------------------
(* The waiter                                                               *)

(* The loop re-tests the predicate whatever the wait returned.              *)
TestPredicate(w) ==
  /\ cpc[w] = "lock"
  /\ M!GuardGet(w)
  /\ Goto(w, IF value = 0 THEN "snapshot" ELSE "take")
  /\ result' = [result EXCEPT ![w] = TRUE]
  /\ signalled' = signalled \ {w}
  /\ UNCHANGED <<seq, snap, timed, rc, left>>

TakeItem(w) ==
  /\ cpc[w] = "take"
  /\ M!GuardSet(w, seen[w] - 1)
  /\ Goto(w, "drop")
  /\ UNCHANGED <<seq, waitVars, signalled, left>>

(* wait begins: read seq while the guard is still held.                     *)
WaitSnapshot(w) ==
  /\ cpc[w] = "snapshot"
  /\ snap' = [snap EXCEPT ![w] = seq]
  /\ \E b \in TimedWaits : timed' = [timed EXCEPT ![w] = b]
  /\ Goto(w, "release")
  /\ UNCHANGED <<mutexVars, seq, rc, result, signalled, left>>

LeaveKernel(w, how) == /\ rc' = [rc EXCEPT ![w] = how]
                       /\ Goto(w, "result")

(* Faulty: compares seq with a fresh load of itself, not with the snapshot  *)
(* taken under the lock.                                                    *)
WaitParkLate(w) ==
  /\ cpc[w] = "cvpark"
  /\ KernelWait
  /\ Goto(w, "cvasleep")
  /\ UNCHANGED <<mutexVars, seq, snap, timed, rc, result, signalled, left>>

(* futex_wait / WaitOnAddress compares and queues in one step; the fallback *)
(* host polls until seq differs from the snapshot.                          *)
WaitPark(w) ==
  /\ cpc[w] = "cvpark"
  /\ \/ /\ seq # snap[w]
        /\ LeaveKernel(w, "again")
     \/ /\ seq = snap[w]
        /\ KernelWait
        /\ Goto(w, "cvasleep")
        /\ UNCHANGED rc
  /\ UNCHANGED <<mutexVars, seq, snap, timed, result, signalled, left>>

WaitTimeout(w) ==
  /\ timed[w]
  /\ cpc[w] = IF KernelWait THEN "cvasleep" ELSE "cvpark"
  /\ LeaveKernel(w, "timeout")
  /\ UNCHANGED <<mutexVars, seq, snap, timed, result, signalled, left>>

(* A futex wait may be interrupted, or return 0 without a wake.             *)
WaitSpurious(w) ==
  /\ cpc[w] = "cvasleep"
  /\ \E how \in {"woken", "eintr"} : LeaveKernel(w, how)
  /\ UNCHANGED <<mutexVars, seq, snap, timed, result, signalled, left>>

(* Faulty: on every host only a wake-up counts, not an advanced seq.        *)
NotifiedByWakeOnly(w) == rc[w] = "woken"

(* What each variant of wait_timeout returns.                               *)
Notified(w) ==
  CASE backend = "c_linux"      -> rc[w] = "woken" \/ seq # snap[w]
    [] backend = "c_windows"    -> rc[w] # "timeout" /\ seq # snap[w]
    [] backend = "c_other"      -> seq # snap[w]
    [] backend = "llvm_linux"   -> rc[w] = "woken"
    [] backend = "llvm_windows" -> rc[w] # "timeout"

(* wait_timeout computes its result before it re-locks; the locals of the   *)
(* wait are dead from here.                                                 *)
WaitResult(w) ==
  /\ cpc[w] = "result"
  /\ result' = [result EXCEPT ![w] = timed[w] => Notified(w)]
  /\ snap' = [snap EXCEPT ![w] = 0]
  /\ timed' = [timed EXCEPT ![w] = FALSE]
  /\ rc' = [rc EXCEPT ![w] = "none"]
  /\ Goto(w, "lock")
  /\ UNCHANGED <<mutexVars, seq, signalled, left>>

-----------------------------------------------------------------------------
(* The notifier                                                             *)

Post(n) ==
  /\ cpc[n] = "lock"
  /\ left[n] > 0
  /\ M!GuardSet(n, value + 1)
  /\ left' = [left EXCEPT ![n] = @ - 1]
  /\ \E next \in {"postdrop", "bump"} : Goto(n, next)
  /\ UNCHANGED <<seq, waitVars, signalled>>

(* Faulty: notify wakes without advancing seq.                              *)
NotifyWithoutBump(n) ==
  /\ cpc[n] = "bump"
  /\ \E next \in {"wakeone", "wakeall"} : Goto(n, next)
  /\ UNCHANGED <<mutexVars, seq, waitVars, signalled, left>>

NotifyBump(n) ==
  /\ cpc[n] = "bump"
  /\ seq' = seq + 1
  /\ \E next \in {"wakeone", "wakeall"} : Goto(n, next)
  /\ UNCHANGED <<mutexVars, waitVars, signalled, left>>

CvSleepers == {w \in Waiters : cpc[w] = "cvasleep"}

(* Where a notifier continues: it drops its guard, if it still has it.      *)
AfterNotify(n) == IF pc[n] = "held" THEN "drop" ELSE IF left[n] = 0 THEN "done" ELSE "lock"

(* The kernel wakes one sleeper (if any) or all. The waits that end because *)
(* of this notify are those it wakes and those that will find seq changed.  *)
NotifyWake(n) ==
  /\ cpc[n] \in {"wakeone", "wakeall"}
  /\ \E woken \in SUBSET CvSleepers :
       /\ IF ~KernelWait \/ CvSleepers = {} THEN woken = {}
          ELSE IF cpc[n] = "wakeone" THEN Cardinality(woken) = 1
          ELSE woken = CvSleepers
       /\ rc' = [w \in Waiters |-> IF w \in woken THEN "woken" ELSE rc[w]]
       /\ cpc' = [t \in Threads |-> IF t \in woken THEN "result"
                                   ELSE IF t = n THEN AfterNotify(n) ELSE cpc[t]]
       /\ signalled' = signalled \union woken \union
                       {w \in Waiters : cpc[w] \in {"release", "cvpark"} /\ seq # snap[w]}
  /\ UNCHANGED <<mutexVars, seq, snap, timed, result, left>>

-----------------------------------------------------------------------------
WaiterStep(w) == \/ TestPredicate(w) \/ TakeItem(w)
                 \/ WaitSnapshot(w) \/ WaitPark(w) \/ WaitResult(w)
NotifierStep(n) == Post(n) \/ NotifyBump(n) \/ NotifyWake(n)
LockStep(t) == Acquire(t) \/ ReleaseGuard(t)

Next == /\ \/ \E t \in Threads : LockStep(t) \/ MutexSpurious(t)
           \/ \E w \in Waiters : WaiterStep(w) \/ WaitTimeout(w) \/ WaitSpurious(w)
           \/ \E n \in Notifiers : NotifierStep(n)
        /\ UNCHANGED backend

Spec == Init /\ [][Next]_vars

(* The scheduler runs every runnable thread; nothing forces a timeout or an *)
(* early return from the kernel.                                            *)
FairSpec == /\ Spec
            /\ \A t \in Threads : WF_vars(LockStep(t) /\ UNCHANGED backend)
            /\ \A w \in Waiters : WF_vars(WaiterStep(w) /\ UNCHANGED backend)
            /\ \A n \in Notifiers : WF_vars(NotifierStep(n) /\ UNCHANGED backend)

-----------------------------------------------------------------------------
(* Properties                                                               *)

(* wait returns with the guard valid again, so a predicate found true stays *)
(* true until the waiter acts on it (README: Condvar; wait re-acquires the  *)
(* mutex before it returns).                                                *)
PredicateStable == \A w \in Waiters : cpc[w] = "take" => value > 0

(* "The seq trick prevents lost notifies": while an item waits to be taken, *)
(* the waiters cannot all sleep unless a notifier is still to wake one.     *)
NoLostNotify ==
  (value > 0 /\ Waiters # {} /\ CvSleepers = Waiters) =>
    \E n \in Notifiers : cpc[n] \in {"postdrop", "bump", "wakeone", "wakeall"}

(* A timed wait that a notify met while it waited reports it: it returns    *)
(* true on notify and false only on timeout.                                *)
NotifyReported ==
  \A w \in Waiters : (cpc[w] = "lock" /\ w \in signalled) => result[w]

(* Every posted item is eventually taken, whatever the order of the         *)
(* snapshot, the release, the bump and the wake.                            *)
ItemsTaken == (value > 0) ~> (value = 0)
=============================================================================
