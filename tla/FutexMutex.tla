----------------------------- MODULE FutexMutex -----------------------------
(***************************************************************************)
(* The runtime of `Mutex<i64>` and `Guard<i64>` that both backends emit:   *)
(* Drepper's three-state futex lock (intent_mutex_i64_lock,                *)
(* intent_guard_i64_unlock, and the inlined LLVM twin), with the           *)
(* spin-with-yield fallback of hosts that have no kernel wait.             *)
(*                                                                         *)
(* Every atomic operation, system call and access to the protected cell is *)
(* one step.                                                               *)
(***************************************************************************)
EXTENDS Naturals

CONSTANTS Threads,    \* threads that call mutex_lock on this mutex
          Values,     \* values of the protected i64 cell
          NoValue,    \* "this thread has not looked at the cell"
          None        \* "no owner"

ASSUME ValueAssumption == NoValue \notin Values
ASSUME NoneAssumption  == None \notin Threads

VARIABLES host,      \* "kernel": futex / WaitOnAddress; "polling": the spin fallback
          locked,    \* m->locked: 0 unlocked, 1 locked, 2 locked with waiters
          value,     \* m->value
          pc,        \* where each thread is
          seen       \* what the guard's owner last read from or wrote to value

vars == <<host, locked, value, pc, seen>>

Hosts == {"kernel", "polling"}

(* "idle"    outside lock/unlock, no guard                                  *)
(* "mark"    about to exchange 2 into locked                                *)
(* "park"    about to call futex_wait(&locked, 2)                           *)
(* "asleep"  queued by the kernel                                           *)
(* "spin"    fallback host only: between two compare-exchanges              *)
(* "held"    the guard is alive                                             *)
(* "reset"   unlock saw waiters: about to store 0                           *)
(* "wake"    about to call futex_wake(&locked, 1)                           *)
PCs == {"idle", "mark", "park", "asleep", "spin", "held", "reset", "wake"}

TypeOK == /\ host \in Hosts
          /\ locked \in 0..2
          /\ value \in Values
          /\ pc \in [Threads -> PCs]
          /\ seen \in [Threads -> Values \union {NoValue}]

Init == /\ host \in Hosts
        /\ locked = 0
        /\ value \in Values
        /\ pc = [t \in Threads |-> "idle"]
        /\ seen = [t \in Threads |-> NoValue]

(* The kernel's queue on &m->locked.                                        *)
Sleepers == {t \in Threads : pc[t] = "asleep"}

Goto(t, label) == pc' = [pc EXCEPT ![t] = label]

-----------------------------------------------------------------------------
(* mutex_lock                                                               *)

(* Faulty: a load and a store instead of the compare-exchange.              *)
LockFastBlind(t) ==
  /\ host = "kernel"
  /\ pc[t] = "idle"
  /\ IF locked = 2 THEN Goto(t, "park") /\ UNCHANGED locked
                    ELSE Goto(t, "held") /\ locked' = 1
  /\ UNCHANGED <<value, seen>>

(* The compare-exchange 0 -> 1. The value it read decides the slow path:    *)
(* a thread that read 2 need not mark and goes straight to the kernel.      *)
LockFast(t) ==
  /\ host = "kernel"
  /\ pc[t] = "idle"
  /\ \/ /\ locked = 0
        /\ locked' = 1
        /\ Goto(t, "held")
     \/ /\ locked = 1
        /\ Goto(t, "mark")
        /\ UNCHANGED locked
     \/ /\ locked = 2
        /\ Goto(t, "park")
        /\ UNCHANGED locked
  /\ UNCHANGED <<value, seen>>

(* Faulty: counts waiters with fetch_add instead of exchanging 2.           *)
LockMarkAdds(t) ==
  /\ pc[t] = "mark"
  /\ locked' = locked + 1
  /\ Goto(t, IF locked = 0 THEN "held" ELSE "park")
  /\ UNCHANGED <<value, seen>>

(* Faulty: takes any old value but 2 for a free lock.                       *)
LockMarkAnyOld(t) ==
  /\ pc[t] = "mark"
  /\ locked' = 2
  /\ Goto(t, IF locked # 2 THEN "held" ELSE "park")
  /\ UNCHANGED <<value, seen>>

(* Faulty: a woken thread takes the lock with 1, as the fast path does, and *)
(* forgets the threads that still sleep.                                    *)
LockMarkOne(t) ==
  /\ pc[t] = "mark"
  /\ locked' = IF locked = 0 THEN 1 ELSE 2
  /\ Goto(t, IF locked = 0 THEN "held" ELSE "park")
  /\ UNCHANGED <<value, seen>>

(* The exchange that announces a waiter; it owns the lock if it read 0.     *)
LockMark(t) ==
  /\ pc[t] = "mark"
  /\ locked' = 2
  /\ Goto(t, IF locked = 0 THEN "held" ELSE "park")
  /\ UNCHANGED <<value, seen>>

(* futex_wait(&locked, 2): the kernel compares and queues in one step, and  *)
(* returns at once when the word is no longer 2.                            *)
LockPark(t) ==
  /\ pc[t] = "park"
  /\ Goto(t, IF locked = 2 THEN "asleep" ELSE "mark")
  /\ UNCHANGED <<locked, value, seen>>

(* The kernel wait may return without a wake (EINTR, spurious return).      *)
SpuriousReturn(t) ==
  /\ pc[t] = "asleep"
  /\ Goto(t, "mark")
  /\ UNCHANGED <<locked, value, seen>>

(* Faulty: stores 1 without looking.                                        *)
LockSpinBlind(t) ==
  /\ host = "polling"
  /\ pc[t] \in {"idle", "spin"}
  /\ locked' = 1
  /\ Goto(t, "held")
  /\ UNCHANGED <<value, seen>>

(* Fallback: one weak compare-exchange, which may also fail on a free lock. *)
LockSpin(t) ==
  /\ host = "polling"
  /\ pc[t] \in {"idle", "spin"}
  /\ \/ /\ locked = 0
        /\ locked' = 1
        /\ Goto(t, "held")
     \/ /\ Goto(t, "spin")
        /\ UNCHANGED locked
  /\ UNCHANGED <<value, seen>>

-----------------------------------------------------------------------------
(* guard_get, guard_set                                                     *)

GuardGet(t) ==
  /\ pc[t] = "held"
  /\ seen' = [seen EXCEPT ![t] = value]
  /\ UNCHANGED <<locked, value, pc>>

GuardSet(t, v) ==
  /\ pc[t] = "held"
  /\ value' = v
  /\ seen' = [seen EXCEPT ![t] = v]
  /\ UNCHANGED <<locked, pc>>

-----------------------------------------------------------------------------
(* Dropping the guard                                                       *)

(* Faulty: a plain store of 0, and no look at the old value.                *)
UnlockStoreOnly(t) ==
  /\ host = "kernel"
  /\ pc[t] = "held"
  /\ locked' = 0
  /\ Goto(t, "idle")
  /\ seen' = [seen EXCEPT ![t] = NoValue]
  /\ UNCHANGED value

(* fetch_sub(1): from 1 the lock is free and nobody sleeps; from 2 the word *)
(* is left at 1 and the slow path follows.                                  *)
UnlockSub(t) ==
  /\ host = "kernel"
  /\ pc[t] = "held"
  /\ locked' = locked - 1
  /\ Goto(t, IF locked = 1 THEN "idle" ELSE "reset")
  /\ seen' = [seen EXCEPT ![t] = NoValue]
  /\ UNCHANGED value

UnlockReset(t) ==
  /\ pc[t] = "reset"
  /\ locked' = 0
  /\ Goto(t, "wake")
  /\ UNCHANGED <<value, seen>>

(* futex_wake(&locked, 1): the kernel picks one sleeper, if there is one.   *)
UnlockWake(t) ==
  /\ pc[t] = "wake"
  /\ \/ /\ Sleepers = {}
        /\ Goto(t, "idle")
     \/ \E u \in Sleepers : pc' = [pc EXCEPT ![t] = "idle", ![u] = "mark"]
  /\ UNCHANGED <<locked, value, seen>>

UnlockSpin(t) ==
  /\ host = "polling"
  /\ pc[t] = "held"
  /\ locked' = 0
  /\ Goto(t, "idle")
  /\ seen' = [seen EXCEPT ![t] = NoValue]
  /\ UNCHANGED value

-----------------------------------------------------------------------------
Lock(t)   == LockFast(t) \/ LockMark(t) \/ LockPark(t) \/ LockSpin(t)
Unlock(t) == UnlockSub(t) \/ UnlockReset(t) \/ UnlockWake(t) \/ UnlockSpin(t)

Next == /\ \E t \in Threads :
             \/ Lock(t)
             \/ SpuriousReturn(t)
             \/ GuardGet(t)
             \/ \E v \in Values : GuardSet(t, v)
             \/ Unlock(t)
        /\ UNCHANGED host

Spec == Init /\ [][Next]_vars

(* The scheduler runs every thread that is inside the lock or unlock code.  *)
(* Nothing makes a program call mutex_lock, end a critical section, or      *)
(* makes the kernel return early.                                           *)
InRuntime(t) == /\ pc[t] \in {"mark", "park", "reset", "wake"}
                /\ LockMark(t) \/ LockPark(t) \/ UnlockReset(t) \/ UnlockWake(t)
                /\ UNCHANGED host

(* On the fallback host a compare-exchange does not fail for ever on a lock *)
(* that stays free.                                                         *)
SpinWins(t) == pc[t] = "spin" /\ LockSpin(t) /\ pc'[t] = "held" /\ UNCHANGED host

FairSpec == Spec /\ \A t \in Threads : WF_vars(InRuntime(t)) /\ WF_vars(SpinWins(t))

-----------------------------------------------------------------------------
(* Properties                                                               *)

(* The threads that own the lock. A thread that is about to store 0 still   *)
(* owns it: nobody can take it before the store.                            *)
Owners == {t \in Threads : pc[t] \in {"held", "reset"}}

(* Two guards of one mutex are never alive together (README: Mutexes with   *)
(* RAII guards), nor does a new guard appear before an unlock in its slow   *)
(* path has stored 0, which would free the newcomer's lock.                 *)
MutualExclusion == \A t, u \in Owners : t = u

(* The owner's view of the cell stays current between its guard_get and the *)
(* guard_set it computes from it: no update is lost.                        *)
NoLostUpdate == \A t \in Threads : pc[t] = "held" => seen[t] \in {NoValue, value}

(* Nobody sleeps without a wake to come: while a thread is queued, the word *)
(* says so (its owner's unlock will take the slow path), or a thread is     *)
(* already on its way to re-examine the word or to wake a sleeper.          *)
NoLostWakeup == Sleepers # {} =>
                  \/ locked = 2
                  \/ \E u \in Threads : pc[u] \in {"mark", "reset", "wake"}

(* An unlock may leave the word at 0 only if it owned the lock; in          *)
(* particular fetch_sub never takes the word below 0.                       *)
WordTracksOwner == (locked = 0) <=> (Owners = {})

(* Refinement: the lock implements AbstractLock, and a free lock that is    *)
(* wanted does not stay free: the wake-ups reach somebody.                  *)
Waiting == {t \in Threads : pc[t] \in {"mark", "park", "asleep", "spin"}}
Owner   == IF Owners = {} THEN None ELSE CHOOSE t \in Owners : TRUE

Abstract == INSTANCE AbstractLock WITH
              want  <- Waiting,
              owner <- Owner
ImplementsLock == Abstract!Spec
LockProgress   == Abstract!Progress
=============================================================================
