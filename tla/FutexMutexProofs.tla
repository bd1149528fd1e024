-------------------------- MODULE FutexMutexProofs --------------------------
(***************************************************************************)
(* Proofs about FutexMutex for any set of threads, any set of values and   *)
(* both kinds of host.                                                     *)
(*                                                                         *)
(* The types and mutual exclusion are not inductive apart: fetch_sub keeps *)
(* the word in 0..2 because an owner finds 1 or 2 there, which holds       *)
(* because the word is 0 exactly when nobody owns the lock and there is    *)
(* only one owner to take it down.                                         *)
(***************************************************************************)
EXTENDS FutexMutex, TLAPS

LockInv == TypeOK /\ MutualExclusion /\ WordTracksOwner

(* Every step of the lock, the guard and the unlock code keeps the word in  *)
(* step with the one owner.                                                 *)
LEMMA LockInvStep == LockInv /\ [Next]_vars => LockInv'
<1>. SUFFICES ASSUME LockInv, [Next]_vars PROVE LockInv'
  OBVIOUS
<1>0. UNCHANGED host
  BY DEF Next, vars
<1>. USE <1>0 DEF LockInv, TypeOK, Hosts, PCs, MutualExclusion, WordTracksOwner, Owners, Sleepers, Goto
<1>1. ASSUME NEW t \in Threads, LockFast(t) PROVE LockInv'
  BY <1>1 DEF LockFast
<1>2. ASSUME NEW t \in Threads, LockMark(t) PROVE LockInv'
  BY <1>2 DEF LockMark
<1>3. ASSUME NEW t \in Threads, LockPark(t) PROVE LockInv'
  BY <1>3 DEF LockPark
<1>4. ASSUME NEW t \in Threads, LockSpin(t) PROVE LockInv'
  BY <1>4 DEF LockSpin
<1>5. ASSUME NEW t \in Threads, SpuriousReturn(t) PROVE LockInv'
  BY <1>5 DEF SpuriousReturn
<1>6. ASSUME NEW t \in Threads, GuardGet(t) PROVE LockInv'
  BY <1>6 DEF GuardGet
<1>7. ASSUME NEW t \in Threads, NEW v \in Values, GuardSet(t, v) PROVE LockInv'
  BY <1>7 DEF GuardSet
<1>8. ASSUME NEW t \in Threads, UnlockSub(t) PROVE LockInv'
  BY <1>8 DEF UnlockSub
<1>9. ASSUME NEW t \in Threads, UnlockReset(t) PROVE LockInv'
  BY <1>9 DEF UnlockReset
<1>10. ASSUME NEW t \in Threads, UnlockWake(t) PROVE LockInv'
  BY <1>10 DEF UnlockWake
<1>11. ASSUME NEW t \in Threads, UnlockSpin(t) PROVE LockInv'
  BY <1>11 DEF UnlockSpin
<1>12. CASE UNCHANGED vars
  BY <1>12 DEF vars
<1>13. QED
  BY <1>1, <1>2, <1>3, <1>4, <1>5, <1>6, <1>7, <1>8, <1>9, <1>10, <1>11, <1>12 DEF Next, Lock, Unlock

LEMMA LockInvInductive == Spec => []LockInv
<1>1. Init => LockInv
  BY ValueAssumption DEF Init, LockInv, TypeOK, Hosts, PCs, MutualExclusion, WordTracksOwner, Owners
<1>2. QED
  BY <1>1, LockInvStep, PTL DEF Spec

(* Type correctness: in particular the futex word stays in 0..2, so         *)
(* intent_guard_i64_unlock never subtracts from a free lock.                *)
THEOREM TypeCorrect == Spec => []TypeOK
<1>1. LockInv => TypeOK
  BY DEF LockInv
<1>2. QED
  BY <1>1, LockInvInductive, PTL

(* At most one guard of a mutex is alive (mutex_lock, guard drop), for any  *)
(* number of threads and through the unlock slow path.                      *)
THEOREM MutexSafe == Spec => []MutualExclusion
<1>1. LockInv => MutualExclusion
  BY DEF LockInv
<1>2. QED
  BY <1>1, LockInvInductive, PTL

(* A thread without a guard remembers nothing of the cell.                  *)
SeenInv == /\ NoLostUpdate
           /\ \A t \in Threads : pc[t] # "held" => seen[t] = NoValue

(* Between an owner's guard_get and its guard_set nobody else writes the    *)
(* cell: read-modify-write under the guard loses no update.                 *)
THEOREM UpdatesSafe == Spec => []NoLostUpdate
<1>1. Init => SeenInv
  BY DEF Init, SeenInv, NoLostUpdate
<1>2. LockInv /\ SeenInv /\ [Next]_vars => SeenInv'
  <2>. SUFFICES ASSUME LockInv, SeenInv, [Next]_vars PROVE SeenInv'
    OBVIOUS
  <2>. USE DEF LockInv, TypeOK, PCs, MutualExclusion, Owners, SeenInv, NoLostUpdate, Sleepers, Goto
  <2>1. ASSUME NEW t \in Threads, LockFast(t) PROVE SeenInv'
    BY <2>1 DEF LockFast
  <2>2. ASSUME NEW t \in Threads, LockMark(t) PROVE SeenInv'
    BY <2>2 DEF LockMark
  <2>3. ASSUME NEW t \in Threads, LockPark(t) PROVE SeenInv'
    BY <2>3 DEF LockPark
  <2>4. ASSUME NEW t \in Threads, LockSpin(t) PROVE SeenInv'
    BY <2>4 DEF LockSpin
  <2>5. ASSUME NEW t \in Threads, SpuriousReturn(t) PROVE SeenInv'
    BY <2>5 DEF SpuriousReturn
  <2>6. ASSUME NEW t \in Threads, GuardGet(t) PROVE SeenInv'
    BY <2>6 DEF GuardGet
  <2>7. ASSUME NEW t \in Threads, NEW v \in Values, GuardSet(t, v) PROVE SeenInv'
    BY <2>7 DEF GuardSet
  <2>8. ASSUME NEW t \in Threads, UnlockSub(t) PROVE SeenInv'
    BY <2>8 DEF UnlockSub
  <2>9. ASSUME NEW t \in Threads, UnlockReset(t) PROVE SeenInv'
    BY <2>9 DEF UnlockReset
  <2>10. ASSUME NEW t \in Threads, UnlockWake(t) PROVE SeenInv'
    BY <2>10 DEF UnlockWake
  <2>11. ASSUME NEW t \in Threads, UnlockSpin(t) PROVE SeenInv'
    BY <2>11 DEF UnlockSpin
  <2>12. CASE UNCHANGED vars
    BY <2>12 DEF vars
  <2>13. QED
    BY <2>1, <2>2, <2>3, <2>4, <2>5, <2>6, <2>7, <2>8, <2>9, <2>10, <2>11, <2>12 DEF Next, Lock, Unlock
<1>3. SeenInv => NoLostUpdate
  BY DEF SeenInv
<1>4. QED
  BY <1>1, <1>2, <1>3, LockInvInductive, PTL DEF Spec

(* Only hosts with a kernel wait have threads in the futex paths.           *)
WakeInv == /\ NoLostWakeup
           /\ host = "polling" => \A t \in Threads : pc[t] \in {"idle", "spin", "held"}

(* A thread queued in the kernel always has a wake-up coming: the mark in   *)
(* the word makes the owner's unlock take its slow path, and a thread that  *)
(* overwrites the mark is itself awake and will restore or honour it.       *)
THEOREM WakeupSafe == Spec => []NoLostWakeup
<1>1. Init => WakeInv
  BY DEF Init, WakeInv, NoLostWakeup, Sleepers
<1>2. LockInv /\ WakeInv /\ [Next]_vars => WakeInv'
  <2>. SUFFICES ASSUME LockInv, WakeInv, [Next]_vars PROVE WakeInv'
    OBVIOUS
  <2>0. UNCHANGED host
    BY DEF Next, vars
  <2>. USE <2>0 DEF LockInv, TypeOK, Hosts, PCs, WakeInv, NoLostWakeup, Sleepers, Goto
  <2>1. ASSUME NEW t \in Threads, LockFast(t) PROVE WakeInv'
    BY <2>1 DEF LockFast
  <2>2. ASSUME NEW t \in Threads, LockMark(t) PROVE WakeInv'
    BY <2>2 DEF LockMark
  <2>3. ASSUME NEW t \in Threads, LockPark(t) PROVE WakeInv'
    BY <2>3 DEF LockPark
  <2>4. ASSUME NEW t \in Threads, LockSpin(t) PROVE WakeInv'
    BY <2>4 DEF LockSpin
  <2>5. ASSUME NEW t \in Threads, SpuriousReturn(t) PROVE WakeInv'
    BY <2>5 DEF SpuriousReturn
  <2>6. ASSUME NEW t \in Threads, GuardGet(t) PROVE WakeInv'
    BY <2>6 DEF GuardGet
  <2>7. ASSUME NEW t \in Threads, NEW v \in Values, GuardSet(t, v) PROVE WakeInv'
    BY <2>7 DEF GuardSet
  <2>8. ASSUME NEW t \in Threads, UnlockSub(t) PROVE WakeInv'
    BY <2>8 DEF UnlockSub
  <2>9. ASSUME NEW t \in Threads, UnlockReset(t) PROVE WakeInv'
    BY <2>9 DEF UnlockReset
  <2>10. ASSUME NEW t \in Threads, UnlockWake(t) PROVE WakeInv'
    BY <2>10 DEF UnlockWake
  <2>11. ASSUME NEW t \in Threads, UnlockSpin(t) PROVE WakeInv'
    BY <2>11 DEF UnlockSpin
  <2>12. CASE UNCHANGED vars
    BY <2>12 DEF vars
  <2>13. QED
    BY <2>1, <2>2, <2>3, <2>4, <2>5, <2>6, <2>7, <2>8, <2>9, <2>10, <2>11, <2>12 DEF Next, Lock, Unlock
<1>3. WakeInv => NoLostWakeup
  BY DEF WakeInv
<1>4. QED
  BY <1>1, <1>2, <1>3, LockInvInductive, PTL DEF Spec

(* The one owner is the abstract owner.                                     *)
LEMMA OwnerIsUnique ==
  MutualExclusion => /\ Owners = {} => Owner = None
                     /\ \A t \in Owners : Owner = t
BY DEF MutualExclusion, Owner

(* The futex lock implements the abstract lock: the compare-exchange, or    *)
(* the exchange that read 0, grants it, and the fetch_sub from 1, or the    *)
(* store of 0, releases it. Everything else is invisible to a program.      *)
THEOREM LockRefines == Spec => ImplementsLock
<1>. USE DEF Owners, Waiting, PCs
<1>1. Init => Abstract!Init
  BY DEF Init, Abstract!Init, Owner
<1>2. LockInv /\ LockInv' /\ [Next]_vars => [Abstract!Next]_Abstract!vars
  <2>. SUFFICES ASSUME LockInv, LockInv', [Next]_vars
                PROVE  Abstract!Next \/ UNCHANGED Abstract!vars
    BY DEF Abstract!vars
  <2>1. /\ TypeOK /\ TypeOK'
        /\ WordTracksOwner /\ WordTracksOwner'
        /\ Owners = {} => Owner = None
        /\ \A t \in Owners : Owner = t
    BY OwnerIsUnique DEF LockInv
  <2>2. /\ Owners' = {} => Owner' = None
        /\ \A t \in Owners' : Owner' = t
    <3>1. (MutualExclusion => /\ Owners = {} => Owner = None
                              /\ \A t \in Owners : Owner = t)'
      BY OwnerIsUnique, PTL
    <3>2. MutualExclusion'
      BY DEF LockInv
    <3>3. QED
      BY <3>1, <3>2
  <2>. USE <2>1 DEF TypeOK, Goto, Sleepers
  <2>3. ASSUME NEW t \in Threads, t \notin Owners, Waiting' = Waiting \ {t},
               Owners = {}, Owners' = {t}, value' = value
        PROVE  Abstract!Acquire(t) \/ Abstract!Enter(t)
    <3>1. Owner = None /\ Owner' = t
      BY <2>2, <2>3
    <3>2. CASE t \in Waiting
      BY <2>3, <3>1, <3>2 DEF Abstract!Acquire
    <3>3. CASE t \notin Waiting
      BY <2>3, <3>1, <3>3 DEF Abstract!Enter
    <3>4. QED
      BY <3>2, <3>3
  <2>4. ASSUME NEW t \in Threads, Owners = {t}, Owners' = {}, Waiting' = Waiting, value' = value
        PROVE  Abstract!Release(t)
    <3>1. Owner = t /\ Owner' = None
      BY <2>2, <2>4
    <3>2. QED
      BY <2>4, <3>1 DEF Abstract!Release
  <2>5. ASSUME Owners' = Owners PROVE Owner' = Owner
    BY <2>5 DEF Owner
  <2>6. ASSUME NEW t \in Threads, pc[t] = "idle", Waiting' = Waiting \union {t},
               Owners' = Owners, value' = value
        PROVE  Abstract!Request(t)
    <3>1. t \notin Waiting /\ t \notin Owners
      BY <2>6
    <3>2. Owner # t
      BY <3>1, NoneAssumption DEF Owner
    <3>3. QED
      BY <2>5, <2>6, <3>1, <3>2 DEF Abstract!Request
  <2>7. ASSUME Owners' = Owners, Waiting' = Waiting, value' = value
        PROVE  UNCHANGED Abstract!vars
    BY <2>5, <2>7 DEF Abstract!vars
  <2>. HIDE DEF Owners, Waiting
  <2>8. ASSUME NEW t \in Threads, LockFast(t) PROVE Abstract!Next \/ UNCHANGED Abstract!vars
    <3>1. CASE locked = 0
      <4>1. t \notin Owners /\ Waiting' = Waiting \ {t} /\ Owners = {} /\ Owners' = {t}
        BY <2>8, <3>1 DEF LockFast, WordTracksOwner, Owners, Waiting
      <4>2. QED
        BY <2>3, <2>8, <4>1 DEF LockFast, Abstract!Next
    <3>2. CASE locked # 0
      <4>1. Waiting' = Waiting \union {t} /\ Owners' = Owners /\ pc[t] = "idle"
        BY <2>8, <3>2 DEF LockFast, Owners, Waiting
      <4>2. QED
        BY <2>6, <2>8, <4>1 DEF LockFast, Abstract!Next
    <3>3. QED
      BY <3>1, <3>2
  <2>9. ASSUME NEW t \in Threads, LockMark(t) PROVE Abstract!Next \/ UNCHANGED Abstract!vars
    <3>1. CASE locked = 0
      <4>1. t \notin Owners /\ Waiting' = Waiting \ {t} /\ Owners = {} /\ Owners' = {t}
        BY <2>9, <3>1 DEF LockMark, WordTracksOwner, Owners, Waiting
      <4>2. QED
        BY <2>3, <2>9, <4>1 DEF LockMark, Abstract!Next
    <3>2. CASE locked # 0
      <4>1. Waiting' = Waiting /\ Owners' = Owners
        BY <2>9, <3>2 DEF LockMark, Owners, Waiting
      <4>2. QED
        BY <2>7, <2>9, <4>1 DEF LockMark
    <3>3. QED
      BY <3>1, <3>2
  <2>10. ASSUME NEW t \in Threads, LockPark(t) \/ SpuriousReturn(t) \/ UnlockWake(t) \/ GuardGet(t)
         PROVE  UNCHANGED Abstract!vars
    <3>1. Owners' = Owners /\ Waiting' = Waiting
      BY <2>10 DEF LockPark, SpuriousReturn, UnlockWake, GuardGet, Owners, Waiting
    <3>2. value' = value
      BY <2>10 DEF LockPark, SpuriousReturn, UnlockWake, GuardGet
    <3>3. QED
      BY <2>7, <3>1, <3>2
  <2>11. ASSUME NEW t \in Threads, LockSpin(t) PROVE Abstract!Next \/ UNCHANGED Abstract!vars
    <3>1. CASE pc'[t] = "held"
      <4>1. t \notin Owners /\ Waiting' = Waiting \ {t} /\ Owners = {} /\ Owners' = {t}
        BY <2>11, <3>1 DEF LockSpin, WordTracksOwner, Owners, Waiting
      <4>2. QED
        BY <2>3, <2>11, <4>1 DEF LockSpin, Abstract!Next
    <3>2. CASE pc'[t] # "held" /\ pc[t] = "idle"
      <4>1. Waiting' = Waiting \union {t} /\ Owners' = Owners
        BY <2>11, <3>2 DEF LockSpin, Owners, Waiting
      <4>2. QED
        BY <2>6, <2>11, <3>2, <4>1 DEF LockSpin, Abstract!Next
    <3>3. CASE pc'[t] # "held" /\ pc[t] = "spin"
      <4>1. Waiting' = Waiting /\ Owners' = Owners
        BY <2>11, <3>3 DEF LockSpin, Owners, Waiting
      <4>2. QED
        BY <2>7, <2>11, <4>1 DEF LockSpin
    <3>4. QED
      BY <2>11, <3>1, <3>2, <3>3 DEF LockSpin
  <2>12. ASSUME NEW t \in Threads, NEW v \in Values, GuardSet(t, v)
         PROVE  Abstract!Next
    <3>1. t \in Owners /\ Owners' = Owners /\ Waiting' = Waiting /\ value' \in Values
      BY <2>12 DEF GuardSet, Owners, Waiting
    <3>2. Owner = t /\ Owner' = Owner
      BY <2>5, <3>1
    <3>3. QED
      BY <3>1, <3>2 DEF Abstract!Next, Abstract!Update
  <2>13. ASSUME NEW t \in Threads, UnlockSub(t) PROVE Abstract!Next \/ UNCHANGED Abstract!vars
    <3>1. CASE locked = 1
      <4>1. Owners = {t} /\ Owners' = {} /\ Waiting' = Waiting
        BY <2>13, <3>1 DEF UnlockSub, LockInv, MutualExclusion, Owners, Waiting
      <4>2. QED
        BY <2>4, <2>13, <4>1 DEF UnlockSub, Abstract!Next
    <3>2. CASE locked # 1
      <4>1. Owners' = Owners /\ Waiting' = Waiting
        BY <2>13, <3>2 DEF UnlockSub, Owners, Waiting
      <4>2. QED
        BY <2>7, <2>13, <4>1 DEF UnlockSub
    <3>3. QED
      BY <3>1, <3>2
  <2>14. ASSUME NEW t \in Threads, UnlockReset(t) \/ UnlockSpin(t) PROVE Abstract!Next
    <3>1. Owners = {t} /\ Owners' = {} /\ Waiting' = Waiting
      BY <2>14 DEF UnlockReset, UnlockSpin, LockInv, MutualExclusion, Owners, Waiting
    <3>2. value' = value
      BY <2>14 DEF UnlockReset, UnlockSpin
    <3>3. QED
      BY <2>4, <3>1, <3>2 DEF Abstract!Next
  <2>15. CASE UNCHANGED vars
    BY <2>7, <2>15 DEF vars, Owners, Waiting
  <2>16. QED
    BY <2>8, <2>9, <2>10, <2>11, <2>12, <2>13, <2>14, <2>15 DEF Next, Lock, Unlock
<1>3. QED
  BY <1>1, <1>2, LockInvInductive, PTL DEF Spec, ImplementsLock, Abstract!Spec
=============================================================================
