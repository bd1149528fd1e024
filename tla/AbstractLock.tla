---------------------------- MODULE AbstractLock ----------------------------
(***************************************************************************)
(* What `Mutex<i64>` promises to a vani program: at most one guard of the  *)
(* mutex is alive, only its owner changes the protected value, and while   *)
(* somebody is waiting and nobody holds the guard, somebody gets it.       *)
(***************************************************************************)
CONSTANTS Threads,  \* the threads that use the mutex
          Values,   \* the values the protected cell can take
          None      \* "no owner"

VARIABLES want,    \* threads inside mutex_lock
          owner,   \* the thread whose guard is alive, or None
          value    \* the protected cell

vars == <<want, owner, value>>

Init == /\ want = {}
        /\ owner = None
        /\ value \in Values

Request(t) == /\ t \notin want
              /\ owner # t
              /\ want' = want \union {t}
              /\ UNCHANGED <<owner, value>>

Acquire(t) == /\ t \in want
              /\ owner = None
              /\ owner' = t
              /\ want' = want \ {t}
              /\ UNCHANGED value

Enter(t) == /\ t \notin want      \* an uncontended mutex_lock
            /\ owner = None
            /\ owner' = t
            /\ UNCHANGED <<want, value>>

Update(t) == /\ owner = t
             /\ value' \in Values
             /\ UNCHANGED <<want, owner>>

Release(t) == /\ owner = t
              /\ owner' = None
              /\ UNCHANGED <<want, value>>

Next == \E t \in Threads : Request(t) \/ Acquire(t) \/ Enter(t) \/ Update(t) \/ Release(t)

Spec == Init /\ [][Next]_vars

(* Deadlock freedom, not starvation freedom: a lock that is wanted and free *)
(* is granted to somebody; barging may starve one waiter.                   *)
Progress == (want # {} /\ owner = None) ~> (owner # None)
=============================================================================
