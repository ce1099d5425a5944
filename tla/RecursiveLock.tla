--------------------------- MODULE RecursiveLock ---------------------------
(***************************************************************************)
(* RecursiveLock (Mutex.cpp): a mutex that its holder may lock again.  Who *)
(* holds it is read without any lock: a thread that reads fHolder can only *)
(* rely on the answer when it is the thread itself.                        *)
(*                                                                         *)
(* Each read or write of a field of the lock is a step of its own.         *)
(***************************************************************************)
EXTENDS Integers

CONSTANTS Lockers,      \* threads
          Nobody,       \* a null Thread
          MaxRecursion  \* bounds how often one thread locks it

ASSUME RecursiveAssumption ==
  /\ Nobody \notin Lockers
  /\ MaxRecursion \in Nat \ {0}

VARIABLES
  fHolder,     \* the thread that has the lock
  fRecursion,  \* how often it has locked it
  fMutex,      \* the thread that has the mutex
  at,          \* where each thread is in Lock or Unlock, "out" between calls
  depth        \* how often each thread has returned from Lock, less from Unlock

recursiveVars == <<fHolder, fRecursion, fMutex, at, depth>>

\* Thread t goes on to the given place.
GoTo(t, place) == at' = [at EXCEPT ![t] = place]

-----------------------------------------------------------------------------
(* Lock.                                                                    *)

\* The holder is compared with the running thread.
Lock(t) ==
  /\ at[t] = "out" /\ depth[t] < MaxRecursion
  /\ GoTo(t, IF fHolder # t THEN "wait" ELSE "count")
  /\ UNCHANGED <<fHolder, fRecursion, fMutex, depth>>

\* Waits that are interrupted are begun again.
LockMutex(t) ==
  /\ at[t] = "wait" /\ fMutex = Nobody
  /\ fMutex' = t
  /\ GoTo(t, "hold")
  /\ UNCHANGED <<fHolder, fRecursion, depth>>

SetHolder(t) ==
  /\ at[t] = "hold"
  /\ fHolder' = t
  /\ GoTo(t, "count")
  /\ UNCHANGED <<fRecursion, fMutex, depth>>

Count(t) ==
  /\ at[t] = "count"
  /\ fRecursion' = fRecursion + 1
  /\ depth' = [depth EXCEPT ![t] = @ + 1]
  /\ GoTo(t, "out")
  /\ UNCHANGED <<fHolder, fMutex>>

-----------------------------------------------------------------------------
(* Unlock, by a thread that has locked it.                                  *)

Unlock(t) ==
  /\ at[t] = "out" /\ depth[t] > 0
  /\ fRecursion' = fRecursion - 1
  /\ depth' = [depth EXCEPT ![t] = @ - 1]
  /\ GoTo(t, IF fRecursion - 1 = 0 THEN "clear" ELSE "out")
  /\ UNCHANGED <<fHolder, fMutex>>

\* Mutant: the holder is left in place.
KeepHolder(t) ==
  /\ at[t] = "clear"
  /\ GoTo(t, "release")
  /\ UNCHANGED <<fHolder, fRecursion, fMutex, depth>>

ClearHolder(t) ==
  /\ at[t] = "clear"
  /\ fHolder' = Nobody
  /\ GoTo(t, "release")
  /\ UNCHANGED <<fRecursion, fMutex, depth>>

UnlockMutex(t) ==
  /\ at[t] = "release"
  /\ fMutex' = Nobody
  /\ GoTo(t, "out")
  /\ UNCHANGED <<fHolder, fRecursion, depth>>

RecursiveInit ==
  /\ fHolder = Nobody
  /\ fRecursion = 0
  /\ fMutex = Nobody
  /\ at = [t \in Lockers |-> "out"]
  /\ depth = [t \in Lockers |-> 0]

Move(t) ==
  \/ Lock(t) \/ LockMutex(t) \/ SetHolder(t) \/ Count(t)
  \/ Unlock(t) \/ ClearHolder(t) \/ UnlockMutex(t)

RecursiveNext == \E t \in Lockers : Move(t)

RecursiveSpec == RecursiveInit /\ [][RecursiveNext]_recursiveVars

-----------------------------------------------------------------------------
(* Properties.                                                              *)

Places == {"out", "wait", "hold", "count", "clear", "release"}

RecursiveTypes ==
  /\ fHolder \in Lockers \cup {Nobody}
  /\ fRecursion \in Nat
  /\ fMutex \in Lockers \cup {Nobody}
  /\ at \in [Lockers -> Places]
  /\ depth \in [Lockers -> Nat]

\* A thread between SetHolder and ClearHolder.
Holds(t) == at[t] \in {"count", "clear"} \/ (at[t] = "out" /\ depth[t] > 0)

\* The thread that a read of fHolder names has the lock, and a thread that has
\* it finds itself there, although nothing guards the read: whoever has locked
\* the lock, or is about to have, is the one owner of the mutex, and fRecursion
\* counts its calls only.
RecursiveExclusion ==
  /\ RecursiveTypes
  /\ \A t \in Lockers : /\ Holds(t) <=> fHolder = t
                        /\ Holds(t) \/ at[t] \in {"hold", "release"} <=> fMutex = t
                        /\ fMutex = t => fRecursion = depth[t]
                        /\ at[t] \in {"wait", "hold", "clear", "release"} => depth[t] = 0
  /\ fMutex = Nobody => fRecursion = 0

=============================================================================
