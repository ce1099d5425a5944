--------------------------- MODULE ReadersWriters ---------------------------
(***************************************************************************)
(* What a reader/writer lock promises its callers (Mutex.h, class RWLock): *)
(* LockRead returns while no writer has the lock, LockWrite while nobody   *)
(* has it.                                                                 *)
(***************************************************************************)
CONSTANT Threads

VARIABLE holds      \* what each thread holds: "none", "read" or "write"

Holding(h) == {t \in Threads : holds[t] = h}

Init == holds = [t \in Threads |-> "none"]

\* A writer that leaves may let several readers in at once.
AdmitReaders(R) ==
  /\ R \subseteq Holding("none")
  /\ Holding("write") = {}
  /\ holds' = [t \in Threads |-> IF t \in R THEN "read" ELSE holds[t]]

AdmitWriter(t) ==
  /\ \A u \in Threads : holds[u] = "none"
  /\ holds' = [holds EXCEPT ![t] = "write"]

Leave(t) ==
  /\ holds[t] # "none"
  /\ holds' = [holds EXCEPT ![t] = "none"]

Next ==
  \/ \E R \in SUBSET Threads : AdmitReaders(R)
  \/ \E t \in Threads : AdmitWriter(t) \/ Leave(t)

Spec == Init /\ [][Next]_holds

=============================================================================
