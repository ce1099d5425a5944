------------------------- MODULE MCSynchronization --------------------------
(* Synchronization with three threads, two semaphores and a mutex.  One      *)
(* semaphore starts with a token, the other, like gSleepSemaphore, without.  *)
EXTENDS Synchronization

ThreadSymmetry == Permutations(Threads)

const_InitialCount == [e \in Semaphores |-> IF e = CHOOSE x \in Semaphores : TRUE THEN 1 ELSE 0]

=============================================================================
