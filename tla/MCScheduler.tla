---------------------------- MODULE MCScheduler -----------------------------
(* Scheduler with the three kernel threads and a few workers.  The           *)
(* priorities are those of the kernel: the bootstrap thread has 16, the      *)
(* reaper 30, the idle thread 0.  The first thread of a new team has 16 too, *)
(* so a worker shares a queue with the bootstrap thread.                     *)
EXTENDS Scheduler

const_BasePriority == [t \in Threads |-> CASE t = Reaper -> 30 [] t = Idle -> 0 [] OTHER -> 16]
=============================================================================
