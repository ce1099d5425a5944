----------------------------- MODULE Scheduler ------------------------------
(***************************************************************************)
(* The scheduler and the life of kernel threads: _Scheduler                *)
(* (datastructure/Scheduler.cpp), Thread's constructor, Exit, SwitchTo and *)
(* GrimReaper (datastructure/Thread.cpp), the idle thread (Processor.cpp)  *)
(* and the way the timer interrupt reaches the scheduler (interrupt.cpp,   *)
(* InterruptHandler.cpp, Timer.cpp).                                       *)
(*                                                                         *)
(* There is one processor.  Code between DisableInterrupts and             *)
(* RestoreInterrupts is one step; an interrupt may come between two steps. *)
(* What makes a thread wait or wakes it is the subject of Synchronization; *)
(* here a running thread may block and a waiting one may be woken.         *)
(* Time is abstracted to what the code compares: whether the running       *)
(* thread has used its quantum, whether a woken one has slept for long.    *)
(***************************************************************************)
EXTENDS Integers, Sequences, FiniteSets, SequencesExt

CONSTANTS Main,           \* the bootstrap thread
          Reaper,         \* "Grim Reaper"
          Idle,           \* "Idle Thread"
          Workers,        \* threads created later
          kMaxPriority,   \* 31
          BasePriority    \* Thread::fBasePriority

NoThread == "no thread"

Threads == {Main, Reaper, Idle} \cup Workers

ASSUME SchedulerAssumption ==
  /\ kMaxPriority \in Nat
  /\ BasePriority \in [Threads -> 0..kMaxPriority]
  /\ NoThread \notin Threads
  /\ IsFiniteSet(Workers)
  /\ Main # Reaper /\ Main # Idle /\ Reaper # Idle
  /\ {Main, Reaper, Idle} \cap Workers = {}

Priorities == 0..kMaxPriority

\* fHighestReadyThread once PickNextThread has taken the only ready thread:
\* its loop leaves the array fReadyQueue below index 0 and stops at the first
\* word there that does not look like an empty queue.  Every negative index
\* acts alike: it is below every priority.
BelowQueues == -1

\* "released" is a dead thread that the reaper is done with and somebody else
\* still has a reference to.
States == {"none", "created", "ready", "running", "waiting",
           "dead", "released", "deleted"}

VARIABLES
  sched,      \* the scheduler, and what it keeps in the threads:
              \*   running              Thread::fRunningThread
              \*   state, cur           fState and fCurrentPriority per thread
              \*   fReadyQueue, fReadyThreadCount, fHighestReadyThread
              \*   timer                the quantum timer is pending
              \*   used                 the running thread has used its quantum
  pc,         \* what a thread does next when it runs: "run" (its own code),
              \* "reschedule" (about to call Reschedule), and for the reaper
              \* "dequeue" and "release"
  isr,        \* the thread whose timer interrupt is not acknowledged yet
  fReapQueue,
  fThreadsToReap,   \* Semaphore::fCount
  victim,           \* the reaper's local variable
  others            \* the threads with a reference beside the constructor's

vars == <<sched, pc, isr, fReapQueue, fThreadsToReap, victim, others>>

-----------------------------------------------------------------------------
(* The scheduler's functions: from its state to its next state. *)

\* Mutant: the boost is not limited to 3.
NewPriorityUnlimited(s, t, slept) ==
  LET c == s.cur[t]
      b == BasePriority[t]
  IN  IF slept
        THEN IF c < kMaxPriority THEN c + 1 ELSE c
        ELSE IF c > b THEN c - 1 ELSE c

\* A thread that has slept long climbs one priority, up to 3 above its base;
\* any other one that becomes ready falls back by one.
NewPriority(s, t, slept) ==
  LET c == s.cur[t]
      b == BasePriority[t]
  IN  IF slept
        THEN IF c < kMaxPriority /\ c < b + 3 THEN c + 1 ELSE c
        ELSE IF c > b THEN c - 1 ELSE c

\* Mutant: the thread is queued before its priority is adjusted.
EnqueueReadyThreadEarly(s, t, slept) ==
  LET p == NewPriority(s, t, slept)
  IN  [s EXCEPT !.cur[t] = p,
                !.fHighestReadyThread = IF p > @ THEN p ELSE @,
                !.fReadyThreadCount = @ + 1,
                !.state[t] = "ready",
                !.fReadyQueue[s.cur[t]] = Append(@, t)]

EnqueueReadyThread(s, t, slept) ==
  LET p == NewPriority(s, t, slept)
  IN  [s EXCEPT !.cur[t] = p,
                !.fHighestReadyThread = IF p > @ THEN p ELSE @,
                !.fReadyThreadCount = @ + 1,
                !.state[t] = "ready",
                !.fReadyQueue[p] = Append(@, t)]

\* The loop of PickNextThread over the emptied queues.
HighestNonEmpty(q, from) ==
  LET nonEmpty == {p \in Priorities : p <= from /\ q[p] # << >>}
  IN  IF nonEmpty = {} THEN BelowQueues
      ELSE CHOOSE p \in nonEmpty : \A r \in nonEmpty : r <= p

\* PickNextThread()->SwitchTo().  No thread runs when the assertion of
\* PickNextThread fails.
PickAndSwitch(s) ==
  IF \/ s.fHighestReadyThread \notin Priorities
     \/ s.fReadyQueue[s.fHighestReadyThread] = << >>
  THEN [s EXCEPT !.running = NoThread]
  ELSE LET h == s.fHighestReadyThread
           t == Head(s.fReadyQueue[h])
           q == [s.fReadyQueue EXCEPT ![h] = Tail(@)]
       IN  [s EXCEPT !.fReadyQueue = q,
                     !.fReadyThreadCount = @ - 1,
                     !.fHighestReadyThread = HighestNonEmpty(q, h),
                     !.state[t] = "running",
                     !.running = t,
                     !.used = @ /\ t = s.running]

\* Mutant: the thread that loses the processor is not queued.
RescheduleForgets(s) ==
  IF /\ s.state[s.running] = "running"
     /\ s.fHighestReadyThread <= s.cur[s.running] /\ ~s.used
  THEN s
  ELSE PickAndSwitch([s EXCEPT !.timer = s.fReadyThreadCount > 1])

\* Mutant: only a waiting thread is kept out of the ready queues.
RescheduleQueuesDead(s) ==
  LET runs == s.state[s.running] # "waiting"
      ready == IF runs THEN EnqueueReadyThread(s, s.running, FALSE) ELSE s
  IN  IF runs /\ s.fHighestReadyThread <= s.cur[s.running] /\ ~s.used
        THEN s
        ELSE PickAndSwitch([ready EXCEPT !.timer = ready.fReadyThreadCount > 1])

\* Mutant: the timer is set only when two more threads are ready.
RescheduleLateTimer(s) ==
  LET runs == s.state[s.running] = "running"
      ready == IF runs THEN EnqueueReadyThread(s, s.running, FALSE) ELSE s
  IN  IF runs /\ s.fHighestReadyThread <= s.cur[s.running] /\ ~s.used
        THEN s
        ELSE PickAndSwitch([ready EXCEPT !.timer = ready.fReadyThreadCount > 2])

Reschedule(s) ==
  LET runs == s.state[s.running] = "running"
      ready == IF runs THEN EnqueueReadyThread(s, s.running, FALSE) ELSE s
  IN  IF runs /\ s.fHighestReadyThread <= s.cur[s.running] /\ ~s.used
        THEN s
        ELSE PickAndSwitch([ready EXCEPT !.timer = ready.fReadyThreadCount > 1])

-----------------------------------------------------------------------------
Init ==
  /\ sched = [running |-> Main,
              state |-> [t \in Threads |-> IF t = Main THEN "running" ELSE "none"],
              cur |-> BasePriority,
              fReadyQueue |-> [p \in Priorities |-> << >>],
              fReadyThreadCount |-> 0,
              fHighestReadyThread |-> 0,
              timer |-> FALSE,
              used |-> FALSE]
  /\ pc = [t \in Threads |-> "run"]
  /\ isr = NoThread
  /\ fReapQueue = << >>
  /\ fThreadsToReap = 0
  /\ victim = NoThread
  /\ others = {}

\* t executes its own code: it is not inside an interrupt.
Runs(t) == sched.running = t /\ isr # t

-----------------------------------------------------------------------------
(* What the running thread does. *)

\* The constructor of Thread, from the state it sets to EnqueueReadyThread; its
\* call of Reschedule follows.  Team::Bootstrap starts the reaper,
\* Processor::Bootstrap the idle thread, and the system the others after that;
\* whoever starts a worker may keep a handle to it.
CreateThread(t, new, handle) ==
  /\ Runs(t) /\ pc[t] = "run" /\ t \notin {Reaper, Idle}
  /\ sched.state[new] = "none"
  /\ CASE new = Reaper -> TRUE
       [] new = Idle -> sched.state[Reaper] # "none"
       [] OTHER -> sched.state[Idle] # "none"
  /\ sched' = EnqueueReadyThread([sched EXCEPT !.state[new] = "created"], new, FALSE)
  /\ pc' = [pc EXCEPT ![t] = "reschedule"]
  /\ handle => new \in Workers
  /\ others' = IF handle THEN others \cup {new} ELSE others
  /\ UNCHANGED <<isr, fReapQueue, fThreadsToReap, victim>>

\* gScheduler.Reschedule() called with interrupts on.
CallReschedule(t) ==
  /\ Runs(t) /\ pc[t] = "reschedule"
  /\ sched' = Reschedule(sched)
  /\ pc' = [pc EXCEPT ![t] = "run"]
  /\ UNCHANGED <<isr, fReapQueue, fThreadsToReap, victim, others>>

\* WaitInternal: kThreadWaiting and Reschedule, with interrupts off.
Block(t) ==
  /\ Runs(t) /\ pc[t] = "run" /\ t \notin {Reaper, Idle}
  /\ sched.state[t] = "running" /\ sched.state[Idle] # "none"
  /\ sched' = Reschedule([sched EXCEPT !.state[t] = "waiting"])
  /\ UNCHANGED <<pc, isr, fReapQueue, fThreadsToReap, victim, others>>

\* The reaper waits for fThreadsToReap, which Exit alone releases, or inside
\* ReleaseRef for what another thread has.
Wakeable == Threads \ (IF pc[Reaper] = "dequeue" THEN {Reaper} ELSE {})

\* Signal(false) wakes u; the caller keeps the processor.
Wake(t, u, slept) ==
  /\ Runs(t) /\ pc[t] = "run" /\ t # Idle
  /\ sched.state[t] = "running" /\ sched.state[u] = "waiting" /\ u \in Wakeable
  /\ sched' = EnqueueReadyThread(sched, u, slept)
  /\ UNCHANGED <<pc, isr, fReapQueue, fThreadsToReap, victim, others>>

\* Semaphore::Release wakes u and reschedules before it lets interrupts in.
WakeAndReschedule(t, u, slept) ==
  /\ Runs(t) /\ pc[t] = "run" /\ t # Idle
  /\ sched.state[t] = "running" /\ sched.state[u] = "waiting" /\ u \in Wakeable
  /\ sched' = Reschedule(EnqueueReadyThread(sched, u, slept))
  /\ UNCHANGED <<pc, isr, fReapQueue, fThreadsToReap, victim, others>>

\* Somebody is in the queue of fThreadsToReap.
ReaperWaits == sched.state[Reaper] = "waiting" /\ pc[Reaper] = "dequeue"

\* Mutant: Exit releases the semaphore and does not queue the thread.
ExitNotQueued(t, slept) ==
  /\ Runs(t) /\ pc[t] = "run" /\ t \in Workers
  /\ LET dead == [sched EXCEPT !.state[t] = "dead"]
     IN  IF fThreadsToReap = 0 /\ ReaperWaits
           THEN /\ sched' = EnqueueReadyThread(dead, Reaper, slept)
                /\ UNCHANGED fThreadsToReap
           ELSE /\ sched' = dead
                /\ fThreadsToReap' = fThreadsToReap + 1
  /\ pc' = [pc EXCEPT ![t] = "reschedule"]
  /\ UNCHANGED <<isr, victim, others, fReapQueue>>

\* Mutant: Exit counts a token and does not signal.
ExitNoSignal(t, slept) ==
  /\ Runs(t) /\ pc[t] = "run" /\ t \in Workers
  /\ fReapQueue' = Append(fReapQueue, t)
  /\ sched' = [sched EXCEPT !.state[t] = "dead"]
  /\ fThreadsToReap' = fThreadsToReap + 1
  /\ pc' = [pc EXCEPT ![t] = "reschedule"]
  /\ UNCHANGED <<isr, victim, others>>

\* Thread::Exit, up to its call of Reschedule.  fThreadsToReap.Release(1, false)
\* wakes the reaper if it waits.
Exit(t, slept) ==
  /\ Runs(t) /\ pc[t] = "run" /\ t \in Workers
  /\ fReapQueue' = Append(fReapQueue, t)
  /\ LET dead == [sched EXCEPT !.state[t] = "dead"]
     IN  IF fThreadsToReap = 0 /\ ReaperWaits
           THEN /\ sched' = EnqueueReadyThread(dead, Reaper, slept)
                /\ UNCHANGED fThreadsToReap
           ELSE /\ sched' = dead
                /\ fThreadsToReap' = fThreadsToReap + 1
  /\ pc' = [pc EXCEPT ![t] = "reschedule"]
  /\ UNCHANGED <<isr, victim, others>>

-----------------------------------------------------------------------------
(* The loop of GrimReaper. *)

\* fThreadsToReap.Wait().
ReaperWait ==
  /\ Runs(Reaper) /\ pc[Reaper] = "run"
  /\ pc' = [pc EXCEPT ![Reaper] = "dequeue"]
  /\ IF fThreadsToReap > 0
       THEN /\ fThreadsToReap' = fThreadsToReap - 1
            /\ UNCHANGED sched
       ELSE /\ sched' = Reschedule([sched EXCEPT !.state[Reaper] = "waiting"])
            /\ UNCHANGED fThreadsToReap
  /\ UNCHANGED <<isr, fReapQueue, victim, others>>

\* fReapQueue.Dequeue(), null when the queue is empty.
ReaperDequeue ==
  /\ Runs(Reaper) /\ pc[Reaper] = "dequeue"
  /\ victim' = IF fReapQueue = << >> THEN NoThread ELSE Head(fReapQueue)
  /\ fReapQueue' = IF fReapQueue = << >> THEN fReapQueue ELSE Tail(fReapQueue)
  /\ pc' = [pc EXCEPT ![Reaper] = "release"]
  /\ UNCHANGED <<sched, isr, fThreadsToReap, others>>

\* victim->ReleaseRef() drops the reference of the constructor.  The last one
\* deletes the thread: Thread::~Thread frees the stacks and leaves the team,
\* and DeleteArea may have to wait for fAreaLock on the way.
ReaperBlocks ==
  /\ Runs(Reaper) /\ pc[Reaper] = "release"
  /\ victim # NoThread /\ victim \notin others
  /\ sched' = Reschedule([sched EXCEPT !.state[Reaper] = "waiting"])
  /\ UNCHANGED <<pc, isr, fReapQueue, fThreadsToReap, victim, others>>

\* ReleaseRef returns.
ReaperRelease ==
  /\ Runs(Reaper) /\ pc[Reaper] = "release"
  /\ sched' = IF victim = NoThread THEN sched
              ELSE [sched EXCEPT !.state[victim] =
                      IF victim \in others THEN "released" ELSE "deleted"]
  /\ victim' = NoThread
  /\ pc' = [pc EXCEPT ![Reaper] = "run"]
  /\ UNCHANGED <<isr, fReapQueue, fThreadsToReap, others>>

\* Another thread closes its handle to u; ReleaseRef deletes u if the reaper's
\* reference is gone.  (The waits of ~Thread are Blocks of t before this step.)
CloseHandle(t, u) ==
  /\ Runs(t) /\ pc[t] = "run" /\ t \notin {Reaper, Idle}
  /\ sched.state[t] = "running"
  /\ u \in others
  /\ others' = others \ {u}
  /\ sched' = IF sched.state[u] = "released"
                THEN [sched EXCEPT !.state[u] = "deleted"] ELSE sched
  /\ UNCHANGED <<pc, isr, fReapQueue, fThreadsToReap, victim>>

-----------------------------------------------------------------------------
(* Time and interrupts.  The controller holds back further interrupts until *)
(* the timer's is acknowledged.                                             *)

QuantumPasses ==
  /\ ~sched.used
  /\ sched' = [sched EXCEPT !.used = TRUE]
  /\ UNCHANGED <<pc, isr, fReapQueue, fThreadsToReap, victim, others>>

\* HandleTimeout of the threads in woken, one after the other; the threads in
\* slept have slept for long.
AfterTimeouts(s, woken, slept) ==
  LET after[n \in 0..Len(woken)] ==
        IF n = 0 THEN s
        ELSE EnqueueReadyThread(after[n - 1], woken[n], woken[n] \in slept)
  IN  after[Len(woken)]

\* The threads a timer may wake.
Sleepers == {t \in Threads \ {Reaper} : sched.state[t] = "waiting"}

\* HardwareTimerInterrupt: ThreadWaitEvent::HandleTimeout makes the sleepers
\* whose time has come ready, in the order of their times; if quantum, the
\* scheduler's own timer has expired too.  It calls Reschedule itself, inside
\* the handler that HandleTrap has called through Dispatch, so the interrupted
\* thread may lose the processor before the interrupt is acknowledged.
TimerInterrupt(woken, slept, quantum) ==
  /\ isr = NoThread /\ sched.running # NoThread
  /\ quantum => sched.timer
  /\ quantum \/ woken # << >>
  /\ isr' = sched.running
  /\ LET off == IF quantum THEN [sched EXCEPT !.timer = FALSE] ELSE sched
     IN  sched' = Reschedule(AfterTimeouts(off, woken, slept))
  /\ UNCHANGED <<pc, fReapQueue, fThreadsToReap, victim, others>>

\* The interrupted thread has the processor again: Dispatch returns, HandleTrap
\* acknowledges the interrupt and, told to by the result, reschedules.
EndOfInterrupt ==
  /\ isr # NoThread /\ sched.running = isr
  /\ isr' = NoThread
  /\ sched' = Reschedule(sched)
  /\ UNCHANGED <<pc, fReapQueue, fThreadsToReap, victim, others>>

\* An interrupt of a device (IDE.cpp, Floppy.cpp): its handler releases a
\* semaphore with reschedule off and returns kReschedule.
DeviceInterrupt(u, slept) ==
  /\ isr = NoThread /\ sched.running # NoThread
  /\ u \in Sleepers
  /\ sched' = Reschedule(EnqueueReadyThread(sched, u, slept))
  /\ UNCHANGED <<pc, isr, fReapQueue, fThreadsToReap, victim, others>>

-----------------------------------------------------------------------------
Orders(S) == UNION {SetToSeqs(W) : W \in SUBSET S}

\* Steps that a thread takes when it has the processor, and nobody else.
Continue ==
  \/ \E t \in Threads : CallReschedule(t)
  \/ ReaperWait
  \/ ReaperDequeue
  \/ ReaperRelease
  \/ EndOfInterrupt

Next ==
  \/ Continue
  \/ \E t, u \in Threads, handle \in BOOLEAN : CreateThread(t, u, handle)
  \/ \E t, u \in Threads : CloseHandle(t, u)
  \/ ReaperBlocks
  \/ \E t \in Threads : Block(t)
  \/ \E t, u \in Threads, slept \in BOOLEAN : Wake(t, u, slept)
  \/ \E t, u \in Threads, slept \in BOOLEAN : WakeAndReschedule(t, u, slept)
  \/ \E t \in Workers, slept \in BOOLEAN : Exit(t, slept)
  \/ QuantumPasses
  \/ \E woken \in Orders(Sleepers), slept \in SUBSET Sleepers, quantum \in BOOLEAN :
       TimerInterrupt(woken, slept, quantum)
  \/ \E u \in Sleepers, slept \in BOOLEAN : DeviceInterrupt(u, slept)

Spec == Init /\ [][Next]_vars

\* A thread that has the processor goes on with what it does; interrupts are
\* further apart than the steps of the reaper are long.  ReaperBlocks is not
\* fair: nothing makes a lock be taken.
FairSpec ==
  /\ Spec
  /\ WF_vars(Continue)
  /\ SF_vars(ReaperWait \/ ReaperDequeue \/ ReaperRelease)

-----------------------------------------------------------------------------
(* Properties. *)

TypeOK ==
  /\ sched \in [running : Threads \cup {NoThread},
                state : [Threads -> States],
                cur : [Threads -> Priorities],
                fReadyQueue : [Priorities -> Seq(Threads)],
                fReadyThreadCount : Nat,
                fHighestReadyThread : Priorities \cup {BelowQueues},
                timer : BOOLEAN,
                used : BOOLEAN]
  /\ pc \in [Threads -> {"run", "reschedule", "dequeue", "release"}]
  /\ isr \in Threads \cup {NoThread}
  /\ fReapQueue \in Seq(Threads)
  /\ fThreadsToReap \in Nat
  /\ victim \in Threads \cup {NoThread}
  /\ others \subseteq Workers

Ready == {t \in Threads : sched.state[t] = "ready"}

\* The ready queues, the count and the highest priority agree with the states
\* of the threads: a ready thread is once in the queue of its current priority
\* and in no other, only ready threads are queued, and fHighestReadyThread is
\* the best of them.  Thread is the node of the ready queues and of the reap
\* queue, so a thread in two of them would corrupt both.
ReadyQueues ==
  LET queue(p) == sched.fReadyQueue[p]
  IN  /\ TypeOK
      /\ \A p \in Priorities, t \in Threads :
           Cardinality({i \in 1..Len(queue(p)) : queue(p)[i] = t})
             = IF t \in Ready /\ sched.cur[t] = p THEN 1 ELSE 0
      /\ sched.fReadyThreadCount = Cardinality(Ready)
      /\ \A t \in Ready : sched.cur[t] <= sched.fHighestReadyThread
      /\ Ready # {} => \E t \in Ready : sched.cur[t] = sched.fHighestReadyThread

\* PickNextThread always finds a thread: from Processor::Bootstrap on the idle
\* thread is ready whenever it does not run.
AlwaysSomethingToRun ==
  /\ sched.running # NoThread
  /\ sched.state[Idle] \in {"none", "ready", "running"}
  /\ sched.state[sched.running] \in {"running", "dead"}
  /\ \A t \in Threads : sched.state[t] = "running" => t = sched.running

\* The reaper finds a thread for every token of its semaphore, and what is in
\* its queue is dead and not freed.
ReapQueue ==
  /\ Len(fReapQueue) = fThreadsToReap
       + (IF pc[Reaper] = "dequeue" /\ sched.state[Reaper] # "waiting" THEN 1 ELSE 0)
  /\ \A i \in 1..Len(fReapQueue) : sched.state[fReapQueue[i]] = "dead"
  /\ \A i, j \in 1..Len(fReapQueue) : fReapQueue[i] = fReapQueue[j] => i = j
  /\ victim # NoThread => sched.state[victim] = "dead" /\ sched.running # victim

\* panic("terminated thread got scheduled"): a thread that has called Exit and
\* lost the processor never gets it again, whenever its stack is freed.
Over == {"dead", "released", "deleted"}

DeadStayDead ==
  [][\A t \in Threads : sched.state[t] \in Over =>
       /\ sched'.state[t] \in Over
       /\ sched'.running = t => sched.running = t /\ sched'.state[t] = "dead"]_vars

\* The processor goes to a thread no ready thread outranks, and boosting never
\* lifts a thread more than 3 priorities, nor sinks it below its base.
HighestGoesFirst ==
  [][/\ sched'.running # sched.running =>
          \A t \in Threads : sched'.state[t] = "ready" =>
            sched'.cur[t] <= sched'.cur[sched'.running]
     /\ \A t \in Threads :
          sched'.cur[t] \in BasePriority[t]..(BasePriority[t] + 3)]_vars

\* Once the idle thread exists, every other thread gets the processor with the
\* quantum timer set, and only the timer's own interrupt takes it from a thread
\* that keeps the processor - and then only before the quantum is used up, when
\* Reschedule leaves everything as it is.  A thread whose quantum is used up
\* when the timer fires never goes on without one.
TimesliceArmed ==
  [][sched'.running # Idle /\ sched.state[Idle] # "none" =>
       \/ sched'.timer
       \/ /\ sched'.running = sched.running
          /\ isr' = isr => ~sched.timer
          /\ isr' # isr => ~sched.used]_vars

\* The reaper is not kept for ever inside ~Thread: the locks it asks for are
\* given to it, and it gets the processor again after that.  (Mutex::Unlock wakes
\* it without a reschedule.)
WaitsInReleaseEnd ==
  []<>(pc[Reaper] = "release" => sched.state[Reaper] = "running")

\* The reaper frees every thread that exits, or leaves that to the one who still
\* has a handle to it.
Reaped ==
  WaitsInReleaseEnd =>
    \A t \in Workers : sched.state[t] = "dead" ~>
      \/ sched.state[t] = "deleted"
      \/ sched.state[t] = "released" /\ t \in others

=============================================================================
