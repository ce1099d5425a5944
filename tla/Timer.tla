------------------------------- MODULE Timer --------------------------------
(***************************************************************************)
(* Virtual timers on one hardware timer (Timer.cpp, HardwareTimer.cpp),    *)
(* with their users: the quantum timer of the scheduler, the timers of     *)
(* waiting threads, and the floppy driver's motor timer.                   *)
(*                                                                         *)
(* The code uses times only as differences, so the model keeps, instead of *)
(* the clock and fWhen, how far fWhen is ahead of SystemTime().            *)
(* The scheduler and WaitInternal call with interrupts off: each call is a *)
(* step.  The floppy driver calls with interrupts on, and its threads can  *)
(* be preempted inside SetTimeout.                                         *)
(***************************************************************************)
EXTENDS Integers, Sequences, FiniteSets, SequencesExt

CONSTANTS
  WaitTimers,          \* the timers of waiting threads
  Quantum, Motor,      \* gScheduler, and the Floppy
  DriverThreads,       \* the threads that use the floppy
  Delays,              \* how far ahead timeouts are set
  Intervals,           \* the intervals of periodic timers
  kQuantum,
  kMaxTimerInterval,   \* what the hardware timer can count
  MaxLatency           \* bound: how long interrupts stay off, and how overdue
                       \* the model tells timers apart

Timers == WaitTimers \cup {Quantum, Motor}

ASSUME TimerAssumption ==
  /\ Delays \subseteq Nat /\ Intervals \subseteq Nat \ {0}
  /\ kQuantum \in Nat \ {0} /\ kMaxTimerInterval \in Nat \ {0}
  /\ MaxLatency \in Nat \ {0}
  /\ IsFiniteSet(WaitTimers)
  /\ Quantum # Motor /\ {Quantum, Motor} \cap WaitTimers = {}

Off == -1

VARIABLES
  tm,     \* fTimerQueue                  the static queue
          \* due[t]                       fWhen - SystemTime() of timer t
          \* fMode, fInterval, fPending   of timer t
          \* hw                           how long the hardware timer still
          \*                              counts; 0: its interrupt is pending
  late,   \* how long the interrupt has been pending
  pc,     \* where each driver thread is
  crash   \* what stopped the kernel, or "no"

vars == <<tm, late, pc, crash>>

-----------------------------------------------------------------------------
(* The functions of Timer.cpp, from the state to the next state. *)

\* SetHardwareTimer: the conversion to clocks of the PIT rounds down, by less
\* than a microsecond (early = 1).  A time that has passed is two clocks, which
\* is over before the kernel sets another.  An interrupt that is pending stays so.
SetHardwareTimer(s, relative, early) ==
  [s EXCEPT !.hw = IF s.hw = 0 \/ relative <= 0 THEN 0
                   ELSE IF relative < kMaxTimerInterval THEN relative - early
                   ELSE kMaxTimerInterval]

ReprogramHardwareTimer(s, early) ==
  IF s.fTimerQueue = << >> THEN s
  ELSE SetHardwareTimer(s, s.due[Head(s.fTimerQueue)], early)

\* Mutant: a new timer goes to the end of the queue.
EnqueueLast(s, t) == [s EXCEPT !.fTimerQueue = Append(@, t)]

\* Before the head when it is due no later than that, otherwise behind the last
\* timer that is due earlier.
Enqueue(s, t) ==
  LET q == s.fTimerQueue
      sooner == {i \in 1..Len(q) : s.due[q[i]] < s.due[t]}
      behind == IF q = << >> \/ s.due[Head(q)] >= s.due[t] THEN 0 ELSE Max(sooner)
  IN  [s EXCEPT !.fTimerQueue = InsertAt(q, behind + 1, t)]

\* Mutant: the hardware timer is set only when the queue was empty.
InsertTimeoutKeepsHardware(s, t, early) ==
  LET r == Enqueue(s, t)
  IN  IF s.fTimerQueue = << >> THEN ReprogramHardwareTimer(r, early) ELSE r

\* The part of SetTimeout that runs with interrupts off.
InsertTimeout(s, t, early) ==
  LET r == Enqueue(s, t)
  IN  IF s.fTimerQueue = << >> \/ Head(r.fTimerQueue) # Head(s.fTimerQueue)
        THEN ReprogramHardwareTimer(r, early) ELSE r

\* The assignments of SetTimeout before that.
Assign(s, t, mode, time) ==
  [s EXCEPT !.fMode[t] = mode, !.fPending[t] = TRUE, !.due[t] = time,
            !.fInterval[t] = IF mode = "periodic" THEN time ELSE @]

\* fPending = false.  What the other fields keep is not read again before
\* SetTimeout assigns them; the model keeps their initial values.
NotPending(s, t) ==
  [s EXCEPT !.fPending[t] = FALSE, !.due[t] = 0, !.fMode[t] = "one shot", !.fInterval[t] = 0]

\* Remove of a node that is in the list.
Removed(s, t) == [s EXCEPT !.fTimerQueue = RemoveFirst(@, t)]

Linked(s, t) == t \in Range(s.fTimerQueue)

\* CancelTimeout, unless it removes a node that is not in the list.
Cancelled(s, t, early) ==
  LET r == NotPending(IF s.fPending[t] THEN Removed(s, t) ELSE s, t)
  IN  IF Linked(s, t) /\ Head(s.fTimerQueue) = t THEN ReprogramHardwareTimer(r, early) ELSE r

\* One turn of HardwareTimerInterrupt's loop.
ExpireHead(s) ==
  LET t == Head(s.fTimerQueue)
      r == [s EXCEPT !.fTimerQueue = Tail(@)]
  IN  IF s.fMode[t] = "periodic"
        THEN Enqueue([r EXCEPT !.due[t] = @ + s.fInterval[t]], t)
        ELSE NotPending(r, t)

Overdue(s) == s.fTimerQueue # << >> /\ s.due[Head(s.fTimerQueue)] <= 0

Turn(s) == IF Overdue(s) THEN ExpireHead(s) ELSE s

\* The loop.  A timer can be MaxLatency overdue at most, so this many turns end it.
Turns == Cardinality(Timers) * (MaxLatency + 1)

Expire(s) ==
  LET after[n \in 0..Turns] == IF n = 0 THEN s ELSE Turn(after[n - 1])
  IN  after[Turns]

\* _Scheduler::HandleTimeout and ThreadWaitEvent::HandleTimeout return
\* kReschedule, Floppy::HandleTimeout kHandledInterrupt.
WantsReschedule(s, r) == \E t \in Timers \ {Motor} : s.fPending[t] /\ ~r.fPending[t]

\* What _Scheduler::Reschedule may do with its timer: nothing, when the running
\* thread goes on, or cancel it, and set it again when other threads are ready.
Rescheduled(s, what, early) ==
  CASE what = "go on" -> s
    [] what = "switch" -> Cancelled(s, Quantum, early)
    [] what = "switch, others ready" ->
         InsertTimeout(Assign(Cancelled(s, Quantum, early), Quantum, "one shot", kQuantum),
                       Quantum, early)

Reschedules == {"go on", "switch", "switch, others ready"}

-----------------------------------------------------------------------------
Init ==
  /\ tm = [fTimerQueue |-> << >>,
           due |-> [t \in Timers |-> 0],
           fMode |-> [t \in Timers |-> "one shot"],
           fInterval |-> [t \in Timers |-> 0],
           fPending |-> [t \in Timers |-> FALSE],
           hw |-> Off]
  /\ late = 0
  /\ pc = [d \in DriverThreads |-> "idle"]
  /\ crash = "no"

\* SetTimeout with interrupts off; it panics when the timer is pending, and
\* WaitInternal sets a timer it has just made.
SetTimeout(t, mode, time, early) ==
  /\ crash = "no" /\ ~tm.fPending[t]
  /\ tm' = InsertTimeout(Assign(tm, t, mode, time), t, early)
  /\ UNCHANGED <<late, pc, crash>>

\* CancelTimeout of a timer whose owner sets it with interrupts off.
CancelTimeout(t, early) ==
  /\ crash = "no"
  /\ tm' = Cancelled(tm, t, early)
  /\ UNCHANGED <<late, pc, crash>>

\* _Scheduler::Reschedule, called by a thread.
Reschedule(what, early) ==
  /\ crash = "no" /\ what # "go on"
  /\ tm' = Rescheduled(tm, what, early)
  /\ UNCHANGED <<late, pc, crash>>

\* CancelTimeout of the motor's timer, by thread d that goes on at next.
MotorCancel(d, next, early) ==
  /\ IF tm.fPending[Motor] /\ ~Linked(tm, Motor)
       THEN crash' = "removed an unlinked timer" /\ UNCHANGED tm
       ELSE tm' = Cancelled(tm, Motor, early) /\ UNCHANGED crash
  /\ pc' = [pc EXCEPT ![d] = next]
  /\ UNCHANGED late

TurnOnMotor(d, early) == crash = "no" /\ pc[d] = "idle" /\ MotorCancel(d, "motor on", early)

SpinDownMotor(d, early) == crash = "no" /\ pc[d] = "motor on" /\ MotorCancel(d, "cancelled", early)

\* SetTimeout's test of fPending ...
MotorCheck(d) ==
  /\ crash = "no" /\ pc[d] = "cancelled"
  /\ IF tm.fPending[Motor] THEN crash' = "panic" ELSE UNCHANGED crash
  /\ pc' = [pc EXCEPT ![d] = "checked"]
  /\ UNCHANGED <<tm, late>>

\* ... its assignments ...
MotorAssign(d, time) ==
  /\ crash = "no" /\ pc[d] = "checked"
  /\ tm' = Assign(tm, Motor, "one shot", time)
  /\ pc' = [pc EXCEPT ![d] = "assigned"]
  /\ UNCHANGED <<late, crash>>

\* ... and the rest, with interrupts off.
MotorInsert(d, early) ==
  /\ crash = "no" /\ pc[d] = "assigned"
  /\ tm' = InsertTimeout(tm, Motor, early)
  /\ pc' = [pc EXCEPT ![d] = "idle"]
  /\ UNCHANGED <<late, crash>>

\* Mutant: the hardware timer is not set again.
InterruptNoReprogram(what, early) ==
  /\ crash = "no" /\ tm.hw = 0
  /\ LET r == Expire([tm EXCEPT !.hw = Off])
     IN  /\ WantsReschedule(tm, r) \/ what = "go on"
         /\ tm' = Rescheduled(r, what, early)
  /\ late' = 0
  /\ UNCHANGED <<pc, crash>>

HardwareTimerInterrupt(what, early) ==
  /\ crash = "no" /\ tm.hw = 0
  /\ LET r == Expire([tm EXCEPT !.hw = Off])
     IN  /\ WantsReschedule(tm, r) \/ what = "go on"
         /\ tm' = Rescheduled(ReprogramHardwareTimer(r, early), what, early)
  /\ late' = 0
  /\ UNCHANGED <<pc, crash>>

\* A microsecond passes.
Tick ==
  /\ crash = "no"
  /\ tm.hw = 0 => late < MaxLatency
  /\ tm' = [tm EXCEPT !.due = [t \in Timers |->
                                 IF tm.fPending[t] /\ @[t] > -MaxLatency THEN @[t] - 1 ELSE @[t]],
                      !.hw = IF @ > 0 THEN @ - 1 ELSE @]
  /\ late' = IF tm.hw = 0 THEN late + 1 ELSE late
  /\ UNCHANGED <<pc, crash>>

Modes == {"one shot", "periodic"}

Early == {0, 1}

Next ==
  \/ \E t \in WaitTimers, time \in Delays, e \in Early : SetTimeout(t, "one shot", time, e)
  \/ \E t \in WaitTimers, time \in Intervals, e \in Early : SetTimeout(t, "periodic", time, e)
  \/ \E t \in WaitTimers, e \in Early : CancelTimeout(t, e)
  \/ \E what \in Reschedules, e \in Early :
       Reschedule(what, e) \/ HardwareTimerInterrupt(what, e)
  \/ \E d \in DriverThreads, e \in Early :
       TurnOnMotor(d, e) \/ SpinDownMotor(d, e) \/ MotorInsert(d, e)
  \/ \E d \in DriverThreads : MotorCheck(d) \/ \E time \in Delays : MotorAssign(d, time)
  \/ Tick

Spec == Init /\ [][Next]_vars

\* Time passes, the interrupt of the hardware timer is taken, and a driver
\* thread that is inside SetTimeout gets on.
\* (Weak fairness of the interrupt is written out: it is enabled when hw is 0.)
FairSpec ==
  /\ Spec
  /\ WF_vars(Tick)
  /\ \/ []<>(tm.hw # 0 \/ crash # "no")
     \/ []<><<\E what \in Reschedules, e \in Early : HardwareTimerInterrupt(what, e)>>_vars
  /\ \A d \in DriverThreads : WF_vars(\E e \in Early : MotorInsert(d, e))

-----------------------------------------------------------------------------
(* Properties. *)

\* The queue holds every pending timer once, but for one that a driver thread is
\* about to insert.
TypeOK ==
  /\ tm \in [fTimerQueue : Seq(Timers),
             due : [Timers -> Int],
             fMode : [Timers -> Modes],
             fInterval : [Timers -> Nat],
             fPending : [Timers -> BOOLEAN],
             hw : Off..kMaxTimerInterval]
  /\ \A t \in Timers :
       Cardinality({i \in 1..Len(tm.fTimerQueue) : tm.fTimerQueue[i] = t})
         = IF tm.fPending[t] /\ ~(t = Motor /\ \E d \in DriverThreads : pc[d] = "assigned")
             THEN 1 ELSE 0
  /\ late \in 0..MaxLatency
  /\ pc \in [DriverThreads -> {"idle", "motor on", "cancelled", "checked", "assigned"}]
  /\ crash \in {"no", "panic", "removed an unlinked timer"}

\* The one hardware timer always covers the first timer of the queue: its
\* interrupt comes no later than that is due.
HardwareCovers ==
  /\ TypeOK
  /\ tm.fTimerQueue # << >> =>
       LET next == tm.due[Head(tm.fTimerQueue)]
       IN  tm.hw = 0 \/ (tm.hw # Off /\ tm.hw <= next)

\* An interrupt leaves no timer of the queue that is due, however many became
\* due while interrupts were off.
NothingOverdue ==
  [][tm.hw = 0 /\ late' = 0 /\ late > 0 => ~Overdue(tm')]_vars

\* Every timeout that is set expires or is cancelled: no thread waits longer
\* than its limit for ever, whatever timers others set and cancel meanwhile.
\* (The scheduler cancels its own and sets it again in one step.)
Expires ==
  \A t \in Timers \ {Quantum} :
    tm.fPending[t] /\ tm.fMode[t] = "one shot" ~> ~tm.fPending[t] \/ crash # "no"

\* Timer.h: it is safe to call CancelTimeout from both interrupt and thread
\* level.  Two threads that use the floppy call it on the same timer.
CancelIsSafe == crash # "removed an unlinked timer"

=============================================================================
