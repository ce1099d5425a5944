--------------------------- MODULE SchedulerProofs ---------------------------
(***************************************************************************)
(* Proofs about Scheduler: for every set of threads and every assignment   *)
(* of priorities the ready queues agree with the states of the threads,    *)
(* there is always a thread to run, the reaper finds what its semaphore    *)
(* counts, the dead do not run again, and a switch goes to the highest     *)
(* priority with the quantum timer set.                                    *)
(*                                                                         *)
(* What the scheduler's functions preserve is stated about a record s and  *)
(* not about the variable sched, since every action composes them.         *)
(***************************************************************************)
EXTENDS Scheduler, Counting, SequenceTheorems, TLAPS

-----------------------------------------------------------------------------
(* The ready queues. *)

\* What the scheduler keeps while a thread runs.
Scheds ==
  [running : Threads,
   state : [Threads -> States],
   cur : [Threads -> Priorities],
   fReadyQueue : [Priorities -> Seq(Threads)],
   fReadyThreadCount : Nat,
   fHighestReadyThread : Priorities \cup {BelowQueues},
   timer : BOOLEAN,
   used : BOOLEAN]

ReadyIn(s) == {t \in Threads : s.state[t] = "ready"}

\* The threads that belong into the queue of priority p.
ReadyAt(s, p) == {t \in ReadyIn(s) : s.cur[t] = p}

\* The queues, the count and the highest priority agree with the states of the
\* threads.
QueuesOK(s) ==
  /\ \A p \in Priorities : Once(s.fReadyQueue[p], ReadyAt(s, p))
  /\ s.fReadyThreadCount = Cardinality(ReadyIn(s))
  /\ \A t \in ReadyIn(s) : s.cur[t] <= s.fHighestReadyThread
  /\ ReadyIn(s) # {} => \E t \in ReadyIn(s) : s.cur[t] = s.fHighestReadyThread
  /\ ReadyIn(s) = {} => s.fHighestReadyThread <= 0

\* A thread is between its base priority and 3 above it.
BoostsOK(s) ==
  \A t \in Threads : s.cur[t] >= BasePriority[t] /\ s.cur[t] <= BasePriority[t] + 3

\* Nobody but the thread that has the processor runs.
OneRuns(s) == \A t \in Threads : s.state[t] = "running" => t = s.running

SchedOK(s) == s \in Scheds /\ QueuesOK(s) /\ BoostsOK(s) /\ OneRuns(s)

LEMMA ThreadsFinite ==
  IsFiniteSet(Threads) /\ \A s : IsFiniteSet(ReadyIn(s))
<1>1. IsFiniteSet({Main, Reaper, Idle})
  <2>1. IsFiniteSet({Main})
    BY FS_Singleton, Zenon
  <2>2. IsFiniteSet({Main} \cup {Reaper})
    BY <2>1, FS_AddElement, Zenon
  <2>3. IsFiniteSet(({Main} \cup {Reaper}) \cup {Idle})
    BY <2>2, FS_AddElement, Zenon
  <2>4. ({Main} \cup {Reaper}) \cup {Idle} = {Main, Reaper, Idle}
    OBVIOUS
  <2> QED
    BY <2>3, <2>4, Zenon
<1>2. IsFiniteSet(Threads)
  BY <1>1, FS_Union, SchedulerAssumption, Zenon DEF Threads
<1>3. \A s : ReadyIn(s) \in SUBSET Threads
  BY Zenon DEF ReadyIn
<1> QED
  BY <1>2, <1>3, FS_Subset, Zenon

\* The new priority is within the bounds.
LEMMA NewPriorityOK ==
  ASSUME NEW s, s \in Scheds, BoostsOK(s), NEW t \in Threads, NEW slept \in BOOLEAN
  PROVE  /\ NewPriority(s, t, slept) \in Priorities
         /\ NewPriority(s, t, slept) >= BasePriority[t]
         /\ NewPriority(s, t, slept) <= BasePriority[t] + 3
<1>1. s.cur[t] \in Priorities /\ BasePriority[t] \in Priorities /\ kMaxPriority \in Nat
  BY SchedulerAssumption DEF Scheds, Priorities
<1>2. s.cur[t] >= BasePriority[t] /\ s.cur[t] <= BasePriority[t] + 3
  BY DEF BoostsOK
<1> QED
  BY <1>1, <1>2 DEF NewPriority, Priorities

\* What EnqueueReadyThread changes.
Enqueued(s, e, t, p) ==
  /\ e.running = s.running
  /\ e.state = [s.state EXCEPT ![t] = "ready"]
  /\ e.cur = [s.cur EXCEPT ![t] = p]
  /\ e.fReadyQueue = [s.fReadyQueue EXCEPT ![p] = Append(s.fReadyQueue[p], t)]
  /\ e.fReadyThreadCount = s.fReadyThreadCount + 1
  /\ e.fHighestReadyThread = IF p > s.fHighestReadyThread THEN p ELSE s.fHighestReadyThread
  /\ e.timer = s.timer
  /\ e.used = s.used

LEMMA EnqueueIs ==
  ASSUME NEW s, s \in Scheds, BoostsOK(s), NEW t \in Threads, NEW slept \in BOOLEAN
  PROVE  /\ EnqueueReadyThread(s, t, slept) \in Scheds
         /\ Enqueued(s, EnqueueReadyThread(s, t, slept), t, NewPriority(s, t, slept))
<1> DEFINE p == NewPriority(s, t, slept)
           e == EnqueueReadyThread(s, t, slept)
<1>1. p \in Priorities
  BY NewPriorityOK
<1>2. e = [s EXCEPT !.cur[t] = p,
                    !.fHighestReadyThread = IF p > @ THEN p ELSE @,
                    !.fReadyThreadCount = @ + 1,
                    !.state[t] = "ready",
                    !.fReadyQueue[p] = Append(@, t)]
  BY DEF EnqueueReadyThread
<1> HIDE DEF p, e
<1>3. Enqueued(s, e, t, p)
  BY <1>1, <1>2 DEF Enqueued, Scheds
<1>4. /\ s.running \in Threads /\ s.timer \in BOOLEAN /\ s.used \in BOOLEAN
      /\ s.fReadyThreadCount + 1 \in Nat
      /\ (IF p > s.fHighestReadyThread THEN p ELSE s.fHighestReadyThread)
           \in Priorities \cup {BelowQueues}
      /\ [s.cur EXCEPT ![t] = p] \in [Threads -> Priorities]
  BY <1>1 DEF Scheds
<1>5. [s.state EXCEPT ![t] = "ready"] \in [Threads -> States]
  BY DEF Scheds, States
<1>6. [s.fReadyQueue EXCEPT ![p] = Append(s.fReadyQueue[p], t)] \in [Priorities -> Seq(Threads)]
  BY <1>1 DEF Scheds
<1>7. e = [running |-> s.running,
           state |-> [s.state EXCEPT ![t] = "ready"],
           cur |-> [s.cur EXCEPT ![t] = p],
           fReadyQueue |-> [s.fReadyQueue EXCEPT ![p] = Append(s.fReadyQueue[p], t)],
           fReadyThreadCount |-> s.fReadyThreadCount + 1,
           fHighestReadyThread |-> IF p > s.fHighestReadyThread THEN p ELSE s.fHighestReadyThread,
           timer |-> s.timer,
           used |-> s.used]
  BY <1>1, <1>2 DEF Scheds
<1>8. e \in Scheds
  BY <1>4, <1>5, <1>6, <1>7 DEF Scheds
<1> QED
  BY <1>3, <1>8, Zenon DEF p, e

\* A thread that is not ready becomes so.
LEMMA EnqueuedOK ==
  ASSUME NEW s, SchedOK(s), NEW e, e \in Scheds, NEW t \in Threads, NEW p \in Priorities,
         t \notin ReadyIn(s), Enqueued(s, e, t, p),
         p >= BasePriority[t], p <= BasePriority[t] + 3
  PROVE  SchedOK(e)
<1>1. /\ s \in Scheds /\ QueuesOK(s) /\ BoostsOK(s) /\ OneRuns(s)
      /\ s.state \in [Threads -> States] /\ s.cur \in [Threads -> Priorities]
      /\ s.fReadyQueue \in [Priorities -> Seq(Threads)]
      /\ s.fHighestReadyThread \in Priorities \cup {BelowQueues}
  BY DEF SchedOK, Scheds
<1>2. /\ \A u \in Threads : u # t => e.state[u] = s.state[u] /\ e.cur[u] = s.cur[u]
      /\ e.cur[t] = p
      /\ \A r \in Priorities : r # p => e.fReadyQueue[r] = s.fReadyQueue[r]
      /\ e.fReadyQueue[p] = Append(s.fReadyQueue[p], t)
  BY <1>1 DEF Enqueued
<1>3. e.state[t] = "ready"
  BY <1>1, Zenon DEF Enqueued
<1>4. ReadyIn(e) = ReadyIn(s) \cup {t}
  BY <1>2, <1>3, Zenon DEF ReadyIn
<1>5. ReadyAt(e, p) = ReadyAt(s, p) \cup {t}
  <2>1. \A u \in ReadyIn(s) : u \in Threads /\ u # t
    BY Zenon DEF ReadyIn
  <2>2. \A u \in ReadyIn(s) : e.cur[u] = s.cur[u]
    BY <1>2, <2>1, Zenon
  <2> QED
    BY ONLY <1>2, <1>4, <2>2 DEF ReadyAt
<1>6. \A r \in Priorities : r # p => ReadyAt(e, r) = ReadyAt(s, r)
  <2>1. \A u \in ReadyIn(s) : u \in Threads /\ u # t
    BY Zenon DEF ReadyIn
  <2> QED
    BY <1>2, <1>4, <2>1, Zenon DEF ReadyAt
<1>7. \A r \in Priorities : Once(e.fReadyQueue[r], ReadyAt(e, r))
  <2> TAKE r \in Priorities
  <2>1. Once(s.fReadyQueue[r], ReadyAt(s, r))
    BY <1>1, Zenon DEF QueuesOK
  <2>2. CASE r = p
    <3>1. t \notin ReadyAt(s, p)
      BY Zenon DEF ReadyAt
    <3>2. Once(Append(s.fReadyQueue[p], t), ReadyAt(s, p) \cup {t})
      BY <2>1, <2>2, <3>1, OnceAppend, Zenon
    <3> QED
      BY <2>2, <3>2, <1>2, <1>5, Zenon
  <2>3. CASE r # p
    BY <2>1, <2>3, <1>2, <1>6, Zenon
  <2> QED
    BY <2>2, <2>3, Zenon
<1>8. e.fReadyThreadCount = Cardinality(ReadyIn(e))
  <2>1. Cardinality(ReadyIn(s) \cup {t}) = Cardinality(ReadyIn(s)) + 1
    BY CountIn, ThreadsFinite, Zenon
  <2> QED
    BY <2>1, <1>4, <1>1 DEF QueuesOK, Enqueued
<1>9. /\ \A u \in ReadyIn(e) : e.cur[u] <= e.fHighestReadyThread
      /\ \E u \in ReadyIn(e) : e.cur[u] = e.fHighestReadyThread
  <2> DEFINE h == s.fHighestReadyThread  g == e.fHighestReadyThread
  <2>1. g = IF p > h THEN p ELSE h
    BY DEF Enqueued
  <2>2. p \in Nat /\ (h \in Nat \/ h = -1)
    BY <1>1, SchedulerAssumption DEF Priorities, BelowQueues
  <2>3. /\ \A u \in ReadyIn(s) : s.cur[u] <= h
        /\ ReadyIn(s) # {} => \E u \in ReadyIn(s) : s.cur[u] = h
        /\ ReadyIn(s) = {} => h <= 0
    BY <1>1 DEF QueuesOK
  <2>4. \A u \in ReadyIn(s) : e.cur[u] = s.cur[u] /\ s.cur[u] \in Nat /\ u # t
    <3>1. \A u \in ReadyIn(s) : u \in Threads /\ u # t
      BY Zenon DEF ReadyIn
    <3> QED
      BY <3>1, <1>1, <1>2, SchedulerAssumption DEF Priorities
  <2> HIDE DEF h, g
  <2>5. \A u \in ReadyIn(e) : e.cur[u] <= g
    BY <2>1, <2>2, <2>3, <2>4, <1>2, <1>4
  <2>6. \E u \in ReadyIn(e) : e.cur[u] = g
    <3>1. CASE p > h
      BY <3>1, <2>1, <1>2, <1>4
    <3>2. CASE ~(p > h) /\ ReadyIn(s) # {}
      BY <3>2, <2>1, <2>3, <2>4, <1>4
    <3>3. CASE ~(p > h) /\ ReadyIn(s) = {}
      BY <3>3, <2>1, <2>2, <2>3, <1>2, <1>4
    <3> QED
      BY <3>1, <3>2, <3>3
  <2> QED
    BY <2>5, <2>6 DEF g
<1>10. QueuesOK(e)
  <2>1. ReadyIn(e) # {}
    BY <1>4
  <2> QED
    BY <1>7, <1>8, <1>9, <2>1, Zenon DEF QueuesOK
<1>11. BoostsOK(e)
  BY <1>1, <1>2 DEF BoostsOK
<1>12. OneRuns(e)
  <2>1. "running" # "ready" /\ e.running = s.running
    BY DEF Enqueued
  <2> QED
    BY <2>1, <1>1, <1>2, <1>3, Zenon DEF OneRuns
<1> QED
  BY <1>10, <1>11, <1>12, Zenon DEF SchedOK

\* EnqueueReadyThread keeps the queues in order and changes no other state.
LEMMA EnqueueOK ==
  ASSUME NEW s, SchedOK(s), NEW t \in Threads, t \notin ReadyIn(s), NEW slept \in BOOLEAN
  PROVE  /\ SchedOK(EnqueueReadyThread(s, t, slept))
         /\ Enqueued(s, EnqueueReadyThread(s, t, slept), t, NewPriority(s, t, slept))
         /\ NewPriority(s, t, slept) \in Priorities
<1>1. s \in Scheds /\ BoostsOK(s)
  BY Zenon DEF SchedOK
<1>2. /\ NewPriority(s, t, slept) \in Priorities
      /\ NewPriority(s, t, slept) >= BasePriority[t]
      /\ NewPriority(s, t, slept) <= BasePriority[t] + 3
  BY <1>1, NewPriorityOK, Zenon
<1>3. /\ EnqueueReadyThread(s, t, slept) \in Scheds
      /\ Enqueued(s, EnqueueReadyThread(s, t, slept), t, NewPriority(s, t, slept))
  BY <1>1, EnqueueIs, Zenon
<1> QED
  BY <1>2, <1>3, EnqueuedOK, Zenon

\* The search of PickNextThread over the queues from the one it has emptied.
LEMMA HighestNonEmptyIs ==
  ASSUME NEW q, NEW from \in Priorities
  PROVE  LET nonEmpty == {p \in Priorities : p <= from /\ q[p] # << >>}
             h == HighestNonEmpty(q, from)
         IN  /\ nonEmpty = {} => h = BelowQueues
             /\ nonEmpty # {} => h \in nonEmpty /\ \A r \in nonEmpty : r <= h
<1> DEFINE nonEmpty == {p \in Priorities : p <= from /\ q[p] # << >>}
           h == HighestNonEmpty(q, from)
<1>1. ASSUME nonEmpty # {} PROVE \E p \in nonEmpty : \A r \in nonEmpty : r <= p
  <2>1. nonEmpty \in SUBSET Int /\ from \in Int
    BY SchedulerAssumption DEF Priorities
  <2>2. \A r \in nonEmpty : r <= from
    OBVIOUS
  <2> HIDE DEF nonEmpty
  <2>3. \E p \in nonEmpty : \A r \in nonEmpty : p >= r
    BY <1>1, <2>1, <2>2, GreatestNumber
  <2> QED
    BY <2>1, <2>3
<1>2. /\ nonEmpty = {} => h = BelowQueues
      /\ nonEmpty # {} => h = CHOOSE p \in nonEmpty : \A r \in nonEmpty : r <= p
  BY DEF HighestNonEmpty
<1> HIDE DEF nonEmpty, h
<1>3. nonEmpty # {} => h \in nonEmpty /\ \A r \in nonEmpty : r <= h
  BY <1>1, <1>2
<1> QED
  BY <1>2, <1>3, Zenon DEF nonEmpty, h

\* What PickNextThread and SwitchTo change when t is the first thread of the
\* highest queue.
Switched(s, e, t, h) ==
  /\ e.running = t
  /\ e.state = [s.state EXCEPT ![t] = "running"]
  /\ e.cur = s.cur
  /\ e.fReadyQueue = [s.fReadyQueue EXCEPT ![h] = Tail(s.fReadyQueue[h])]
  /\ e.fReadyThreadCount = s.fReadyThreadCount - 1
  /\ e.fHighestReadyThread = HighestNonEmpty(e.fReadyQueue, h)
  /\ e.timer = s.timer

LEMMA PickIs ==
  ASSUME NEW s, s \in Scheds, NEW h, h = s.fHighestReadyThread, h \in Priorities,
         s.fReadyQueue[h] # << >>, NEW t, t = Head(s.fReadyQueue[h]), t \in Threads,
         s.fReadyThreadCount > 0
  PROVE  /\ PickAndSwitch(s) \in Scheds
         /\ Switched(s, PickAndSwitch(s), t, h)
<1> DEFINE e == PickAndSwitch(s)
           q == [s.fReadyQueue EXCEPT ![h] = Tail(s.fReadyQueue[h])]
           g == HighestNonEmpty(q, h)
           used == s.used /\ t = s.running
<1>1. e = [s EXCEPT !.fReadyQueue = q,
                    !.fReadyThreadCount = @ - 1,
                    !.fHighestReadyThread = g,
                    !.state[t] = "running",
                    !.running = t,
                    !.used = @ /\ t = s.running]
  BY Zenon DEF PickAndSwitch
<1>2. g \in Priorities \cup {BelowQueues}
  BY HighestNonEmptyIs
<1>3. q \in [Priorities -> Seq(Threads)]
  BY DEF Scheds
<1> HIDE DEF e, q, g
<1>4. e = [running |-> t,
           state |-> [s.state EXCEPT ![t] = "running"],
           cur |-> s.cur,
           fReadyQueue |-> q,
           fReadyThreadCount |-> s.fReadyThreadCount - 1,
           fHighestReadyThread |-> g,
           timer |-> s.timer,
           used |-> s.used /\ t = s.running]
  BY <1>1 DEF Scheds
<1>5. /\ s.timer \in BOOLEAN /\ (s.used /\ t = s.running) \in BOOLEAN
      /\ s.fReadyThreadCount - 1 \in Nat
      /\ s.cur \in [Threads -> Priorities]
  BY DEF Scheds
<1>6. [s.state EXCEPT ![t] = "running"] \in [Threads -> States]
  BY DEF Scheds, States
<1>7. e \in Scheds
  BY <1>2, <1>3, <1>4, <1>5, <1>6 DEF Scheds
<1>8. Switched(s, e, t, h)
  BY <1>4, Zenon DEF Switched, q, g
<1> QED
  BY <1>7, <1>8, Zenon DEF e

LEMMA SwitchedOK ==
  ASSUME NEW s, SchedOK(s), s.state[s.running] # "running",
         NEW e, e \in Scheds, NEW h \in Priorities, h = s.fHighestReadyThread,
         NEW t \in ReadyAt(s, h), Once(Tail(s.fReadyQueue[h]), ReadyAt(s, h) \ {t}),
         Switched(s, e, t, h)
  PROVE  /\ SchedOK(e)
         /\ \A u \in ReadyIn(e) : e.cur[u] <= e.cur[t]
<1>1. /\ s \in Scheds /\ QueuesOK(s) /\ BoostsOK(s) /\ OneRuns(s)
      /\ s.state \in [Threads -> States] /\ s.cur \in [Threads -> Priorities]
      /\ s.fReadyQueue \in [Priorities -> Seq(Threads)]
      /\ s.running \in Threads
  BY DEF SchedOK, Scheds
<1>2. t \in ReadyIn(s) /\ t \in Threads /\ s.cur[t] = h /\ s.state[t] = "ready"
  BY Zenon DEF ReadyAt, ReadyIn
<1>3. /\ \A u \in Threads : u # t => e.state[u] = s.state[u]
      /\ e.cur = s.cur /\ e.running = t
      /\ \A r \in Priorities : r # h => e.fReadyQueue[r] = s.fReadyQueue[r]
      /\ e.fReadyQueue[h] = Tail(s.fReadyQueue[h])
  BY <1>1 DEF Switched
<1>4. e.state[t] = "running" /\ "running" # "ready"
  BY <1>1, <1>2, Zenon DEF Switched
<1>5. ReadyIn(e) = ReadyIn(s) \ {t}
  BY <1>3, <1>4, Zenon DEF ReadyIn
<1>6. \A r \in Priorities : ReadyAt(e, r) = ReadyAt(s, r) \ {t}
  BY <1>3, <1>5, Zenon DEF ReadyAt
<1>7. \A r \in Priorities : r # h => ReadyAt(e, r) = ReadyAt(s, r)
  BY <1>2, <1>6, Zenon DEF ReadyAt
<1>8. \A r \in Priorities : Once(e.fReadyQueue[r], ReadyAt(e, r))
  <2> TAKE r \in Priorities
  <2>1. CASE r = h
    BY <2>1, <1>3, <1>6, Zenon
  <2>2. CASE r # h
    <3>1. Once(s.fReadyQueue[r], ReadyAt(s, r))
      BY <1>1, Zenon DEF QueuesOK
    <3> QED
      BY <2>2, <3>1, <1>3, <1>7, Zenon
  <2> QED
    BY <2>1, <2>2, Zenon
<1>9. e.fReadyThreadCount = Cardinality(ReadyIn(e))
  <2>1. Cardinality(ReadyIn(s) \ {t}) = Cardinality(ReadyIn(s)) - 1
    BY <1>2, CountOut, ThreadsFinite, Zenon
  <2> QED
    BY <2>1, <1>5, <1>1 DEF QueuesOK, Switched
<1>10. \A u \in ReadyIn(e) : u \in ReadyIn(s) /\ e.cur[u] <= h /\ e.cur[u] \in Priorities
  <2>1. \A u \in ReadyIn(e) : u \in ReadyIn(s) /\ u \in Threads
    BY <1>5, Zenon DEF ReadyIn
  <2> QED
    BY <2>1, <1>1, <1>3 DEF QueuesOK
<1> DEFINE full == {p \in Priorities : p <= h /\ e.fReadyQueue[p] # << >>}
           g == e.fHighestReadyThread
<1>11. /\ full = {} => g = BelowQueues
       /\ full # {} => g \in full /\ \A r \in full : r <= g
  <2>1. g = HighestNonEmpty(e.fReadyQueue, h)
    BY Zenon DEF Switched
  <2> QED
    BY <2>1, HighestNonEmptyIs, ZenonT(60)
<1>12. \A p \in Priorities : e.fReadyQueue[p] # << >> <=> ReadyAt(e, p) # {}
  BY <1>8, OnceEmpty, Zenon
<1>13. \A u \in ReadyIn(e) : e.cur[u] \in full
  <2> TAKE u \in ReadyIn(e)
  <2>1. u \in ReadyAt(e, e.cur[u])
    BY Zenon DEF ReadyAt
  <2> QED
    BY <2>1, <1>10, <1>12, Zenon
<1>14. g \in full => \E u \in ReadyIn(e) : e.cur[u] = g
  BY <1>12, Zenon DEF ReadyAt
<1> HIDE DEF full
<1>15. /\ \A u \in ReadyIn(e) : e.cur[u] <= g
       /\ ReadyIn(e) # {} => \E u \in ReadyIn(e) : e.cur[u] = g
  BY <1>11, <1>13, <1>14, Zenon
<1>16. ReadyIn(e) = {} => g <= 0
  <2>1. CASE full = {}
    BY <2>1, <1>11 DEF BelowQueues
  <2>2. CASE full # {}
    BY <2>2, <1>11, <1>14, Zenon
  <2> QED
    BY <2>1, <2>2, Zenon
<1>17. QueuesOK(e)
  BY <1>8, <1>9, <1>15, <1>16, Zenon DEF QueuesOK
<1>18. BoostsOK(e)
  BY <1>1, <1>3, Zenon DEF BoostsOK
<1>19. OneRuns(e)
  BY <1>1, <1>3, Zenon DEF OneRuns
<1>20. \A u \in ReadyIn(e) : e.cur[u] <= e.cur[t]
  BY <1>2, <1>3, <1>10, Zenon
<1> QED
  BY <1>17, <1>18, <1>19, <1>20, Zenon DEF SchedOK

\* What a switch leaves: t has the processor, nobody ready outranks it.
PickedOK(s, e) ==
  /\ SchedOK(e)
  /\ e.running \in ReadyIn(s)
  /\ e.state = [s.state EXCEPT ![e.running] = "running"]
  /\ \A u \in ReadyIn(e) : e.cur[u] <= e.cur[e.running]
  /\ e.timer = s.timer

LEMMA PickOK ==
  ASSUME NEW s, SchedOK(s), s.state[s.running] # "running", ReadyIn(s) # {}
  PROVE  PickedOK(s, PickAndSwitch(s))
<1> DEFINE h == s.fHighestReadyThread
           t == Head(s.fReadyQueue[h])
           e == PickAndSwitch(s)
<1>1. s \in Scheds /\ QueuesOK(s) /\ s.cur \in [Threads -> Priorities]
  BY DEF SchedOK, Scheds
<1>2. PICK u \in ReadyIn(s) : s.cur[u] = h
  BY <1>1, Zenon DEF QueuesOK
<1>3. h \in Priorities /\ u \in ReadyAt(s, h)
  BY <1>1, <1>2, Zenon DEF ReadyIn, ReadyAt
<1>4. Once(s.fReadyQueue[h], ReadyAt(s, h))
  BY <1>1, <1>3, Zenon DEF QueuesOK
<1>5. s.fReadyQueue[h] # << >>
  BY <1>3, <1>4, OnceEmpty, Zenon
<1>6. t \in ReadyAt(s, h) /\ Once(Tail(s.fReadyQueue[h]), ReadyAt(s, h) \ {t})
  BY <1>4, <1>5, OnceTail, Zenon
<1>7. t \in ReadyIn(s) /\ t \in Threads
  BY <1>6, Zenon DEF ReadyAt, ReadyIn
<1>8. s.fReadyThreadCount > 0
  <2>1. Cardinality(ReadyIn(s)) > 0
    BY <1>7, CountOut, ThreadsFinite, Zenon
  <2> QED
    BY <2>1, <1>1, Zenon DEF QueuesOK
<1> HIDE DEF h, t, e
<1>9. e \in Scheds /\ Switched(s, e, t, h)
  BY <1>1, <1>3, <1>5, <1>7, <1>8, PickIs, Zenon DEF h, t, e
<1>10. SchedOK(e) /\ \A v \in ReadyIn(e) : e.cur[v] <= e.cur[t]
  <2>1. h = s.fHighestReadyThread
    BY Zenon DEF h
  <2> QED
    BY <2>1, <1>3, <1>6, <1>9, SwitchedOK, Zenon
<1>11. PickedOK(s, e)
  BY <1>7, <1>9, <1>10, Zenon DEF PickedOK, Switched
<1> QED
  BY <1>11, Zenon DEF e

-----------------------------------------------------------------------------
(* Reschedule. *)

\* The quantum timer and the use of the quantum do not matter to the queues.
LEMMA TimerApart ==
  ASSUME NEW s, SchedOK(s), NEW timer \in BOOLEAN, NEW used \in BOOLEAN
  PROVE  LET e == [s EXCEPT !.timer = timer, !.used = used]
         IN  SchedOK(e) /\ ReadyIn(e) = ReadyIn(s)
<1> DEFINE e == [s EXCEPT !.timer = timer, !.used = used]
<1>1. s \in Scheds /\ QueuesOK(s) /\ BoostsOK(s) /\ OneRuns(s)
  BY DEF SchedOK
<1>2. e \in Scheds /\ e.running = s.running /\ e.state = s.state /\ e.cur = s.cur
  BY <1>1 DEF Scheds
<1>3. /\ e.fReadyQueue = s.fReadyQueue /\ e.fReadyThreadCount = s.fReadyThreadCount
      /\ e.fHighestReadyThread = s.fHighestReadyThread
  BY <1>1 DEF Scheds
<1> HIDE DEF e
<1>4. ReadyIn(e) = ReadyIn(s) /\ \A p : ReadyAt(e, p) = ReadyAt(s, p)
  BY <1>2, Zenon DEF ReadyIn, ReadyAt
<1>5. QueuesOK(e)
  BY <1>1, <1>2, <1>3, <1>4, Zenon DEF QueuesOK
<1>6. BoostsOK(e) /\ OneRuns(e)
  BY <1>1, <1>2, Zenon DEF BoostsOK, OneRuns
<1>7. SchedOK(e)
  BY <1>2, <1>5, <1>6, Zenon DEF SchedOK
<1> QED
  BY <1>4, <1>7, Zenon DEF e

\* A thread gets another state.
SameTimer(s, e) == e.timer = s.timer /\ e.used = s.used

Restated(s, e, t, x) == e = [s EXCEPT !.state[t] = x]

\* A thread that is in no queue gets a state in which it belongs into none.
LEMMA StateApart ==
  ASSUME NEW s, SchedOK(s), NEW t \in Threads, t \notin ReadyIn(s),
         NEW x \in States, x # "ready", x # "running",
         NEW e, Restated(s, e, t, x)
  PROVE  /\ SchedOK(e)
         /\ e.running = s.running
         /\ SameTimer(s, e)
         /\ e.state[t] = x
         /\ \A u \in Threads : u # t => e.state[u] = s.state[u]
<1>1. /\ s \in Scheds /\ QueuesOK(s) /\ BoostsOK(s) /\ OneRuns(s)
      /\ s.state \in [Threads -> States]
  BY DEF SchedOK, Scheds
<1>2. /\ e \in Scheds /\ e.running = s.running /\ e.cur = s.cur /\ e.timer = s.timer
      /\ e.used = s.used /\ e.state = [s.state EXCEPT ![t] = x]
  BY <1>1 DEF Scheds, Restated
<1>3. /\ e.fReadyQueue = s.fReadyQueue /\ e.fReadyThreadCount = s.fReadyThreadCount
      /\ e.fHighestReadyThread = s.fHighestReadyThread
  BY <1>1 DEF Scheds, Restated
<1>4. e.state[t] = x /\ \A u \in Threads : u # t => e.state[u] = s.state[u]
  BY <1>1, <1>2
<1>5. ReadyIn(e) = ReadyIn(s)
  BY <1>4, Zenon DEF ReadyIn
<1>6. \A p : ReadyAt(e, p) = ReadyAt(s, p)
  BY <1>2, <1>5, Zenon DEF ReadyAt
<1>7. QueuesOK(e)
  BY <1>1, <1>2, <1>3, <1>5, <1>6, Zenon DEF QueuesOK
<1>8. BoostsOK(e)
  BY <1>1, <1>2, Zenon DEF BoostsOK
<1>9. OneRuns(e)
  BY <1>1, <1>2, <1>4, Zenon DEF OneRuns
<1>10. SchedOK(e)
  BY <1>2, <1>7, <1>8, <1>9, Zenon DEF SchedOK
<1> QED
  BY <1>2, <1>4, <1>10, Zenon DEF SameTimer

\* The idle thread never waits and never exits, neither does the bootstrap
\* thread before it has started the idle thread, and the reaper does not exit.
KernelThreads(s) ==
  /\ s.state[Idle] \in {"none", "ready", "running"}
  /\ s.state[Main] \in {"ready", "running", "waiting"}
  /\ s.state[Reaper] \in {"none", "ready", "running", "waiting"}
  /\ s.state[Idle] = "none" => s.state[Main] # "waiting"

\* Hence somebody is ready when the thread that has the processor gives it up.
LEMMA SomebodyReady ==
  ASSUME NEW s, SchedOK(s), KernelThreads(s), s.state[s.running] # "running"
  PROVE  ReadyIn(s) # {}
<1>1. OneRuns(s) /\ Idle \in Threads /\ Main \in Threads
  BY DEF SchedOK, Threads
<1>2. s.state[Idle] # "running" /\ s.state[Main] # "running"
  BY <1>1, Zenon DEF OneRuns
<1>3. s.state[Idle] = "ready" \/ s.state[Main] = "ready"
  BY <1>2, Zenon DEF KernelThreads
<1> QED
  BY <1>1, <1>3, Zenon DEF ReadyIn

\* Threads that become ready or running from one of these.
Shuffled(s, e) ==
  \A t \in Threads : \/ e.state[t] = s.state[t]
                     \/ s.state[t] \in {"ready", "running"} /\ e.state[t] \in {"ready", "running"}

\* What Reschedule leaves.
Rescheduled(s, e) ==
  /\ SchedOK(e)
  /\ Shuffled(s, e)
  /\ e.state[e.running] = "running"
  /\ e.running # s.running =>
       \A u \in ReadyIn(e) : e.cur[u] <= e.cur[e.running]
  /\ e.running # Idle /\ s.state[Idle] # "none" => e.timer \/ (e = s /\ ~s.used)

\* The switch: m is the scheduler with the running thread queued, if it still
\* runs, and the timer set.
LEMMA SwitchOK ==
  ASSUME NEW s, SchedOK(s), KernelThreads(s), NEW m, SchedOK(m), NEW e, PickedOK(m, e),
         m.running = s.running, m.state[m.running] # "running",
         \A t \in Threads : \/ m.state[t] = s.state[t]
                            \/ s.state[t] = "running" /\ m.state[t] = "ready",
         m.timer <=> Cardinality(ReadyIn(m)) > 1
  PROVE  Rescheduled(s, e)
<1>1. /\ SchedOK(e) /\ e.running \in ReadyIn(m)
      /\ e.state = [m.state EXCEPT ![e.running] = "running"]
      /\ \A u \in ReadyIn(e) : e.cur[u] <= e.cur[e.running]
      /\ e.timer = m.timer
  BY Zenon DEF PickedOK
<1>2. m.state \in [Threads -> States] /\ OneRuns(m)
  BY DEF SchedOK, Scheds
<1>3. e.running \in Threads /\ m.state[e.running] = "ready"
  BY <1>1, Zenon DEF ReadyIn
<1>4. e.state[e.running] = "running"
  BY <1>1, <1>2, <1>3, Zenon
<1>5. \A t \in Threads : t # e.running => e.state[t] = m.state[t]
  BY <1>1, <1>2, <1>3, Zenon
<1>6. Shuffled(s, e)
  BY <1>3, <1>4, <1>5, Zenon DEF Shuffled
<1>7. ASSUME e.running # Idle, s.state[Idle] # "none" PROVE e.timer
  <2>1. Idle \in Threads
    BY DEF Threads
  <2>2. s.state[Idle] \in {"ready", "running"}
    BY <1>7, Zenon DEF KernelThreads
  <2>3. m.state[Idle] # "running"
    BY <1>2, <2>1, Zenon DEF OneRuns
  <2>4. m.state[Idle] = "ready"
    BY <2>1, <2>2, <2>3, Zenon
  <2>5. Idle \in ReadyIn(m)
    BY <2>1, <2>4, Zenon DEF ReadyIn
  <2>6. Cardinality(ReadyIn(m)) > 1
    BY <1>1, <1>7, <2>5, CountTwo, ThreadsFinite, Zenon
  <2> QED
    BY <2>6, <1>1, Zenon
<1> QED
  BY <1>1, <1>4, <1>6, <1>7, Zenon DEF Rescheduled

LEMMA RescheduleOK ==
  ASSUME NEW s, SchedOK(s), KernelThreads(s)
  PROVE  Rescheduled(s, Reschedule(s))
<1> DEFINE runs == s.state[s.running] = "running"
           ready == IF runs THEN EnqueueReadyThread(s, s.running, FALSE) ELSE s
           stays == runs /\ s.fHighestReadyThread <= s.cur[s.running] /\ ~s.used
           m == [ready EXCEPT !.timer = ready.fReadyThreadCount > 1]
<1>1. Reschedule(s) = IF stays THEN s ELSE PickAndSwitch(m)
  BY Zenon DEF Reschedule
<1>2. s.running \in Threads /\ s.state \in [Threads -> States]
  BY DEF SchedOK, Scheds
<1>3. /\ SchedOK(ready) /\ ready.running = s.running
      /\ ready.state[s.running] # "running" /\ ReadyIn(ready) # {}
      /\ \A t \in Threads : \/ ready.state[t] = s.state[t]
                            \/ s.state[t] = "running" /\ ready.state[t] = "ready"
  <2>1. CASE runs
    <3>1. s.running \notin ReadyIn(s)
      BY <2>1, Zenon DEF ReadyIn
    <3>2. FALSE \in BOOLEAN /\ ready = EnqueueReadyThread(s, s.running, FALSE)
      BY <2>1, Zenon
    <3> HIDE DEF ready
    <3>3. /\ SchedOK(ready)
          /\ Enqueued(s, ready, s.running, NewPriority(s, s.running, FALSE))
      BY <1>2, <3>1, <3>2, EnqueueOK, Zenon
    <3>4. ready.running = s.running /\ ready.state = [s.state EXCEPT ![s.running] = "ready"]
      BY <3>3, Zenon DEF Enqueued
    <3>5. /\ ready.state[s.running] = "ready"
          /\ \A t \in Threads : t # s.running => ready.state[t] = s.state[t]
      BY <1>2, <3>4, Zenon
    <3>6. s.running \in ReadyIn(ready)
      BY <1>2, <3>5, Zenon DEF ReadyIn
    <3> QED
      BY <2>1, <3>3, <3>4, <3>5, <3>6, Zenon
  <2>2. CASE ~runs
    <3>1. ready = s
      BY <2>2, Zenon
    <3>2. ReadyIn(s) # {}
      BY <2>2, SomebodyReady, Zenon
    <3> QED
      BY <2>2, <3>1, <3>2, Zenon
  <2> QED
    BY <2>1, <2>2, Zenon
<1>4. CASE stays
  <2>1. Reschedule(s) = s /\ s.state[s.running] = "running" /\ ~s.used
    BY <1>1, <1>4, Zenon
  <2>2. Rescheduled(s, s)
    BY <2>1, Zenon DEF Rescheduled, Shuffled
  <2> QED
    BY <2>1, <2>2, Zenon
<1>5. CASE ~stays
  <2>1. Reschedule(s) = PickAndSwitch(m)
    BY <1>1, <1>5, Zenon
  <2> HIDE DEF ready
  <2>2. ready \in Scheds /\ ready.fReadyThreadCount = Cardinality(ReadyIn(ready))
    BY <1>3, Zenon DEF SchedOK, QueuesOK
  <2>3. PICK more \in BOOLEAN : more = (ready.fReadyThreadCount > 1)
    <3>1. (ready.fReadyThreadCount > 1) \in BOOLEAN
      BY <2>2 DEF Scheds
    <3> QED
      BY <3>1, Zenon
  <2>4. /\ m = [ready EXCEPT !.timer = more, !.used = ready.used]
        /\ ready.used \in BOOLEAN
    <3>1. m = [ready EXCEPT !.timer = more]
      BY <2>3, Zenon
    <3>2. [ready EXCEPT !.timer = more] = [ready EXCEPT !.timer = more, !.used = ready.used]
      BY <2>2 DEF Scheds
    <3>3. ready.used \in BOOLEAN
      BY <2>2 DEF Scheds
    <3> QED
      BY <3>1, <3>2, <3>3, Zenon
  <2>5. SchedOK(m) /\ ReadyIn(m) = ReadyIn(ready)
    <3> HIDE DEF m
    <3>1. LET e == [ready EXCEPT !.timer = more, !.used = ready.used]
          IN  SchedOK(e) /\ ReadyIn(e) = ReadyIn(ready)
      BY <1>3, <2>4, TimerApart, Zenon
    <3> QED
      BY <3>1, <2>4, Zenon
  <2>6. /\ m.running = ready.running /\ m.state = ready.state
        /\ m.timer <=> ready.fReadyThreadCount > 1
    BY <2>2 DEF Scheds
  <2> HIDE DEF m, runs, stays
  <2>7. m.running = s.running /\ m.state[m.running] # "running" /\ ReadyIn(m) # {}
    BY <1>3, <2>5, <2>6, Zenon
  <2>8. PickedOK(m, PickAndSwitch(m))
    BY <2>5, <2>7, PickOK, Zenon
  <2>9. m.timer <=> Cardinality(ReadyIn(m)) > 1
    BY <2>2, <2>5, <2>6, Zenon
  <2>10. \A t \in Threads : \/ m.state[t] = s.state[t]
                            \/ s.state[t] = "running" /\ m.state[t] = "ready"
    BY <1>3, <2>6, Zenon
  <2>11. Rescheduled(s, PickAndSwitch(m))
    BY <2>5, <2>7, <2>8, <2>9, <2>10, SwitchOK, Zenon
  <2> QED
    BY <2>1, <2>11, Zenon
<1> QED
  BY <1>4, <1>5, Zenon

-----------------------------------------------------------------------------
(* The timer interrupt wakes a sequence of threads. *)

\* after is the scheduler after 0, 1, .. k of the timeouts.
Timeouts(after, s, woken, slept, k) ==
  after = [n \in 0..k |->
             IF n = 0 THEN s
             ELSE EnqueueReadyThread(after[n - 1], woken[n], woken[n] \in slept)]

\* There is such a function: the least k without one would have one, made from
\* that of k - 1.
LEMMA TimeoutsExist ==
  ASSUME NEW s, NEW woken, NEW slept, NEW len \in Nat
  PROVE  \E after : Timeouts(after, s, woken, slept, len)
<1> DEFINE bad == {k \in Nat : ~ \E after : Timeouts(after, s, woken, slept, k)}
<1>1. SUFFICES ASSUME bad # {} PROVE FALSE
  OBVIOUS
<1>2. bad \in SUBSET Nat
  OBVIOUS
<1> HIDE DEF bad
<1>3. PICK k \in bad : \A y \in bad : k <= y
  BY <1>1, <1>2, LeastNumber
<1>4. k \in Nat /\ ~ \E after : Timeouts(after, s, woken, slept, k)
  BY <1>3, Zenon DEF bad
<1>5. k # 0
  <2> DEFINE f == [n \in 0..0 |-> s]
  <2>1. Timeouts(f, s, woken, slept, 0)
    <3>1. \A n \in 0..0 : n = 0
      OBVIOUS
    <3> QED
      BY <3>1, Zenon DEF Timeouts
  <2> QED
    BY <2>1, <1>4, Zenon
<1>6. k - 1 \in Nat /\ k - 1 \notin bad
  BY <1>2, <1>3, <1>4, <1>5
<1>7. PICK g : Timeouts(g, s, woken, slept, k - 1)
  BY <1>6, Zenon DEF bad
<1> DEFINE last == EnqueueReadyThread(g[k - 1], woken[k], woken[k] \in slept)
           f == [n \in 0..k |-> IF n = k THEN last ELSE g[n]]
           h == [n \in 0..k |->
                   IF n = 0 THEN s
                   ELSE EnqueueReadyThread(f[n - 1], woken[n], woken[n] \in slept)]
<1>8. \A n \in 0..k : f[n] = h[n]
  <2> TAKE n \in 0..k
  <2>1. CASE n = 0
    <3>1. 0 # k /\ 0 \in 0..k /\ 0 \in 0..(k - 1)
      BY <1>4, <1>5
    <3>2. g[0] = s
      BY <1>7, <3>1, Zenon DEF Timeouts
    <3> QED
      BY <2>1, <3>1, <3>2, Zenon
  <2>2. CASE n = k
    <3>1. k # 0 /\ k \in 0..k /\ k - 1 \in 0..k /\ k - 1 # k
      BY <1>4, <1>5
    <3>2. f[k - 1] = g[k - 1]
      BY <3>1, Zenon
    <3> QED
      BY <2>2, <3>1, <3>2, Zenon
  <2>3. CASE n # 0 /\ n # k
    <3>1. n - 1 \in 0..k /\ n - 1 # k /\ n \in 0..(k - 1) /\ n \in 0..k
      BY <2>3, <1>4
    <3>2. f[n - 1] = g[n - 1] /\ f[n] = g[n]
      BY <2>3, <3>1, Zenon
    <3>3. g[n] = EnqueueReadyThread(g[n - 1], woken[n], woken[n] \in slept)
      BY <1>7, <2>3, <3>1, Zenon DEF Timeouts
    <3> QED
      BY <2>3, <3>2, <3>3, Zenon
  <2> QED
    BY <2>1, <2>2, <2>3, Zenon
<1>9. f = h
  BY <1>8, Zenon
<1>10. Timeouts(f, s, woken, slept, k)
  BY <1>9, Zenon DEF Timeouts
<1> QED
  BY <1>4, <1>10, Zenon

\* The same, value by value.
OneByOne(after, s, woken, slept, k) ==
  /\ after[0] = s
  /\ \A n \in 1..k :
       after[n] = EnqueueReadyThread(after[n - 1], woken[n], woken[n] \in slept)

\* AfterTimeouts takes one step for each thread of the sequence.
LEMMA AfterTimeoutsIs ==
  ASSUME NEW s, NEW woken, NEW slept, NEW len \in Nat, len = Len(woken)
  PROVE  \E after : /\ AfterTimeouts(s, woken, slept) = after[len]
                    /\ OneByOne(after, s, woken, slept, len)
<1> DEFINE after[n \in 0..Len(woken)] ==
             IF n = 0 THEN s
             ELSE EnqueueReadyThread(after[n - 1], woken[n], woken[n] \in slept)
<1>1. AfterTimeouts(s, woken, slept) = after[Len(woken)]
  BY DEF AfterTimeouts
<1>2. \E f : f = [n \in 0..Len(woken) |->
                    IF n = 0 THEN s
                    ELSE EnqueueReadyThread(f[n - 1], woken[n], woken[n] \in slept)]
  <2>1. PICK f : Timeouts(f, s, woken, slept, len)
    BY TimeoutsExist, Zenon
  <2>2. f = [n \in 0..Len(woken) |->
               IF n = 0 THEN s
               ELSE EnqueueReadyThread(f[n - 1], woken[n], woken[n] \in slept)]
    BY <2>1, Zenon DEF Timeouts
  <2> QED
    BY <2>2, Zenon
<1>3. after = [n \in 0..Len(woken) |->
                 IF n = 0 THEN s
                 ELSE EnqueueReadyThread(after[n - 1], woken[n], woken[n] \in slept)]
  BY <1>2, Zenon
<1> HIDE DEF after
<1>4. 0 \in 0..len /\ \A n \in 1..len : n \in 0..len /\ n # 0
  OBVIOUS
<1>5. after[0] = s
  BY <1>3, <1>4, Zenon
<1>6. \A n \in 1..len :
        after[n] = EnqueueReadyThread(after[n - 1], woken[n], woken[n] \in slept)
  BY <1>3, <1>4, Zenon
<1>7. OneByOne(after, s, woken, slept, len)
  BY <1>5, <1>6, Zenon DEF OneByOne
<1> QED
  BY <1>1, <1>7, Zenon

\* The first n threads of woken are ready, the other threads are as they were.
Woken(s, e, woken, n) ==
  /\ SchedOK(e)
  /\ e.running = s.running /\ e.used = s.used
  /\ \A i \in 1..n : e.state[woken[i]] = "ready"
  /\ \A t \in Threads : (\A i \in 1..n : woken[i] # t) => e.state[t] = s.state[t]

LEMMA WokenNext ==
  ASSUME NEW s, SchedOK(s), NEW len \in Nat, NEW woken,
         \A i \in 1..len : woken[i] \in Threads /\ s.state[woken[i]] = "waiting",
         \A i, j \in 1..len : woken[i] = woken[j] => i = j,
         NEW n \in 1..len, NEW e, Woken(s, e, woken, n - 1), NEW slept \in BOOLEAN
  PROVE  Woken(s, EnqueueReadyThread(e, woken[n], slept), woken, n)
<1> DEFINE t == woken[n]  f == EnqueueReadyThread(e, t, slept)
<1>1. /\ t \in Threads /\ s.state[t] = "waiting"
      /\ \A i \in 1..(n - 1) : i \in 1..len /\ i # n
      /\ \A i \in 1..n : i \in 1..(n - 1) \/ i = n
      /\ \A i \in 1..(n - 1) : i \in 1..n
      /\ n \in 1..n
  OBVIOUS
<1> HIDE DEF t
<1>2. \A i \in 1..(n - 1) : woken[i] # t /\ woken[i] \in Threads
  BY <1>1, Zenon DEF t
<1>3. e.state[t] = "waiting" /\ SchedOK(e)
  BY <1>1, <1>2, Zenon DEF Woken
<1>4. t \notin ReadyIn(e)
  BY <1>3, Zenon DEF ReadyIn
<1>5. SchedOK(f) /\ Enqueued(e, f, t, NewPriority(e, t, slept))
  BY <1>1, <1>3, <1>4, EnqueueOK, Zenon
<1>6. e.state \in [Threads -> States]
  BY <1>3, Zenon DEF SchedOK, Scheds
<1> HIDE DEF f
<1>7. f.running = e.running /\ f.used = e.used /\ f.state = [e.state EXCEPT ![t] = "ready"]
  BY <1>5, Zenon DEF Enqueued
<1>8. f.state[t] = "ready" /\ \A u \in Threads : u # t => f.state[u] = e.state[u]
  BY <1>1, <1>6, <1>7, Zenon
<1>9. \A i \in 1..n : f.state[woken[i]] = "ready"
  <2> TAKE i \in 1..n
  <2>1. CASE i = n
    BY <2>1, <1>8, Zenon DEF t
  <2>2. CASE i \in 1..(n - 1)
    BY <2>2, <1>2, <1>8, Zenon DEF Woken
  <2> QED
    BY <2>1, <2>2, <1>1, Zenon
<1>10. ASSUME NEW u \in Threads, \A i \in 1..n : woken[i] # u PROVE f.state[u] = s.state[u]
  <2>1. u # t /\ \A i \in 1..(n - 1) : woken[i] # u
    BY <1>1, <1>10, Zenon DEF t
  <2> QED
    BY <2>1, <1>8, Zenon DEF Woken
<1>11. Woken(s, f, woken, n)
  <2>1. f.running = s.running /\ f.used = s.used
    BY <1>7, Zenon DEF Woken
  <2> QED
    BY <2>1, <1>5, <1>9, <1>10, Zenon DEF Woken
<1> QED
  BY <1>11, Zenon DEF f, t

LEMMA AfterTimeoutsOK ==
  ASSUME NEW s, SchedOK(s), NEW len \in Nat, NEW woken, len = Len(woken), NEW slept,
         \A i \in 1..len : woken[i] \in Threads /\ s.state[woken[i]] = "waiting",
         \A i, j \in 1..len : woken[i] = woken[j] => i = j
  PROVE  Woken(s, AfterTimeouts(s, woken, slept), woken, len)
<1>0. len \in Nat /\ len = Len(woken)
  OBVIOUS
<1>1. PICK after : /\ AfterTimeouts(s, woken, slept) = after[len]
                   /\ OneByOne(after, s, woken, slept, len)
  BY <1>0, AfterTimeoutsIs, Zenon
<1> DEFINE bad == {n \in Nat : n <= len /\ ~ Woken(s, after[n], woken, n)}
<1>2. bad = {}
  <2> SUFFICES ASSUME bad # {} PROVE FALSE
    OBVIOUS
  <2>1. bad \in SUBSET Nat
    OBVIOUS
  <2> HIDE DEF bad
  <2>2. PICK n \in bad : \A y \in bad : n <= y
    BY <2>1, LeastNumber
  <2>3. n \in Nat /\ n <= len /\ ~ Woken(s, after[n], woken, n)
    BY <2>2, Zenon DEF bad
  <2>4. n # 0
    <3>1. \A i \in 1..0 : FALSE
      OBVIOUS
    <3>2. Woken(s, s, woken, 0)
      BY <3>1, Zenon DEF Woken
    <3> QED
      BY <3>2, <2>3, <1>1, Zenon DEF OneByOne
  <2>5. n - 1 \in Nat /\ n - 1 <= len /\ n - 1 \notin bad /\ n \in 1..len
    BY <2>2, <2>3, <2>4
  <2>6. Woken(s, after[n - 1], woken, n - 1)
    BY <2>5, Zenon DEF bad
  <2>7. (woken[n] \in slept) \in BOOLEAN
    OBVIOUS
  <2>8. PICK long \in BOOLEAN : long = (woken[n] \in slept)
    BY <2>7, Zenon
  <2>9. Woken(s, EnqueueReadyThread(after[n - 1], woken[n], long), woken, n)
    BY <2>5, <2>6, WokenNext, Zenon
  <2>10. after[n] = EnqueueReadyThread(after[n - 1], woken[n], long)
    BY <2>5, <2>8, <1>1, Zenon DEF OneByOne
  <2> QED
    BY <2>3, <2>9, <2>10, Zenon
<1>3. len <= len
  OBVIOUS
<1> QED
  BY <1>1, <1>2, <1>3, ZenonT(60)

-----------------------------------------------------------------------------
(* From a state to the next one. *)

\* The part of the invariant that is about the scheduler alone.
SchedPart(s) ==
  /\ SchedOK(s)
  /\ KernelThreads(s)
  /\ s.state[s.running] \in {"running", "dead"}

\* What the properties of the steps say of one step of the scheduler.
DeadStay(s, e) ==
  \A t \in Threads : s.state[t] \in Over =>
    /\ e.state[t] \in Over
    /\ e.running = t => s.running = t /\ e.state[t] = "dead"

SwitchRight(s, e) ==
  e.running # s.running => \A t \in ReadyIn(e) : e.cur[t] <= e.cur[e.running]

\* What the reaper's part of the invariant needs.
Undisturbed(s, e) ==
  /\ \A t \in Threads : s.state[t] = "dead" => e.state[t] = "dead"
  /\ e.running # s.running => e.state[e.running] = "running"

Step(s, e) == SchedPart(e) /\ DeadStay(s, e) /\ SwitchRight(s, e) /\ Undisturbed(s, e)

\* The scheduler before Reschedule, or where Reschedule is not called.
Prepared(s, b) ==
  /\ SchedOK(b)
  /\ KernelThreads(b)
  /\ b.running = s.running
  /\ \A t \in Threads : s.state[t] \in Over => b.state[t] = s.state[t]
  /\ s.state[Idle] # "none" => b.state[Idle] # "none"

LEMMA KernelThreadsShuffled ==
  ASSUME NEW s, KernelThreads(s), NEW e, Shuffled(s, e)
  PROVE  KernelThreads(e)
<1>1. Idle \in Threads /\ Main \in Threads /\ Reaper \in Threads
  BY DEF Threads
<1>2. /\ \/ e.state[Idle] = s.state[Idle]
         \/ s.state[Idle] \in {"ready", "running"} /\ e.state[Idle] \in {"ready", "running"}
      /\ \/ e.state[Main] = s.state[Main]
         \/ s.state[Main] \in {"ready", "running"} /\ e.state[Main] \in {"ready", "running"}
      /\ \/ e.state[Reaper] = s.state[Reaper]
         \/ s.state[Reaper] \in {"ready", "running"} /\ e.state[Reaper] \in {"ready", "running"}
  BY <1>1, Zenon DEF Shuffled
<1>3. e.state[Idle] \in {"none", "ready", "running"}
  BY <1>2, Zenon DEF KernelThreads
<1>4. e.state[Main] \in {"ready", "running", "waiting"}
  BY <1>2, Zenon DEF KernelThreads
<1>5. e.state[Reaper] \in {"none", "ready", "running", "waiting"}
  BY <1>2, Zenon DEF KernelThreads
<1>6. e.state[Idle] = "none" => e.state[Main] # "waiting"
  BY <1>2, Zenon DEF KernelThreads
<1> QED
  BY <1>3, <1>4, <1>5, <1>6, Zenon DEF KernelThreads

\* A step that ends in Reschedule.
LEMMA StepWithReschedule ==
  ASSUME NEW s, SchedPart(s), NEW b, Prepared(s, b)
  PROVE  /\ Step(s, Reschedule(b))
         /\ Shuffled(b, Reschedule(b))
         /\ Reschedule(b).state[Reschedule(b).running] = "running"
<1> DEFINE e == Reschedule(b)
<1>1. SchedOK(b) /\ KernelThreads(b) /\ b.running = s.running
  BY Zenon DEF Prepared
<1>2. Rescheduled(b, e)
  BY <1>1, RescheduleOK, Zenon
<1> HIDE DEF e
<1>3. SchedOK(e) /\ Shuffled(b, e) /\ e.state[e.running] = "running"
  BY <1>2, Zenon DEF Rescheduled
<1>4. KernelThreads(e)
  BY <1>1, <1>3, KernelThreadsShuffled, Zenon
<1>5. SchedPart(e)
  BY <1>3, <1>4, Zenon DEF SchedPart
<1>6. \A t \in Threads : s.state[t] \in Over => e.state[t] = s.state[t]
  <2> SUFFICES ASSUME NEW t \in Threads, s.state[t] \in Over PROVE e.state[t] = s.state[t]
    OBVIOUS
  <2>1. b.state[t] = s.state[t]
    BY Zenon DEF Prepared
  <2>2. b.state[t] \notin {"ready", "running"}
    BY <2>1, Zenon DEF Over
  <2> QED
    BY <2>1, <2>2, <1>3, Zenon DEF Shuffled
<1>7. DeadStay(s, e)
  BY <1>3, <1>6, Zenon DEF DeadStay, Over
<1>8. SwitchRight(s, e)
  BY <1>1, <1>2, Zenon DEF SwitchRight, Rescheduled, Prepared
<1>9. Undisturbed(s, e)
  BY <1>3, <1>6, Zenon DEF Undisturbed, Over
<1> QED
  BY <1>3, <1>5, <1>7, <1>8, <1>9, Zenon DEF Step, e

\* A step after which the same thread has the processor.
LEMMA StepWithoutReschedule ==
  ASSUME NEW s, SchedPart(s), NEW e, Prepared(s, e), e.state[e.running] \in {"running", "dead"}
  PROVE  Step(s, e)
<1>1. SchedOK(e) /\ KernelThreads(e) /\ e.running = s.running
  BY Zenon DEF Prepared
<1>2. SchedPart(e)
  BY <1>1, Zenon DEF SchedPart
<1>3. DeadStay(s, e)
  <2> SUFFICES ASSUME NEW t \in Threads, s.state[t] \in Over
               PROVE  /\ e.state[t] \in Over
                      /\ e.running = t => s.running = t /\ e.state[t] = "dead"
    BY Zenon DEF DeadStay
  <2>1. e.state[t] = s.state[t]
    BY Zenon DEF Prepared
  <2>2. ASSUME e.running = t PROVE e.state[t] = "dead"
    BY <2>1, <2>2, Zenon DEF Over
  <2> QED
    BY <1>1, <2>1, <2>2, Zenon
<1>4. SwitchRight(s, e)
  BY <1>1, Zenon DEF SwitchRight
<1>5. Undisturbed(s, e)
  BY <1>1, Zenon DEF Undisturbed, Prepared, Over
<1> QED
  BY <1>2, <1>3, <1>4, <1>5, Zenon DEF Step

\* The scheduler as it is.
LEMMA PreparedAsIs ==
  ASSUME NEW s, SchedPart(s)
  PROVE  Prepared(s, s)
  BY Zenon DEF Prepared, SchedPart

\* A waiting thread is woken.
LEMMA PreparedByWake ==
  ASSUME NEW s, SchedPart(s), NEW u \in Threads, s.state[u] = "waiting", NEW slept \in BOOLEAN
  PROVE  LET b == EnqueueReadyThread(s, u, slept)
         IN  /\ Prepared(s, b)
             /\ SameTimer(s, b)
             /\ b.state[u] = "ready"
             /\ \A t \in Threads : t # u => b.state[t] = s.state[t]
<1> DEFINE b == EnqueueReadyThread(s, u, slept)
<1>1. SchedOK(s) /\ KernelThreads(s) /\ s.state \in [Threads -> States]
  BY Zenon DEF SchedPart, SchedOK, Scheds
<1>2. u \notin ReadyIn(s)
  BY Zenon DEF ReadyIn
<1>3. SchedOK(b) /\ Enqueued(s, b, u, NewPriority(s, u, slept))
  BY <1>1, <1>2, EnqueueOK, Zenon
<1> HIDE DEF b
<1>4. b.running = s.running /\ b.state = [s.state EXCEPT ![u] = "ready"]
  BY <1>3, Zenon DEF Enqueued
<1>4a. SameTimer(s, b)
  BY <1>3, Zenon DEF Enqueued, SameTimer
<1>5. b.state[u] = "ready" /\ \A t \in Threads : t # u => b.state[t] = s.state[t]
  BY <1>1, <1>4, Zenon
<1>6. Idle \in Threads /\ Main \in Threads /\ Reaper \in Threads
  BY DEF Threads
<1>7. b.state[Idle] = s.state[Idle]
  <2>1. Idle # u
    BY <1>1, Zenon DEF KernelThreads
  <2> QED
    BY <2>1, <1>5, <1>6, Zenon
<1>8. b.state[Main] = s.state[Main] \/ b.state[Main] = "ready"
  BY <1>5, <1>6, Zenon
<1>9. b.state[Reaper] = s.state[Reaper] \/ b.state[Reaper] = "ready"
  BY <1>5, <1>6, Zenon
<1>10. KernelThreads(b)
  BY <1>1, <1>7, <1>8, <1>9, Zenon DEF KernelThreads
<1>11. \A t \in Threads : s.state[t] \in Over => b.state[t] = s.state[t]
  BY <1>5, Zenon DEF Over
<1>12. Prepared(s, b)
  BY <1>3, <1>4, <1>7, <1>10, <1>11, Zenon DEF Prepared
<1> QED
  BY <1>4a, <1>5, <1>12, Zenon DEF b

\* The running thread begins to wait.
LEMMA PreparedByBlock ==
  ASSUME NEW s, SchedPart(s), NEW t \in Threads, s.state[t] = "running", t # Idle,
         t = Main => s.state[Idle] # "none"
  PROVE  LET b == [s EXCEPT !.state[t] = "waiting"]
         IN  /\ Prepared(s, b)
             /\ SameTimer(s, b)
             /\ b.state[t] = "waiting"
             /\ \A u \in Threads : u # t => b.state[u] = s.state[u]
<1> DEFINE b == [s EXCEPT !.state[t] = "waiting"]
<1>1. SchedOK(s) /\ KernelThreads(s)
  BY Zenon DEF SchedPart
<1>2. PICK x \in States : x = "waiting"
  BY Zenon DEF States
<1>3. /\ x \in States /\ t \notin ReadyIn(s) /\ x # "ready" /\ x # "running"
      /\ Restated(s, b, t, x)
  BY <1>2, Zenon DEF ReadyIn, Restated
<1> HIDE DEF b
<1>4. /\ SchedOK(b) /\ b.running = s.running /\ SameTimer(s, b) /\ b.state[t] = "waiting"
      /\ \A u \in Threads : u # t => b.state[u] = s.state[u]
  <2>1. /\ SchedOK(b) /\ b.running = s.running /\ SameTimer(s, b) /\ b.state[t] = x
        /\ \A u \in Threads : u # t => b.state[u] = s.state[u]
    <3>1. SchedOK(s)
      BY <1>1, Zenon
    <3>2. /\ x \in States /\ t \in Threads /\ t \notin ReadyIn(s)
          /\ x # "ready" /\ x # "running" /\ Restated(s, b, t, x)
      BY <1>3, Zenon
    <3> QED
      BY ONLY <3>1, <3>2, StateApart, SMTT(30)
  <2> QED
    BY <2>1, <1>2, Zenon
<1>5. Idle \in Threads /\ Main \in Threads /\ Reaper \in Threads
  BY DEF Threads
<1>6. b.state[Idle] = s.state[Idle]
  BY <1>4, <1>5, Zenon
<1>7. /\ b.state[Main] = s.state[Main] \/ (b.state[Main] = "waiting" /\ s.state[Idle] # "none")
      /\ b.state[Reaper] = s.state[Reaper] \/ b.state[Reaper] = "waiting"
  BY <1>4, <1>5, Zenon
<1>8. KernelThreads(b)
  BY <1>1, <1>6, <1>7, Zenon DEF KernelThreads
<1>9. \A u \in Threads : s.state[u] \in Over => b.state[u] = s.state[u]
  BY <1>4, Zenon DEF Over
<1>10. Prepared(s, b)
  BY <1>4, <1>6, <1>8, <1>9, Zenon DEF Prepared
<1> QED
  BY <1>4, <1>10, Zenon DEF b

\* A thread is created.
LEMMA PreparedByCreation ==
  ASSUME NEW s, SchedPart(s), NEW u \in Threads, s.state[u] = "none"
  PROVE  LET b == EnqueueReadyThread([s EXCEPT !.state[u] = "created"], u, FALSE)
         IN  /\ Prepared(s, b)
             /\ SameTimer(s, b)
             /\ b.state[u] = "ready"
             /\ \A t \in Threads : t # u => b.state[t] = s.state[t]
<1> DEFINE c == [s EXCEPT !.state[u] = "created"]
           b == EnqueueReadyThread(c, u, FALSE)
<1>1. SchedOK(s) /\ KernelThreads(s)
  BY Zenon DEF SchedPart
<1>2. PICK x \in States : x = "created"
  BY Zenon DEF States
<1>3. /\ x \in States /\ u \in Threads /\ u \notin ReadyIn(s)
      /\ x # "ready" /\ x # "running" /\ Restated(s, c, u, x)
  BY <1>2, Zenon DEF ReadyIn, Restated
<1> HIDE DEF c
<1>4. /\ SchedOK(c) /\ c.running = s.running /\ SameTimer(s, c) /\ c.state[u] = x
      /\ \A t \in Threads : t # u => c.state[t] = s.state[t]
  <2>1. SchedOK(s)
    BY <1>1, Zenon
  <2> QED
    BY ONLY <2>1, <1>3, StateApart, SMTT(30)
<1>5. u \notin ReadyIn(c)
  BY <1>3, <1>4, Zenon DEF ReadyIn
<1>6. SchedOK(b) /\ Enqueued(c, b, u, NewPriority(c, u, FALSE))
  <2>1. FALSE \in BOOLEAN
    OBVIOUS
  <2> QED
    BY <1>3, <1>4, <1>5, <2>1, EnqueueOK, Zenon
<1>7. c.state \in [Threads -> States]
  BY <1>4, Zenon DEF SchedOK, Scheds
<1> HIDE DEF b
<1>8. b.running = s.running /\ b.state = [c.state EXCEPT ![u] = "ready"]
  BY <1>4, <1>6, Zenon DEF Enqueued
<1>8a. SameTimer(s, b)
  BY <1>4, <1>6, Zenon DEF Enqueued, SameTimer
<1>9. b.state[u] = "ready" /\ \A t \in Threads : t # u => b.state[t] = s.state[t]
  BY <1>4, <1>7, <1>8, Zenon
<1>10. Idle \in Threads /\ Main \in Threads /\ Reaper \in Threads
  BY DEF Threads
<1>11. b.state[Main] = s.state[Main]
  <2>1. Main # u
    BY <1>1, Zenon DEF KernelThreads
  <2> QED
    BY <2>1, <1>9, <1>10, Zenon
<1>12. /\ b.state[Idle] = s.state[Idle] \/ b.state[Idle] = "ready"
       /\ b.state[Reaper] = s.state[Reaper] \/ b.state[Reaper] = "ready"
  BY <1>9, <1>10, Zenon
<1>13. KernelThreads(b)
  BY <1>1, <1>11, <1>12, Zenon DEF KernelThreads
<1>14. \A t \in Threads : s.state[t] \in Over => b.state[t] = s.state[t]
  BY <1>9, Zenon DEF Over
<1>15. s.state[Idle] # "none" => b.state[Idle] # "none"
  BY <1>12, Zenon
<1>16. Prepared(s, b)
  BY <1>6, <1>8, <1>13, <1>14, <1>15, Zenon DEF Prepared
<1> QED
  BY <1>8a, <1>9, <1>16, Zenon DEF b, c

\* The kernel's own threads are three, and no worker is one of them.
LEMMA Distinct ==
  /\ Main \in Threads /\ Reaper \in Threads /\ Idle \in Threads
  /\ Main # Reaper /\ Main # Idle /\ Reaper # Idle
  /\ \A t \in Workers : t \in Threads /\ t # Main /\ t # Reaper /\ t # Idle
  /\ NoThread \notin Threads
<1>1. \A t \in Workers : t \notin {Main, Reaper, Idle}
  BY SchedulerAssumption, Zenon
<1> QED
  BY <1>1, SchedulerAssumption, Zenon DEF Threads

\* A worker exits, or is freed.
LEMMA PreparedByEnd ==
  ASSUME NEW s, SchedPart(s), NEW t \in Workers, t \notin ReadyIn(s), NEW x \in Over,
         x # "dead" => t # s.running
  PROVE  LET b == [s EXCEPT !.state[t] = x]
         IN  /\ SchedPart(b)
             /\ b.running = s.running /\ SameTimer(s, b)
             /\ b.state[t] = x
             /\ \A u \in Threads : u # t => b.state[u] = s.state[u]
<1> DEFINE b == [s EXCEPT !.state[t] = x]
<1>1. SchedOK(s) /\ KernelThreads(s) /\ s.running \in Threads
  BY Zenon DEF SchedPart, SchedOK, Scheds
<1>2. /\ x \in States /\ t \in Threads /\ t \notin ReadyIn(s)
      /\ x # "ready" /\ x # "running" /\ Restated(s, b, t, x)
  BY Distinct, Zenon DEF Restated, Over, States
<1> HIDE DEF b
<1>3. /\ SchedOK(b) /\ b.running = s.running /\ SameTimer(s, b) /\ b.state[t] = x
      /\ \A u \in Threads : u # t => b.state[u] = s.state[u]
  <2>1. SchedOK(s)
    BY <1>1, Zenon
  <2> QED
    BY ONLY <2>1, <1>2, StateApart, SMTT(30)
<1>4. /\ b.state[Idle] = s.state[Idle] /\ b.state[Main] = s.state[Main]
      /\ b.state[Reaper] = s.state[Reaper]
  BY <1>3, Distinct, Zenon
<1>5. KernelThreads(b)
  BY <1>1, <1>4, Zenon DEF KernelThreads
<1>6. b.state[b.running] \in {"running", "dead"}
  <2>1. CASE t = s.running
    BY <2>1, <1>3, Zenon DEF Over
  <2>2. CASE t # s.running
    BY <2>2, <1>1, <1>3, Zenon DEF SchedPart
  <2> QED
    BY <2>1, <2>2, Zenon
<1>7. SchedPart(b)
  BY <1>3, <1>5, <1>6, Zenon DEF SchedPart
<1> QED
  BY <1>3, <1>7, Zenon DEF b

-----------------------------------------------------------------------------
(* The inductive invariant. *)

\* The types of what is not in sched.
RestTyped ==
  /\ pc \in [Threads -> {"run", "reschedule", "dequeue", "release"}]
  /\ isr \in Threads \cup {NoThread}
  /\ fReapQueue \in Seq(Threads)
  /\ fThreadsToReap \in Nat
  /\ victim \in Threads \cup {NoThread}
  /\ others \subseteq Workers

\* A dead thread that still has the processor does nothing but give it up.
DeadGivesUp == sched.state[sched.running] = "dead" => pc[sched.running] = "reschedule"

\* The reaper waits in Wait or inside ReleaseRef, and has a victim only between
\* Dequeue and the end of ReleaseRef, when the victim is in the queue no more.
ReaperSteps ==
  /\ pc[Reaper] \in {"run", "dequeue", "release"}
  /\ sched.state[Reaper] = "waiting" => pc[Reaper] # "run"
  /\ victim # NoThread => pc[Reaper] = "release"
  /\ victim # NoThread => \A i \in 1..Len(fReapQueue) : fReapQueue[i] # victim

ReaperPart == ReaperSteps /\ ReapQueue

IInv ==
  /\ RestTyped
  /\ SchedPart(sched)
  /\ DeadGivesUp
  /\ ReaperPart

LEMMA InitOK == Init => IInv
<1> SUFFICES ASSUME Init PROVE IInv
  OBVIOUS
<1>1. /\ sched.running = Main
      /\ sched.state = [t \in Threads |-> IF t = Main THEN "running" ELSE "none"]
      /\ sched.cur = BasePriority
      /\ sched.fReadyQueue = [p \in Priorities |-> << >>]
      /\ sched.fReadyThreadCount = 0 /\ sched.fHighestReadyThread = 0
  BY DEF Init
<1>2. /\ Main \in Threads /\ Idle \in Threads /\ Reaper \in Threads
      /\ Main # Idle /\ Main # Reaper
  BY Distinct, Zenon
<1>3. \A t \in Threads : /\ t = Main => sched.state[t] = "running"
                         /\ t # Main => sched.state[t] = "none"
  BY <1>1, Zenon
<1>4. ReadyIn(sched) = {}
  BY <1>3, Zenon DEF ReadyIn
<1>5. sched \in Scheds
  <2>1. sched.state \in [Threads -> States]
    BY <1>1 DEF States
  <2>2. /\ Main \in Threads /\ BasePriority \in [Threads -> Priorities]
        /\ [p \in Priorities |-> << >>] \in [Priorities -> Seq(Threads)]
        /\ 0 \in Priorities /\ 0 \in Nat
    BY <1>2, SchedulerAssumption DEF Priorities
  <2>3. [t \in Threads |-> IF t = Main THEN "running" ELSE "none"] \in [Threads -> States]
    BY <2>1, <1>1, Zenon
  <2> QED
    BY <2>2, <2>3 DEF Init, Scheds
<1>6. QueuesOK(sched)
  <2>1. \A p \in Priorities : ReadyAt(sched, p) = {}
    BY <1>4, Zenon DEF ReadyAt
  <2>2. Once(<< >>, {})
    BY DEF Once
  <2>3. \A p \in Priorities : Once(sched.fReadyQueue[p], ReadyAt(sched, p))
    BY <1>1, <2>1, <2>2, Zenon
  <2>4. Cardinality({}) = 0
    BY FS_EmptySet, Zenon
  <2> QED
    BY <2>3, <2>4, <1>1, <1>4 DEF QueuesOK
<1>7. BoostsOK(sched)
  BY <1>1, SchedulerAssumption DEF BoostsOK
<1>8. OneRuns(sched)
  BY <1>1, <1>3, Zenon DEF OneRuns
<1>9. KernelThreads(sched)
  BY <1>2, <1>3, Zenon DEF KernelThreads
<1>10. SchedPart(sched)
  BY <1>1, <1>2, <1>3, <1>5, <1>6, <1>7, <1>8, <1>9, Zenon DEF SchedPart, SchedOK
<1>11. pc = [t \in Threads |-> "run"] /\ fReapQueue = << >> /\ fThreadsToReap = 0
       /\ victim = NoThread /\ isr = NoThread /\ others = {}
  BY Zenon DEF Init
<1>12. RestTyped
  BY <1>11 DEF RestTyped
<1>13. DeadGivesUp
  BY <1>1, <1>2, <1>3, Zenon DEF DeadGivesUp
<1>14. pc[Reaper] = "run" /\ sched.state[Reaper] = "none"
  BY <1>2, <1>3, <1>11, Zenon
<1>15. ReaperSteps
  BY <1>11, <1>14, Zenon DEF ReaperSteps
<1>16. ReapQueue
  <2>1. Len(fReapQueue) = 0 /\ \A i \in 1..Len(fReapQueue) : FALSE
    BY <1>11
  <2>2. ~(pc[Reaper] = "dequeue" /\ sched.state[Reaper] # "waiting")
    BY <1>14, Zenon
  <2>3. Len(fReapQueue) = fThreadsToReap
          + (IF pc[Reaper] = "dequeue" /\ sched.state[Reaper] # "waiting" THEN 1 ELSE 0)
    BY <2>1, <2>2, <1>11
  <2> QED
    BY <2>1, <2>3, <1>11, Zenon DEF ReapQueue
<1> QED
  BY <1>10, <1>12, <1>13, <1>15, <1>16, Zenon DEF IInv, ReaperPart

\* A step that is not the reaper's and lets no thread exit.
LEMMA ReaperUndisturbed ==
  ASSUME IInv, Undisturbed(sched, sched'), UNCHANGED <<fReapQueue, fThreadsToReap, victim>>,
         pc'[Reaper] = pc[Reaper],
         \/ pc[Reaper] = "release"
         \/ sched'.state[Reaper] = "waiting" <=> sched.state[Reaper] = "waiting"
  PROVE  ReaperPart'
<1>1. RestTyped /\ ReaperSteps /\ ReapQueue
  BY Zenon DEF IInv, ReaperPart
<1>2. /\ fReapQueue' = fReapQueue /\ fThreadsToReap' = fThreadsToReap /\ victim' = victim
  OBVIOUS
<1>3. ReaperSteps'
  BY <1>1, <1>2, Zenon DEF ReaperSteps
<1>4. Len(fReapQueue') = fThreadsToReap'
        + (IF pc'[Reaper] = "dequeue" /\ sched'.state[Reaper] # "waiting" THEN 1 ELSE 0)
  BY <1>1, <1>2, Zenon DEF ReapQueue
<1>5. \A i \in 1..Len(fReapQueue) : sched'.state[fReapQueue[i]] = "dead"
  <2>1. \A i \in 1..Len(fReapQueue) : fReapQueue[i] \in Threads
    BY <1>1 DEF RestTyped
  <2> QED
    BY <2>1, <1>1, Zenon DEF ReapQueue, Undisturbed
<1>6. victim # NoThread => sched'.state[victim] = "dead" /\ sched'.running # victim
  <2> SUFFICES ASSUME victim # NoThread
               PROVE  sched'.state[victim] = "dead" /\ sched'.running # victim
    OBVIOUS
  <2>1. victim \in Threads /\ sched.state[victim] = "dead" /\ sched.running # victim
    BY <1>1, Zenon DEF RestTyped, ReapQueue
  <2>2. sched'.state[victim] = "dead"
    BY <2>1, Zenon DEF Undisturbed
  <2> QED
    BY <2>1, <2>2, Zenon DEF Undisturbed
<1>7. /\ \A i \in 1..Len(fReapQueue') : sched'.state[fReapQueue'[i]] = "dead"
      /\ \A i, j \in 1..Len(fReapQueue') : fReapQueue'[i] = fReapQueue'[j] => i = j
      /\ victim' # NoThread => sched'.state[victim'] = "dead" /\ sched'.running # victim'
  <2>1. \A i, j \in 1..Len(fReapQueue) : fReapQueue[i] = fReapQueue[j] => i = j
    BY <1>1, Zenon DEF ReapQueue
  <2> QED
    BY <1>2, <1>5, <1>6, <2>1, Zenon
<1>8. ReapQueue'
  BY <1>4, <1>7, Zenon DEF ReapQueue
<1> QED
  BY <1>3, <1>8, Zenon DEF ReaperPart

-----------------------------------------------------------------------------
(* Every step keeps the invariant, leaves the dead alone and gives the       *)
(* processor to the right thread.                                            *)

\* What becomes of the quantum timer.
TimerRight ==
  sched'.running # Idle /\ sched.state[Idle] # "none" =>
    \/ sched'.timer
    \/ /\ sched'.running = sched.running
       /\ isr' = isr => ~sched.timer
       /\ isr' # isr => ~sched.used

StepRight ==
  IInv' /\ DeadStay(sched, sched') /\ SwitchRight(sched, sched') /\ TimerRight

\* The timer and the running thread are as they were.
LEMMA TimerKept ==
  ASSUME IInv, sched'.running = sched.running, sched'.timer = sched.timer, isr' = isr
  PROVE  TimerRight
<1>1. sched.timer \in BOOLEAN
  BY DEF IInv, SchedPart, SchedOK, Scheds
<1> QED
  BY <1>1, Zenon DEF TimerRight

\* A thread that executes its own code is running.
LEMMA OwnCode ==
  ASSUME IInv, NEW t \in Threads, Runs(t), pc[t] # "reschedule"
  PROVE  sched.running = t /\ sched.state[t] = "running" /\ t \notin ReadyIn(sched)
<1>1. sched.running = t
  BY Zenon DEF Runs
<1>2. sched.state[t] # "dead"
  BY <1>1, Zenon DEF IInv, DeadGivesUp
<1>3. sched.state[t] = "running"
  BY <1>1, <1>2, Zenon DEF IInv, SchedPart
<1> QED
  BY <1>1, <1>3, Zenon DEF ReadyIn

\* Reschedule makes nobody wait and wakes nobody.
LEMMA WaitKept ==
  ASSUME NEW b, NEW e, Shuffled(b, e)
  PROVE  e.state[Reaper] = "waiting" <=> b.state[Reaper] = "waiting"
<1>1. Reaper \in Threads
  BY Distinct, Zenon
<1> QED
  BY <1>1, Zenon DEF Shuffled

\* The steps that leave the reaper alone.
LEMMA OthersStep ==
  ASSUME IInv, Step(sched, sched'), RestTyped',
         UNCHANGED <<fReapQueue, fThreadsToReap, victim>>,
         pc'[Reaper] = pc[Reaper],
         \/ pc[Reaper] = "release"
         \/ sched'.state[Reaper] = "waiting" <=> sched.state[Reaper] = "waiting",
         TimerRight,
         sched'.state[sched'.running] = "dead" => pc'[sched'.running] = "reschedule"
  PROVE  StepRight
<1>1. Undisturbed(sched, sched') /\ SchedPart(sched')
      /\ DeadStay(sched, sched') /\ SwitchRight(sched, sched')
  BY Zenon DEF Step
<1>2. ReaperPart'
  BY <1>1, ReaperUndisturbed, Zenon
<1>3. DeadGivesUp'
  BY Zenon DEF DeadGivesUp
<1> QED
  BY <1>1, <1>2, <1>3, Zenon DEF StepRight, IInv

LEMMA CreateThreadOK ==
  ASSUME IInv, NEW t \in Threads, NEW new \in Threads, NEW handle \in BOOLEAN,
         CreateThread(t, new, handle)
  PROVE  StepRight
<1>1. /\ sched' = EnqueueReadyThread([sched EXCEPT !.state[new] = "created"], new, FALSE)
      /\ pc' = [pc EXCEPT ![t] = "reschedule"]
      /\ UNCHANGED <<isr, fReapQueue, fThreadsToReap, victim>>
      /\ others' = others \/ (new \in Workers /\ others' = others \cup {new})
      /\ sched.state[new] = "none" /\ t # Reaper
  BY Zenon DEF CreateThread
<1>2. sched.running = t /\ sched.state[t] = "running"
  <2>1. Runs(t) /\ pc[t] # "reschedule"
    BY Zenon DEF CreateThread
  <2> QED
    BY <2>1, OwnCode, Zenon
<1>3. SchedPart(sched) /\ RestTyped
  BY Zenon DEF IInv
<1>4. LET b == EnqueueReadyThread([sched EXCEPT !.state[new] = "created"], new, FALSE)
      IN  /\ Prepared(sched, b)
          /\ SameTimer(sched, b)
          /\ b.state[new] = "ready"
          /\ \A u \in Threads : u # new => b.state[u] = sched.state[u]
  BY <1>1, <1>3, PreparedByCreation, Zenon
<1>5. /\ Prepared(sched, sched') /\ SameTimer(sched, sched') /\ sched'.state[new] = "ready"
      /\ \A u \in Threads : u # new => sched'.state[u] = sched.state[u]
  BY <1>1, <1>4, Zenon
<1>6. sched'.running = t /\ sched'.state[t] = "running"
  BY <1>1, <1>2, <1>5, Zenon DEF Prepared
<1>7. Step(sched, sched')
  BY <1>3, <1>5, <1>6, StepWithoutReschedule, Zenon
<1>8. RestTyped'
  BY <1>1, <1>3 DEF RestTyped
<1>9. pc'[Reaper] = pc[Reaper]
  BY <1>1, <1>3, Distinct, Zenon DEF RestTyped
<1>10. sched'.state[Reaper] = "waiting" <=> sched.state[Reaper] = "waiting"
  BY <1>1, <1>5, Distinct, Zenon
<1>11. TimerRight
  BY <1>1, <1>2, <1>5, <1>6, TimerKept, Zenon DEF SameTimer
<1> QED
  BY <1>1, <1>6, <1>7, <1>8, <1>9, <1>10, <1>11, OthersStep, Zenon

\* After Reschedule the timer is set, or nothing has changed since b and the
\* quantum of the running thread is not used up.
LEMMA RescheduleTimer ==
  ASSUME IInv, NEW b, Prepared(sched, b), sched' = Reschedule(b),
         \/ isr' = isr /\ b.timer = sched.timer
         \/ isr' # isr /\ b.used = sched.used
  PROVE  TimerRight
<1> SUFFICES ASSUME sched'.running # Idle, sched.state[Idle] # "none", ~sched'.timer
             PROVE  /\ sched'.running = sched.running
                    /\ isr' = isr => ~sched.timer
                    /\ isr' # isr => ~sched.used
  BY Zenon DEF TimerRight
<1>1. SchedOK(b) /\ KernelThreads(b) /\ b.running = sched.running /\ b.state[Idle] # "none"
  BY Zenon DEF Prepared
<1>2. Rescheduled(b, Reschedule(b))
  BY <1>1, RescheduleOK, Zenon
<1>3. sched' = b /\ ~b.used
  BY <1>1, <1>2, Zenon DEF Rescheduled
<1>4. ~b.timer
  BY <1>3, Zenon
<1> QED
  BY <1>1, <1>3, <1>4, Zenon

\* The steps that end in Reschedule and leave the reaper alone.
LEMMA ReschedulingStep ==
  ASSUME IInv, NEW b, Prepared(sched, b), sched' = Reschedule(b), RestTyped',
         UNCHANGED <<fReapQueue, fThreadsToReap, victim>>,
         pc'[Reaper] = pc[Reaper],
         \/ pc[Reaper] = "release"
         \/ b.state[Reaper] = "waiting" <=> sched.state[Reaper] = "waiting",
         \/ isr' = isr /\ b.timer = sched.timer
         \/ isr' # isr /\ b.used = sched.used
  PROVE  StepRight
<1>1. SchedPart(sched)
  BY Zenon DEF IInv
<1>2. /\ Step(sched, Reschedule(b)) /\ Shuffled(b, Reschedule(b))
      /\ Reschedule(b).state[Reschedule(b).running] = "running"
  BY <1>1, StepWithReschedule, Zenon
<1>3. Step(sched, sched') /\ sched'.state[sched'.running] = "running"
  BY <1>2, Zenon
<1>4. Reschedule(b).state[Reaper] = "waiting" <=> b.state[Reaper] = "waiting"
  BY <1>2, WaitKept, Zenon
<1>5. \/ pc[Reaper] = "release"
      \/ sched'.state[Reaper] = "waiting" <=> sched.state[Reaper] = "waiting"
  BY <1>4, Zenon
<1>6. TimerRight
  BY RescheduleTimer, Zenon
<1> QED
  BY <1>3, <1>5, <1>6, OthersStep, Zenon

LEMMA CallRescheduleOK ==
  ASSUME IInv, NEW t \in Threads, CallReschedule(t)
  PROVE  StepRight
<1>1. /\ sched' = Reschedule(sched)
      /\ pc' = [pc EXCEPT ![t] = "run"]
      /\ UNCHANGED <<isr, fReapQueue, fThreadsToReap, victim, others>>
      /\ pc[t] = "reschedule"
  BY Zenon DEF CallReschedule
<1>2. SchedPart(sched) /\ RestTyped /\ ReaperSteps
  BY Zenon DEF IInv, ReaperPart
<1>3. t # Reaper
  BY <1>1, <1>2, Zenon DEF ReaperSteps
<1>4. RestTyped'
  BY <1>1, <1>2 DEF RestTyped
<1>5. pc'[Reaper] = pc[Reaper]
  BY <1>1, <1>2, <1>3, Distinct, Zenon DEF RestTyped
<1>6. Prepared(sched, sched)
  BY <1>2, PreparedAsIs, Zenon
<1> QED
  BY <1>1, <1>4, <1>5, <1>6, ReschedulingStep, Zenon

LEMMA BlockOK ==
  ASSUME IInv, NEW t \in Threads, Block(t)
  PROVE  StepRight
<1> DEFINE b == [sched EXCEPT !.state[t] = "waiting"]
<1>1. /\ sched' = Reschedule(b)
      /\ UNCHANGED <<pc, isr, fReapQueue, fThreadsToReap, victim, others>>
      /\ t # Reaper /\ t # Idle
      /\ sched.state[t] = "running" /\ sched.state[Idle] # "none"
  BY Zenon DEF Block
<1>2. SchedPart(sched) /\ RestTyped
  BY Zenon DEF IInv
<1>3. LET c == [sched EXCEPT !.state[t] = "waiting"]
      IN  /\ Prepared(sched, c)
          /\ SameTimer(sched, c)
          /\ c.state[t] = "waiting"
          /\ \A u \in Threads : u # t => c.state[u] = sched.state[u]
  BY <1>1, <1>2, PreparedByBlock, Zenon
<1>4. Prepared(sched, b) /\ b.timer = sched.timer /\ b.state[Reaper] = sched.state[Reaper]
  BY <1>1, <1>3, Distinct, Zenon DEF SameTimer
<1> HIDE DEF b
<1>5. RestTyped'
  BY <1>1, <1>2 DEF RestTyped
<1>6. pc'[Reaper] = pc[Reaper] /\ UNCHANGED <<fReapQueue, fThreadsToReap, victim>>
  BY <1>1
<1>7. b.state[Reaper] = "waiting" <=> sched.state[Reaper] = "waiting"
  BY <1>4, Zenon
<1> QED
  BY <1>1, <1>4, <1>5, <1>6, <1>7, ReschedulingStep, Zenon

\* What waking a thread does to the scheduler, the reaper when it waits inside
\* ReleaseRef.
LEMMA WakeOther ==
  ASSUME IInv, NEW u \in Threads, u \in Wakeable, sched.state[u] = "waiting", NEW slept \in BOOLEAN
  PROVE  LET b == EnqueueReadyThread(sched, u, slept)
         IN  /\ Prepared(sched, b)
             /\ SameTimer(sched, b)
             /\ \/ pc[Reaper] = "release"
                \/ b.state[Reaper] = "waiting" <=> sched.state[Reaper] = "waiting"
             /\ \A t \in Threads : t # u => b.state[t] = sched.state[t]
<1>1. SchedPart(sched)
  BY Zenon DEF IInv
<1>2. LET b == EnqueueReadyThread(sched, u, slept)
      IN  /\ Prepared(sched, b)
          /\ SameTimer(sched, b)
          /\ b.state[u] = "ready"
          /\ \A t \in Threads : t # u => b.state[t] = sched.state[t]
  BY <1>1, PreparedByWake, Zenon
<1>3. u = Reaper => pc[Reaper] = "release"
  <2>1. u = Reaper => pc[Reaper] # "dequeue"
    BY Zenon DEF Wakeable
  <2>2. u = Reaper => pc[Reaper] # "run" /\ pc[Reaper] \in {"run", "dequeue", "release"}
    BY Zenon DEF IInv, ReaperPart, ReaperSteps
  <2> QED
    BY <2>1, <2>2, Zenon
<1> QED
  BY <1>2, <1>3, Distinct, Zenon

LEMMA WakeOK ==
  ASSUME IInv, NEW t \in Threads, NEW u \in Threads, NEW slept \in BOOLEAN, Wake(t, u, slept)
  PROVE  StepRight
<1>1. /\ sched' = EnqueueReadyThread(sched, u, slept)
      /\ UNCHANGED <<pc, isr, fReapQueue, fThreadsToReap, victim, others>>
      /\ u \in Wakeable /\ sched.running = t
      /\ sched.state[t] = "running" /\ sched.state[u] = "waiting"
  BY Zenon DEF Wake, Runs
<1>2. SchedPart(sched) /\ RestTyped
  BY Zenon DEF IInv
<1>3. LET b == EnqueueReadyThread(sched, u, slept)
      IN  /\ Prepared(sched, b)
          /\ SameTimer(sched, b)
          /\ \/ pc[Reaper] = "release"
             \/ b.state[Reaper] = "waiting" <=> sched.state[Reaper] = "waiting"
          /\ \A v \in Threads : v # u => b.state[v] = sched.state[v]
  BY <1>1, WakeOther, Zenon
<1>4. /\ Prepared(sched, sched')
      /\ SameTimer(sched, sched')
      /\ \/ pc[Reaper] = "release"
         \/ sched'.state[Reaper] = "waiting" <=> sched.state[Reaper] = "waiting"
      /\ \A v \in Threads : v # u => sched'.state[v] = sched.state[v]
  BY <1>1, <1>3, Zenon
<1>5. sched'.running = t /\ sched'.state[t] = "running"
  BY <1>1, <1>4, Zenon DEF Prepared
<1>6. Step(sched, sched')
  BY <1>2, <1>4, <1>5, StepWithoutReschedule, Zenon
<1>7. RestTyped'
  BY <1>1, <1>2 DEF RestTyped
<1>8. pc'[Reaper] = pc[Reaper] /\ UNCHANGED <<fReapQueue, fThreadsToReap, victim>>
  BY <1>1
<1>9. TimerRight
  BY <1>1, <1>4, <1>5, TimerKept, Zenon DEF SameTimer
<1> QED
  BY <1>4, <1>5, <1>6, <1>7, <1>8, <1>9, OthersStep, Zenon

\* A thread is woken and Reschedule called.
LEMMA WakeRescheduleStep ==
  ASSUME IInv, NEW u \in Threads, u \in Wakeable, sched.state[u] = "waiting", NEW slept \in BOOLEAN,
         sched' = Reschedule(EnqueueReadyThread(sched, u, slept)),
         UNCHANGED <<pc, isr, fReapQueue, fThreadsToReap, victim, others>>
  PROVE  StepRight
<1> DEFINE b == EnqueueReadyThread(sched, u, slept)
<1>1. /\ Prepared(sched, b)
      /\ b.timer = sched.timer
      /\ \/ pc[Reaper] = "release"
         \/ b.state[Reaper] = "waiting" <=> sched.state[Reaper] = "waiting"
  BY WakeOther, Zenon DEF SameTimer
<1>2. sched' = Reschedule(b)
  OBVIOUS
<1> HIDE DEF b
<1>3. RestTyped'
  BY DEF RestTyped, IInv
<1>4. pc'[Reaper] = pc[Reaper] /\ UNCHANGED <<fReapQueue, fThreadsToReap, victim>>
  OBVIOUS
<1> QED
  BY <1>1, <1>2, <1>3, <1>4, ReschedulingStep, Zenon

LEMMA WakeAndRescheduleOK ==
  ASSUME IInv, NEW t \in Threads, NEW u \in Threads, NEW slept \in BOOLEAN,
         WakeAndReschedule(t, u, slept)
  PROVE  StepRight
<1>1. /\ sched' = Reschedule(EnqueueReadyThread(sched, u, slept))
      /\ UNCHANGED <<pc, isr, fReapQueue, fThreadsToReap, victim, others>>
      /\ u \in Wakeable /\ sched.state[u] = "waiting"
  BY Zenon DEF WakeAndReschedule
<1> QED
  BY <1>1, WakeRescheduleStep, Zenon

LEMMA DeviceInterruptOK ==
  ASSUME IInv, NEW u \in Sleepers, NEW slept \in BOOLEAN, DeviceInterrupt(u, slept)
  PROVE  StepRight
<1>1. /\ sched' = Reschedule(EnqueueReadyThread(sched, u, slept))
      /\ UNCHANGED <<pc, isr, fReapQueue, fThreadsToReap, victim, others>>
  BY Zenon DEF DeviceInterrupt
<1>2. u \in Threads /\ u \in Wakeable /\ sched.state[u] = "waiting"
  BY Zenon DEF Sleepers, Wakeable
<1> QED
  BY <1>1, <1>2, WakeRescheduleStep, Zenon

LEMMA EndOfInterruptOK ==
  ASSUME IInv, EndOfInterrupt
  PROVE  StepRight
<1>1. /\ sched' = Reschedule(sched) /\ isr' = NoThread /\ isr # NoThread
      /\ UNCHANGED <<pc, fReapQueue, fThreadsToReap, victim, others>>
  BY Zenon DEF EndOfInterrupt
<1>2. SchedPart(sched) /\ RestTyped
  BY Zenon DEF IInv
<1>3. RestTyped'
  BY <1>1, <1>2 DEF RestTyped
<1>4. pc'[Reaper] = pc[Reaper] /\ UNCHANGED <<fReapQueue, fThreadsToReap, victim>>
  BY <1>1
<1>5. Prepared(sched, sched)
  BY <1>2, PreparedAsIs, Zenon
<1> QED
  BY <1>1, <1>3, <1>4, <1>5, ReschedulingStep, Zenon

\* Only the timer's state is different.
LEMMA PreparedByTimer ==
  ASSUME NEW s, SchedPart(s), NEW e, NEW timer \in BOOLEAN, NEW used \in BOOLEAN,
         e = [s EXCEPT !.timer = timer, !.used = used]
  PROVE  Prepared(s, e) /\ e.state = s.state /\ e.used = used /\ e.timer = timer
<1>1. SchedOK(s) /\ KernelThreads(s) /\ s \in Scheds
  BY Zenon DEF SchedPart, SchedOK
<1>2. LET f == [s EXCEPT !.timer = timer, !.used = used]
      IN  SchedOK(f) /\ ReadyIn(f) = ReadyIn(s)
  BY <1>1, TimerApart, Zenon
<1>3. SchedOK(e)
  BY <1>2, Zenon
<1>4. /\ e.state = s.state /\ e.running = s.running
      /\ e.used = used /\ e.timer = timer
  BY <1>1 DEF Scheds
<1>5. KernelThreads(e)
  BY <1>1, <1>4, Zenon DEF KernelThreads
<1> QED
  BY <1>3, <1>4, <1>5, Zenon DEF Prepared

LEMMA QuantumPassesOK ==
  ASSUME IInv, QuantumPasses
  PROVE  StepRight
<1>1. /\ sched' = [sched EXCEPT !.used = TRUE]
      /\ UNCHANGED <<pc, isr, fReapQueue, fThreadsToReap, victim, others>>
  BY Zenon DEF QuantumPasses
<1>2. SchedPart(sched) /\ RestTyped /\ sched \in Scheds /\ DeadGivesUp
  BY Zenon DEF IInv, SchedPart, SchedOK
<1>3. PICK timer \in BOOLEAN : timer = sched.timer
  BY <1>2 DEF Scheds
<1>4. sched' = [sched EXCEPT !.timer = timer, !.used = TRUE]
  BY <1>1, <1>2, <1>3 DEF Scheds
<1>5. /\ Prepared(sched, sched') /\ sched'.state = sched.state
      /\ sched'.timer = sched.timer
  <2>1. TRUE \in BOOLEAN
    OBVIOUS
  <2> QED
    BY <1>2, <1>3, <1>4, <2>1, PreparedByTimer, Zenon
<1>6. sched'.running = sched.running
  BY <1>5, Zenon DEF Prepared
<1>7. Step(sched, sched')
  BY <1>2, <1>5, <1>6, StepWithoutReschedule, Zenon DEF SchedPart
<1>8. RestTyped'
  BY <1>1, <1>2 DEF RestTyped
<1>9. pc' = pc /\ UNCHANGED <<fReapQueue, fThreadsToReap, victim>>
  BY <1>1
<1>10. sched'.state[sched'.running] = "dead" => pc'[sched'.running] = "reschedule"
  BY <1>2, <1>5, <1>6, <1>9, Zenon DEF DeadGivesUp
<1>11. TimerRight
  BY <1>1, <1>5, <1>6, TimerKept, Zenon
<1> QED
  BY <1>5, <1>7, <1>8, <1>9, <1>10, <1>11, OthersStep, Zenon

\* An order of some threads lists each of them once.
LEMMA OrderIs ==
  ASSUME NEW S \in SUBSET Threads, NEW woken \in Orders(S)
  PROVE  /\ Len(woken) \in Nat
         /\ \A i \in 1..Len(woken) : woken[i] \in S
         /\ \A i, j \in 1..Len(woken) : woken[i] = woken[j] => i = j
<1>1. PICK W \in SUBSET S : woken \in SetToSeqs(W)
  BY Zenon DEF Orders
<1>2. IsFiniteSet(W)
  <2>1. W \in SUBSET Threads
    BY <1>1, Zenon
  <2> QED
    BY <2>1, ThreadsFinite, FS_Subset, Zenon
<1>3. PICK c \in Nat : c = Cardinality(W)
  BY <1>2, FS_CardinalityType, Zenon
<1>4. /\ woken \in [1..c -> W]
      /\ \A i, j \in 1..c : i # j => woken[i] # woken[j]
  BY <1>1, <1>3, Zenon DEF SetToSeqs
<1>5. woken \in Seq(W)
  BY <1>4, SeqDef, Zenon
<1>6. 1..Len(woken) = 1..c /\ Len(woken) \in Nat
  BY <1>4, <1>5, LenProperties
<1>7. \A i \in 1..Len(woken) : woken[i] \in W
  BY <1>4, <1>6, Zenon
<1> QED
  BY <1>1, <1>4, <1>6, <1>7, Zenon

\* Threads are woken one after the other.
LEMMA PreparedByTimeouts ==
  ASSUME NEW s, SchedPart(s), NEW b, NEW woken, NEW len \in Nat, Woken(s, b, woken, len),
         \A i \in 1..len : woken[i] \in Threads /\ s.state[woken[i]] = "waiting"
  PROVE  /\ Prepared(s, b) /\ b.used = s.used
         /\ \A t \in Threads : \/ b.state[t] = s.state[t]
                               \/ /\ s.state[t] = "waiting" /\ b.state[t] = "ready"
                                  /\ \E i \in 1..len : woken[i] = t
<1>1. SchedOK(b) /\ b.running = s.running /\ b.used = s.used
  BY Zenon DEF Woken
<1>2. \A t \in Threads : \/ b.state[t] = s.state[t]
                         \/ /\ s.state[t] = "waiting" /\ b.state[t] = "ready"
                            /\ \E i \in 1..len : woken[i] = t
  <2> TAKE t \in Threads
  <2>1. CASE \A i \in 1..len : woken[i] # t
    BY <2>1, Zenon DEF Woken
  <2>2. CASE \E i \in 1..len : woken[i] = t
    <3>1. PICK i \in 1..len : woken[i] = t
      BY <2>2, Zenon
    <3>2. b.state[woken[i]] = "ready" /\ s.state[woken[i]] = "waiting"
      BY <3>1, Zenon DEF Woken
    <3> QED
      BY <2>2, <3>1, <3>2, Zenon
  <2> QED
    BY <2>1, <2>2, Zenon
<1>3. \A t \in Threads : \/ b.state[t] = s.state[t]
                         \/ s.state[t] = "waiting" /\ b.state[t] = "ready"
  BY <1>2, Zenon
<1>4. KernelThreads(s)
  BY Zenon DEF SchedPart
<1>5. b.state[Idle] = s.state[Idle]
  BY <1>3, <1>4, Distinct, Zenon DEF KernelThreads
<1>6. /\ b.state[Main] = s.state[Main] \/ b.state[Main] = "ready"
      /\ b.state[Reaper] = s.state[Reaper] \/ b.state[Reaper] = "ready"
  BY <1>3, Distinct, Zenon
<1>7. KernelThreads(b)
  BY <1>4, <1>5, <1>6, Zenon DEF KernelThreads
<1>8. \A t \in Threads : s.state[t] \in Over => b.state[t] = s.state[t]
  BY <1>3, Zenon DEF Over
<1> QED
  BY <1>1, <1>2, <1>5, <1>7, <1>8, Zenon DEF Prepared

\* From the timer's interrupt to its call of Reschedule.
LEMMA PreparedByInterrupt ==
  ASSUME IInv, NEW woken \in Orders(Sleepers), NEW slept, NEW off,
         SchedPart(off), Prepared(sched, off), off.state = sched.state
  PROVE  LET b == AfterTimeouts(off, woken, slept)
         IN  /\ Prepared(sched, b) /\ b.used = off.used
             /\ b.state[Reaper] = "waiting" <=> sched.state[Reaper] = "waiting"
<1> DEFINE b == AfterTimeouts(off, woken, slept)
<1>1. Sleepers \in SUBSET Threads
  BY Zenon DEF Sleepers
<1>2. /\ Len(woken) \in Nat
      /\ \A i \in 1..Len(woken) : woken[i] \in Sleepers
      /\ \A i, j \in 1..Len(woken) : woken[i] = woken[j] => i = j
  BY <1>1, OrderIs, Zenon
<1>3. PICK len \in Nat : len = Len(woken)
  BY <1>2, Zenon
<1>4. \A i \in 1..len : woken[i] \in Threads /\ off.state[woken[i]] = "waiting"
  BY <1>2, <1>3, Zenon DEF Sleepers
<1>5. \A i, j \in 1..len : woken[i] = woken[j] => i = j
  BY <1>2, <1>3, Zenon
<1>6. SchedOK(off)
  BY Zenon DEF SchedPart
<1>7. Woken(off, b, woken, len)
  <2> HIDE DEF b
  <2>1. Woken(off, AfterTimeouts(off, woken, slept), woken, len)
    BY <1>3, <1>4, <1>5, <1>6, AfterTimeoutsOK, Zenon
  <2> QED
    BY <2>1, Zenon DEF b
<1> HIDE DEF b
<1>8. /\ Prepared(off, b) /\ b.used = off.used
      /\ \A t \in Threads : \/ b.state[t] = off.state[t]
                            \/ /\ off.state[t] = "waiting" /\ b.state[t] = "ready"
                               /\ \E i \in 1..len : woken[i] = t
  <2>1. SchedPart(off) /\ len \in Nat
    BY <1>3, Zenon
  <2> QED
    BY ONLY <2>1, <1>4, <1>7, PreparedByTimeouts, SMTT(30)
<1>9. \A i \in 1..len : woken[i] # Reaper
  BY <1>2, <1>3, Zenon DEF Sleepers
<1>10. b.state[Reaper] = off.state[Reaper]
  BY <1>8, <1>9, Distinct, Zenon
<1>11. Prepared(sched, b)
  BY <1>8, Zenon DEF Prepared
<1> QED
  BY <1>8, <1>10, <1>11, Zenon DEF b

LEMMA TimerInterruptOK ==
  ASSUME IInv, NEW woken \in Orders(Sleepers), NEW slept \in SUBSET Sleepers,
         NEW quantum \in BOOLEAN, TimerInterrupt(woken, slept, quantum)
  PROVE  StepRight
<1> DEFINE off == IF quantum THEN [sched EXCEPT !.timer = FALSE] ELSE sched
           b == AfterTimeouts(off, woken, slept)
<1>1. /\ sched' = Reschedule(b)
      /\ isr' = sched.running /\ isr = NoThread
      /\ UNCHANGED <<pc, fReapQueue, fThreadsToReap, victim, others>>
  BY Zenon DEF TimerInterrupt
<1>2. SchedPart(sched) /\ RestTyped /\ sched \in Scheds /\ sched.running \in Threads
  BY Zenon DEF IInv, SchedPart, SchedOK, Scheds
<1>3. Prepared(sched, off) /\ off.state = sched.state /\ off.used = sched.used
  <2>1. CASE quantum
    <3>1. PICK used \in BOOLEAN : used = sched.used
      BY <1>2 DEF Scheds
    <3>2. off = [sched EXCEPT !.timer = FALSE]
      BY <2>1, Zenon
    <3> HIDE DEF off
    <3>3. off = [sched EXCEPT !.timer = FALSE, !.used = used]
      BY <1>2, <3>1, <3>2 DEF Scheds
    <3>4. FALSE \in BOOLEAN
      OBVIOUS
    <3> QED
      BY <1>2, <3>1, <3>3, <3>4, PreparedByTimer, Zenon
  <2>2. CASE ~quantum
    <3>1. off = sched
      BY <2>2, Zenon
    <3> QED
      BY <3>1, <1>2, PreparedAsIs, Zenon
  <2> QED
    BY <2>1, <2>2, Zenon
<1> HIDE DEF off
<1>4. SchedPart(off)
  BY <1>2, <1>3, Zenon DEF SchedPart, Prepared
<1>5. /\ Prepared(sched, b) /\ b.used = sched.used
      /\ b.state[Reaper] = "waiting" <=> sched.state[Reaper] = "waiting"
  <2> DEFINE c == AfterTimeouts(off, woken, slept)
  <2>1. /\ Prepared(sched, c) /\ c.used = off.used
        /\ c.state[Reaper] = "waiting" <=> sched.state[Reaper] = "waiting"
    BY <1>3, <1>4, PreparedByInterrupt, Zenon
  <2>2. b = c
    OBVIOUS
  <2> HIDE DEF b, c
  <2> QED
    BY <2>1, <2>2, <1>3, Zenon
<1> HIDE DEF b
<1>6. RestTyped'
  BY <1>1, <1>2 DEF RestTyped
<1>7. pc'[Reaper] = pc[Reaper] /\ UNCHANGED <<fReapQueue, fThreadsToReap, victim>>
  BY <1>1
<1>8. isr' # isr
  BY <1>1, <1>2, Distinct, Zenon
<1> QED
  BY <1>1, <1>5, <1>6, <1>7, <1>8, ReschedulingStep, Zenon

\* The dead are workers.
LEMMA DeadAreWorkers ==
  ASSUME IInv, NEW t \in Threads, sched.state[t] = "dead"
  PROVE  t \in Workers /\ t # Main /\ t # Idle /\ t # Reaper
<1>1. KernelThreads(sched)
  BY Zenon DEF IInv, SchedPart
<1>2. t # Main /\ t # Idle /\ t # Reaper
  BY <1>1, Zenon DEF KernelThreads
<1> QED
  BY <1>2, Zenon DEF Threads

\* What exiting does to the scheduler, and waking the reaper after it.
Exits(s, t, slept) ==
  LET b == [s EXCEPT !.state[t] = "dead"]
      e == EnqueueReadyThread(b, Reaper, slept)
  IN  /\ Prepared(s, b) /\ SameTimer(s, b) /\ b.state[t] = "dead"
      /\ \A u \in Threads : u # t => b.state[u] = s.state[u]
      /\ s.state[Reaper] = "waiting" =>
           /\ Prepared(s, e) /\ SameTimer(s, e)
           /\ e.state[t] = "dead" /\ e.state[Reaper] = "ready"
           /\ \A u \in Threads : u # t /\ u # Reaper => e.state[u] = s.state[u]

\* A thread exits and, if the reaper waits, wakes it.
LEMMA PreparedByExit ==
  ASSUME NEW s, SchedPart(s), NEW t \in Workers, s.state[t] = "running", NEW slept \in BOOLEAN
  PROVE  Exits(s, t, slept)
<1> DEFINE b == [s EXCEPT !.state[t] = "dead"]
           e == EnqueueReadyThread(b, Reaper, slept)
<1>1. t \notin ReadyIn(s) /\ t \in Threads /\ t # Reaper /\ t # Idle
  BY Distinct, Zenon DEF ReadyIn
<1>2. PICK x \in Over : x = "dead"
  BY Zenon DEF Over
<1>4. LET c == [s EXCEPT !.state[t] = x]
      IN  /\ SchedPart(c)
          /\ c.running = s.running /\ SameTimer(s, c)
          /\ c.state[t] = x
          /\ \A u \in Threads : u # t => c.state[u] = s.state[u]
  <2>1. x \in Over /\ (x # "dead" => t # s.running)
    BY <1>2, Zenon
  <2> QED
    BY <1>1, <2>1, PreparedByEnd, ZenonT(60)
<1>5. /\ SchedPart(b) /\ b.running = s.running /\ SameTimer(s, b) /\ b.state[t] = "dead"
      /\ \A u \in Threads : u # t => b.state[u] = s.state[u]
  BY <1>2, <1>4, Zenon
<1> HIDE DEF b
<1>6. Prepared(s, b)
  <2>1. \A u \in Threads : s.state[u] \in Over => b.state[u] = s.state[u]
    BY <1>5, Zenon DEF Over
  <2>2. b.state[Idle] = s.state[Idle]
    BY <1>1, <1>5, Distinct, Zenon
  <2> QED
    BY <1>5, <2>1, <2>2, Zenon DEF Prepared, SchedPart
<1>7. ASSUME s.state[Reaper] = "waiting"
      PROVE  /\ Prepared(s, e) /\ SameTimer(s, e)
                  /\ e.state[t] = "dead" /\ e.state[Reaper] = "ready"
             /\ \A u \in Threads : u # t /\ u # Reaper => e.state[u] = s.state[u]
  <2>1. Reaper \in Threads /\ b.state[Reaper] = "waiting"
    BY <1>1, <1>5, <1>7, Distinct, Zenon
  <2>2. LET f == EnqueueReadyThread(b, Reaper, slept)
        IN  /\ Prepared(b, f) /\ SameTimer(b, f)
            /\ f.state[Reaper] = "ready"
            /\ \A u \in Threads : u # Reaper => f.state[u] = b.state[u]
    BY <1>5, <2>1, PreparedByWake, ZenonT(60)
  <2>3. /\ Prepared(b, e) /\ SameTimer(b, e) /\ e.state[Reaper] = "ready"
        /\ \A u \in Threads : u # Reaper => e.state[u] = b.state[u]
    BY <2>2, Zenon
  <2> HIDE DEF e
  <2>4. Prepared(s, e)
    <3>1. \A u \in Threads : s.state[u] \in Over => e.state[u] = s.state[u]
      BY <1>6, <2>3, Zenon DEF Prepared
    <3> QED
      BY <1>6, <2>3, <3>1, Zenon DEF Prepared
  <2>5. SameTimer(s, e)
    BY <1>5, <2>3, Zenon DEF SameTimer
  <2> QED
    BY <1>1, <1>5, <2>3, <2>4, <2>5, Zenon
<1> QED
  BY <1>5, <1>6, <1>7, Zenon DEF b, e, Exits

LEMMA ExitOK ==
  ASSUME IInv, NEW t \in Workers, NEW slept \in BOOLEAN, Exit(t, slept)
  PROVE  StepRight
<1> DEFINE b == [sched EXCEPT !.state[t] = "dead"]
           e == EnqueueReadyThread(b, Reaper, slept)
           wakes == fThreadsToReap = 0 /\ ReaperWaits
<1>1. /\ fReapQueue' = Append(fReapQueue, t)
      /\ wakes => sched' = e /\ fThreadsToReap' = fThreadsToReap
      /\ ~wakes => sched' = b /\ fThreadsToReap' = fThreadsToReap + 1
      /\ pc' = [pc EXCEPT ![t] = "reschedule"]
      /\ isr' = isr /\ victim' = victim /\ others' = others
  BY Zenon DEF Exit
<1>2. t \in Threads /\ t # Reaper
  BY Distinct, Zenon
<1>3. sched.running = t /\ sched.state[t] = "running"
  <2>1. Runs(t) /\ pc[t] # "reschedule"
    BY Zenon DEF Exit
  <2> QED
    BY <1>2, <2>1, OwnCode, Zenon
<1>4. SchedPart(sched) /\ RestTyped /\ ReaperSteps /\ ReapQueue
  BY Zenon DEF IInv, ReaperPart
<1>5. LET c == [sched EXCEPT !.state[t] = "dead"]
          f == EnqueueReadyThread(c, Reaper, slept)
      IN  /\ Prepared(sched, c) /\ SameTimer(sched, c) /\ c.state[t] = "dead"
          /\ \A u \in Threads : u # t => c.state[u] = sched.state[u]
          /\ sched.state[Reaper] = "waiting" =>
               /\ Prepared(sched, f) /\ SameTimer(sched, f) /\ f.state[t] = "dead" /\ f.state[Reaper] = "ready"
               /\ \A u \in Threads : u # t /\ u # Reaper => f.state[u] = sched.state[u]
  <2>1. Exits(sched, t, slept)
    BY <1>3, <1>4, PreparedByExit, Zenon
  <2> QED
    BY <2>1, Zenon DEF Exits
<1>6. /\ Prepared(sched, sched') /\ SameTimer(sched, sched') /\ sched'.state[t] = "dead"
      /\ \A u \in Threads : u # t /\ u # Reaper => sched'.state[u] = sched.state[u]
      /\ wakes => sched'.state[Reaper] = "ready"
      /\ ~wakes => sched'.state[Reaper] = sched.state[Reaper]
  <2>1. CASE wakes
    BY <2>1, <1>1, <1>5, Zenon DEF ReaperWaits
  <2>2. CASE ~wakes
    <3>1. sched' = b
      BY <2>2, <1>1, Zenon
    <3> QED
      BY <2>2, <3>1, <1>2, <1>5, Distinct, Zenon
  <2> QED
    BY <2>1, <2>2, Zenon
<1> HIDE DEF b, e
<1>7. sched'.running = t
  BY <1>3, <1>6, Zenon DEF Prepared
<1>8. Step(sched, sched')
  BY <1>4, <1>6, <1>7, StepWithoutReschedule, Zenon
<1>9. RestTyped'
  <2>1. fThreadsToReap' \in Nat
    BY <1>1, <1>4 DEF RestTyped
  <2> QED
    BY <1>1, <1>2, <1>4, <2>1 DEF RestTyped
<1>10. pc'[Reaper] = pc[Reaper] /\ pc'[t] = "reschedule"
  BY <1>1, <1>2, <1>4, Distinct, Zenon DEF RestTyped
<1>11. DeadGivesUp'
  BY <1>7, <1>10, Zenon DEF DeadGivesUp
<1>12. /\ Len(fReapQueue) \in Nat /\ Len(fReapQueue') = Len(fReapQueue) + 1
       /\ \A i \in 1..Len(fReapQueue) : fReapQueue'[i] = fReapQueue[i] /\ fReapQueue[i] \in Threads
       /\ fReapQueue'[Len(fReapQueue) + 1] = t
  BY <1>1, <1>2, <1>4 DEF RestTyped
<1>13. \A i \in 1..Len(fReapQueue') : i \in 1..Len(fReapQueue) \/ i = Len(fReapQueue) + 1
  BY <1>12
<1>14. \A i \in 1..Len(fReapQueue) : fReapQueue[i] # t /\ fReapQueue[i] # Reaper
                                     /\ sched'.state[fReapQueue[i]] = "dead"
  <2> TAKE i \in 1..Len(fReapQueue)
  <2>1. sched.state[fReapQueue[i]] = "dead" /\ fReapQueue[i] \in Threads
    BY <1>4, <1>12, Zenon DEF ReapQueue
  <2>2. fReapQueue[i] # Reaper /\ fReapQueue[i] # t
    BY <2>1, <1>3, DeadAreWorkers, Zenon
  <2> QED
    BY <2>1, <2>2, <1>6, Zenon
<1>15. victim # NoThread => /\ victim # t /\ sched'.state[victim] = "dead"
                            /\ sched'.running # victim
  <2> SUFFICES ASSUME victim # NoThread
               PROVE  victim # t /\ sched'.state[victim] = "dead" /\ sched'.running # victim
    OBVIOUS
  <2>1. victim \in Threads /\ sched.state[victim] = "dead"
    BY <1>4, Zenon DEF RestTyped, ReapQueue
  <2>2. victim # t /\ victim # Reaper
    BY <2>1, <1>3, DeadAreWorkers, Zenon
  <2> QED
    BY <2>1, <2>2, <1>6, <1>7, Zenon
<1>16. sched'.state[Reaper] = "waiting" => sched.state[Reaper] = "waiting"
  <2>1. CASE wakes
    BY <2>1, <1>6, Zenon
  <2>2. CASE ~wakes
    BY <2>2, <1>6, Zenon
  <2> QED
    BY <2>1, <2>2, Zenon
<1>17. ReaperSteps'
  <2>1. victim # NoThread => \A i \in 1..Len(fReapQueue') : fReapQueue'[i] # victim
    BY <1>4, <1>12, <1>13, <1>15, Zenon DEF ReaperSteps
  <2>2. /\ pc'[Reaper] \in {"run", "dequeue", "release"}
        /\ sched'.state[Reaper] = "waiting" => pc'[Reaper] # "run"
        /\ victim # NoThread => pc'[Reaper] = "release"
    BY <1>4, <1>10, <1>16, Zenon DEF ReaperSteps
  <2> QED
    BY <1>1, <2>1, <2>2, Zenon DEF ReaperSteps
<1>18. Len(fReapQueue') = fThreadsToReap'
         + (IF pc'[Reaper] = "dequeue" /\ sched'.state[Reaper] # "waiting" THEN 1 ELSE 0)
  <2>1. Len(fReapQueue) = fThreadsToReap
          + (IF pc[Reaper] = "dequeue" /\ sched.state[Reaper] # "waiting" THEN 1 ELSE 0)
    BY <1>4, Zenon DEF ReapQueue
  <2> DEFINE owes == pc[Reaper] = "dequeue" /\ sched.state[Reaper] # "waiting"
             owes1 == pc'[Reaper] = "dequeue" /\ sched'.state[Reaper] # "waiting"
  <2>2. fThreadsToReap \in Nat
    BY <1>4, Zenon DEF RestTyped
  <2>3. CASE wakes
    <3>1. ~owes /\ owes1 /\ fThreadsToReap = 0 /\ fThreadsToReap' = 0
      BY <2>3, <1>1, <1>4, <1>6, <1>10, Zenon DEF ReaperWaits
    <3> HIDE DEF owes, owes1
    <3>2. Len(fReapQueue) = fThreadsToReap + (IF owes THEN 1 ELSE 0)
      BY <2>1, Zenon DEF owes
    <3>3. Len(fReapQueue') = fThreadsToReap' + (IF owes1 THEN 1 ELSE 0)
      BY <3>1, <3>2, <1>12, <2>2
    <3> QED
      BY <3>3, Zenon DEF owes1
  <2>4. CASE ~wakes
    <3>1. (owes <=> owes1) /\ fThreadsToReap' = fThreadsToReap + 1
      BY <2>4, <1>1, <1>6, <1>10, Zenon
    <3> HIDE DEF owes, owes1
    <3>2. Len(fReapQueue) = fThreadsToReap + (IF owes THEN 1 ELSE 0)
      BY <2>1, Zenon DEF owes
    <3>3. Len(fReapQueue') = fThreadsToReap' + (IF owes1 THEN 1 ELSE 0)
      BY <3>1, <3>2, <1>12, <2>2
    <3> QED
      BY <3>3, Zenon DEF owes1
  <2> QED
    BY <2>3, <2>4, Zenon
<1>19. \A i, j \in 1..Len(fReapQueue') : fReapQueue'[i] = fReapQueue'[j] => i = j
  <2>1. \A i, j \in 1..Len(fReapQueue) : fReapQueue[i] = fReapQueue[j] => i = j
    BY <1>4, Zenon DEF ReapQueue
  <2> SUFFICES ASSUME NEW i \in 1..Len(fReapQueue'), NEW j \in 1..Len(fReapQueue'),
                      fReapQueue'[i] = fReapQueue'[j]
               PROVE  i = j
    OBVIOUS
  <2>2. CASE i \in 1..Len(fReapQueue) /\ j \in 1..Len(fReapQueue)
    <3>1. fReapQueue[i] = fReapQueue[j]
      BY <2>2, <1>12, Zenon
    <3> QED
      BY <2>1, <2>2, <3>1, Zenon
  <2>3. CASE i \in 1..Len(fReapQueue) /\ j = Len(fReapQueue) + 1
    BY <2>3, <1>12, <1>14, Zenon
  <2>4. CASE j \in 1..Len(fReapQueue) /\ i = Len(fReapQueue) + 1
    BY <2>4, <1>12, <1>14, Zenon
  <2> QED
    BY <2>2, <2>3, <2>4, <1>13, Zenon
<1>20. \A i \in 1..Len(fReapQueue') : sched'.state[fReapQueue'[i]] = "dead"
  BY <1>6, <1>12, <1>13, <1>14, Zenon
<1>21. ReapQueue'
  BY <1>1, <1>15, <1>18, <1>19, <1>20, Zenon DEF ReapQueue
<1>22. TimerRight
  BY <1>1, <1>3, <1>6, <1>7, TimerKept, Zenon DEF SameTimer
<1> QED
  BY <1>8, <1>9, <1>11, <1>17, <1>21, <1>22, Zenon DEF StepRight, IInv, ReaperPart, Step

LEMMA ReaperWaitOK ==
  ASSUME IInv, ReaperWait
  PROVE  StepRight
<1> DEFINE b == [sched EXCEPT !.state[Reaper] = "waiting"]
<1>1. /\ pc' = [pc EXCEPT ![Reaper] = "dequeue"] /\ pc[Reaper] = "run"
      /\ fThreadsToReap > 0 => fThreadsToReap' = fThreadsToReap - 1 /\ sched' = sched
      /\ ~(fThreadsToReap > 0) => sched' = Reschedule(b) /\ fThreadsToReap' = fThreadsToReap
      /\ isr' = isr /\ fReapQueue' = fReapQueue /\ victim' = victim
      /\ others' = others
  BY Zenon DEF ReaperWait
<1>2. SchedPart(sched) /\ RestTyped /\ ReaperSteps /\ ReapQueue
  BY Zenon DEF IInv, ReaperPart
<1>3. sched.running = Reaper /\ sched.state[Reaper] = "running"
  <2>1. Runs(Reaper) /\ pc[Reaper] # "reschedule" /\ Reaper \in Threads
    BY Distinct, Zenon DEF ReaperWait
  <2> QED
    BY <2>1, OwnCode, Zenon
<1>4. pc'[Reaper] = "dequeue" /\ victim = NoThread
  BY <1>1, <1>2, Distinct, Zenon DEF RestTyped, ReaperSteps
<1>5. fThreadsToReap \in Nat /\ Len(fReapQueue) = fThreadsToReap
  <2>1. /\ fThreadsToReap \in Nat
        /\ ~(pc[Reaper] = "dequeue" /\ sched.state[Reaper] # "waiting")
    BY <1>1, <1>2, Zenon DEF RestTyped
  <2>2. Len(fReapQueue) = fThreadsToReap + 0
    BY <2>1, <1>2, Zenon DEF ReapQueue
  <2> QED
    BY <2>1, <2>2
<1>6. RestTyped'
  <2>1. fThreadsToReap' \in Nat
    BY <1>1, <1>5
  <2> QED
    BY <1>1, <1>2, <2>1 DEF RestTyped
<1>7. /\ Step(sched, sched')
      /\ sched'.state[sched'.running] = "running"
      /\ Len(fReapQueue) = fThreadsToReap'
           + (IF sched'.state[Reaper] # "waiting" THEN 1 ELSE 0)
  <2>1. CASE fThreadsToReap > 0
    <3>1. sched' = sched /\ fThreadsToReap' = fThreadsToReap - 1
      BY <2>1, <1>1, Zenon
    <3>2. Step(sched, sched) /\ sched.state[sched.running] = "running"
      BY <1>2, <1>3, PreparedAsIs, StepWithoutReschedule, Zenon
    <3>3. fThreadsToReap' + 1 = fThreadsToReap /\ sched'.state[Reaper] # "waiting"
      <4>1. sched'.state[Reaper] # "waiting"
        BY <3>1, <1>3, Zenon
      <4> QED
        BY <3>1, <4>1, <1>5
    <3> QED
      BY <3>1, <3>2, <3>3, <1>5, Zenon
  <2>2. CASE ~(fThreadsToReap > 0)
    <3>1. sched' = Reschedule(b) /\ fThreadsToReap' = fThreadsToReap
      BY <2>2, <1>1, Zenon
    <3>2. LET c == [sched EXCEPT !.state[Reaper] = "waiting"]
          IN  /\ Prepared(sched, c)
              /\ c.state[Reaper] = "waiting"
              /\ \A u \in Threads : u # Reaper => c.state[u] = sched.state[u]
      BY <1>2, <1>3, Distinct, PreparedByBlock, ZenonT(60)
    <3>3. Prepared(sched, b) /\ b.state[Reaper] = "waiting"
      BY <3>2, Zenon
    <3> HIDE DEF b
    <3>4. /\ Step(sched, Reschedule(b)) /\ Shuffled(b, Reschedule(b))
          /\ Reschedule(b).state[Reschedule(b).running] = "running"
      BY <1>2, <3>3, StepWithReschedule, Zenon
    <3>5. Reschedule(b).state[Reaper] = "waiting"
      BY <3>3, <3>4, WaitKept, Zenon
    <3>6. Len(fReapQueue) = fThreadsToReap' + 0
      BY <3>1, <1>5
    <3> QED
      BY <3>1, <3>4, <3>5, <3>6, Zenon
  <2> QED
    BY <2>1, <2>2, Zenon
<1>8. DeadGivesUp'
  BY <1>7, Zenon DEF DeadGivesUp
<1>9. ReaperSteps'
  BY <1>1, <1>4, Zenon DEF ReaperSteps
<1>10. ReapQueue'
  <2>1. \A i \in 1..Len(fReapQueue) : sched'.state[fReapQueue[i]] = "dead"
    <3>1. \A i \in 1..Len(fReapQueue) : fReapQueue[i] \in Threads
      BY <1>2 DEF RestTyped
    <3> QED
      BY <3>1, <1>2, <1>7, Zenon DEF ReapQueue, Step, Undisturbed
  <2>2. \A i, j \in 1..Len(fReapQueue) : fReapQueue[i] = fReapQueue[j] => i = j
    BY <1>2, Zenon DEF ReapQueue
  <2>3. Len(fReapQueue') = fThreadsToReap'
          + (IF pc'[Reaper] = "dequeue" /\ sched'.state[Reaper] # "waiting" THEN 1 ELSE 0)
    BY <1>1, <1>4, <1>7, Zenon
  <2>4. /\ \A i \in 1..Len(fReapQueue') : sched'.state[fReapQueue'[i]] = "dead"
        /\ \A i, j \in 1..Len(fReapQueue') : fReapQueue'[i] = fReapQueue'[j] => i = j
        /\ victim' = NoThread
    BY <1>1, <1>4, <2>1, <2>2, Zenon
  <2> QED
    BY <2>3, <2>4, Zenon DEF ReapQueue
<1>11. TimerRight
  <2>1. CASE fThreadsToReap > 0
    <3>1. sched' = sched /\ isr' = isr
      BY <2>1, <1>1, Zenon
    <3> QED
      BY <3>1, TimerKept, Zenon
  <2>2. CASE ~(fThreadsToReap > 0)
    <3>1. LET c == [sched EXCEPT !.state[Reaper] = "waiting"]
          IN  Prepared(sched, c) /\ SameTimer(sched, c)
      BY <1>2, <1>3, Distinct, PreparedByBlock, Zenon
    <3>2. Prepared(sched, b) /\ b.timer = sched.timer
      BY <3>1, Zenon DEF SameTimer
    <3>3. sched' = Reschedule(b) /\ isr' = isr
      BY <2>2, <1>1, Zenon
    <3> HIDE DEF b
    <3> QED
      BY <3>2, <3>3, RescheduleTimer, Zenon
  <2> QED
    BY <2>1, <2>2, Zenon
<1> QED
  BY <1>6, <1>7, <1>8, <1>9, <1>10, <1>11, Zenon DEF StepRight, IInv, ReaperPart, Step

LEMMA ReaperDequeueOK ==
  ASSUME IInv, ReaperDequeue
  PROVE  StepRight
<1>1. /\ pc' = [pc EXCEPT ![Reaper] = "release"] /\ pc[Reaper] = "dequeue"
      /\ fReapQueue # << >> => victim' = Head(fReapQueue) /\ fReapQueue' = Tail(fReapQueue)
      /\ sched' = sched /\ isr' = isr /\ fThreadsToReap' = fThreadsToReap
      /\ others' = others
  BY Zenon DEF ReaperDequeue
<1>2. SchedPart(sched) /\ RestTyped /\ ReaperSteps /\ ReapQueue
  BY Zenon DEF IInv, ReaperPart
<1>3. sched.running = Reaper /\ sched.state[Reaper] = "running"
  <2>1. Runs(Reaper) /\ pc[Reaper] # "reschedule" /\ Reaper \in Threads
    BY Distinct, Zenon DEF ReaperDequeue
  <2> QED
    BY <2>1, OwnCode, Zenon
<1>4. pc'[Reaper] = "release"
  BY <1>1, <1>2, Distinct, Zenon DEF RestTyped
<1>5. fThreadsToReap \in Nat /\ Len(fReapQueue) = fThreadsToReap + 1
  <2>1. /\ fThreadsToReap \in Nat
        /\ pc[Reaper] = "dequeue" /\ sched.state[Reaper] # "waiting"
    BY <1>1, <1>2, <1>3, Zenon DEF RestTyped
  <2> QED
    BY <2>1, <1>2, Zenon DEF ReapQueue
<1>6. fReapQueue # << >> /\ fReapQueue \in Seq(Threads)
  BY <1>2, <1>5 DEF RestTyped
<1>7. /\ fReapQueue' \in Seq(Threads) /\ Len(fReapQueue') = fThreadsToReap'
      /\ victim' = fReapQueue[1]
      /\ \A i \in 1..Len(fReapQueue') :
           /\ fReapQueue'[i] = fReapQueue[i + 1]
           /\ i + 1 \in 1..Len(fReapQueue) /\ i + 1 # 1 /\ i \in Int
      /\ 1 \in 1..Len(fReapQueue)
      /\ victim' \in Threads
  <2>1. victim' = Head(fReapQueue) /\ fReapQueue' = Tail(fReapQueue)
    BY <1>1, <1>6, Zenon
  <2>2. fThreadsToReap' = fThreadsToReap
    BY <1>1
  <2> QED
    BY <2>1, <2>2, <1>5, <1>6
<1>8. RestTyped'
  BY <1>1, <1>2, <1>7 DEF RestTyped
<1>9. Step(sched, sched')
  <2>1. Step(sched, sched)
    BY <1>2, <1>3, PreparedAsIs, StepWithoutReschedule, Zenon
  <2> QED
    BY <2>1, <1>1, Zenon
<1>10. DeadGivesUp'
  BY <1>1, <1>3, Zenon DEF DeadGivesUp
<1>11. /\ \A i \in 1..Len(fReapQueue) : sched.state[fReapQueue[i]] = "dead"
       /\ \A i, j \in 1..Len(fReapQueue) : fReapQueue[i] = fReapQueue[j] => i = j
  BY <1>2, Zenon DEF ReapQueue
<1>12. \A i \in 1..Len(fReapQueue') : fReapQueue'[i] # victim'
  BY <1>7, <1>11, Zenon
<1>13. ReaperSteps'
  <2>1. sched'.state[Reaper] # "waiting"
    BY <1>1, <1>3, Zenon
  <2> QED
    BY <2>1, <1>4, <1>12, Zenon DEF ReaperSteps
<1>14. ReapQueue'
  <2>1. \A i \in 1..Len(fReapQueue') : sched'.state[fReapQueue'[i]] = "dead"
    <3> TAKE i \in 1..Len(fReapQueue')
    <3>1. fReapQueue'[i] = fReapQueue[i + 1] /\ i + 1 \in 1..Len(fReapQueue)
      BY <1>7
    <3>2. sched.state[fReapQueue[i + 1]] = "dead"
      BY <3>1, <1>11, Zenon
    <3> QED
      BY <3>1, <3>2, <1>1, Zenon
  <2>2. ASSUME NEW i \in 1..Len(fReapQueue'), NEW j \in 1..Len(fReapQueue'),
               fReapQueue'[i] = fReapQueue'[j]
        PROVE  i = j
    <3>1. /\ fReapQueue'[i] = fReapQueue[i + 1] /\ i + 1 \in 1..Len(fReapQueue)
          /\ fReapQueue'[j] = fReapQueue[j + 1] /\ j + 1 \in 1..Len(fReapQueue)
          /\ i \in Int /\ j \in Int
      BY <1>7
    <3>2. fReapQueue[i + 1] = fReapQueue[j + 1]
      BY <2>2, <3>1, Zenon
    <3>3. i + 1 = j + 1
      BY <3>1, <3>2, <1>11, Zenon
    <3> QED
      BY <3>1, <3>3
  <2>3. sched'.state[victim'] = "dead" /\ sched'.running # victim'
    BY <1>1, <1>3, <1>7, <1>11, Zenon
  <2>4. Len(fReapQueue') = fThreadsToReap'
          + (IF pc'[Reaper] = "dequeue" /\ sched'.state[Reaper] # "waiting" THEN 1 ELSE 0)
    <3>1. ~(pc'[Reaper] = "dequeue" /\ sched'.state[Reaper] # "waiting")
      BY <1>4, Zenon
    <3>2. Len(fReapQueue') = fThreadsToReap' + 0
      BY <1>1, <1>5, <1>7
    <3> QED
      BY <3>1, <3>2, Zenon
  <2> QED
    BY <2>1, <2>2, <2>3, <2>4, Zenon DEF ReapQueue
<1>15. TimerRight
  BY <1>1, TimerKept, Zenon
<1> QED
  BY <1>8, <1>9, <1>10, <1>13, <1>14, <1>15, Zenon DEF StepRight, IInv, ReaperPart, Step

\* A dead thread is freed, or the reaper is done with it.
LEMMA EndOK ==
  ASSUME IInv, NEW v \in Workers, sched.state[v] \in {"dead", "released"}, v # sched.running,
         NEW x \in Over, x # "dead", sched' = [sched EXCEPT !.state[v] = x], isr' = isr
  PROVE  /\ SchedPart(sched')
         /\ sched'.running = sched.running
         /\ sched'.state[v] = x
         /\ \A t \in Threads : t # v => sched'.state[t] = sched.state[t]
         /\ DeadStay(sched, sched') /\ SwitchRight(sched, sched') /\ TimerRight
<1>1. SchedPart(sched) /\ v \notin ReadyIn(sched)
  BY Zenon DEF IInv, ReadyIn
<1>2. LET c == [sched EXCEPT !.state[v] = x]
      IN  /\ SchedPart(c)
          /\ c.running = sched.running /\ SameTimer(sched, c)
          /\ c.state[v] = x
          /\ \A t \in Threads : t # v => c.state[t] = sched.state[t]
  BY <1>1, PreparedByEnd, Zenon
<1>3. /\ SchedPart(sched') /\ sched'.running = sched.running /\ SameTimer(sched, sched')
      /\ sched'.state[v] = x
      /\ \A t \in Threads : t # v => sched'.state[t] = sched.state[t]
  BY <1>2, Zenon
<1>4. DeadStay(sched, sched')
  <2> SUFFICES ASSUME NEW t \in Threads, sched.state[t] \in Over
               PROVE  /\ sched'.state[t] \in Over
                      /\ sched'.running = t => sched.running = t /\ sched'.state[t] = "dead"
    BY Zenon DEF DeadStay
  <2>1. CASE t = v
    BY <2>1, <1>3, Zenon
  <2>2. CASE t # v
    <3>1. sched'.state[t] = sched.state[t]
      BY <2>2, <1>3, Zenon
    <3>2. sched.running = t => sched.state[t] = "dead"
      BY <1>1, Zenon DEF SchedPart, Over
    <3> QED
      BY <3>1, <3>2, <1>3, Zenon
  <2> QED
    BY <2>1, <2>2, Zenon
<1>5. SwitchRight(sched, sched')
  BY <1>3, Zenon DEF SwitchRight
<1>6. TimerRight
  BY <1>3, TimerKept, Zenon DEF SameTimer
<1> QED
  BY <1>3, <1>4, <1>5, <1>6, Zenon

LEMMA ReaperReleaseOK ==
  ASSUME IInv, ReaperRelease
  PROVE  StepRight
<1>1. /\ pc' = [pc EXCEPT ![Reaper] = "run"] /\ pc[Reaper] = "release"
      /\ victim = NoThread => sched' = sched
      /\ victim # NoThread /\ victim \in others =>
           sched' = [sched EXCEPT !.state[victim] = "released"]
      /\ victim # NoThread /\ victim \notin others =>
           sched' = [sched EXCEPT !.state[victim] = "deleted"]
      /\ victim' = NoThread /\ others' = others
      /\ isr' = isr /\ fReapQueue' = fReapQueue /\ fThreadsToReap' = fThreadsToReap
  BY Zenon DEF ReaperRelease
<1>2. SchedPart(sched) /\ RestTyped /\ ReaperSteps /\ ReapQueue
  BY Zenon DEF IInv, ReaperPart
<1>3. sched.running = Reaper /\ sched.state[Reaper] = "running"
  <2>1. Runs(Reaper) /\ pc[Reaper] # "reschedule" /\ Reaper \in Threads
    BY Distinct, Zenon DEF ReaperRelease
  <2> QED
    BY <2>1, OwnCode, Zenon
<1>4. pc'[Reaper] = "run"
  BY <1>1, <1>2, Distinct, Zenon DEF RestTyped
<1>5. RestTyped'
  BY <1>1, <1>2 DEF RestTyped
<1>6. /\ SchedPart(sched')
      /\ sched'.running = Reaper
      /\ sched'.state[Reaper] = "running"
      /\ \A t \in Threads : t # victim => sched'.state[t] = sched.state[t]
      /\ DeadStay(sched, sched') /\ SwitchRight(sched, sched') /\ TimerRight
  <2>1. CASE victim = NoThread
    <3>1. sched' = sched
      BY <2>1, <1>1, Zenon
    <3>2. Step(sched, sched)
      BY <1>2, <1>3, PreparedAsIs, StepWithoutReschedule, Zenon
    <3>3. Step(sched, sched')
      BY <3>1, <3>2, Zenon
    <3>4. TimerRight
      BY <3>1, <1>1, TimerKept, Zenon
    <3> QED
      BY <3>1, <3>3, <3>4, <1>3, Zenon DEF Step
  <2>2. CASE victim # NoThread
    <3>1. victim \in Threads /\ sched.state[victim] = "dead" /\ sched.running # victim
      BY <2>2, <1>2, Zenon DEF RestTyped, ReapQueue
    <3>2. PICK v \in Workers : v = victim
      BY <3>1, DeadAreWorkers, Zenon
    <3>3. PICK x \in Over : x # "dead" /\ sched' = [sched EXCEPT !.state[v] = x]
      <4>1. "released" \in Over /\ "deleted" \in Over
        BY Zenon DEF Over
      <4> QED
        BY <4>1, <3>2, <2>2, <1>1, Zenon
    <3>4. /\ v \in Workers /\ sched.state[v] \in {"dead", "released"} /\ v # sched.running
          /\ x \in Over /\ x # "dead" /\ sched' = [sched EXCEPT !.state[v] = x] /\ isr' = isr
      BY <3>1, <3>2, <3>3, <1>1, Zenon
    <3>5. /\ SchedPart(sched')
          /\ sched'.running = sched.running
          /\ \A t \in Threads : t # v => sched'.state[t] = sched.state[t]
          /\ DeadStay(sched, sched') /\ SwitchRight(sched, sched') /\ TimerRight
      BY <3>4, EndOK, Zenon
    <3>6. v # Reaper
      BY <3>2, Distinct, Zenon
    <3> QED
      BY <3>2, <3>5, <3>6, <1>3, Distinct, Zenon
  <2> QED
    BY <2>1, <2>2, Zenon
<1>7. DeadGivesUp'
  BY <1>6, Zenon DEF DeadGivesUp
<1>8. ReaperSteps'
  BY <1>1, <1>4, <1>6, Zenon DEF ReaperSteps
<1>9. \A i \in 1..Len(fReapQueue) : sched'.state[fReapQueue[i]] = "dead"
  <2> TAKE i \in 1..Len(fReapQueue)
  <2>1. fReapQueue[i] \in Threads
    BY <1>2 DEF RestTyped
  <2>2. sched.state[fReapQueue[i]] = "dead"
    BY <1>2, Zenon DEF ReapQueue
  <2>3. fReapQueue[i] # victim
    <3>1. CASE victim = NoThread
      BY <2>1, <3>1, Distinct, Zenon
    <3>2. CASE victim # NoThread
      BY <3>2, <1>2, Zenon DEF ReaperSteps
    <3> QED
      BY <3>1, <3>2, Zenon
  <2> QED
    BY <2>1, <2>2, <2>3, <1>6, Zenon
<1>10. ReapQueue'
  <2>1. ~(pc[Reaper] = "dequeue") /\ ~(pc'[Reaper] = "dequeue")
    BY <1>1, <1>4, Zenon
  <2>2. Len(fReapQueue) = fThreadsToReap
          + (IF pc[Reaper] = "dequeue" /\ sched.state[Reaper] # "waiting" THEN 1 ELSE 0)
    BY <1>2, Zenon DEF ReapQueue
  <2>3. Len(fReapQueue') = fThreadsToReap'
          + (IF pc'[Reaper] = "dequeue" /\ sched'.state[Reaper] # "waiting" THEN 1 ELSE 0)
    BY <1>1, <2>1, <2>2, Zenon
  <2>4. \A i, j \in 1..Len(fReapQueue) : fReapQueue[i] = fReapQueue[j] => i = j
    BY <1>2, Zenon DEF ReapQueue
  <2>5. /\ \A i \in 1..Len(fReapQueue') : sched'.state[fReapQueue'[i]] = "dead"
        /\ \A i, j \in 1..Len(fReapQueue') : fReapQueue'[i] = fReapQueue'[j] => i = j
    BY <1>1, <1>9, <2>4, Zenon
  <2> QED
    BY <1>1, <2>3, <2>5, Zenon DEF ReapQueue
<1> QED
  BY <1>5, <1>6, <1>7, <1>8, <1>10, Zenon DEF StepRight, IInv, ReaperPart

\* The reaper waits inside ReleaseRef.
LEMMA ReaperBlocksOK ==
  ASSUME IInv, ReaperBlocks
  PROVE  StepRight
<1> DEFINE b == [sched EXCEPT !.state[Reaper] = "waiting"]
<1>1. /\ sched' = Reschedule(b)
      /\ UNCHANGED <<pc, isr, fReapQueue, fThreadsToReap, victim, others>>
      /\ pc[Reaper] = "release"
  BY Zenon DEF ReaperBlocks
<1>2. SchedPart(sched) /\ RestTyped
  BY Zenon DEF IInv
<1>3. sched.running = Reaper /\ sched.state[Reaper] = "running"
  <2>1. Runs(Reaper) /\ pc[Reaper] # "reschedule" /\ Reaper \in Threads
    BY Distinct, Zenon DEF ReaperBlocks
  <2> QED
    BY <2>1, OwnCode, Zenon
<1>4. LET c == [sched EXCEPT !.state[Reaper] = "waiting"]
      IN  Prepared(sched, c) /\ SameTimer(sched, c)
  BY <1>2, <1>3, Distinct, PreparedByBlock, Zenon
<1>5. Prepared(sched, b) /\ b.timer = sched.timer
  BY <1>4, Zenon DEF SameTimer
<1> HIDE DEF b
<1>6. RestTyped'
  BY <1>1, <1>2 DEF RestTyped
<1>7. /\ pc'[Reaper] = pc[Reaper] /\ isr' = isr
      /\ UNCHANGED <<fReapQueue, fThreadsToReap, victim>>
  BY <1>1
<1> QED
  BY <1>1, <1>5, <1>6, <1>7, ReschedulingStep, Zenon

\* A handle is closed.
LEMMA CloseHandleOK ==
  ASSUME IInv, NEW t \in Threads, NEW u \in Threads, CloseHandle(t, u)
  PROVE  StepRight
<1>1. /\ sched.state[u] = "released" => sched' = [sched EXCEPT !.state[u] = "deleted"]
      /\ sched.state[u] # "released" => sched' = sched
      /\ UNCHANGED <<pc, isr, fReapQueue, fThreadsToReap, victim>>
      /\ others' = others \ {u} /\ u \in others
      /\ sched.running = t /\ sched.state[t] = "running"
  BY Zenon DEF CloseHandle, Runs
<1>2. SchedPart(sched) /\ RestTyped
  BY Zenon DEF IInv
<1>3. RestTyped'
  BY <1>1, <1>2 DEF RestTyped
<1>4. /\ pc'[Reaper] = pc[Reaper] /\ isr' = isr
      /\ UNCHANGED <<fReapQueue, fThreadsToReap, victim>>
  BY <1>1
<1>5. /\ Step(sched, sched') /\ TimerRight
      /\ sched'.state[sched'.running] = "running"
      /\ sched'.state[Reaper] = "waiting" <=> sched.state[Reaper] = "waiting"
  <2>1. CASE sched.state[u] # "released"
    <3>1. sched' = sched
      BY <2>1, <1>1, Zenon
    <3>2. Step(sched, sched)
      BY <1>1, <1>2, PreparedAsIs, StepWithoutReschedule, Zenon
    <3>3. Step(sched, sched') /\ TimerRight
      BY <3>1, <3>2, <1>4, TimerKept, Zenon
    <3> QED
      BY <3>1, <3>3, <1>1, Zenon
  <2>2. CASE sched.state[u] = "released"
    <3>1. PICK x \in Over : x = "deleted"
      BY Zenon DEF Over
    <3>2. /\ u \in Workers /\ sched.state[u] \in {"dead", "released"} /\ u # sched.running
          /\ x \in Over /\ x # "dead" /\ sched' = [sched EXCEPT !.state[u] = x] /\ isr' = isr
      <4>1. u # t
        BY <2>2, <1>1, Zenon
      <4>2. u \in Workers
        BY <1>1, <1>2, Zenon DEF RestTyped
      <4> QED
        BY <2>2, <3>1, <4>1, <4>2, <1>1, <1>4, Zenon
    <3>3. /\ SchedPart(sched')
          /\ sched'.running = sched.running
          /\ \A v \in Threads : v # u => sched'.state[v] = sched.state[v]
          /\ DeadStay(sched, sched') /\ SwitchRight(sched, sched') /\ TimerRight
      BY <3>2, EndOK, Zenon
    <3>4. /\ sched'.state[sched'.running] = "running"
          /\ sched'.state[Reaper] = sched.state[Reaper]
      BY <3>2, <3>3, <1>1, Distinct, Zenon
    <3>5. Undisturbed(sched, sched')
      <4>1. \A v \in Threads : sched.state[v] = "dead" => v # u
        BY <2>2, Zenon
      <4> QED
        BY <4>1, <3>3, Zenon DEF Undisturbed
    <3> QED
      BY <3>3, <3>4, <3>5, Zenon DEF Step
  <2> QED
    BY <2>1, <2>2, Zenon
<1> QED
  BY <1>3, <1>4, <1>5, OthersStep, Zenon

\* Nothing happens.
LEMMA StutterOK ==
  ASSUME IInv, UNCHANGED vars
  PROVE  StepRight
<1>1. /\ sched' = sched /\ pc' = pc /\ isr' = isr /\ fReapQueue' = fReapQueue
      /\ fThreadsToReap' = fThreadsToReap /\ victim' = victim /\ others' = others
  BY DEF vars
<1>2. SchedPart(sched) /\ RestTyped
  BY Zenon DEF IInv
<1>3. RestTyped'
  BY <1>1, <1>2 DEF RestTyped
<1>4. Step(sched, sched)
  BY <1>2, PreparedAsIs, StepWithoutReschedule, Zenon DEF SchedPart
<1>5. Step(sched, sched')
  BY <1>1, <1>4, Zenon
<1>6. sched'.state[sched'.running] = "dead" => pc'[sched'.running] = "reschedule"
  BY <1>1, Zenon DEF IInv, DeadGivesUp
<1>7. sched'.state[Reaper] = "waiting" <=> sched.state[Reaper] = "waiting"
  BY <1>1, Zenon
<1>8. pc'[Reaper] = pc[Reaper] /\ UNCHANGED <<fReapQueue, fThreadsToReap, victim>>
  BY <1>1
<1>9. TimerRight
  BY <1>1, TimerKept, Zenon
<1> QED
  BY <1>3, <1>5, <1>6, <1>7, <1>8, <1>9, OthersStep, Zenon

LEMMA NextOK == IInv /\ [Next]_vars => StepRight
<1> SUFFICES ASSUME IInv, [Next]_vars PROVE StepRight
  OBVIOUS
<1>1. CASE \E t \in Threads : CallReschedule(t)
  BY <1>1, CallRescheduleOK, Zenon
<1>2. CASE ReaperWait
  BY <1>2, ReaperWaitOK, Zenon
<1>3. CASE ReaperDequeue
  BY <1>3, ReaperDequeueOK, Zenon
<1>4. CASE ReaperRelease
  BY <1>4, ReaperReleaseOK, Zenon
<1>5. CASE EndOfInterrupt
  BY <1>5, EndOfInterruptOK, Zenon
<1>6. CASE \E t, u \in Threads, handle \in BOOLEAN : CreateThread(t, u, handle)
  BY <1>6, CreateThreadOK, Zenon
<1>7. CASE \E t \in Threads : Block(t)
  BY <1>7, BlockOK, Zenon
<1>8. CASE \E t, u \in Threads, slept \in BOOLEAN : Wake(t, u, slept)
  BY <1>8, WakeOK, Zenon
<1>9. CASE \E t, u \in Threads, slept \in BOOLEAN : WakeAndReschedule(t, u, slept)
  BY <1>9, WakeAndRescheduleOK, Zenon
<1>10. CASE \E t \in Workers, slept \in BOOLEAN : Exit(t, slept)
  BY <1>10, ExitOK, Zenon
<1>11. CASE QuantumPasses
  BY <1>11, QuantumPassesOK, Zenon
<1>12. CASE \E woken \in Orders(Sleepers), slept \in SUBSET Sleepers, quantum \in BOOLEAN :
              TimerInterrupt(woken, slept, quantum)
  BY <1>12, TimerInterruptOK, Zenon
<1>13. CASE \E u \in Sleepers, slept \in BOOLEAN : DeviceInterrupt(u, slept)
  BY <1>13, DeviceInterruptOK, Zenon
<1>14. CASE UNCHANGED vars
  BY <1>14, StutterOK, Zenon
<1>15. CASE ReaperBlocks
  BY <1>15, ReaperBlocksOK, Zenon
<1>16. CASE \E t, u \in Threads : CloseHandle(t, u)
  BY <1>16, CloseHandleOK, Zenon
<1> QED
  BY <1>15, <1>16, <1>1, <1>2, <1>3, <1>4, <1>5, <1>6, <1>7, <1>8, <1>9, <1>10, <1>11, <1>12, <1>13, <1>14,
     Zenon DEF Next, Continue

-----------------------------------------------------------------------------
(* The theorems. *)

\* The invariant from which the others follow.
THEOREM SchedulerInvariant == Spec => []IInv
<1>1. Init => IInv
  BY InitOK
<1>2. IInv /\ [Next]_vars => IInv'
  BY NextOK, Zenon DEF StepRight
<1> QED
  BY <1>1, <1>2, PTL DEF Spec

LEMMA TypesOK ==
  ASSUME IInv
  PROVE  TypeOK
<1>1. sched \in Scheds /\ RestTyped
  BY Zenon DEF IInv, SchedPart, SchedOK
<1>2. sched \in [running : Threads \cup {NoThread},
                 state : [Threads -> States],
                 cur : [Threads -> Priorities],
                 fReadyQueue : [Priorities -> Seq(Threads)],
                 fReadyThreadCount : Nat,
                 fHighestReadyThread : Priorities \cup {BelowQueues},
                 timer : BOOLEAN,
                 used : BOOLEAN]
  BY <1>1 DEF Scheds
<1> QED
  BY <1>1, <1>2, Zenon DEF TypeOK, RestTyped

\* A ready thread is once in the queue of its current priority and nobody else
\* is in a queue; the count and the highest priority are right (EnqueueReadyThread,
\* PickNextThread), for every number of threads and of priorities.
THEOREM SchedulerReadyQueues == Spec => []ReadyQueues
<1>1. IInv => ReadyQueues
  <2> SUFFICES ASSUME IInv PROVE ReadyQueues
    OBVIOUS
  <2>1. TypeOK
    BY TypesOK, Zenon
  <2>2. QueuesOK(sched)
    BY Zenon DEF IInv, SchedPart, SchedOK
  <2>3. Ready = ReadyIn(sched)
    BY Zenon DEF Ready, ReadyIn
  <2>4. ASSUME NEW p \in Priorities, NEW t \in Threads
        PROVE  Cardinality({i \in 1..Len(sched.fReadyQueue[p]) : sched.fReadyQueue[p][i] = t})
                 = IF t \in Ready /\ sched.cur[t] = p THEN 1 ELSE 0
    <3>1. Once(sched.fReadyQueue[p], ReadyAt(sched, p))
      BY <2>2, Zenon DEF QueuesOK
    <3>2. t \in ReadyAt(sched, p) <=> t \in Ready /\ sched.cur[t] = p
      BY <2>3, Zenon DEF ReadyAt
    <3>3. CASE t \in ReadyAt(sched, p)
      <4>1. Cardinality({i \in 1..Len(sched.fReadyQueue[p]) : sched.fReadyQueue[p][i] = t}) = 1
        BY <3>1, <3>3, OnceCount, Zenon
      <4> QED
        BY <4>1, <3>2, <3>3, Zenon
    <3>4. CASE t \notin ReadyAt(sched, p)
      <4>1. Cardinality({i \in 1..Len(sched.fReadyQueue[p]) : sched.fReadyQueue[p][i] = t}) = 0
        BY <3>1, <3>4, OnceCount, Zenon
      <4> QED
        BY <4>1, <3>2, <3>4, Zenon
    <3> QED
      BY <3>3, <3>4, Zenon
  <2> QED
    BY <2>1, <2>2, <2>3, <2>4, Zenon DEF ReadyQueues, QueuesOK
<1> QED
  BY <1>1, SchedulerInvariant, PTL

\* The assertion of PickNextThread holds: whoever gives up the processor, there
\* is a ready thread, and only the thread that has the processor runs.
THEOREM SchedulerAlwaysSomethingToRun == Spec => []AlwaysSomethingToRun
<1>1. IInv => AlwaysSomethingToRun
  <2> SUFFICES ASSUME IInv PROVE AlwaysSomethingToRun
    OBVIOUS
  <2>1. SchedPart(sched) /\ sched.running \in Threads
    BY Zenon DEF IInv, SchedPart, SchedOK, Scheds
  <2>2. sched.running # NoThread
    BY <2>1, Distinct, Zenon
  <2> QED
    BY <2>1, <2>2, Zenon DEF AlwaysSomethingToRun, SchedPart, SchedOK, OneRuns, KernelThreads
<1> QED
  BY <1>1, SchedulerInvariant, PTL

\* The tokens of fThreadsToReap are the threads that Exit has queued, which are
\* dead, queued once and, when the reaper frees one, off the processor.
THEOREM SchedulerReapQueue == Spec => []ReapQueue
<1>1. IInv => ReapQueue
  BY Zenon DEF IInv, ReaperPart
<1> QED
  BY <1>1, SchedulerInvariant, PTL

\* A thread that has exited does not get the processor again (the panic at the
\* end of Thread::Exit), whatever interrupts come between its exit and the reaper.
THEOREM SchedulerDeadStayDead == Spec => DeadStayDead
<1>1. IInv /\ [Next]_vars =>
        [\A t \in Threads : sched.state[t] \in Over =>
           /\ sched'.state[t] \in Over
           /\ sched'.running = t => sched.running = t /\ sched'.state[t] = "dead"]_vars
  BY NextOK, Zenon DEF StepRight, DeadStay
<1> QED
  BY <1>1, SchedulerInvariant, PTL DEF Spec, DeadStayDead

\* Reschedule gives the processor to a thread that no ready thread outranks, and
\* EnqueueReadyThread keeps a priority between the base and 3 above it.
THEOREM SchedulerHighestGoesFirst == Spec => HighestGoesFirst
<1>1. IInv /\ [Next]_vars =>
        [/\ sched'.running # sched.running =>
              \A t \in Threads : sched'.state[t] = "ready" =>
                sched'.cur[t] <= sched'.cur[sched'.running]
         /\ \A t \in Threads :
              sched'.cur[t] \in BasePriority[t]..(BasePriority[t] + 3)]_vars
  <2> SUFFICES ASSUME IInv, [Next]_vars
               PROVE  /\ sched'.running # sched.running =>
                           \A t \in Threads : sched'.state[t] = "ready" =>
                             sched'.cur[t] <= sched'.cur[sched'.running]
                      /\ \A t \in Threads :
                           sched'.cur[t] \in BasePriority[t]..(BasePriority[t] + 3)
    BY Zenon
  <2>1. SwitchRight(sched, sched') /\ SchedPart(sched')
    BY NextOK, Zenon DEF StepRight, IInv
  <2>2. sched' \in Scheds /\ BoostsOK(sched')
    BY <2>1, Zenon DEF SchedPart, SchedOK
  <2>3. ASSUME NEW t \in Threads
        PROVE  sched'.cur[t] \in BasePriority[t]..(BasePriority[t] + 3)
    <3>1. /\ sched'.cur[t] \in Int /\ BasePriority[t] \in Int
      BY <2>2, SchedulerAssumption DEF Scheds, Priorities
    <3>2. sched'.cur[t] >= BasePriority[t] /\ sched'.cur[t] <= BasePriority[t] + 3
      BY <2>2, Zenon DEF BoostsOK
    <3> QED
      BY <3>1, <3>2
  <2> QED
    BY <2>1, <2>3, Zenon DEF SwitchRight, ReadyIn
<1> QED
  BY <1>1, SchedulerInvariant, PTL DEF Spec, HighestGoesFirst

\* Reschedule sets the quantum timer whenever it gives the processor to another
\* thread than the idle one - the count of ready threads it looks at is right -
\* and nothing but an interrupt that comes before the quantum is used up leaves
\* such a thread running without it.
THEOREM SchedulerTimesliceArmed == Spec => TimesliceArmed
<1>1. IInv /\ [Next]_vars =>
        [sched'.running # Idle /\ sched.state[Idle] # "none" =>
           \/ sched'.timer
           \/ /\ sched'.running = sched.running
              /\ isr' = isr => ~sched.timer
              /\ isr' # isr => ~sched.used]_vars
  BY NextOK, Zenon DEF StepRight, TimerRight
<1> QED
  BY <1>1, SchedulerInvariant, PTL DEF Spec, TimesliceArmed
=============================================================================
