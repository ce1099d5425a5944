-------------------------- MODULE Synchronization ---------------------------
(***************************************************************************)
(* Synchronization objects (Synchronization.cpp) and the two kinds that    *)
(* threads wait on: Semaphore (Semaphore.cpp) and Mutex (Mutex.cpp).       *)
(*                                                                         *)
(* Wait, WaitForMultipleSyncObject, Signal and HandleTimeout run with      *)
(* interrupts off, so each is one step; threads, interrupt handlers and    *)
(* the timer take their steps in any order.  Which ready thread gets the   *)
(* processor is the subject of Scheduler.                                  *)
(***************************************************************************)
EXTENDS Integers, Sequences, FiniteSets, SequencesExt

CONSTANTS Threads, Semaphores, Mutexes,
          InitialCount,   \* Semaphore's initialCount
          MaxCount,       \* bound: no Release lifts a count above it
          MultipleFlags   \* the WaitFlags WaitForMultipleSyncObject is called with

WAIT_FOR_ONE == "one"
WAIT_FOR_ALL == "all"
Objects == Semaphores \cup Mutexes
None == "none"

ASSUME SynchronizationAssumption ==
  /\ MaxCount \in Nat
  /\ InitialCount \in [Semaphores -> 0..MaxCount]
  /\ Semaphores \cap Mutexes = {}
  /\ MultipleFlags \subseteq {WAIT_FOR_ONE, WAIT_FOR_ALL}
  /\ None \notin Threads

VARIABLES
  k,      \* the objects and the events on the stacks of waiting threads:
          \*   fSignalled, fTags     of each object; a WaitTag is the thread of
          \*                         its event
          \*   fCount                of each semaphore
          \*   fFlags, objects       of the ThreadWaitEvent of each thread
          \*   timer                 that event's timer is pending
          \*   waiting               the thread is kThreadWaiting
          \*   fWakeError            what the last wait returned
  owner,  \* who was last told that it has a mutex (history)
  owed    \* how many tokens of a semaphore nobody was told it has (history)

vars == <<k, owner, owed>>

Waiting == {t \in Threads : k.waiting[t]}

-----------------------------------------------------------------------------
(* The functions of the objects: from the state to the next state. *)

\* Mutant: the semaphore stays signalled when its last token is taken.
ThreadWokenStaysSignalled(s, o) ==
  IF o \in Semaphores THEN [s EXCEPT !.fCount[o] = @ - 1]
                      ELSE [s EXCEPT !.fSignalled[o] = FALSE]

\* Mutant: Mutex inherits the empty ThreadWoken of Synchronization.
ThreadWokenInherited(s, o) ==
  IF o \in Semaphores
    THEN [s EXCEPT !.fCount[o] = @ - 1,
                   !.fSignalled[o] = IF s.fCount[o] - 1 = 0 THEN FALSE ELSE @]
    ELSE s

\* Semaphore::ThreadWoken and Mutex::ThreadWoken.
ThreadWoken(s, o) ==
  IF o \in Semaphores
    THEN [s EXCEPT !.fCount[o] = @ - 1,
                   !.fSignalled[o] = IF s.fCount[o] - 1 = 0 THEN FALSE ELSE @]
    ELSE [s EXCEPT !.fSignalled[o] = FALSE]

\* ThreadWoken of each object of S, which changes that object alone.
ThreadWokenAll(s, S) ==
  [s EXCEPT !.fSignalled = [o \in Objects |-> IF o \in S THEN ThreadWoken(s, o).fSignalled[o]
                                                         ELSE s.fSignalled[o]],
            !.fCount = [e \in Semaphores |-> IF e \in S THEN ThreadWoken(s, e).fCount[e]
                                                        ELSE s.fCount[e]]]

\* The test of WaitForMultipleSyncObject.
Satisfied(s, flags, S) ==
  IF flags = WAIT_FOR_ALL THEN \A o \in S : s.fSignalled[o]
                          ELSE \E o \in S : s.fSignalled[o]

\* RemoveFromList on every tag of t's event.
RemoveTags(s, t) ==
  [s EXCEPT !.fTags = [o \in Objects |-> RemoveFirst(s.fTags[o], t)]]

\* EnqueueReadyThread, and t returns from WaitInternal with error.
MakeReady(s, t, error) ==
  [s EXCEPT !.waiting[t] = FALSE, !.timer[t] = FALSE, !.fWakeError[t] = error]

\* Mutant: the loop leaves the tags of the event in the queues of other objects.
WakeForOneQueue(s, o, t) ==
  IF /\ s.fSignalled[o]
     /\ s.fFlags[t] = WAIT_FOR_ALL => \A p \in s.objects[t] : s.fSignalled[p]
  THEN MakeReady(ThreadWokenAll([s EXCEPT !.fTags[o] = RemoveFirst(@, t)],
                                IF s.fFlags[t] = WAIT_FOR_ALL THEN s.objects[t] ELSE {o}),
                 t, "ok")
  ELSE s

\* The body of Signal's loop for the tag of t in the queue of o.
WakeFor(s, o, t) ==
  IF /\ s.fSignalled[o]
     /\ s.fFlags[t] = WAIT_FOR_ALL => \A p \in s.objects[t] : s.fSignalled[p]
  THEN MakeReady(ThreadWokenAll(RemoveTags(s, t),
                                IF s.fFlags[t] = WAIT_FOR_ALL THEN s.objects[t] ELSE {o}),
                 t, "ok")
  ELSE s

\* Mutant: only the first waiter of the queue is looked at.
SignalFirst(s, o) ==
  LET r == [s EXCEPT !.fSignalled[o] = TRUE]
  IN  IF s.fTags[o] = << >> THEN r ELSE WakeFor(r, o, Head(s.fTags[o]))

Signal(s, o) ==
  LET q == s.fTags[o]
      after[n \in 0..Len(q)] == IF n = 0 THEN [s EXCEPT !.fSignalled[o] = TRUE]
                                         ELSE WakeFor(after[n - 1], o, q[n])
  IN  after[Len(q)]

\* Semaphore::Release.
SemaphoreRelease(s, o, n) ==
  LET more == [s EXCEPT !.fCount[o] = @ + n]
  IN  IF s.fCount[o] = 0 THEN Signal(more, o) ELSE more

\* Mutant: the tag goes to the head of the queue.
WaitInternalAtHead(s, t, S, flags, timed) ==
  [s EXCEPT !.fTags = [o \in Objects |->
                         IF o \in S THEN <<t>> \o s.fTags[o] ELSE s.fTags[o]],
            !.fFlags[t] = flags,
            !.objects[t] = S,
            !.timer[t] = timed,
            !.waiting[t] = TRUE]

WaitInternal(s, t, S, flags, timed) ==
  [s EXCEPT !.fTags = [o \in Objects |->
                         IF o \in S THEN Append(s.fTags[o], t) ELSE s.fTags[o]],
            !.fFlags[t] = flags,
            !.objects[t] = S,
            !.timer[t] = timed,
            !.waiting[t] = TRUE]

-----------------------------------------------------------------------------
(* History: what the threads are told. *)

\* The threads that return from a wait with success, and for what.
Told(s, n) == {t \in Threads : s.waiting[t] /\ ~n.waiting[t] /\ n.fWakeError[t] = "ok"}

\* What t was told it got, when a signal of o woke it.
Got(s, t, o) == IF s.fFlags[t] = WAIT_FOR_ALL THEN s.objects[t] ELSE {o}

Account(s, n, o, free, given) ==
  /\ owner' = [m \in Mutexes |->
                 IF \E t \in Told(s, n) : m \in Got(s, t, o)
                   THEN CHOOSE t \in Told(s, n) : m \in Got(s, t, o)
                   ELSE IF m \in free THEN None ELSE owner[m]]
  /\ owed' = [e \in Semaphores |->
                owed[e] + given[e] - Cardinality({t \in Told(s, n) : e \in Got(s, t, o)})]

Nothing == [e \in Semaphores |-> 0]

-----------------------------------------------------------------------------
\* The constructors signal a mutex, and a semaphore with a positive count.
Init ==
  /\ k = [fSignalled |-> [o \in Objects |-> o \in Mutexes \/ InitialCount[o] > 0],
          fTags |-> [o \in Objects |-> << >>],
          fCount |-> InitialCount,
          fFlags |-> [t \in Threads |-> WAIT_FOR_ONE],
          objects |-> [t \in Threads |-> {}],
          timer |-> [t \in Threads |-> FALSE],
          waiting |-> [t \in Threads |-> FALSE],
          fWakeError |-> [t \in Threads |-> "ok"]]
  /\ owner = [m \in Mutexes |-> None]
  /\ owed = InitialCount

\* A wait that need not block; t was told that it got S.
Immediately(t, S) ==
  /\ owner' = [m \in Mutexes |-> IF m \in S THEN t ELSE owner[m]]
  /\ owed' = [e \in Semaphores |-> IF e \in S THEN owed[e] - 1 ELSE owed[e]]

\* Synchronization::Wait; Mutex::Lock waits without a time limit, and a thread
\* does not lock a mutex it has.
Wait(t, o, timed) ==
  /\ ~k.waiting[t]
  /\ o \in Mutexes => ~timed /\ owner[o] # t
  /\ IF k.fSignalled[o]
       THEN /\ k' = [ThreadWoken(k, o) EXCEPT !.fWakeError[t] = "ok"]
            /\ Immediately(t, {o})
       ELSE /\ k' = WaitInternal(k, t, {o}, WAIT_FOR_ONE, timed)
            /\ UNCHANGED <<owner, owed>>

\* Synchronization::WaitForMultipleSyncObject.  A wait for one that finds a
\* signalled object is told that it got one of those.
WaitForMultiple(t, S, flags, timed) ==
  /\ ~k.waiting[t]
  /\ \A m \in S \cap Mutexes : owner[m] # t
  /\ IF Satisfied(k, flags, S)
       THEN /\ k' = [ThreadWokenAll(k, S) EXCEPT !.fWakeError[t] = "ok"]
            /\ IF flags = WAIT_FOR_ALL THEN Immediately(t, S)
               ELSE \E o \in S : k.fSignalled[o] /\ Immediately(t, {o})
       ELSE /\ k' = WaitInternal(k, t, S, flags, timed)
            /\ UNCHANGED <<owner, owed>>

\* Semaphore::Release, by a thread or by an interrupt handler.
Release(e, n) ==
  /\ k.fCount[e] + n <= MaxCount
  /\ k' = SemaphoreRelease(k, e, n)
  /\ Account(k, k', e, {}, [Nothing EXCEPT ![e] = n])

\* Mutex::Unlock, by the thread that has the mutex.
Unlock(t, m) ==
  /\ ~k.waiting[t] /\ owner[m] = t
  /\ k' = Signal(k, m)
  /\ Account(k, k', m, {m}, Nothing)

\* ThreadWaitEvent::HandleTimeout, called by the timer interrupt.
HandleTimeout(t) ==
  /\ k.timer[t]
  /\ k' = MakeReady(RemoveTags(k, t), t, "timed out")
  /\ UNCHANGED <<owner, owed>>

Next ==
  \/ \E t \in Threads, o \in Objects, timed \in BOOLEAN : Wait(t, o, timed)
  \/ \E t \in Threads, S \in SUBSET Objects, flags \in MultipleFlags, timed \in BOOLEAN :
       Cardinality(S) = 2 /\ WaitForMultiple(t, S, flags, timed)
  \/ \E e \in Semaphores, n \in 1..MaxCount : Release(e, n)
  \/ \E t \in Threads, m \in Mutexes : Unlock(t, m)
  \/ \E t \in Threads : HandleTimeout(t)

Spec == Init /\ [][Next]_vars

-----------------------------------------------------------------------------
(* Properties. *)

TypeOK ==
  /\ k \in [fSignalled : [Objects -> BOOLEAN],
            fTags : [Objects -> Seq(Threads)],
            fCount : [Semaphores -> 0..MaxCount],
            fFlags : [Threads -> {WAIT_FOR_ONE, WAIT_FOR_ALL}],
            objects : [Threads -> SUBSET Objects],
            timer : [Threads -> BOOLEAN],
            waiting : [Threads -> BOOLEAN],
            fWakeError : [Threads -> {"ok", "timed out"}]]
  /\ owner \in [Mutexes -> Threads \cup {None}]
  /\ owed \in [Semaphores -> 0..MaxCount]

\* No thread sleeps although what it waits for is there: Release signals only
\* when the count was 0, Signal stops at the first waiter that takes the
\* object, skips those that wait for more, and a timeout takes nothing, yet no
\* wakeup is lost.
NoLostWakeup ==
  \A t \in Waiting : ~Satisfied(k, k.fFlags[t], k.objects[t])

\* Every token that was released and that no thread was told it got is in the
\* count, and a semaphore is signalled exactly while it has some.
TokensConserved ==
  /\ TypeOK
  /\ \A e \in Semaphores : /\ k.fCount[e] = owed[e]
                           /\ k.fSignalled[e] <=> k.fCount[e] > 0

\* A mutex is signalled exactly while nobody has it: Signal hands it to the
\* next waiter without a moment in which a third thread could take it, and a
\* wait for all takes every mutex it waits for or none.
MutexHeld == \A m \in Mutexes : k.fSignalled[m] <=> owner[m] = None

\* The tags of an event, which live on the stack of the waiting thread, are in
\* the queues of the event's objects while it waits, once each, and in none
\* afterwards; its timer is not pending when it returns (Timer::~Timer panics).
TagsLiveAsLongAsTheWait ==
  \A t \in Threads :
    /\ \A o \in Objects :
         Cardinality({i \in 1..Len(k.fTags[o]) : k.fTags[o][i] = t})
           = IF k.waiting[t] /\ o \in k.objects[t] THEN 1 ELSE 0
    /\ k.timer[t] => k.waiting[t]

\* First come, first served: a thread that comes to wait gets behind those that
\* wait already, and one that waits for this object only is not served before
\* one that came earlier and wants no more than this object either.
FirstComeFirstServed ==
  [][\A o \in Objects : \A a, b \in Threads :
       LET before(s) == \E i, j \in 1..Len(s.fTags[o]) :
                          i < j /\ s.fTags[o][i] = a /\ s.fTags[o][j] = b
           inQueue(s, t) == t \in Range(s.fTags[o])
       IN  /\ inQueue(k, a) /\ inQueue(k', a) /\ ~inQueue(k, b) /\ inQueue(k', b)
             => before(k')
           /\ /\ before(k)
              /\ k.fFlags[a] = WAIT_FOR_ONE
              /\ ~k'.waiting[b] /\ k'.fWakeError[b] = "ok"
              => ~k'.waiting[a] \/ (k.fFlags[b] = WAIT_FOR_ALL /\ Cardinality(k.objects[b]) > 1)]_vars

=============================================================================
