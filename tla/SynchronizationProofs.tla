----------------------- MODULE SynchronizationProofs ------------------------
(***************************************************************************)
(* Proofs about Synchronization, for any threads, semaphores and mutexes:  *)
(* no wakeup is lost and the tags of an event live as long as the wait,    *)
(* whatever flags WaitForMultipleSyncObject is called with; tokens are     *)
(* conserved, a mutex is signalled while nobody has it and waiters are     *)
(* served in their order if no wait for several objects is a wait for one. *)
(*                                                                         *)
(* What the functions of the objects do is stated about a record s and not *)
(* about the variable k, since the loop of Signal composes them.           *)
(***************************************************************************)
EXTENDS Synchronization, Counting

-----------------------------------------------------------------------------
(* The inductive invariant. *)

\* What k keeps.  A count may be negative here: that it is not is no
\* consequence of the types.
States ==
  [fSignalled : [Objects -> BOOLEAN],
   fTags : [Objects -> Seq(Threads)],
   fCount : [Semaphores -> Int],
   fFlags : [Threads -> {WAIT_FOR_ONE, WAIT_FOR_ALL}],
   objects : [Threads -> SUBSET Objects],
   timer : [Threads -> BOOLEAN],
   waiting : [Threads -> BOOLEAN],
   fWakeError : [Threads -> {"ok", "timed out"}]]

WaitersOf(s, o) == {t \in Threads : s.waiting[t] /\ o \in s.objects[t]}

\* The queue of each object has the tags of those that wait for it.
TagsRight(s) ==
  /\ s \in States
  /\ \A o \in Objects : Once(s.fTags[o], WaitersOf(s, o))
  /\ \A t \in Threads : s.timer[t] => s.waiting[t]

\* t is woken when o is signalled or becomes so and its tag there is looked at.
Ready(s, t, o) ==
  /\ s.fSignalled[o]
  /\ s.fFlags[t] = WAIT_FOR_ALL => \A p \in s.objects[t] : s.fSignalled[p]

\* Nobody waits for what is there.
NoneMissed(s) ==
  \A t \in Threads : s.waiting[t] => ~Satisfied(s, s.fFlags[t], s.objects[t])

\* What every wait relies on.
WaitInv ==
  /\ TagsRight(k)
  /\ NoneMissed(k)

\* A semaphore is signalled exactly while it has tokens.
CountsRight(s) ==
  \A e \in Semaphores : s.fCount[e] >= 0 /\ (s.fSignalled[e] <=> s.fCount[e] > 0)

\* What a wait for one object and a wait for all look like when there is no
\* wait for one of several.
FlagsRight(s) ==
  \A t \in Threads : s.waiting[t] =>
    \/ s.fFlags[t] = WAIT_FOR_ONE /\ \E o \in Objects : s.objects[t] = {o}
    \/ s.fFlags[t] = WAIT_FOR_ALL /\ Cardinality(s.objects[t]) = 2

\* The counts are what the threads were told, and the mutexes whose they are.
Granted ==
  /\ CountsRight(k)
  /\ FlagsRight(k)
  /\ owner \in [Mutexes -> Threads \cup {None}]
  /\ owed \in [Semaphores -> 0..MaxCount]
  /\ \A e \in Semaphores : k.fCount[e] = owed[e]
  /\ MutexHeld

GrantInv == WaitInv /\ Granted

-----------------------------------------------------------------------------
(* What a thread that is woken, or need not block, does to the state. *)

\* Of the threads, t alone returned from its wait.
Returned(s, n, t, error) ==
  /\ \A u \in Threads : n.waiting[u] <=> s.waiting[u] /\ u # t
  /\ \A u \in Threads : n.timer[u] <=> s.timer[u] /\ u # t
  /\ n.fWakeError[t] = error
  /\ \A u \in Threads : u # t => n.fWakeError[u] = s.fWakeError[u]

\* n is s after t was told error and each object of G had a thread woken.
Woke(s, n, t, G, error) ==
  /\ n \in States
  /\ n.fFlags = s.fFlags /\ n.objects = s.objects
  /\ \A p \in Objects : n.fTags[p] = RemoveFirst(s.fTags[p], t)
  /\ Returned(s, n, t, error)
  /\ \A e \in Semaphores : /\ e \in G => n.fCount[e] = s.fCount[e] - 1
                           /\ e \notin G => n.fCount[e] = s.fCount[e]
  /\ \A p \in Objects :
       n.fSignalled[p] <=> s.fSignalled[p] /\ (p \in G => p \in Semaphores /\ s.fCount[p] # 1)

\* A record that has the parts of s but those that are named.
LEMMA Parts ==
  ASSUME NEW s \in States
  PROVE  /\ s = [fSignalled |-> s.fSignalled, fTags |-> s.fTags, fCount |-> s.fCount,
                 fFlags |-> s.fFlags, objects |-> s.objects, timer |-> s.timer,
                 waiting |-> s.waiting, fWakeError |-> s.fWakeError]
         /\ s.fSignalled \in [Objects -> BOOLEAN]
         /\ s.fTags \in [Objects -> Seq(Threads)]
         /\ s.fCount \in [Semaphores -> Int]
         /\ s.fFlags \in [Threads -> {WAIT_FOR_ONE, WAIT_FOR_ALL}]
         /\ s.objects \in [Threads -> SUBSET Objects]
         /\ s.timer \in [Threads -> BOOLEAN]
         /\ s.waiting \in [Threads -> BOOLEAN]
         /\ s.fWakeError \in [Threads -> {"ok", "timed out"}]
BY DEF States

\* n is s after a ThreadWoken of each object of G.
Taken(s, n, G) ==
  /\ n \in States
  /\ n.fTags = s.fTags /\ n.fFlags = s.fFlags /\ n.objects = s.objects
  /\ n.timer = s.timer /\ n.waiting = s.waiting /\ n.fWakeError = s.fWakeError
  /\ \A e \in Semaphores : /\ e \in G => n.fCount[e] = s.fCount[e] - 1
                           /\ e \notin G => n.fCount[e] = s.fCount[e]
  /\ \A p \in Objects :
       n.fSignalled[p] <=> s.fSignalled[p] /\ (p \in G => p \in Semaphores /\ s.fCount[p] # 1)

LEMMA WokenAllParts ==
  ASSUME NEW s \in States, NEW G \in SUBSET Objects
  PROVE  Taken(s, ThreadWokenAll(s, G), G)
<1> DEFINE sig == [o \in Objects |-> IF o \in G THEN ThreadWoken(s, o).fSignalled[o]
                                                ELSE s.fSignalled[o]]
           cnt == [e \in Semaphores |-> IF e \in G THEN ThreadWoken(s, e).fCount[e]
                                                   ELSE s.fCount[e]]
<1>1. ThreadWokenAll(s, G)
        = [fSignalled |-> sig, fTags |-> s.fTags, fCount |-> cnt,
           fFlags |-> s.fFlags, objects |-> s.objects, timer |-> s.timer,
           waiting |-> s.waiting, fWakeError |-> s.fWakeError]
  <2>1. ThreadWokenAll(s, G) = [s EXCEPT !.fSignalled = sig, !.fCount = cnt]
    BY DEF ThreadWokenAll
  <2> HIDE DEF sig, cnt
  <2> QED
    BY <2>1, Parts, ZenonT(60)
<1>2. \A e \in Semaphores : ThreadWoken(s, e).fCount[e] = s.fCount[e] - 1
  BY DEF ThreadWoken, States
<1>3. \A p \in Semaphores : ThreadWoken(s, p).fSignalled[p] = (IF s.fCount[p] - 1 = 0 THEN FALSE ELSE s.fSignalled[p])
  BY DEF ThreadWoken, States, Objects
<1>4. \A p \in Objects : p \notin Semaphores => ThreadWoken(s, p).fSignalled[p] = FALSE
  BY DEF ThreadWoken, States
<1>5. /\ s.fSignalled \in [Objects -> BOOLEAN] /\ s.fCount \in [Semaphores -> Int]
      /\ Semaphores \subseteq Objects
  BY DEF States, Objects
<1>6. cnt \in [Semaphores -> Int] /\ \A e \in Semaphores :
           (e \in G => cnt[e] = s.fCount[e] - 1) /\ (e \notin G => cnt[e] = s.fCount[e])
  BY <1>2, <1>5
<1>7. \A p \in Objects : sig[p] \in BOOLEAN /\
           (sig[p] <=> s.fSignalled[p] /\ (p \in G => p \in Semaphores /\ s.fCount[p] # 1))
  <2> TAKE p \in Objects
  <2>1. CASE p \notin G
    <3>1. sig[p] = s.fSignalled[p] /\ s.fSignalled[p] \in BOOLEAN
      BY <2>1, <1>5
    <3> QED
      BY <3>1, <2>1, Zenon
  <2>2. CASE p \in G /\ p \in Semaphores
    <3>1. sig[p] = (IF s.fCount[p] - 1 = 0 THEN FALSE ELSE s.fSignalled[p])
      BY <2>2, <1>3
    <3>2. s.fSignalled[p] \in BOOLEAN /\ (s.fCount[p] - 1 = 0 <=> s.fCount[p] = 1)
      BY <2>2, <1>5
    <3> QED
      BY <3>1, <3>2, <2>2, Zenon
  <2>3. CASE p \in G /\ p \notin Semaphores
    <3>1. sig[p] = FALSE
      BY <2>3, <1>4
    <3> QED
      BY <3>1, <2>3, Zenon
  <2> QED
    BY <2>1, <2>2, <2>3
<1>8. sig \in [Objects -> BOOLEAN]
  BY <1>7
<1> HIDE DEF sig, cnt
<1>9. ThreadWokenAll(s, G) \in States
  BY <1>1, <1>6, <1>8, Parts DEF States
<1> QED
  BY <1>1, <1>6, <1>7, <1>9 DEF Taken

\* A single ThreadWoken.
LEMMA WokenOne ==
  ASSUME NEW s \in States, NEW o \in Objects
  PROVE  ThreadWoken(s, o) = ThreadWokenAll(s, {o})
<1> DEFINE sig == [p \in Objects |-> IF p \in {o} THEN ThreadWoken(s, p).fSignalled[p]
                                                 ELSE s.fSignalled[p]]
           cnt == [e \in Semaphores |-> IF e \in {o} THEN ThreadWoken(s, e).fCount[e]
                                                    ELSE s.fCount[e]]
<1>1. ThreadWokenAll(s, {o}) = [s EXCEPT !.fSignalled = sig, !.fCount = cnt]
  BY DEF ThreadWokenAll
<1>2. /\ s.fSignalled \in [Objects -> BOOLEAN] /\ s.fCount \in [Semaphores -> Int]
      /\ Semaphores \subseteq Objects
  BY DEF States, Objects
<1>3. CASE o \in Semaphores
  <2> DEFINE x == IF s.fCount[o] - 1 = 0 THEN FALSE ELSE s.fSignalled[o]
  <2>1. ThreadWoken(s, o) = [s EXCEPT !.fCount = [s.fCount EXCEPT ![o] = s.fCount[o] - 1],
                                      !.fSignalled = [s.fSignalled EXCEPT ![o] = x]]
    BY <1>3, Parts DEF ThreadWoken
  <2>2. /\ ThreadWoken(s, o).fSignalled = [s.fSignalled EXCEPT ![o] = x]
        /\ ThreadWoken(s, o).fCount = [s.fCount EXCEPT ![o] = s.fCount[o] - 1]
    BY <2>1, Parts
  <2>3. sig = [s.fSignalled EXCEPT ![o] = x]
    BY <2>2, <1>2
  <2>4. cnt = [s.fCount EXCEPT ![o] = s.fCount[o] - 1]
    BY <2>2, <1>2, <1>3
  <2> HIDE DEF sig, cnt, x
  <2> QED
    BY <1>1, <2>1, <2>3, <2>4, Parts
<1>4. CASE o \notin Semaphores
  <2>1. ThreadWoken(s, o) = [s EXCEPT !.fSignalled = [s.fSignalled EXCEPT ![o] = FALSE]]
    BY <1>4, Parts DEF ThreadWoken
  <2>2. ThreadWoken(s, o).fSignalled = [s.fSignalled EXCEPT ![o] = FALSE]
    BY <2>1, Parts
  <2>3. sig = [s.fSignalled EXCEPT ![o] = FALSE]
    BY <2>2, <1>2
  <2>4. cnt = s.fCount
    BY <1>2, <1>4
  <2> HIDE DEF sig, cnt
  <2> QED
    BY <1>1, <2>1, <2>3, <2>4, Parts
<1> QED
  BY <1>3, <1>4

\* The tags of one event leave the queues.
Unlinked(s, n, t) ==
  /\ n \in States
  /\ \A p \in Objects : n.fTags[p] = RemoveFirst(s.fTags[p], t)
  /\ n.fSignalled = s.fSignalled /\ n.fCount = s.fCount
  /\ n.fFlags = s.fFlags /\ n.objects = s.objects
  /\ n.timer = s.timer /\ n.waiting = s.waiting /\ n.fWakeError = s.fWakeError

LEMMA TagsRemoved ==
  ASSUME NEW s, TagsRight(s), NEW t \in Threads
  PROVE  Unlinked(s, RemoveTags(s, t), t)
<1> DEFINE tags == [o \in Objects |-> RemoveFirst(s.fTags[o], t)]
<1>0. s \in States
  BY DEF TagsRight
<1>1. \A p \in Objects : tags[p] \in Seq(Threads)
  <2> TAKE p \in Objects
  <2>1. Once(s.fTags[p], WaitersOf(s, p)) /\ WaitersOf(s, p) \subseteq Threads
    BY DEF TagsRight, WaitersOf
  <2>2. s.fTags[p] \in Seq(Threads)
    BY <1>0, Parts
  <2>3. CASE t \in WaitersOf(s, p)
    <3>1. Once(tags[p], WaitersOf(s, p) \ {t})
      BY <2>1, <2>3, OnceRemove
    <3>2. tags[p] \in Seq(WaitersOf(s, p) \ {t})
      BY <3>1, Zenon DEF Once
    <3> HIDE DEF tags
    <3> QED
      BY <3>2, <2>1
  <2>4. CASE t \notin WaitersOf(s, p)
    BY <2>1, <2>2, <2>4, OnceRemove
  <2> QED
    BY <2>3, <2>4
<1>2. RemoveTags(s, t) = [s EXCEPT !.fTags = tags]
  BY DEF RemoveTags
<1>3. \A p \in Objects : tags[p] = RemoveFirst(s.fTags[p], t)
  OBVIOUS
<1>4. tags \in [Objects -> Seq(Threads)]
  BY <1>1
<1> HIDE DEF tags
<1>5. RemoveTags(s, t) = [fSignalled |-> s.fSignalled, fTags |-> tags, fCount |-> s.fCount,
                 fFlags |-> s.fFlags, objects |-> s.objects, timer |-> s.timer,
                 waiting |-> s.waiting, fWakeError |-> s.fWakeError]
  BY <1>0, <1>2, Parts, ZenonT(60)
<1>6. RemoveTags(s, t) \in States
  BY <1>0, <1>4, <1>5, Parts DEF States
<1> QED
  BY <1>3, <1>5, <1>6 DEF Unlinked

\* A thread is made ready.
Readied(s, n, t, error) ==
  /\ n \in States
  /\ n.fTags = s.fTags /\ n.fSignalled = s.fSignalled /\ n.fCount = s.fCount
  /\ n.fFlags = s.fFlags /\ n.objects = s.objects
  /\ n.timer = [s.timer EXCEPT ![t] = FALSE]
  /\ n.waiting = [s.waiting EXCEPT ![t] = FALSE]
  /\ n.fWakeError = [s.fWakeError EXCEPT ![t] = error]

LEMMA MadeReady ==
  ASSUME NEW s \in States, NEW t \in Threads, NEW error \in {"ok", "timed out"}
  PROVE  Readied(s, MakeReady(s, t, error), t, error)
<1> DEFINE ti == [s.timer EXCEPT ![t] = FALSE]
           wa == [s.waiting EXCEPT ![t] = FALSE]
           we == [s.fWakeError EXCEPT ![t] = error]
<1>1. MakeReady(s, t, error) = [s EXCEPT !.waiting = wa, !.timer = ti, !.fWakeError = we]
  BY Parts, ZenonT(60) DEF MakeReady
<1>2. /\ ti \in [Threads -> BOOLEAN] /\ wa \in [Threads -> BOOLEAN]
      /\ we \in [Threads -> {"ok", "timed out"}]
  BY Parts
<1> HIDE DEF ti, wa, we
<1>3. MakeReady(s, t, error)
        = [fSignalled |-> s.fSignalled, fTags |-> s.fTags, fCount |-> s.fCount,
           fFlags |-> s.fFlags, objects |-> s.objects, timer |-> ti,
           waiting |-> wa, fWakeError |-> we]
  BY <1>1, Parts, ZenonT(60)
<1>4. MakeReady(s, t, error) \in States
  BY <1>2, <1>3, Parts DEF States
<1> PICK n : n = MakeReady(s, t, error)
  OBVIOUS
<1>5. n = [fSignalled |-> s.fSignalled, fTags |-> s.fTags, fCount |-> s.fCount,
           fFlags |-> s.fFlags, objects |-> s.objects, timer |-> ti,
           waiting |-> wa, fWakeError |-> we]
  BY <1>3, Zenon
<1>6. /\ n.fTags = s.fTags /\ n.fSignalled = s.fSignalled /\ n.fCount = s.fCount
      /\ n.fFlags = s.fFlags /\ n.objects = s.objects
      /\ n.timer = ti /\ n.waiting = wa /\ n.fWakeError = we
  BY ONLY <1>5
<1>7. /\ n.timer = [s.timer EXCEPT ![t] = FALSE]
      /\ n.waiting = [s.waiting EXCEPT ![t] = FALSE]
      /\ n.fWakeError = [s.fWakeError EXCEPT ![t] = error]
  BY <1>6, Zenon DEF ti, wa, we
<1>8. n \in States
  BY <1>4, Zenon
<1>9. Readied(s, n, t, error)
  BY <1>6, <1>7, <1>8, Zenon DEF Readied
<1> QED
  BY <1>9, Zenon

\* A ready thread, part by part.
LEMMA ReadiedParts ==
  ASSUME NEW s \in States, NEW n, NEW t \in Threads, NEW error, Readied(s, n, t, error)
  PROVE  Returned(s, n, t, error)
<1>1. /\ s.timer \in [Threads -> BOOLEAN] /\ s.waiting \in [Threads -> BOOLEAN]
      /\ s.fWakeError \in [Threads -> {"ok", "timed out"}]
  BY Parts, Zenon
<1>2. /\ n.timer = [s.timer EXCEPT ![t] = FALSE]
      /\ n.waiting = [s.waiting EXCEPT ![t] = FALSE]
      /\ n.fWakeError = [s.fWakeError EXCEPT ![t] = error]
  BY Zenon DEF Readied
<1>3. \A u \in Threads : n.waiting[u] <=> s.waiting[u] /\ u # t
  BY <1>1, <1>2, Zenon
<1>4. \A u \in Threads : n.timer[u] <=> s.timer[u] /\ u # t
  BY <1>1, <1>2, Zenon
<1>5. n.fWakeError[t] = error
  BY <1>1, <1>2, Zenon
<1>6. \A u \in Threads : u # t => n.fWakeError[u] = s.fWakeError[u]
  BY <1>1, <1>2, Zenon
<1> QED
  BY <1>3, <1>4, <1>5, <1>6, Zenon DEF Returned

\* Signal wakes t for the objects of G.
LEMMA WokenBySignal ==
  ASSUME NEW s, TagsRight(s), NEW t \in Threads, NEW G \in SUBSET Objects
  PROVE  Woke(s, MakeReady(ThreadWokenAll(RemoveTags(s, t), G), t, "ok"), t, G, "ok")
<1>1. PICK a : a = RemoveTags(s, t)
  OBVIOUS
<1>2. PICK b : b = ThreadWokenAll(a, G)
  OBVIOUS
<1>3. PICK error \in {"ok", "timed out"} : error = "ok"
  BY Zenon
<1>4. PICK n : n = MakeReady(b, t, error)
  OBVIOUS
<1>5. Unlinked(s, a, t)
  BY <1>1, TagsRemoved, Zenon
<1>6. a \in States
  BY <1>5, Zenon DEF Unlinked
<1>7. Taken(a, b, G)
  BY <1>2, <1>6, WokenAllParts, Zenon
<1>8. b \in States
  BY <1>7, Zenon DEF Taken
<1>9. Readied(b, n, t, error)
  BY <1>4, <1>8, MadeReady, Zenon
<1>10. /\ n \in States
       /\ n.fFlags = s.fFlags /\ n.objects = s.objects
       /\ b.timer = s.timer /\ b.waiting = s.waiting /\ b.fWakeError = s.fWakeError
       /\ n.fTags = a.fTags /\ n.fCount = b.fCount /\ n.fSignalled = b.fSignalled
       /\ a.fCount = s.fCount /\ a.fSignalled = s.fSignalled
  BY <1>5, <1>7, <1>9 DEF Unlinked, Taken, Readied
<1>11. \A p \in Objects : n.fTags[p] = RemoveFirst(s.fTags[p], t)
  BY <1>5, <1>10, Zenon DEF Unlinked
<1>12. /\ \A e \in Semaphores : /\ e \in G => b.fCount[e] = a.fCount[e] - 1
                                /\ e \notin G => b.fCount[e] = a.fCount[e]
       /\ \A p \in Objects :
            b.fSignalled[p] <=>
              a.fSignalled[p] /\ (p \in G => p \in Semaphores /\ a.fCount[p] # 1)
  BY <1>7, Zenon DEF Taken
<1>13. /\ \A e \in Semaphores : /\ e \in G => n.fCount[e] = s.fCount[e] - 1
                                /\ e \notin G => n.fCount[e] = s.fCount[e]
       /\ \A p \in Objects :
            n.fSignalled[p] <=>
              s.fSignalled[p] /\ (p \in G => p \in Semaphores /\ s.fCount[p] # 1)
  BY ONLY <1>10, <1>12
<1>14. Returned(s, n, t, error)
  <2>1. Returned(b, n, t, error)
    BY <1>8, <1>9, ReadiedParts, Zenon
  <2> QED
    BY <1>10, <2>1, Zenon DEF Returned
<1>15. Woke(s, n, t, G, error)
  BY <1>10, <1>11, <1>13, <1>14, Zenon DEF Woke
<1> QED
  BY <1>1, <1>2, <1>3, <1>4, <1>15, Zenon

\* A timeout wakes t for nothing.
LEMMA WokenByTimeout ==
  ASSUME NEW s, TagsRight(s), NEW t \in Threads
  PROVE  Woke(s, MakeReady(RemoveTags(s, t), t, "timed out"), t, {}, "timed out")
<1>1. PICK a : a = RemoveTags(s, t)
  OBVIOUS
<1>2. PICK error \in {"ok", "timed out"} : error = "timed out"
  BY Zenon
<1>3. PICK n : n = MakeReady(a, t, error)
  OBVIOUS
<1>4. Unlinked(s, a, t)
  BY <1>1, TagsRemoved, Zenon
<1>5. a \in States
  BY <1>4, Zenon DEF Unlinked
<1>6. Readied(a, n, t, error)
  BY <1>3, <1>5, MadeReady, Zenon
<1>7. /\ n \in States
      /\ n.fFlags = s.fFlags /\ n.objects = s.objects
      /\ a.timer = s.timer /\ a.waiting = s.waiting /\ a.fWakeError = s.fWakeError
      /\ n.fTags = a.fTags /\ n.fCount = s.fCount /\ n.fSignalled = s.fSignalled
  BY <1>4, <1>6 DEF Unlinked, Readied
<1>8. \A p \in Objects : n.fTags[p] = RemoveFirst(s.fTags[p], t)
  BY <1>4, <1>7, Zenon DEF Unlinked
<1>9. Returned(s, n, t, error)
  <2>1. Returned(a, n, t, error)
    BY <1>5, <1>6, ReadiedParts, Zenon
  <2> QED
    BY <1>7, <2>1, Zenon DEF Returned
<1>10. /\ \A e \in Semaphores : /\ e \in {} => n.fCount[e] = s.fCount[e] - 1
                                /\ e \notin {} => n.fCount[e] = s.fCount[e]
       /\ \A p \in Objects :
            n.fSignalled[p] <=>
              s.fSignalled[p] /\ (p \in {} => p \in Semaphores /\ s.fCount[p] # 1)
  BY ONLY <1>7
<1>11. Woke(s, n, t, {}, error)
  BY <1>7, <1>8, <1>9, <1>10, Zenon DEF Woke
<1> QED
  BY <1>1, <1>2, <1>3, <1>11, Zenon

\* A thread that need not block takes the objects of G.
LEMMA WokenAtOnce ==
  ASSUME NEW s, TagsRight(s), NEW t \in Threads, ~s.waiting[t], NEW G \in SUBSET Objects
  PROVE  Woke(s, [ThreadWokenAll(s, G) EXCEPT !.fWakeError[t] = "ok"], t, G, "ok")
<1>1. PICK b : b = ThreadWokenAll(s, G)
  OBVIOUS
<1>2. PICK error \in {"ok", "timed out"} : error = "ok"
  BY Zenon
<1>3. s \in States
  BY DEF TagsRight
<1>4. Taken(s, b, G)
  BY <1>1, <1>3, WokenAllParts, Zenon
<1>5. /\ b \in States
      /\ b.fTags = s.fTags /\ b.fFlags = s.fFlags /\ b.objects = s.objects
      /\ b.timer = s.timer /\ b.waiting = s.waiting /\ b.fWakeError = s.fWakeError
  BY <1>4, Zenon DEF Taken
<1> DEFINE errors == [b.fWakeError EXCEPT ![t] = error]
<1>6. [b EXCEPT !.fWakeError[t] = error] = [b EXCEPT !.fWakeError = errors]
  OBVIOUS
<1>7. errors \in [Threads -> {"ok", "timed out"}]
  BY <1>5, Parts
<1>8. b.fWakeError \in [Threads -> {"ok", "timed out"}]
  BY <1>5, Parts, Zenon
<1>9. /\ errors[t] = error
      /\ \A u \in Threads : u # t => errors[u] = s.fWakeError[u]
  BY <1>5, <1>8, Zenon
<1> HIDE DEF errors
<1>10. PICK n : n = [b EXCEPT !.fWakeError = errors]
  OBVIOUS
<1>11. n = [fSignalled |-> b.fSignalled, fTags |-> b.fTags, fCount |-> b.fCount,
            fFlags |-> b.fFlags, objects |-> b.objects, timer |-> b.timer,
            waiting |-> b.waiting, fWakeError |-> errors]
  <2>1. b = [fSignalled |-> b.fSignalled, fTags |-> b.fTags, fCount |-> b.fCount,
             fFlags |-> b.fFlags, objects |-> b.objects, timer |-> b.timer,
             waiting |-> b.waiting, fWakeError |-> b.fWakeError]
    BY <1>5, Parts, Zenon
  <2> QED
    BY ONLY <1>10, <2>1
<1>12. n \in States
  BY ONLY <1>5, <1>7, <1>11, Parts DEF States
<1>13. /\ n.fTags = s.fTags /\ n.fFlags = s.fFlags /\ n.objects = s.objects
       /\ n.timer = s.timer /\ n.waiting = s.waiting /\ n.fWakeError = errors
       /\ n.fCount = b.fCount /\ n.fSignalled = b.fSignalled
  BY ONLY <1>5, <1>11
<1>14. \A p \in Objects : n.fTags[p] = RemoveFirst(s.fTags[p], t)
  <2> TAKE p \in Objects
  <2>1. Once(s.fTags[p], WaitersOf(s, p)) /\ t \notin WaitersOf(s, p)
    BY Zenon DEF TagsRight, WaitersOf
  <2> QED
    BY <2>1, <1>13, OnceRemove, Zenon
<1>15. ~s.timer[t]
  BY Zenon DEF TagsRight
<1>16. Returned(s, n, t, error)
  <2>1. \A u \in Threads : n.waiting[u] <=> s.waiting[u] /\ u # t
    BY <1>13, Zenon
  <2>2. \A u \in Threads : n.timer[u] <=> s.timer[u] /\ u # t
    BY <1>13, <1>15, Zenon
  <2> QED
    BY <2>1, <2>2, <1>9, <1>13, Zenon DEF Returned
<1>17. /\ \A e \in Semaphores : /\ e \in G => n.fCount[e] = s.fCount[e] - 1
                                /\ e \notin G => n.fCount[e] = s.fCount[e]
       /\ \A p \in Objects :
            n.fSignalled[p] <=>
              s.fSignalled[p] /\ (p \in G => p \in Semaphores /\ s.fCount[p] # 1)
  BY <1>4, <1>13, Zenon DEF Taken
<1>18. Woke(s, n, t, G, error)
  BY <1>12, <1>13, <1>14, <1>16, <1>17, Zenon DEF Woke
<1>19. Woke(s, [b EXCEPT !.fWakeError[t] = error], t, G, error)
  BY <1>6, <1>10, <1>18, Zenon
<1> QED
  BY <1>1, <1>2, <1>19, Zenon

\* The tags stay right.
LEMMA WokeTags ==
  ASSUME NEW s, TagsRight(s), NEW n, NEW t \in Threads, NEW G, NEW error,
         Woke(s, n, t, G, error)
  PROVE  TagsRight(n)
<1>1. ASSUME NEW p \in Objects PROVE Once(n.fTags[p], WaitersOf(n, p))
  <2>1. WaitersOf(n, p) = WaitersOf(s, p) \ {t}
    <3>1. /\ n.objects = s.objects
          /\ \A u \in Threads : n.waiting[u] <=> s.waiting[u] /\ u # t
      BY Zenon DEF Woke, Returned
    <3> QED
      BY <3>1, Zenon DEF WaitersOf
  <2>2. Once(s.fTags[p], WaitersOf(s, p)) /\ n.fTags[p] = RemoveFirst(s.fTags[p], t)
    BY Zenon DEF TagsRight, Woke
  <2>3. CASE t \in WaitersOf(s, p)
    <3>1. Once(RemoveFirst(s.fTags[p], t), WaitersOf(s, p) \ {t})
      BY <2>2, <2>3, OnceRemove, Zenon
    <3> QED
      BY <2>1, <2>2, <3>1, Zenon
  <2>4. CASE t \notin WaitersOf(s, p)
    <3>1. WaitersOf(n, p) = WaitersOf(s, p)
      BY <2>1, <2>4, Zenon
    <3> QED
      BY <3>1, <2>2, <2>4, OnceRemove, Zenon
  <2> QED
    BY <2>3, <2>4, Zenon
<1>2. \A u \in Threads : n.timer[u] => n.waiting[u]
  BY Zenon DEF TagsRight, Woke, Returned
<1>3. n \in States
  BY Zenon DEF Woke
<1> QED
  BY <1>1, <1>2, <1>3, Zenon DEF TagsRight

-----------------------------------------------------------------------------
(* The loop of Signal. *)

LEMMA FlagsDiffer == WAIT_FOR_ONE # WAIT_FOR_ALL
BY Zenon DEF WAIT_FOR_ONE, WAIT_FOR_ALL

\* The threads that the loop has woken.
Gone(b, r) == {t \in Threads : b.waiting[t] /\ ~r.waiting[t]}

\* The loop that began with b has looked at the first n tags of q, the queue of
\* o, and made r of it.
Loop(b, r, o, q, n) ==
  /\ TagsRight(r)
  /\ r.fFlags = b.fFlags /\ r.objects = b.objects
  /\ \A t \in Threads : r.waiting[t] => b.waiting[t]
  /\ \A p \in Objects : r.fSignalled[p] => b.fSignalled[p]
  /\ \A t \in Gone(b, r) : r.fWakeError[t] = "ok" /\ \E i \in 1..n : q[i] = t
  /\ \A i \in 1..n : r.waiting[q[i]] => ~Ready(r, q[i], o)
  /\ \A i, j \in 1..n :
       i < j /\ b.fFlags[q[i]] = WAIT_FOR_ONE /\ ~r.waiting[q[j]] => ~r.waiting[q[i]]

\* Every thread of the queue waits until its tag is looked at.
LEMMA StillWaits ==
  ASSUME NEW b, TagsRight(b), NEW o \in Objects, NEW q, q = b.fTags[o],
         NEW n \in 1..Len(q), NEW r, Loop(b, r, o, q, n - 1)
  PROVE  q[n] \in Threads /\ r.waiting[q[n]] /\ o \in r.objects[q[n]]
<1>1. Once(q, WaitersOf(b, o))
  BY Zenon DEF TagsRight
<1>2. q[n] \in WaitersOf(b, o)
  <2>1. q \in Seq(WaitersOf(b, o))
    BY <1>1, Zenon DEF Once
  <2> QED
    BY <2>1, ElementOfSeq, Zenon
<1>3. q[n] \in Threads /\ b.waiting[q[n]] /\ o \in b.objects[q[n]]
  BY <1>2, Zenon DEF WaitersOf
<1>4. ~ \E i \in 1..(n - 1) : q[i] = q[n]
  <2>1. \A i, j \in 1..Len(q) : q[i] = q[j] => i = j
    BY <1>1, Zenon DEF Once
  <2>2. Len(q) \in Nat
    BY <1>1, LenProperties, Zenon DEF Once
  <2>3. \A i \in 1..(n - 1) : i \in 1..Len(q) /\ i # n
    BY <2>2
  <2> QED
    BY <2>1, <2>3, Zenon
<1>5. q[n] \notin Gone(b, r) /\ r.objects = b.objects
  BY <1>4, Zenon DEF Loop
<1> QED
  BY <1>3, <1>5, Zenon DEF Gone

\* What the body of the loop does with a tag.
LEMMA OneTag ==
  ASSUME NEW r, TagsRight(r), NEW o \in Objects, NEW t \in Threads
  PROVE  /\ Ready(r, t, o) => Woke(r, WakeFor(r, o, t), t, Got(r, t, o), "ok")
         /\ ~Ready(r, t, o) => WakeFor(r, o, t) = r
<1>1. Got(r, t, o) \in SUBSET Objects
  <2>1. r.objects \in [Threads -> SUBSET Objects]
    BY Parts, Zenon DEF TagsRight
  <2>2. r.objects[t] \in SUBSET Objects /\ {o} \in SUBSET Objects
    BY <2>1
  <2> QED
    BY <2>2, Zenon DEF Got
<1>2. ASSUME Ready(r, t, o) PROVE Woke(r, WakeFor(r, o, t), t, Got(r, t, o), "ok")
  <2>1. WakeFor(r, o, t) = MakeReady(ThreadWokenAll(RemoveTags(r, t), Got(r, t, o)), t, "ok")
    BY <1>2, Zenon DEF WakeFor, Ready, Got
  <2> QED
    BY <1>1, <2>1, WokenBySignal, Zenon
<1>3. ASSUME ~Ready(r, t, o) PROVE WakeFor(r, o, t) = r
  BY <1>3, Zenon DEF WakeFor, Ready
<1> QED
  BY <1>2, <1>3

\* One tag more.
LEMMA LoopNext ==
  ASSUME NEW b, TagsRight(b), NEW o \in Objects, NEW q, q = b.fTags[o],
         NEW n \in 1..Len(q), NEW r, Loop(b, r, o, q, n - 1)
  PROVE  Loop(b, WakeFor(r, o, q[n]), o, q, n)
<1> DEFINE t == q[n]  z == WakeFor(r, o, t)
<1>1. t \in Threads /\ r.waiting[t] /\ o \in r.objects[t]
  BY StillWaits, Zenon
<1>2. TagsRight(r)
  BY Zenon DEF Loop
<1>3. Len(q) \in Nat /\ \A i, j \in 1..Len(q) : q[i] = q[j] => i = j
  BY LenProperties, Zenon DEF Once, TagsRight
<1>4. /\ \A i \in 1..n : i \in 1..(n - 1) \/ i = n
      /\ \A i \in 1..(n - 1) : i \in 1..n /\ i \in 1..Len(q) /\ i # n /\ ~(n < i)
      /\ n \in 1..n /\ ~(n < n)
  BY <1>3
<1>5. \A i \in 1..(n - 1) : q[i] # t
  BY <1>3, <1>4, Zenon
<1> HIDE DEF t, z
<1>6. CASE ~Ready(r, t, o)
  <2>1. z = r
    BY <1>1, <1>2, <1>6, OneTag, Zenon DEF z
  <2>2. \A i \in 1..n : r.waiting[q[i]] => ~Ready(r, q[i], o)
    BY <1>4, <1>6, Zenon DEF Loop, t
  <2>3. \A i, j \in 1..n :
          i < j /\ b.fFlags[q[i]] = WAIT_FOR_ONE /\ ~r.waiting[q[j]] => ~r.waiting[q[i]]
    <3> TAKE i, j \in 1..n
    <3> HAVE i < j /\ b.fFlags[q[i]] = WAIT_FOR_ONE /\ ~r.waiting[q[j]]
    <3>1. j # n
      BY <1>1, Zenon DEF t
    <3>2. i \in 1..(n - 1) /\ j \in 1..(n - 1)
      BY <3>1, <1>3, <1>4
    <3> QED
      BY <3>2, Zenon DEF Loop
  <2>4. \A u \in Gone(b, r) : r.fWakeError[u] = "ok" /\ \E i \in 1..n : q[i] = u
    BY <1>4, Zenon DEF Loop
  <2>5. Loop(b, r, o, q, n)
    BY <2>2, <2>3, <2>4, Zenon DEF Loop
  <2> QED
    BY <2>1, <2>5, Zenon DEF z, t
<1>7. CASE Ready(r, t, o)
  <2>1. Woke(r, z, t, Got(r, t, o), "ok")
    BY <1>1, <1>2, <1>7, OneTag, Zenon DEF z
  <2>2. TagsRight(z)
    BY <1>1, <1>2, <2>1, WokeTags, Zenon
  <2>3. /\ z.fFlags = r.fFlags /\ z.objects = r.objects
        /\ \A u \in Threads : z.waiting[u] <=> r.waiting[u] /\ u # t
        /\ z.fWakeError[t] = "ok"
        /\ \A u \in Threads : u # t => z.fWakeError[u] = r.fWakeError[u]
        /\ \A p \in Objects : z.fSignalled[p] => r.fSignalled[p]
    BY <2>1, Zenon DEF Woke, Returned
  <2>4. /\ z.fFlags = b.fFlags /\ z.objects = b.objects
        /\ \A u \in Threads : z.waiting[u] => b.waiting[u]
        /\ \A p \in Objects : z.fSignalled[p] => b.fSignalled[p]
    BY <2>3, Zenon DEF Loop
  <2>5. \A u \in Gone(b, z) : u \in Threads /\ (u = t \/ u \in Gone(b, r))
    BY <2>3, Zenon DEF Gone
  <2>6. \A u \in Gone(b, z) : z.fWakeError[u] = "ok" /\ \E i \in 1..n : q[i] = u
    <3> TAKE u \in Gone(b, z)
    <3>1. CASE u = t
      BY <3>1, <2>3, <1>4, Zenon DEF t
    <3>2. CASE u # t /\ u \in Gone(b, r)
      BY <3>2, <2>3, <2>5, <1>4, ZenonT(60) DEF Loop
    <3> QED
      BY <3>1, <3>2, <2>5, Zenon
  <2>7. \A u \in Threads : Ready(z, u, o) => Ready(r, u, o)
    <3>1. \A u \in Threads : r.objects[u] \subseteq Objects
      <4>1. r.objects \in [Threads -> SUBSET Objects]
        BY <1>2, Parts, Zenon DEF TagsRight
      <4> QED
        BY <4>1
    <3> QED
      BY <3>1, <2>3, Zenon DEF Ready
  <2>8. \A i \in 1..n : q[i] \in Threads
    <3>1. q \in Seq(WaitersOf(b, o)) /\ \A i \in 1..n : i \in 1..Len(q)
      BY <1>4, Zenon DEF TagsRight, Once
    <3>2. \A i \in 1..n : q[i] \in WaitersOf(b, o)
      BY <3>1, ElementOfSeq, Zenon
    <3> QED
      BY <3>2, Zenon DEF WaitersOf
  <2>9. \A i \in 1..n : z.waiting[q[i]] => ~Ready(z, q[i], o)
    <3> TAKE i \in 1..n
    <3>1. CASE i = n
      BY <3>1, <1>1, <2>3, Zenon DEF t
    <3>2. CASE i \in 1..(n - 1)
      BY <3>2, <2>3, <2>7, <2>8, Zenon DEF Loop
    <3> QED
      BY <3>1, <3>2, <1>4, Zenon
  <2>10. \A i, j \in 1..n :
           i < j /\ b.fFlags[q[i]] = WAIT_FOR_ONE /\ ~z.waiting[q[j]] => ~z.waiting[q[i]]
    <3> TAKE i, j \in 1..n
    <3> HAVE i < j /\ b.fFlags[q[i]] = WAIT_FOR_ONE /\ ~z.waiting[q[j]]
    <3>1. i \in 1..(n - 1)
      BY <1>4
    <3>2. CASE j = n
      <4>1. r.fSignalled[o] /\ r.fFlags = b.fFlags
        BY <1>7, Zenon DEF Ready, Loop
      <4>2. Ready(r, q[i], o)
        BY <4>1, FlagsDiffer, Zenon DEF Ready
      <4>3. ~r.waiting[q[i]]
        BY <4>2, <3>1, Zenon DEF Loop
      <4> QED
        BY <4>3, <2>3, <2>8, Zenon
    <3>3. CASE j \in 1..(n - 1)
      <4>1. ~r.waiting[q[j]]
        BY <3>3, <2>3, <2>8, <1>5, Zenon
      <4>2. ~r.waiting[q[i]]
        BY <4>1, <3>1, <3>3, Zenon DEF Loop
      <4> QED
        BY <4>2, <2>3, <2>8, Zenon
    <3> QED
      BY <3>2, <3>3, <1>4, Zenon
  <2>11. Loop(b, z, o, q, n)
    BY <2>2, <2>4, <2>6, <2>9, <2>10, Zenon DEF Loop
  <2> QED
    BY <2>11, Zenon DEF z, t
<1> QED
  BY <1>6, <1>7

\* What the woken threads got is what the objects gave.
Accounted(b, r, o) ==
  /\ CountsRight(r)
  /\ IsFiniteSet(Gone(b, r))
  /\ \A e \in Semaphores :
       r.fCount[e] = b.fCount[e] - Cardinality({t \in Gone(b, r) : e \in Got(b, t, o)})
  /\ \A m \in Mutexes :
       r.fSignalled[m] <=> b.fSignalled[m] /\ \A t \in Gone(b, r) : m \notin Got(b, t, o)

\* The tokens and the mutexes of one woken thread.
LEMMA AccountedNext ==
  ASSUME NEW b, TagsRight(b), NEW o \in Objects, NEW q, q = b.fTags[o],
         NEW n \in 1..Len(q), NEW r, Loop(b, r, o, q, n - 1), Accounted(b, r, o)
  PROVE  Accounted(b, WakeFor(r, o, q[n]), o)
<1> DEFINE t == q[n]  z == WakeFor(r, o, t)
<1>1. t \in Threads /\ r.waiting[t] /\ o \in r.objects[t]
  BY StillWaits, Zenon
<1>2. TagsRight(r)
  BY Zenon DEF Loop
<1> HIDE DEF t, z
<1>3. CASE ~Ready(r, t, o)
  <2>1. z = r
    BY <1>1, <1>2, <1>3, OneTag, Zenon DEF z
  <2> QED
    BY <2>1, Zenon DEF z, t
<1>4. CASE Ready(r, t, o)
  <2> DEFINE G == Got(r, t, o)
  <2>1. Woke(r, z, t, G, "ok")
    BY <1>1, <1>2, <1>4, OneTag, Zenon DEF z
  <2>2. \A u : Got(r, u, o) = Got(b, u, o)
    BY Zenon DEF Got, Loop
  <2>3. \A p \in G : r.fSignalled[p]
    BY <1>4, Zenon DEF Got, Ready
  <2> HIDE DEF G
  <2>4. Gone(b, z) = Gone(b, r) \cup {t} /\ t \notin Gone(b, r)
    <3>1. \A u \in Threads : z.waiting[u] <=> r.waiting[u] /\ u # t
      BY <2>1, Zenon DEF Woke, Returned
    <3>2. b.waiting[t]
      BY <1>1, Zenon DEF Loop
    <3> QED
      BY <3>1, <3>2, <1>1, Zenon DEF Gone
  <2>5. IsFiniteSet(Gone(b, z))
    BY <2>4, FS_AddElement, Zenon DEF Accounted
  <2>6. ASSUME NEW e \in Semaphores
        PROVE  /\ z.fCount[e] >= 0 /\ (z.fSignalled[e] <=> z.fCount[e] > 0)
               /\ z.fCount[e] = b.fCount[e] - Cardinality({u \in Gone(b, z) : e \in Got(b, u, o)})
    <3> DEFINE R == {u \in Gone(b, r) : e \in Got(b, u, o)}
               Z == {u \in Gone(b, z) : e \in Got(b, u, o)}
    <3>1. e \in Objects
      BY DEF Objects
    <3>2. /\ r.fCount[e] >= 0 /\ (r.fSignalled[e] <=> r.fCount[e] > 0)
          /\ r.fCount[e] = b.fCount[e] - Cardinality(R)
      BY Zenon DEF Accounted, CountsRight
    <3>3. /\ e \in G => z.fCount[e] = r.fCount[e] - 1
          /\ e \notin G => z.fCount[e] = r.fCount[e]
          /\ z.fSignalled[e] <=> r.fSignalled[e] /\ (e \in G => r.fCount[e] # 1)
      BY <2>1, <3>1, Zenon DEF Woke
    <3>4. r.fCount[e] \in Int /\ b.fCount[e] \in Int
      <4>1. r.fCount \in [Semaphores -> Int] /\ b.fCount \in [Semaphores -> Int]
        BY <1>2, Parts, Zenon DEF TagsRight
      <4> QED
        BY <4>1
    <3>5. IsFiniteSet(R) /\ Cardinality(R) \in Nat
      <4>1. R \in SUBSET Gone(b, r) /\ IsFiniteSet(Gone(b, r))
        BY DEF Accounted
      <4> HIDE DEF R
      <4> QED
        BY <4>1, FS_Subset, FS_CardinalityType, Zenon
    <3>6. CASE e \in G
      <4>1. Z = R \cup {t} /\ t \notin R
        BY <3>6, <2>2, <2>4 DEF G
      <4> HIDE DEF R, Z
      <4>2. Cardinality(Z) = Cardinality(R) + 1
        BY <4>1, <3>5, FS_AddElement
      <4>3. r.fCount[e] > 0
        BY <3>6, <2>3, <3>2, Zenon
      <4>4. z.fCount[e] >= 0 /\ (z.fSignalled[e] <=> z.fCount[e] > 0)
        BY <4>3, <3>2, <3>3, <3>4, <3>6
      <4>5. z.fCount[e] = b.fCount[e] - Cardinality(Z)
        BY <4>2, <3>2, <3>3, <3>4, <3>5, <3>6
      <4> QED
        BY <4>4, <4>5 DEF Z
    <3>7. CASE e \notin G
      <4>1. Z = R
        BY <3>7, <2>2, <2>4 DEF G
      <4> HIDE DEF R, Z
      <4>2. z.fCount[e] = b.fCount[e] - Cardinality(Z)
        BY <3>2, <3>3, <3>7, <4>1
      <4>3. z.fCount[e] >= 0 /\ (z.fSignalled[e] <=> z.fCount[e] > 0)
        BY <3>2, <3>3, <3>7
      <4> QED
        BY <4>2, <4>3 DEF Z
    <3> QED
      BY <3>6, <3>7
  <2>7. ASSUME NEW m \in Mutexes
        PROVE  z.fSignalled[m] <=> b.fSignalled[m] /\ \A u \in Gone(b, z) : m \notin Got(b, u, o)
    <3>1. m \in Objects /\ m \notin Semaphores
      BY SynchronizationAssumption DEF Objects
    <3>2. z.fSignalled[m] <=> r.fSignalled[m] /\ m \notin G
      BY <2>1, <3>1, Zenon DEF Woke
    <3>3. r.fSignalled[m] <=> b.fSignalled[m] /\ \A u \in Gone(b, r) : m \notin Got(b, u, o)
      BY Zenon DEF Accounted
    <3>4. m \in G <=> m \in Got(b, t, o)
      BY <2>2, Zenon DEF G
    <3> QED
      BY <2>4, <3>2, <3>3, <3>4, Zenon
  <2>8. CountsRight(z)
    BY <2>6, Zenon DEF CountsRight
  <2>9. Accounted(b, z, o)
    BY <2>5, <2>6, <2>7, <2>8, Zenon DEF Accounted
  <2> QED
    BY <2>9, Zenon DEF z, t
<1> QED
  BY <1>3, <1>4

\* The values of a loop with k turns.
Turns(after, b, o, q, i) ==
  after = [n \in 0..i |-> IF n = 0 THEN b ELSE WakeFor(after[n - 1], o, q[n])]

\* There is such a function: the least number without one would have one, made
\* from that of the number before.
LEMMA TurnsExist ==
  ASSUME NEW b, NEW o, NEW q, NEW len \in Nat
  PROVE  \E after : Turns(after, b, o, q, len)
<1> DEFINE bad == {i \in Nat : ~ \E after : Turns(after, b, o, q, i)}
<1>1. SUFFICES ASSUME bad # {} PROVE FALSE
  OBVIOUS
<1>2. bad \in SUBSET Nat
  OBVIOUS
<1> HIDE DEF bad
<1>3. PICK i \in bad : \A y \in bad : i <= y
  BY <1>1, <1>2, LeastNumber
<1>4. i \in Nat /\ ~ \E after : Turns(after, b, o, q, i)
  BY <1>3, Zenon DEF bad
<1>5. i # 0
  <2> DEFINE f == [n \in 0..0 |-> b]
  <2>1. Turns(f, b, o, q, 0)
    <3>1. \A n \in 0..0 : n = 0
      OBVIOUS
    <3> QED
      BY <3>1, Zenon DEF Turns
  <2> QED
    BY <2>1, <1>4, Zenon
<1>6. i - 1 \in Nat /\ i - 1 \notin bad
  BY <1>2, <1>3, <1>4, <1>5
<1>7. PICK g : Turns(g, b, o, q, i - 1)
  BY <1>6, Zenon DEF bad
<1> DEFINE last == WakeFor(g[i - 1], o, q[i])
           f == [n \in 0..i |-> IF n = i THEN last ELSE g[n]]
           h == [n \in 0..i |-> IF n = 0 THEN b ELSE WakeFor(f[n - 1], o, q[n])]
<1>8. \A n \in 0..i : f[n] = h[n]
  <2> TAKE n \in 0..i
  <2>1. CASE n = 0
    <3>1. 0 # i /\ 0 \in 0..i /\ 0 \in 0..(i - 1)
      BY <1>4, <1>5
    <3>2. g[0] = b
      BY <1>7, <3>1, Zenon DEF Turns
    <3> QED
      BY <2>1, <3>1, <3>2, Zenon
  <2>2. CASE n = i
    <3>1. i # 0 /\ i \in 0..i /\ i - 1 \in 0..i /\ i - 1 # i
      BY <1>4, <1>5
    <3>2. f[i - 1] = g[i - 1]
      BY <3>1, Zenon
    <3> QED
      BY <2>2, <3>1, <3>2, Zenon
  <2>3. CASE n # 0 /\ n # i
    <3>1. n - 1 \in 0..i /\ n - 1 # i /\ n \in 0..(i - 1) /\ n \in 0..i
      BY <2>3, <1>4
    <3>2. f[n - 1] = g[n - 1] /\ f[n] = g[n]
      BY <2>3, <3>1, Zenon
    <3>3. g[n] = WakeFor(g[n - 1], o, q[n])
      BY <1>7, <2>3, <3>1, Zenon DEF Turns
    <3> QED
      BY <2>3, <3>2, <3>3, Zenon
  <2> QED
    BY <2>1, <2>2, <2>3, Zenon
<1>9. f = h
  BY <1>8, Zenon
<1>10. Turns(f, b, o, q, i)
  BY <1>9, Zenon DEF Turns
<1> QED
  BY <1>4, <1>10, Zenon

\* The same, value by value.
Turned(after, b, o, q, len) ==
  /\ after[0] = b
  /\ \A n \in 1..len : after[n] = WakeFor(after[n - 1], o, q[n])

\* Signal takes one turn for each tag of the queue.
LEMMA SignalIs ==
  ASSUME NEW s, NEW o, NEW q, q = s.fTags[o], NEW len \in Nat, len = Len(q),
         NEW b, b = [s EXCEPT !.fSignalled[o] = TRUE]
  PROVE  \E after : Signal(s, o) = after[len] /\ Turned(after, b, o, q, len)
<1> DEFINE after[n \in 0..Len(q)] == IF n = 0 THEN b ELSE WakeFor(after[n - 1], o, q[n])
<1>1. Signal(s, o) = after[Len(q)]
  BY Zenon DEF Signal
<1>2. \E f : f = [n \in 0..Len(q) |-> IF n = 0 THEN b ELSE WakeFor(f[n - 1], o, q[n])]
  <2>1. PICK f : Turns(f, b, o, q, len)
    BY TurnsExist, Zenon
  <2>2. f = [n \in 0..Len(q) |-> IF n = 0 THEN b ELSE WakeFor(f[n - 1], o, q[n])]
    BY <2>1, Zenon DEF Turns
  <2> QED
    BY <2>2, Zenon
<1>3. after = [n \in 0..Len(q) |-> IF n = 0 THEN b ELSE WakeFor(after[n - 1], o, q[n])]
  BY <1>2, Zenon
<1> HIDE DEF after
<1>4. 0 \in 0..len /\ \A n \in 1..len : n \in 0..len /\ n # 0
  OBVIOUS
<1>5. after[0] = b
  BY <1>3, <1>4, Zenon
<1>6. \A n \in 1..len : after[n] = WakeFor(after[n - 1], o, q[n])
  BY <1>3, <1>4, Zenon
<1>7. Turned(after, b, o, q, len)
  BY <1>5, <1>6, Zenon DEF Turned
<1> QED
  BY <1>1, <1>7, Zenon

\* Before the first turn.
LEMMA LoopBegins ==
  ASSUME NEW b, TagsRight(b), NEW o \in Objects, NEW q, q = b.fTags[o]
  PROVE  /\ Loop(b, b, o, q, 0)
         /\ CountsRight(b) => Accounted(b, b, o)
<1>1. Gone(b, b) = {} /\ 1..0 = {}
  BY DEF Gone
<1>2. Loop(b, b, o, q, 0)
  BY <1>1, Zenon DEF Loop
<1>3. ASSUME CountsRight(b) PROVE Accounted(b, b, o)
  <2>1. IsFiniteSet({}) /\ Cardinality({}) = 0
    BY FS_EmptySet, Zenon
  <2>2. \A e \in Semaphores : b.fCount[e] \in Int
    <3>1. b.fCount \in [Semaphores -> Int]
      BY Parts, Zenon DEF TagsRight
    <3> QED
      BY <3>1
  <2>3. \A e : {t \in Gone(b, b) : e \in Got(b, t, o)} = {}
    BY <1>1, Zenon
  <2>4. \A e \in Semaphores :
          b.fCount[e] = b.fCount[e] - Cardinality({t \in Gone(b, b) : e \in Got(b, t, o)})
    <3> TAKE e \in Semaphores
    <3>1. Cardinality({t \in Gone(b, b) : e \in Got(b, t, o)}) = 0
      BY <2>1, <2>3, Zenon
    <3> QED
      BY <3>1, <2>2
  <2> QED
    BY <1>1, <1>3, <2>1, <2>4, Zenon DEF Accounted
<1> QED
  BY <1>2, <1>3

\* After the last one: if a turn went wrong, the first that did would follow
\* one that did not.
LEMMA LoopEnds ==
  ASSUME NEW b, TagsRight(b), NEW o \in Objects, NEW q, q = b.fTags[o],
         NEW len \in Nat, len = Len(q), NEW after, Turned(after, b, o, q, len)
  PROVE  /\ Loop(b, after[len], o, q, len)
         /\ CountsRight(b) => Accounted(b, after[len], o)
<1> DEFINE right(n) == /\ Loop(b, after[n], o, q, n)
                       /\ CountsRight(b) => Accounted(b, after[n], o)
           bad == {n \in 0..len : ~right(n)}
<1>1. right(0)
  BY LoopBegins, Zenon DEF Turned
<1>2. ASSUME NEW n \in 1..len, right(n - 1) PROVE right(n)
  <2>1. after[n] = WakeFor(after[n - 1], o, q[n]) /\ n \in 1..Len(q)
    BY Zenon DEF Turned
  <2>2. Loop(b, after[n], o, q, n)
    BY <1>2, <2>1, LoopNext, Zenon
  <2>3. ASSUME CountsRight(b) PROVE Accounted(b, after[n], o)
    BY <1>2, <2>1, <2>3, AccountedNext, Zenon
  <2> QED
    BY <2>2, <2>3
<1> HIDE DEF right
<1>3. bad = {}
  <2>1. SUFFICES ASSUME bad # {} PROVE FALSE
    OBVIOUS
  <2>2. bad \in SUBSET Nat
    OBVIOUS
  <2>3. \A n \in bad : n \in 0..len /\ ~right(n)
    OBVIOUS
  <2>4. \A n \in 0..len : n \notin bad => right(n)
    OBVIOUS
  <2> HIDE DEF bad
  <2>5. PICK n \in bad : \A y \in bad : n <= y
    BY <2>1, <2>2, LeastNumber
  <2>6. n # 0
    BY <1>1, <2>3
  <2>7. n \in 1..len /\ n - 1 \in 0..len /\ n - 1 \notin bad
    BY <2>3, <2>5, <2>6
  <2> QED
    BY <1>2, <2>3, <2>4, <2>7, Zenon
<1>4. right(len)
  BY <1>3
<1> QED
  BY <1>4, Zenon DEF right

-----------------------------------------------------------------------------
(* The functions of the objects keep the tags right and miss nobody. *)

\* b is s with o signalled.
Lit(s, b, o) ==
  /\ b \in States
  /\ b.fTags = s.fTags /\ b.fCount = s.fCount /\ b.fFlags = s.fFlags /\ b.objects = s.objects
  /\ b.timer = s.timer /\ b.waiting = s.waiting /\ b.fWakeError = s.fWakeError
  /\ \A p \in Objects : b.fSignalled[p] <=> s.fSignalled[p] \/ p = o

LEMMA SignalledParts ==
  ASSUME NEW s \in States, NEW o \in Objects
  PROVE  Lit(s, [s EXCEPT !.fSignalled[o] = TRUE], o)
<1> DEFINE sig == [s.fSignalled EXCEPT ![o] = TRUE]
<1>1. [s EXCEPT !.fSignalled[o] = TRUE] = [s EXCEPT !.fSignalled = sig]
  OBVIOUS
<1>2. s.fSignalled \in [Objects -> BOOLEAN]
  BY Parts, Zenon
<1>3. sig \in [Objects -> BOOLEAN]
  BY <1>2
<1>4. \A p \in Objects : sig[p] <=> s.fSignalled[p] \/ p = o
  BY <1>2, Zenon
<1> HIDE DEF sig
<1>5. PICK b : b = [s EXCEPT !.fSignalled = sig]
  OBVIOUS
<1>6. b = [fSignalled |-> sig, fTags |-> s.fTags, fCount |-> s.fCount,
           fFlags |-> s.fFlags, objects |-> s.objects, timer |-> s.timer,
           waiting |-> s.waiting, fWakeError |-> s.fWakeError]
  <2>1. s = [fSignalled |-> s.fSignalled, fTags |-> s.fTags, fCount |-> s.fCount,
             fFlags |-> s.fFlags, objects |-> s.objects, timer |-> s.timer,
             waiting |-> s.waiting, fWakeError |-> s.fWakeError]
    BY Parts, Zenon
  <2> QED
    BY ONLY <1>5, <2>1
<1>7. b \in States
  BY <1>3, <1>6, Parts DEF States
<1>8. /\ b.fTags = s.fTags /\ b.fCount = s.fCount /\ b.fFlags = s.fFlags
      /\ b.objects = s.objects /\ b.timer = s.timer /\ b.waiting = s.waiting
      /\ b.fWakeError = s.fWakeError /\ b.fSignalled = sig
  BY ONLY <1>6
<1>9. Lit(s, b, o)
  BY <1>4, <1>7, <1>8, Zenon DEF Lit
<1> QED
  BY <1>1, <1>5, <1>9, Zenon

\* n is s with more tokens in e.
Refilled(s, m, e, n) ==
  /\ m \in States
  /\ m.fTags = s.fTags /\ m.fSignalled = s.fSignalled
  /\ m.fFlags = s.fFlags /\ m.objects = s.objects
  /\ m.timer = s.timer /\ m.waiting = s.waiting /\ m.fWakeError = s.fWakeError
  /\ m.fCount[e] = s.fCount[e] + n
  /\ \A p \in Semaphores : p # e => m.fCount[p] = s.fCount[p]

LEMMA RefilledParts ==
  ASSUME NEW s \in States, NEW e \in Semaphores, NEW n \in Int
  PROVE  Refilled(s, [s EXCEPT !.fCount[e] = @ + n], e, n)
<1> DEFINE cnt == [s.fCount EXCEPT ![e] = s.fCount[e] + n]
<1>1. [s EXCEPT !.fCount[e] = @ + n] = [s EXCEPT !.fCount = cnt]
  OBVIOUS
<1>2. s.fCount \in [Semaphores -> Int]
  BY Parts, Zenon
<1>3. cnt \in [Semaphores -> Int]
  BY <1>2
<1>4. cnt[e] = s.fCount[e] + n /\ \A p \in Semaphores : p # e => cnt[p] = s.fCount[p]
  BY <1>2, Zenon
<1> HIDE DEF cnt
<1>5. PICK m : m = [s EXCEPT !.fCount = cnt]
  OBVIOUS
<1>6. m = [fSignalled |-> s.fSignalled, fTags |-> s.fTags, fCount |-> cnt,
           fFlags |-> s.fFlags, objects |-> s.objects, timer |-> s.timer,
           waiting |-> s.waiting, fWakeError |-> s.fWakeError]
  <2>1. s = [fSignalled |-> s.fSignalled, fTags |-> s.fTags, fCount |-> s.fCount,
             fFlags |-> s.fFlags, objects |-> s.objects, timer |-> s.timer,
             waiting |-> s.waiting, fWakeError |-> s.fWakeError]
    BY Parts, Zenon
  <2> QED
    BY ONLY <1>5, <2>1
<1>7. m \in States
  BY <1>3, <1>6, Parts DEF States
<1>8. /\ m.fTags = s.fTags /\ m.fSignalled = s.fSignalled /\ m.fFlags = s.fFlags
      /\ m.objects = s.objects /\ m.timer = s.timer /\ m.waiting = s.waiting
      /\ m.fWakeError = s.fWakeError /\ m.fCount = cnt
  BY ONLY <1>6
<1>9. Refilled(s, m, e, n)
  BY <1>4, <1>7, <1>8, Zenon DEF Refilled
<1> QED
  BY <1>1, <1>5, <1>9, Zenon

\* n is s with t queued at the objects of S.
Queued(s, n, t, S, flags, timed) ==
  /\ n \in States
  /\ n.fSignalled = s.fSignalled /\ n.fCount = s.fCount /\ n.fWakeError = s.fWakeError
  /\ \A p \in Objects : /\ p \in S => n.fTags[p] = Append(s.fTags[p], t)
                        /\ p \notin S => n.fTags[p] = s.fTags[p]
  /\ n.fFlags[t] = flags /\ n.objects[t] = S /\ n.waiting[t]
  /\ n.timer[t] = timed
  /\ \A u \in Threads : u # t => /\ n.fFlags[u] = s.fFlags[u] /\ n.objects[u] = s.objects[u]
                                 /\ n.timer[u] = s.timer[u] /\ n.waiting[u] = s.waiting[u]

LEMMA QueuedParts ==
  ASSUME NEW s \in States, NEW t \in Threads, NEW S \in SUBSET Objects,
         NEW flags \in {WAIT_FOR_ONE, WAIT_FOR_ALL}, NEW timed \in BOOLEAN
  PROVE  Queued(s, WaitInternal(s, t, S, flags, timed), t, S, flags, timed)
<1> DEFINE tags == [o \in Objects |-> IF o \in S THEN Append(s.fTags[o], t) ELSE s.fTags[o]]
           fl == [s.fFlags EXCEPT ![t] = flags]
           ob == [s.objects EXCEPT ![t] = S]
           ti == [s.timer EXCEPT ![t] = timed]
           wa == [s.waiting EXCEPT ![t] = TRUE]
<1>1. WaitInternal(s, t, S, flags, timed)
        = [s EXCEPT !.fTags = tags, !.fFlags = fl, !.objects = ob, !.timer = ti, !.waiting = wa]
  BY Parts, ZenonT(60) DEF WaitInternal
<1>2. /\ s.fTags \in [Objects -> Seq(Threads)]
      /\ s.fFlags \in [Threads -> {WAIT_FOR_ONE, WAIT_FOR_ALL}]
      /\ s.objects \in [Threads -> SUBSET Objects]
      /\ s.timer \in [Threads -> BOOLEAN]
      /\ s.waiting \in [Threads -> BOOLEAN]
  BY Parts, Zenon
<1>3. tags \in [Objects -> Seq(Threads)]
  <2>1. \A p \in Objects : s.fTags[p] \in Seq(Threads) /\ Append(s.fTags[p], t) \in Seq(Threads)
    BY <1>2
  <2> QED
    BY <2>1
<1>4. /\ fl \in [Threads -> {WAIT_FOR_ONE, WAIT_FOR_ALL}]
      /\ ob \in [Threads -> SUBSET Objects]
      /\ ti \in [Threads -> BOOLEAN]
      /\ wa \in [Threads -> BOOLEAN]
  BY <1>2
<1>5. \A p \in Objects : /\ p \in S => tags[p] = Append(s.fTags[p], t)
                         /\ p \notin S => tags[p] = s.fTags[p]
  BY Zenon
<1>6. /\ fl[t] = flags /\ ob[t] = S /\ wa[t] /\ ti[t] = timed
      /\ \A u \in Threads : u # t => /\ fl[u] = s.fFlags[u] /\ ob[u] = s.objects[u]
                                     /\ ti[u] = s.timer[u] /\ wa[u] = s.waiting[u]
  BY <1>2, Zenon
<1> HIDE DEF tags, fl, ob, ti, wa
<1>7. PICK n : n = WaitInternal(s, t, S, flags, timed)
  OBVIOUS
<1>8. n = [fSignalled |-> s.fSignalled, fTags |-> tags, fCount |-> s.fCount,
           fFlags |-> fl, objects |-> ob, timer |-> ti,
           waiting |-> wa, fWakeError |-> s.fWakeError]
  BY <1>1, <1>7, Parts, ZenonT(60)
<1>9. n \in States
  BY <1>3, <1>4, <1>8, Parts DEF States
<1>10. /\ n.fTags = tags /\ n.fSignalled = s.fSignalled /\ n.fCount = s.fCount
       /\ n.fFlags = fl /\ n.objects = ob /\ n.timer = ti /\ n.waiting = wa
       /\ n.fWakeError = s.fWakeError
  BY ONLY <1>8
<1>11. Queued(s, n, t, S, flags, timed)
  BY <1>5, <1>6, <1>9, <1>10, Zenon DEF Queued
<1> QED
  BY <1>7, <1>11, Zenon

\* What a wait waits for is there less often when fewer objects are signalled.
LEMMA SatisfiedLess ==
  ASSUME NEW s, NEW n, NEW flags, NEW S \in SUBSET Objects,
         \A p \in Objects : n.fSignalled[p] => s.fSignalled[p],
         Satisfied(n, flags, S)
  PROVE  Satisfied(s, flags, S)
<1>1. \A p \in S : n.fSignalled[p] => s.fSignalled[p]
  OBVIOUS
<1>2. CASE flags = WAIT_FOR_ALL
  BY <1>1, <1>2, Zenon DEF Satisfied
<1>3. CASE flags # WAIT_FOR_ALL
  BY <1>1, <1>3, Zenon DEF Satisfied
<1> QED
  BY <1>2, <1>3

\* A thread that is woken, or does not block, takes objects and gives none.
LEMMA WokeMissesNobody ==
  ASSUME NEW s \in States, NoneMissed(s), NEW n, NEW t \in Threads, NEW G, NEW error,
         Woke(s, n, t, G, error)
  PROVE  NoneMissed(n)
<1>1. /\ n.fFlags = s.fFlags /\ n.objects = s.objects
      /\ \A u \in Threads : n.waiting[u] => s.waiting[u]
      /\ \A p \in Objects : n.fSignalled[p] => s.fSignalled[p]
  BY Zenon DEF Woke, Returned
<1>2. \A u \in Threads : s.objects[u] \in SUBSET Objects
  BY Parts
<1> SUFFICES ASSUME NEW u \in Threads, n.waiting[u], Satisfied(n, n.fFlags[u], n.objects[u])
             PROVE  FALSE
  BY Zenon DEF NoneMissed
<1>3. Satisfied(n, s.fFlags[u], s.objects[u])
  BY <1>1, Zenon
<1>4. Satisfied(s, s.fFlags[u], s.objects[u])
  BY <1>1, <1>2, <1>3, SatisfiedLess, Zenon
<1> QED
  BY <1>1, <1>4, Zenon DEF NoneMissed

\* A thread that waits is queued behind the others, and for what is not there.
LEMMA QueuedRight ==
  ASSUME NEW s, TagsRight(s), NoneMissed(s), NEW n, NEW t \in Threads, ~s.waiting[t],
         NEW S \in SUBSET Objects, NEW flags, NEW timed,
         ~Satisfied(s, flags, S), Queued(s, n, t, S, flags, timed)
  PROVE  TagsRight(n) /\ NoneMissed(n)
<1>1. ASSUME NEW p \in Objects PROVE Once(n.fTags[p], WaitersOf(n, p))
  <2>1. Once(s.fTags[p], WaitersOf(s, p)) /\ t \notin WaitersOf(s, p)
    BY Zenon DEF TagsRight, WaitersOf
  <2>2. /\ n.waiting[t] /\ n.objects[t] = S
        /\ \A u \in Threads : u # t => n.objects[u] = s.objects[u] /\ n.waiting[u] = s.waiting[u]
    BY Zenon DEF Queued
  <2>3. CASE p \in S
    <3>1. WaitersOf(n, p) = WaitersOf(s, p) \cup {t}
      BY <2>2, <2>3, Zenon DEF WaitersOf
    <3>2. n.fTags[p] = Append(s.fTags[p], t)
      BY <2>3, Zenon DEF Queued
    <3>3. Once(Append(s.fTags[p], t), WaitersOf(s, p) \cup {t})
      BY <2>1, OnceAppend, Zenon
    <3> QED
      BY <3>1, <3>2, <3>3, Zenon
  <2>4. CASE p \notin S
    <3>1. WaitersOf(n, p) = WaitersOf(s, p)
      BY <2>1, <2>2, <2>4, Zenon DEF WaitersOf
    <3>2. n.fTags[p] = s.fTags[p]
      BY <2>4, Zenon DEF Queued
    <3> QED
      BY <2>1, <3>1, <3>2, Zenon
  <2> QED
    BY <2>3, <2>4
<1>2. \A u \in Threads : n.timer[u] => n.waiting[u]
  <2>1. \A u \in Threads : u # t => n.timer[u] = s.timer[u] /\ n.waiting[u] = s.waiting[u]
    BY Zenon DEF Queued
  <2>2. n.waiting[t]
    BY Zenon DEF Queued
  <2> QED
    BY <2>1, <2>2, Zenon DEF TagsRight
<1>3. n \in States
  BY Zenon DEF Queued
<1>4. NoneMissed(n)
  <2> SUFFICES ASSUME NEW u \in Threads, n.waiting[u], Satisfied(n, n.fFlags[u], n.objects[u])
               PROVE  FALSE
    BY Zenon DEF NoneMissed
  <2>1. n.fSignalled = s.fSignalled
    BY Zenon DEF Queued
  <2>2. \A fl, T : Satisfied(n, fl, T) <=> Satisfied(s, fl, T)
    BY <2>1, Zenon DEF Satisfied
  <2>3. CASE u = t
    BY <2>2, <2>3, Zenon DEF Queued
  <2>4. CASE u # t
    BY <2>2, <2>4, Zenon DEF Queued, NoneMissed
  <2> QED
    BY <2>3, <2>4
<1> QED
  BY <1>1, <1>2, <1>3, <1>4, Zenon DEF TagsRight

\* What Signal does: the loop, from the state with o signalled.
Signals(s, z, o, b) ==
  /\ Lit(s, b, o)
  /\ TagsRight(b)
  /\ Loop(b, z, o, b.fTags[o], Len(b.fTags[o]))
  /\ CountsRight(b) => Accounted(b, z, o)

LEMMA SignalDoes ==
  ASSUME NEW s, TagsRight(s), NEW o \in Objects
  PROVE  \E b : Signals(s, Signal(s, o), o, b)
<1>1. PICK b : b = [s EXCEPT !.fSignalled[o] = TRUE]
  OBVIOUS
<1>2. Lit(s, b, o)
  BY <1>1, SignalledParts, Zenon DEF TagsRight
<1>3. TagsRight(b)
  <2>1. /\ b \in States /\ b.fTags = s.fTags /\ b.objects = s.objects
        /\ b.timer = s.timer /\ b.waiting = s.waiting
    BY <1>2, Zenon DEF Lit
  <2> QED
    BY <2>1, Zenon DEF TagsRight, WaitersOf
<1>4. PICK q : q = b.fTags[o]
  OBVIOUS
<1>5. q = s.fTags[o]
  BY <1>2, <1>4, Zenon DEF Lit
<1>6. PICK len \in Nat : len = Len(q)
  <2>1. q \in Seq(WaitersOf(b, o))
    BY <1>3, <1>4, Zenon DEF TagsRight, Once
  <2> QED
    BY <2>1, LenProperties, Zenon
<1>7. PICK after : Signal(s, o) = after[len] /\ Turned(after, b, o, q, len)
  BY <1>1, <1>5, <1>6, SignalIs, Zenon
<1>8. Loop(b, after[len], o, q, len) /\ (CountsRight(b) => Accounted(b, after[len], o))
  BY <1>3, <1>4, <1>6, <1>7, LoopEnds, Zenon
<1>9. Signals(s, Signal(s, o), o, b)
  BY <1>2, <1>3, <1>4, <1>6, <1>7, <1>8, Zenon DEF Signals
<1> QED
  BY <1>9, Zenon

\* The loop goes by nobody who could be woken.
LEMMA SignalMissesNobody ==
  ASSUME NEW s, NoneMissed(s), NEW o \in Objects, NEW z, NEW b, Signals(s, z, o, b)
  PROVE  TagsRight(z) /\ NoneMissed(z)
<1> DEFINE q == b.fTags[o]
<1>1. /\ TagsRight(z) /\ TagsRight(b)
      /\ z.fFlags = b.fFlags /\ z.objects = b.objects
      /\ \A t \in Threads : z.waiting[t] => b.waiting[t]
      /\ \A p \in Objects : z.fSignalled[p] => b.fSignalled[p]
      /\ \A i \in 1..Len(q) : z.waiting[q[i]] => ~Ready(z, q[i], o)
  BY Zenon DEF Signals, Loop
<1>2. /\ b.fFlags = s.fFlags /\ b.objects = s.objects /\ b.waiting = s.waiting
      /\ \A p \in Objects : b.fSignalled[p] => s.fSignalled[p] \/ p = o
  BY Zenon DEF Signals, Lit
<1>3. \A t \in Threads : z.objects[t] \in SUBSET Objects
  <2>1. z.objects \in [Threads -> SUBSET Objects]
    BY <1>1, Parts, Zenon DEF TagsRight
  <2> QED
    BY <2>1
<1>4. ASSUME NEW t \in Threads, z.waiting[t], o \in z.objects[t] PROVE ~Ready(z, t, o)
  <2>1. t \in WaitersOf(b, o)
    BY <1>1, <1>4, Zenon DEF WaitersOf
  <2>2. PICK i \in 1..Len(q) : q[i] = t
    BY <1>1, <2>1, ZenonT(60) DEF TagsRight, Once
  <2> QED
    BY <1>1, <1>4, <2>2, Zenon
<1>5. ASSUME NEW t \in Threads, z.waiting[t], Satisfied(z, z.fFlags[t], z.objects[t]) PROVE FALSE
  <2>1. s.waiting[t] /\ z.fFlags[t] = s.fFlags[t] /\ z.objects[t] = s.objects[t]
    BY <1>1, <1>2, <1>5, Zenon
  <2>2. ~Satisfied(s, s.fFlags[t], s.objects[t])
    BY <2>1, Zenon DEF NoneMissed
  <2>3. \A p \in z.objects[t] : z.fSignalled[p] => s.fSignalled[p] \/ p = o
    BY <1>1, <1>2, <1>3
  <2>4. CASE z.fFlags[t] = WAIT_FOR_ALL
    <3>1. \A p \in z.objects[t] : z.fSignalled[p]
      BY <1>5, <2>4, Zenon DEF Satisfied
    <3>2. CASE o \in z.objects[t]
      BY <3>1, <3>2, <1>4, <1>5, Zenon DEF Ready
    <3>3. CASE o \notin z.objects[t]
      <4>1. \A p \in s.objects[t] : s.fSignalled[p]
        BY <3>1, <3>3, <2>1, <2>3, Zenon
      <4> QED
        BY <4>1, <2>1, <2>2, <2>4, Zenon DEF Satisfied
    <3> QED
      BY <3>2, <3>3
  <2>5. CASE z.fFlags[t] # WAIT_FOR_ALL
    <3>1. PICK p \in z.objects[t] : z.fSignalled[p]
      BY <1>5, <2>5, Zenon DEF Satisfied
    <3>2. CASE p = o
      BY <3>1, <3>2, <1>4, <1>5, <2>5, Zenon DEF Ready
    <3>3. CASE p # o
      <4>1. s.fSignalled[p] /\ p \in s.objects[t]
        BY <3>1, <3>3, <2>1, <2>3, Zenon
      <4> QED
        BY <4>1, <2>1, <2>2, <2>5, Zenon DEF Satisfied
    <3> QED
      BY <3>2, <3>3
  <2> QED
    BY <2>4, <2>5
<1> QED
  BY <1>1, <1>5, Zenon DEF NoneMissed

-----------------------------------------------------------------------------
(* The actions. *)

LEMMA WaitDoes ==
  ASSUME TagsRight(k), NEW t \in Threads, NEW o \in Objects, NEW timed \in BOOLEAN,
         Wait(t, o, timed)
  PROVE  /\ ~k.waiting[t]
         /\ \/ k.fSignalled[o] /\ Woke(k, k', t, {o}, "ok") /\ Immediately(t, {o})
            \/ /\ ~k.fSignalled[o] /\ Queued(k, k', t, {o}, WAIT_FOR_ONE, timed)
               /\ UNCHANGED <<owner, owed>>
<1>1. ~k.waiting[t]
  BY Zenon DEF Wait
<1>2. k \in States /\ {o} \in SUBSET Objects
  BY DEF TagsRight
<1>3. CASE k.fSignalled[o]
  <2>1. k' = [ThreadWoken(k, o) EXCEPT !.fWakeError[t] = "ok"] /\ Immediately(t, {o})
    BY <1>3, Zenon DEF Wait
  <2>2. ThreadWoken(k, o) = ThreadWokenAll(k, {o})
    BY <1>2, WokenOne, Zenon
  <2>3. k' = [ThreadWokenAll(k, {o}) EXCEPT !.fWakeError[t] = "ok"]
    BY <2>1, <2>2, Zenon
  <2>4. Woke(k, k', t, {o}, "ok")
    BY <1>1, <1>2, <2>3, WokenAtOnce, Zenon
  <2> QED
    BY <1>1, <1>3, <2>1, <2>4, Zenon
<1>4. CASE ~k.fSignalled[o]
  <2>1. k' = WaitInternal(k, t, {o}, WAIT_FOR_ONE, timed) /\ UNCHANGED <<owner, owed>>
    BY <1>4, Zenon DEF Wait
  <2>2. PICK one \in {WAIT_FOR_ONE, WAIT_FOR_ALL} : one = WAIT_FOR_ONE
    BY Zenon
  <2>3. Queued(k, WaitInternal(k, t, {o}, one, timed), t, {o}, one, timed)
    BY <1>2, QueuedParts, Zenon
  <2> QED
    BY <1>1, <1>4, <2>1, <2>2, <2>3, Zenon
<1> QED
  BY <1>3, <1>4

LEMMA WaitForMultipleDoes ==
  ASSUME TagsRight(k), NEW t \in Threads, NEW S \in SUBSET Objects,
         NEW flags \in MultipleFlags, NEW timed \in BOOLEAN, WaitForMultiple(t, S, flags, timed)
  PROVE  /\ ~k.waiting[t]
         /\ \/ /\ Satisfied(k, flags, S) /\ Woke(k, k', t, S, "ok")
               /\ flags = WAIT_FOR_ALL => Immediately(t, S)
            \/ /\ ~Satisfied(k, flags, S) /\ Queued(k, k', t, S, flags, timed)
               /\ UNCHANGED <<owner, owed>>
<1>1. ~k.waiting[t]
  BY Zenon DEF WaitForMultiple
<1>2. k \in States /\ flags \in {WAIT_FOR_ONE, WAIT_FOR_ALL}
  BY SynchronizationAssumption, Zenon DEF TagsRight
<1>3. CASE Satisfied(k, flags, S)
  <2>1. /\ k' = [ThreadWokenAll(k, S) EXCEPT !.fWakeError[t] = "ok"]
        /\ flags = WAIT_FOR_ALL => Immediately(t, S)
    BY <1>3, Zenon DEF WaitForMultiple
  <2>2. Woke(k, k', t, S, "ok")
    BY <1>1, <2>1, WokenAtOnce, Zenon
  <2> QED
    BY <1>1, <1>3, <2>1, <2>2, Zenon
<1>4. CASE ~Satisfied(k, flags, S)
  <2>1. k' = WaitInternal(k, t, S, flags, timed) /\ UNCHANGED <<owner, owed>>
    BY <1>4, Zenon DEF WaitForMultiple
  <2>2. Queued(k, WaitInternal(k, t, S, flags, timed), t, S, flags, timed)
    BY <1>2, QueuedParts, Zenon
  <2> QED
    BY <1>1, <1>4, <2>1, <2>2, Zenon
<1> QED
  BY <1>3, <1>4

LEMMA ReleaseDoes ==
  ASSUME TagsRight(k), NEW e \in Semaphores, NEW n \in 1..MaxCount, Release(e, n)
  PROVE  \/ /\ k.fCount[e] = 0
            /\ \E m, b : Refilled(k, m, e, n) /\ TagsRight(m) /\ Signals(m, k', e, b)
         \/ k.fCount[e] # 0 /\ Refilled(k, k', e, n)
<1>1. PICK m : m = [k EXCEPT !.fCount[e] = @ + n]
  OBVIOUS
<1>2. k \in States /\ n \in Int /\ e \in Objects
  BY DEF TagsRight, Objects
<1>3. Refilled(k, m, e, n)
  BY <1>1, <1>2, RefilledParts, Zenon
<1>4. TagsRight(m)
  <2>1. /\ m \in States /\ m.fTags = k.fTags /\ m.objects = k.objects
        /\ m.timer = k.timer /\ m.waiting = k.waiting
    BY <1>3, Zenon DEF Refilled
  <2> QED
    BY <2>1, Zenon DEF TagsRight, WaitersOf
<1>5. k' = IF k.fCount[e] = 0 THEN Signal(m, e) ELSE m
  BY <1>1, Zenon DEF Release, SemaphoreRelease
<1>6. CASE k.fCount[e] = 0
  <2>1. PICK b : Signals(m, Signal(m, e), e, b)
    BY <1>2, <1>4, SignalDoes, Zenon
  <2>2. Signals(m, k', e, b)
    BY <1>5, <1>6, <2>1, Zenon
  <2> QED
    BY <1>3, <1>4, <1>6, <2>2, Zenon
<1>7. CASE k.fCount[e] # 0
  BY <1>3, <1>5, <1>7, Zenon
<1> QED
  BY <1>6, <1>7

LEMMA UnlockDoes ==
  ASSUME TagsRight(k), NEW t \in Threads, NEW m \in Mutexes, Unlock(t, m)
  PROVE  \E b : Signals(k, k', m, b)
<1>1. m \in Objects /\ k' = Signal(k, m)
  BY Zenon DEF Unlock, Objects
<1> QED
  BY <1>1, SignalDoes, Zenon

LEMMA HandleTimeoutDoes ==
  ASSUME TagsRight(k), NEW t \in Threads, HandleTimeout(t)
  PROVE  Woke(k, k', t, {}, "timed out") /\ UNCHANGED <<owner, owed>>
<1>1. k' = MakeReady(RemoveTags(k, t), t, "timed out") /\ UNCHANGED <<owner, owed>>
  BY Zenon DEF HandleTimeout
<1> QED
  BY <1>1, WokenByTimeout, Zenon

-----------------------------------------------------------------------------
(* No wakeup is lost, and the tags live as long as the wait. *)

LEMMA InitWaitInv == Init => WaitInv
<1> SUFFICES ASSUME Init PROVE WaitInv
  OBVIOUS
<1>1. /\ k.fSignalled = [o \in Objects |-> o \in Mutexes \/ InitialCount[o] > 0]
      /\ k.fTags = [o \in Objects |-> << >>]
      /\ k.fCount = InitialCount
      /\ k.fFlags = [t \in Threads |-> WAIT_FOR_ONE]
      /\ k.objects = [t \in Threads |-> {}]
      /\ k.timer = [t \in Threads |-> FALSE]
      /\ k.waiting = [t \in Threads |-> FALSE]
  BY DEF Init
<1>2. k \in States
  <2>1. [o \in Objects |-> o \in Mutexes \/ InitialCount[o] > 0] \in [Objects -> BOOLEAN]
    OBVIOUS
  <2>2. [o \in Objects |-> << >>] \in [Objects -> Seq(Threads)]
    OBVIOUS
  <2>3. InitialCount \in [Semaphores -> Int]
    BY SynchronizationAssumption
  <2>4. [t \in Threads |-> WAIT_FOR_ONE] \in [Threads -> {WAIT_FOR_ONE, WAIT_FOR_ALL}]
    OBVIOUS
  <2>5. [t \in Threads |-> {}] \in [Threads -> SUBSET Objects]
    OBVIOUS
  <2>6. [t \in Threads |-> FALSE] \in [Threads -> BOOLEAN]
    OBVIOUS
  <2>7. [t \in Threads |-> "ok"] \in [Threads -> {"ok", "timed out"}]
    OBVIOUS
  <2> QED
    BY <2>1, <2>2, <2>3, <2>4, <2>5, <2>6, <2>7 DEF Init, States
<1>3. \A t \in Threads : ~k.waiting[t] /\ ~k.timer[t]
  BY <1>1
<1>4. ASSUME NEW o \in Objects PROVE Once(k.fTags[o], WaitersOf(k, o))
  <2>1. WaitersOf(k, o) = {}
    BY <1>3, Zenon DEF WaitersOf
  <2>2. k.fTags[o] = << >>
    BY <1>1
  <2>3. Once(<< >>, {})
    BY DEF Once
  <2> QED
    BY <2>1, <2>2, <2>3, Zenon
<1>5. TagsRight(k)
  BY <1>2, <1>3, <1>4, Zenon DEF TagsRight
<1>6. NoneMissed(k)
  BY <1>3, Zenon DEF NoneMissed
<1> QED
  BY <1>5, <1>6 DEF WaitInv

LEMMA NextWaitInv == WaitInv /\ [Next]_vars => WaitInv'
<1> SUFFICES ASSUME WaitInv, [Next]_vars PROVE WaitInv'
  OBVIOUS
<1>0. TagsRight(k) /\ NoneMissed(k) /\ k \in States
  BY Zenon DEF WaitInv, TagsRight
<1>woke. ASSUME NEW t \in Threads, NEW G, NEW error, Woke(k, k', t, G, error) PROVE WaitInv'
  <2>1. TagsRight(k')
    BY <1>0, <1>woke, WokeTags, Zenon
  <2>2. NoneMissed(k')
    BY <1>0, <1>woke, WokeMissesNobody, Zenon
  <2> QED
    BY <2>1, <2>2, Zenon DEF WaitInv
<1>queued. ASSUME NEW t \in Threads, ~k.waiting[t], NEW S \in SUBSET Objects, NEW flags, NEW timed,
             ~Satisfied(k, flags, S), Queued(k, k', t, S, flags, timed)
      PROVE  WaitInv'
  <2>1. TagsRight(k') /\ NoneMissed(k')
    BY <1>0, <1>queued, QueuedRight, Zenon
  <2> QED
    BY <2>1, Zenon DEF WaitInv
<1>refilled. ASSUME NEW m, NEW e, NEW n, Refilled(k, m, e, n), TagsRight(m) PROVE NoneMissed(m)
  <2>1. /\ m.fSignalled = k.fSignalled /\ m.fFlags = k.fFlags
        /\ m.objects = k.objects /\ m.waiting = k.waiting
    BY <1>refilled, Zenon DEF Refilled
  <2> QED
    BY <1>0, <2>1, Zenon DEF NoneMissed, Satisfied
<1>1. ASSUME NEW t \in Threads, NEW o \in Objects, NEW timed \in BOOLEAN, Wait(t, o, timed)
      PROVE  WaitInv'
  <2>1. /\ ~k.waiting[t]
        /\ \/ Woke(k, k', t, {o}, "ok")
           \/ ~k.fSignalled[o] /\ Queued(k, k', t, {o}, WAIT_FOR_ONE, timed)
    BY <1>0, <1>1, WaitDoes, Zenon
  <2>2. CASE Woke(k, k', t, {o}, "ok")
    BY <2>2, <1>woke, Zenon
  <2>3. CASE ~k.fSignalled[o] /\ Queued(k, k', t, {o}, WAIT_FOR_ONE, timed)
    <3>1. {o} \in SUBSET Objects /\ ~Satisfied(k, WAIT_FOR_ONE, {o})
      BY <2>3, FlagsDiffer DEF Satisfied
    <3> QED
      BY <2>1, <2>3, <3>1, <1>queued, Zenon
  <2> QED
    BY <2>1, <2>2, <2>3
<1>2. ASSUME NEW t \in Threads, NEW S \in SUBSET Objects, NEW flags \in MultipleFlags,
             NEW timed \in BOOLEAN, WaitForMultiple(t, S, flags, timed)
      PROVE  WaitInv'
  <2>1. /\ ~k.waiting[t]
        /\ \/ Woke(k, k', t, S, "ok")
           \/ ~Satisfied(k, flags, S) /\ Queued(k, k', t, S, flags, timed)
    BY <1>0, <1>2, WaitForMultipleDoes, Zenon
  <2> QED
    BY <2>1, <1>woke, <1>queued, Zenon
<1>3. ASSUME NEW e \in Semaphores, NEW n \in 1..MaxCount, Release(e, n)
      PROVE  WaitInv'
  <2>1. CASE \E m, b : Refilled(k, m, e, n) /\ TagsRight(m) /\ Signals(m, k', e, b)
    <3>1. PICK m, b : Refilled(k, m, e, n) /\ TagsRight(m) /\ Signals(m, k', e, b)
      BY <2>1
    <3>2. NoneMissed(m) /\ e \in Objects
      BY <3>1, <1>refilled, Zenon DEF Objects
    <3>3. TagsRight(k') /\ NoneMissed(k')
      BY <3>1, <3>2, SignalMissesNobody, Zenon
    <3> QED
      BY <3>3, Zenon DEF WaitInv
  <2>2. CASE Refilled(k, k', e, n)
    <3>1. TagsRight(k')
      <4>1. /\ k' \in States /\ k'.fTags = k.fTags /\ k'.objects = k.objects
            /\ k'.timer = k.timer /\ k'.waiting = k.waiting
        BY <2>2, Zenon DEF Refilled
      <4> QED
        BY <1>0, <4>1, Zenon DEF TagsRight, WaitersOf
    <3>2. NoneMissed(k')
      BY <2>2, <3>1, <1>refilled, Zenon
    <3> QED
      BY <3>1, <3>2, Zenon DEF WaitInv
  <2> QED
    BY <1>0, <1>3, <2>1, <2>2, ReleaseDoes, Zenon
<1>4. ASSUME NEW t \in Threads, NEW m \in Mutexes, Unlock(t, m) PROVE WaitInv'
  <2>1. PICK b : Signals(k, k', m, b)
    BY <1>0, <1>4, UnlockDoes, Zenon
  <2>2. m \in Objects
    BY DEF Objects
  <2>3. TagsRight(k') /\ NoneMissed(k')
    BY <1>0, <2>1, <2>2, SignalMissesNobody, Zenon
  <2> QED
    BY <2>3, Zenon DEF WaitInv
<1>5. ASSUME NEW t \in Threads, HandleTimeout(t) PROVE WaitInv'
  BY <1>0, <1>5, <1>woke, HandleTimeoutDoes, Zenon
<1>6. CASE UNCHANGED vars
  BY <1>0, <1>6, Zenon DEF vars, WaitInv
<1> QED
  BY <1>1, <1>2, <1>3, <1>4, <1>5, <1>6, Zenon DEF Next

LEMMA SpecWaitInv == Spec => []WaitInv
<1>1. Init => WaitInv
  BY InitWaitInv
<1>2. WaitInv /\ [Next]_vars => WaitInv'
  BY NextWaitInv
<1> QED
  BY <1>1, <1>2, PTL DEF Spec

\* Whatever flags the waits for several objects have, no thread sleeps although
\* the objects that it waits for are signalled: what Release, Signal, a timeout
\* and a thread that does not block leave is less than some waiter wants.
THEOREM SynchronizationNoLostWakeup == Spec => []NoLostWakeup
<1>1. WaitInv => NoLostWakeup
  BY Zenon DEF WaitInv, NoneMissed, NoLostWakeup, Waiting
<1> QED
  BY <1>1, SpecWaitInv, PTL

\* The tags of an event, which are on the stack of the waiting thread, are in
\* the queues of its objects once each while the thread waits and in none when
\* WaitInternal returns, and its timer is not pending then.
THEOREM SynchronizationTagsLive == Spec => []TagsLiveAsLongAsTheWait
<1>1. WaitInv => TagsLiveAsLongAsTheWait
  <2> SUFFICES ASSUME WaitInv PROVE TagsLiveAsLongAsTheWait
    OBVIOUS
  <2>1. ASSUME NEW t \in Threads, NEW o \in Objects
        PROVE  Cardinality({i \in 1..Len(k.fTags[o]) : k.fTags[o][i] = t})
                 = IF k.waiting[t] /\ o \in k.objects[t] THEN 1 ELSE 0
    <3>1. Once(k.fTags[o], WaitersOf(k, o))
      BY Zenon DEF WaitInv, TagsRight
    <3>2. CASE k.waiting[t] /\ o \in k.objects[t]
      <4>1. t \in WaitersOf(k, o)
        BY <3>2, Zenon DEF WaitersOf
      <4>2. Cardinality({i \in 1..Len(k.fTags[o]) : k.fTags[o][i] = t}) = 1
        BY <3>1, <4>1, OnceCount, Zenon
      <4> QED
        BY <3>2, <4>2, Zenon
    <3>3. CASE ~(k.waiting[t] /\ o \in k.objects[t])
      <4>1. t \notin WaitersOf(k, o)
        BY <3>3, Zenon DEF WaitersOf
      <4>2. Cardinality({i \in 1..Len(k.fTags[o]) : k.fTags[o][i] = t}) = 0
        BY <3>1, <4>1, OnceCount, Zenon
      <4> QED
        BY <3>3, <4>2, Zenon
    <3> QED
      BY <3>2, <3>3
  <2>2. \A t \in Threads : k.timer[t] => k.waiting[t]
    BY Zenon DEF WaitInv, TagsRight
  <2> QED
    BY <2>1, <2>2, Zenon DEF TagsLiveAsLongAsTheWait
<1> QED
  BY <1>1, SpecWaitInv, PTL

-----------------------------------------------------------------------------
(* What the threads are told. *)

\* Who waits keeps its flags and objects, and nobody else begins to.
LEMMA FlagsKept ==
  ASSUME NEW s, FlagsRight(s), NEW n, n.fFlags = s.fFlags, n.objects = s.objects,
         \A t \in Threads : n.waiting[t] => s.waiting[t]
  PROVE  FlagsRight(n)
BY Zenon DEF FlagsRight

\* A thread takes what is signalled and is told so.
LEMMA TakenGranted ==
  ASSUME GrantInv, NEW t \in Threads, NEW G \in SUBSET Objects, NEW error,
         \A p \in G : k.fSignalled[p], Woke(k, k', t, G, error), Immediately(t, G)
  PROVE  Granted'
<1>1. /\ k'.fFlags = k.fFlags /\ k'.objects = k.objects
      /\ \A u \in Threads : k'.waiting[u] => k.waiting[u]
  BY Zenon DEF Woke, Returned
<1>2. FlagsRight(k')
  BY <1>1, FlagsKept, Zenon DEF GrantInv, Granted
<1>3. /\ \A e \in Semaphores : /\ e \in G => k'.fCount[e] = k.fCount[e] - 1
                               /\ e \notin G => k'.fCount[e] = k.fCount[e]
      /\ \A p \in Objects :
           k'.fSignalled[p] <=> k.fSignalled[p] /\ (p \in G => p \in Semaphores /\ k.fCount[p] # 1)
  BY Zenon DEF Woke
<1>4. /\ \A e \in Semaphores : k.fCount[e] >= 0 /\ (k.fSignalled[e] <=> k.fCount[e] > 0)
      /\ owner \in [Mutexes -> Threads \cup {None}]
      /\ owed \in [Semaphores -> 0..MaxCount]
      /\ \A e \in Semaphores : k.fCount[e] = owed[e]
      /\ \A m \in Mutexes : k.fSignalled[m] <=> owner[m] = None
  BY Zenon DEF GrantInv, Granted, CountsRight, MutexHeld
<1>5. /\ owner' = [m \in Mutexes |-> IF m \in G THEN t ELSE owner[m]]
      /\ owed' = [e \in Semaphores |-> IF e \in G THEN owed[e] - 1 ELSE owed[e]]
  BY Zenon DEF Immediately
<1>6. MaxCount \in Nat /\ None \notin Threads /\ Semaphores \cap Mutexes = {}
  BY SynchronizationAssumption
<1>7. ASSUME NEW e \in Semaphores
      PROVE  /\ owed'[e] \in 0..MaxCount
             /\ k'.fCount[e] = owed'[e]
             /\ k'.fCount[e] >= 0 /\ (k'.fSignalled[e] <=> k'.fCount[e] > 0)
  <2>1. e \in Objects
    BY DEF Objects
  <2>2. /\ owed[e] \in 0..MaxCount /\ k.fCount[e] = owed[e]
        /\ k.fSignalled[e] <=> k.fCount[e] > 0
    BY <1>4
  <2>3. k'.fSignalled[e] <=> k.fSignalled[e] /\ (e \in G => k.fCount[e] # 1)
    BY <1>3, <2>1, Zenon
  <2>4. CASE e \in G
    <3>1. owed'[e] = owed[e] - 1 /\ k'.fCount[e] = k.fCount[e] - 1
      BY <1>3, <1>5, <2>4
    <3>2. k.fCount[e] > 0
      BY <2>2, <2>4, Zenon
    <3> QED
      BY <1>6, <2>2, <2>3, <2>4, <3>1, <3>2
  <2>5. CASE e \notin G
    <3>1. owed'[e] = owed[e] /\ k'.fCount[e] = k.fCount[e]
      BY <1>3, <1>5, <2>5
    <3> QED
      BY <1>6, <2>2, <2>3, <2>5, <3>1
  <2> QED
    BY <2>4, <2>5
<1>8. ASSUME NEW m \in Mutexes
      PROVE  /\ owner'[m] \in Threads \cup {None}
             /\ k'.fSignalled[m] <=> owner'[m] = None
  <2>1. m \in Objects /\ m \notin Semaphores
    BY <1>6 DEF Objects
  <2>2. k'.fSignalled[m] <=> k.fSignalled[m] /\ m \notin G
    BY <1>3, <2>1, Zenon
  <2>3. owner'[m] = IF m \in G THEN t ELSE owner[m]
    BY <1>5
  <2>4. owner[m] \in Threads \cup {None} /\ t # None
    BY <1>4, <1>6
  <2>5. k.fSignalled[m] <=> owner[m] = None
    BY <1>4, Zenon
  <2> QED
    BY <2>2, <2>3, <2>4, <2>5, Zenon
<1>9. /\ owner' \in [Mutexes -> Threads \cup {None}]
      /\ owed' \in [Semaphores -> 0..MaxCount]
  BY <1>5, <1>7, <1>8
<1>10. CountsRight(k')
  BY <1>7, Zenon DEF CountsRight
<1>11. MutexHeld'
  BY <1>8, Zenon DEF MutexHeld
<1> QED
  BY <1>2, <1>7, <1>9, <1>10, <1>11, Zenon DEF Granted

\* A thread that waits, or gives up, takes nothing.
LEMMA NothingGranted ==
  ASSUME GrantInv, FlagsRight(k'), UNCHANGED <<owner, owed>>,
         \A e \in Semaphores : k'.fCount[e] = k.fCount[e],
         \A p \in Objects : k'.fSignalled[p] <=> k.fSignalled[p]
  PROVE  Granted'
<1>1. \A p : p \in Semaphores \/ p \in Mutexes => p \in Objects
  BY DEF Objects
<1>2. CountsRight(k')
  BY <1>1, Zenon DEF GrantInv, Granted, CountsRight
<1>3. MutexHeld'
  BY <1>1, Zenon DEF GrantInv, Granted, MutexHeld
<1> QED
  BY <1>2, <1>3, Zenon DEF GrantInv, Granted

\* Who returns from its wait with success is who was woken by the loop.
LEMMA ToldIsGone ==
  ASSUME NEW s, s.waiting = k.waiting, s.fFlags = k.fFlags, s.objects = k.objects,
         NEW o, NEW b, Signals(s, k', o, b)
  PROVE  /\ Told(k, k') = Gone(b, k')
         /\ \A t : Got(k, t, o) = Got(b, t, o)
         /\ k'.fFlags = k.fFlags /\ k'.objects = k.objects
         /\ \A t \in Threads : k'.waiting[t] => k.waiting[t]
<1>1. /\ b.waiting = k.waiting /\ b.fFlags = k.fFlags /\ b.objects = k.objects
      /\ k'.fFlags = b.fFlags /\ k'.objects = b.objects
      /\ \A t \in Threads : k'.waiting[t] => b.waiting[t]
      /\ \A t \in Gone(b, k') : k'.fWakeError[t] = "ok"
  BY Zenon DEF Signals, Lit, Loop
<1>2. Told(k, k') = Gone(b, k')
  BY <1>1, Zenon DEF Told, Gone
<1>3. \A t : Got(k, t, o) = Got(b, t, o)
  BY <1>1, Zenon DEF Got
<1> QED
  BY <1>1, <1>2, <1>3, Zenon

\* A signal gives out what was there and what came with it, each token and each
\* mutex to one that was woken.
LEMMA SignalGranted ==
  ASSUME GrantInv, NEW o \in Objects, NEW free, NEW given \in [Semaphores -> Nat],
         \A e \in Semaphores : k.fCount[e] + given[e] <= MaxCount,
         \A e \in Semaphores : given[e] > 0 => e = o,
         o \in Semaphores => given[o] > 0,
         \A m \in Mutexes : m \in free <=> m = o,
         NEW s, s.waiting = k.waiting, s.fFlags = k.fFlags, s.objects = k.objects,
         s.fSignalled = k.fSignalled,
         \A e \in Semaphores : s.fCount[e] = k.fCount[e] + given[e],
         NEW b, Signals(s, k', o, b), Account(k, k', o, free, given)
  PROVE  Granted'
<1>1. /\ Told(k, k') = Gone(b, k')
      /\ \A t : Got(k, t, o) = Got(b, t, o)
      /\ k'.fFlags = k.fFlags /\ k'.objects = k.objects
      /\ \A t \in Threads : k'.waiting[t] => k.waiting[t]
  BY ToldIsGone, Zenon
<1>2. FlagsRight(k')
  BY <1>1, FlagsKept, Zenon DEF GrantInv, Granted
<1>3. /\ \A e \in Semaphores : k.fCount[e] >= 0 /\ (k.fSignalled[e] <=> k.fCount[e] > 0)
      /\ owner \in [Mutexes -> Threads \cup {None}]
      /\ owed \in [Semaphores -> 0..MaxCount]
      /\ \A e \in Semaphores : k.fCount[e] = owed[e]
      /\ \A m \in Mutexes : k.fSignalled[m] <=> owner[m] = None
  BY Zenon DEF GrantInv, Granted, CountsRight, MutexHeld
<1>4. /\ b.fCount = s.fCount
      /\ \A p \in Objects : b.fSignalled[p] <=> k.fSignalled[p] \/ p = o
      /\ CountsRight(b) => Accounted(b, k', o)
  BY Zenon DEF Signals, Lit
<1>5. MaxCount \in Nat /\ None \notin Threads /\ Semaphores \cap Mutexes = {}
  BY SynchronizationAssumption
<1>6. \A e \in Semaphores : given[e] \in Nat /\ owed[e] \in Nat
  BY <1>3, <1>5
<1>7. CountsRight(b)
  <2> SUFFICES ASSUME NEW e \in Semaphores
               PROVE  b.fCount[e] >= 0 /\ (b.fSignalled[e] <=> b.fCount[e] > 0)
    BY Zenon DEF CountsRight
  <2>1. e \in Objects
    BY DEF Objects
  <2>2. b.fCount[e] = owed[e] + given[e]
    BY <1>3, <1>4, Zenon
  <2>3. k.fSignalled[e] <=> owed[e] > 0
    BY <1>3, Zenon
  <2>4. b.fSignalled[e] <=> k.fSignalled[e] \/ e = o
    BY <1>4, <2>1, Zenon
  <2>5. given[e] > 0 <=> e = o
    BY <1>6
  <2> QED
    BY <1>6, <2>2, <2>3, <2>4, <2>5
<1>8. /\ CountsRight(k')
      /\ IsFiniteSet(Gone(b, k'))
      /\ \A e \in Semaphores :
           k'.fCount[e] = b.fCount[e] - Cardinality({t \in Gone(b, k') : e \in Got(b, t, o)})
      /\ \A m \in Mutexes :
           k'.fSignalled[m] <=> b.fSignalled[m] /\ \A t \in Gone(b, k') : m \notin Got(b, t, o)
  BY <1>4, <1>7, Zenon DEF Accounted
<1>9. ASSUME NEW e \in Semaphores
      PROVE  owed'[e] \in 0..MaxCount /\ k'.fCount[e] = owed'[e]
  <2> DEFINE T == {t \in Gone(b, k') : e \in Got(b, t, o)}
  <2>1. {t \in Told(k, k') : e \in Got(k, t, o)} = T
    BY <1>1
  <2>2. T \in SUBSET Gone(b, k')
    OBVIOUS
  <2>3. owed' = [f \in Semaphores |->
                   owed[f] + given[f] - Cardinality({t \in Told(k, k') : f \in Got(k, t, o)})]
    BY Zenon DEF Account
  <2>4. owed'[e] = owed[e] + given[e] - Cardinality({t \in Told(k, k') : e \in Got(k, t, o)})
    BY <2>3, Zenon
  <2>5. k'.fCount[e] = b.fCount[e] - Cardinality(T)
    BY <1>8, Zenon
  <2> HIDE DEF T
  <2>6. Cardinality(T) \in Nat
    BY <1>8, <2>2, FS_Subset, FS_CardinalityType, Zenon
  <2>7. owed'[e] = owed[e] + given[e] - Cardinality(T)
    BY <2>1, <2>4, Zenon
  <2>8. b.fCount[e] = owed[e] + given[e] /\ owed[e] + given[e] <= MaxCount
    BY <1>3, <1>4, Zenon
  <2>9. k'.fCount[e] >= 0
    BY <1>8, Zenon DEF CountsRight
  <2> QED
    BY <1>5, <1>6, <2>5, <2>6, <2>7, <2>8, <2>9
<1>10. ASSUME NEW m \in Mutexes
       PROVE  /\ owner'[m] \in Threads \cup {None}
              /\ k'.fSignalled[m] <=> owner'[m] = None
  <2> DEFINE w == CHOOSE t \in Told(k, k') : m \in Got(k, t, o)
  <2>1. m \in Objects
    BY DEF Objects
  <2>2. owner' = [l \in Mutexes |->
                    IF \E t \in Told(k, k') : l \in Got(k, t, o)
                      THEN CHOOSE t \in Told(k, k') : l \in Got(k, t, o)
                      ELSE IF l \in free THEN None ELSE owner[l]]
    BY Zenon DEF Account
  <2>3. owner'[m] = IF \E t \in Told(k, k') : m \in Got(k, t, o)
                      THEN w ELSE IF m \in free THEN None ELSE owner[m]
    BY <2>2, Zenon
  <2>4. k'.fSignalled[m] <=>
          (k.fSignalled[m] \/ m = o) /\ \A t \in Told(k, k') : m \notin Got(k, t, o)
    <3>1. b.fSignalled[m] <=> k.fSignalled[m] \/ m = o
      BY <1>4, <2>1, Zenon
    <3>2. k'.fSignalled[m] <=> b.fSignalled[m] /\ \A t \in Gone(b, k') : m \notin Got(b, t, o)
      BY <1>8, Zenon
    <3>3. (\A t \in Told(k, k') : m \notin Got(k, t, o))
            <=> \A t \in Gone(b, k') : m \notin Got(b, t, o)
      BY <1>1
    <3> QED
      BY <3>1, <3>2, <3>3, Zenon
  <2>5. CASE \E t \in Told(k, k') : m \in Got(k, t, o)
    <3>1. w \in Told(k, k')
      BY <2>5, Zenon
    <3>2. w \in Threads
      BY <3>1, Zenon DEF Told
    <3>3. owner'[m] = w
      BY <2>3, <2>5, Zenon
    <3>4. ~k'.fSignalled[m]
      BY <2>4, <2>5, Zenon
    <3> HIDE DEF w
    <3> QED
      BY <1>5, <3>2, <3>3, <3>4
  <2>6. CASE ~ \E t \in Told(k, k') : m \in Got(k, t, o)
    <3>1. owner'[m] = IF m \in free THEN None ELSE owner[m]
      BY <2>3, <2>6, Zenon
    <3>2. k'.fSignalled[m] <=> k.fSignalled[m] \/ m = o
      BY <2>4, <2>6, Zenon
    <3>3. k.fSignalled[m] <=> owner[m] = None
      BY <1>3, Zenon
    <3>4. owner[m] \in Threads \cup {None} /\ (m \in free <=> m = o)
      BY <1>3
    <3> QED
      BY <3>1, <3>2, <3>3, <3>4
  <2> QED
    BY <2>5, <2>6
<1>11. /\ owner' \in [Mutexes -> Threads \cup {None}]
       /\ owed' \in [Semaphores -> 0..MaxCount]
  <2>1. owner' = [m \in Mutexes |-> owner'[m]] /\ owed' = [e \in Semaphores |-> owed'[e]]
    BY DEF Account
  <2> QED
    BY <1>9, <1>10, <2>1
<1>12. MutexHeld'
  BY <1>10, Zenon DEF MutexHeld
<1> QED
  BY <1>2, <1>8, <1>9, <1>11, <1>12, Zenon DEF Granted

\* Tokens that nobody is woken for: the semaphore had some, so nobody waits.
LEMMA RefillGranted ==
  ASSUME GrantInv, NEW e \in Semaphores, NEW n \in Nat, k.fCount[e] # 0,
         k.fCount[e] + n <= MaxCount,
         Refilled(k, k', e, n), Account(k, k', e, {}, [Nothing EXCEPT ![e] = n])
  PROVE  Granted'
<1>1. /\ k'.fFlags = k.fFlags /\ k'.objects = k.objects /\ k'.waiting = k.waiting
      /\ k'.fSignalled = k.fSignalled
      /\ k'.fCount[e] = k.fCount[e] + n
      /\ \A p \in Semaphores : p # e => k'.fCount[p] = k.fCount[p]
  BY Zenon DEF Refilled
<1>2. FlagsRight(k')
  BY <1>1, FlagsKept, Zenon DEF GrantInv, Granted
<1>3. /\ \A p \in Semaphores : k.fCount[p] >= 0 /\ (k.fSignalled[p] <=> k.fCount[p] > 0)
      /\ owner \in [Mutexes -> Threads \cup {None}]
      /\ owed \in [Semaphores -> 0..MaxCount]
      /\ \A p \in Semaphores : k.fCount[p] = owed[p]
      /\ \A m \in Mutexes : k.fSignalled[m] <=> owner[m] = None
  BY Zenon DEF GrantInv, Granted, CountsRight, MutexHeld
<1>4. Told(k, k') = {}
  BY <1>1, Zenon DEF Told
<1>5. owner' = owner
  <2>1. owner' = [m \in Mutexes |-> owner[m]]
    BY <1>4 DEF Account
  <2> QED
    BY <1>3, <2>1
<1>6. \A p \in Semaphores : owed'[p] = owed[p] + [Nothing EXCEPT ![e] = n][p]
  <2> TAKE p \in Semaphores
  <2>1. owed'[p] = owed[p] + [Nothing EXCEPT ![e] = n][p]
                     - Cardinality({t \in Told(k, k') : p \in Got(k, t, e)})
    BY DEF Account
  <2>2. {t \in Told(k, k') : p \in Got(k, t, e)} = {}
    BY <1>4, Zenon
  <2>3. Cardinality({t \in Told(k, k') : p \in Got(k, t, e)}) = 0
    BY <2>2, FS_EmptySet, Zenon
  <2>4. owed[p] \in Nat /\ [Nothing EXCEPT ![e] = n][p] \in Nat
    BY <1>3, SynchronizationAssumption DEF Nothing
  <2> QED
    BY <2>1, <2>3, <2>4
<1>7. [Nothing EXCEPT ![e] = n][e] = n /\ \A p \in Semaphores : p # e => [Nothing EXCEPT ![e] = n][p] = 0
  BY DEF Nothing
<1>8. ASSUME NEW p \in Semaphores
      PROVE  /\ owed'[p] \in 0..MaxCount /\ k'.fCount[p] = owed'[p]
             /\ k'.fCount[p] >= 0 /\ (k'.fSignalled[p] <=> k'.fCount[p] > 0)
  <2>1. /\ owed[p] \in 0..MaxCount /\ MaxCount \in Nat /\ k.fCount[p] = owed[p]
        /\ k.fSignalled[p] <=> k.fCount[p] > 0
    BY <1>3, SynchronizationAssumption
  <2>2. CASE p = e
    <3>1. owed'[p] = owed[p] + n
      BY <1>6, <1>7, <2>2, Zenon
    <3>2. k'.fCount[p] = k.fCount[p] + n /\ k.fCount[p] # 0 /\ k.fCount[p] + n <= MaxCount
      BY <1>1, <2>2, Zenon
    <3> QED
      BY <1>1, <2>1, <3>1, <3>2
  <2>3. CASE p # e
    <3>1. owed'[p] = owed[p] + 0
      BY <1>6, <1>7, <2>3, Zenon
    <3>2. k'.fCount[p] = k.fCount[p]
      BY <1>1, <2>3, Zenon
    <3> QED
      BY <1>1, <2>1, <3>1, <3>2
  <2> QED
    BY <2>2, <2>3
<1>9. owed' \in [Semaphores -> 0..MaxCount]
  <2>1. owed' = [p \in Semaphores |-> owed'[p]]
    BY DEF Account
  <2> QED
    BY <1>8, <2>1
<1>10. MutexHeld'
  BY <1>1, <1>3, <1>5, Zenon DEF MutexHeld
<1>11. CountsRight(k')
  BY <1>8, Zenon DEF CountsRight
<1> QED
  BY <1>2, <1>3, <1>5, <1>8, <1>9, <1>10, <1>11, Zenon DEF Granted

LEMMA InitGrantInv == Init => GrantInv
<1> SUFFICES ASSUME Init PROVE Granted
  BY InitWaitInv DEF GrantInv
<1>1. /\ k.fSignalled = [o \in Objects |-> o \in Mutexes \/ InitialCount[o] > 0]
      /\ k.fCount = InitialCount
      /\ k.waiting = [t \in Threads |-> FALSE]
      /\ owner = [m \in Mutexes |-> None]
      /\ owed = InitialCount
  BY DEF Init
<1>2. /\ InitialCount \in [Semaphores -> 0..MaxCount] /\ MaxCount \in Nat
      /\ Semaphores \cap Mutexes = {}
  BY SynchronizationAssumption
<1>3. CountsRight(k)
  <2> SUFFICES ASSUME NEW e \in Semaphores
               PROVE  k.fCount[e] >= 0 /\ (k.fSignalled[e] <=> k.fCount[e] > 0)
    BY Zenon DEF CountsRight
  <2>1. e \in Objects /\ e \notin Mutexes
    BY <1>2 DEF Objects
  <2>2. k.fSignalled[e] <=> e \in Mutexes \/ InitialCount[e] > 0
    BY <1>1, <2>1, Zenon
  <2>3. k.fCount[e] = InitialCount[e] /\ InitialCount[e] \in 0..MaxCount
    BY <1>1, <1>2
  <2>4. k.fSignalled[e] <=> k.fCount[e] > 0
    BY <2>1, <2>2, <2>3, Zenon
  <2> QED
    BY <1>2, <2>3, <2>4
<1>4. FlagsRight(k)
  <2>1. \A t \in Threads : ~k.waiting[t]
    BY <1>1
  <2> QED
    BY <2>1, Zenon DEF FlagsRight
<1>5. /\ owner \in [Mutexes -> Threads \cup {None}]
      /\ owed \in [Semaphores -> 0..MaxCount]
      /\ \A e \in Semaphores : k.fCount[e] = owed[e]
  BY <1>1, <1>2
<1>6. MutexHeld
  BY <1>1 DEF MutexHeld, Objects
<1> QED
  BY <1>3, <1>4, <1>5, <1>6, Zenon DEF Granted

LEMMA WaitGrants ==
  ASSUME GrantInv, NEW t \in Threads, NEW o \in Objects, NEW timed \in BOOLEAN, Wait(t, o, timed)
  PROVE  Granted'
<1>1. /\ ~k.waiting[t]
      /\ \/ k.fSignalled[o] /\ Woke(k, k', t, {o}, "ok") /\ Immediately(t, {o})
         \/ /\ ~k.fSignalled[o] /\ Queued(k, k', t, {o}, WAIT_FOR_ONE, timed)
            /\ UNCHANGED <<owner, owed>>
  BY WaitDoes, Zenon DEF GrantInv, WaitInv
<1>2. CASE k.fSignalled[o] /\ Woke(k, k', t, {o}, "ok") /\ Immediately(t, {o})
  <2>1. {o} \in SUBSET Objects /\ \A p \in {o} : k.fSignalled[p]
    BY <1>2
  <2> QED
    BY <1>2, <2>1, TakenGranted, Zenon
<1>3. CASE /\ ~k.fSignalled[o] /\ Queued(k, k', t, {o}, WAIT_FOR_ONE, timed)
           /\ UNCHANGED <<owner, owed>>
  <2>1. /\ k'.fFlags[t] = WAIT_FOR_ONE /\ k'.objects[t] = {o}
        /\ \A u \in Threads : u # t => /\ k'.fFlags[u] = k.fFlags[u]
                                       /\ k'.objects[u] = k.objects[u]
                                       /\ k'.waiting[u] = k.waiting[u]
        /\ k'.fCount = k.fCount /\ k'.fSignalled = k.fSignalled
    BY <1>3, Zenon DEF Queued
  <2>2. FlagsRight(k')
    <3> SUFFICES ASSUME NEW u \in Threads, k'.waiting[u]
                 PROVE  \/ /\ k'.fFlags[u] = WAIT_FOR_ONE
                           /\ \E p \in Objects : k'.objects[u] = {p}
                        \/ k'.fFlags[u] = WAIT_FOR_ALL /\ Cardinality(k'.objects[u]) = 2
      BY Zenon DEF FlagsRight
    <3>1. CASE u = t
      BY <2>1, <3>1, Zenon
    <3>2. CASE u # t
      <4>1. k.waiting[u] /\ FlagsRight(k)
        BY <2>1, <3>2, Zenon DEF GrantInv, Granted
      <4>2. \/ k.fFlags[u] = WAIT_FOR_ONE /\ \E p \in Objects : k.objects[u] = {p}
            \/ k.fFlags[u] = WAIT_FOR_ALL /\ Cardinality(k.objects[u]) = 2
        BY <4>1, Zenon DEF FlagsRight
      <4>3. k'.fFlags[u] = k.fFlags[u] /\ k'.objects[u] = k.objects[u]
        BY <2>1, <3>2, Zenon
      <4> QED
        BY <4>2, <4>3, Zenon
    <3> QED
      BY <3>1, <3>2
  <2> QED
    BY <1>3, <2>1, <2>2, NothingGranted, Zenon
<1> QED
  BY <1>1, <1>2, <1>3, Zenon

LEMMA WaitForMultipleGrants ==
  ASSUME GrantInv, WAIT_FOR_ONE \notin MultipleFlags,
         NEW t \in Threads, NEW S \in SUBSET Objects, Cardinality(S) = 2,
         NEW flags \in MultipleFlags, NEW timed \in BOOLEAN, WaitForMultiple(t, S, flags, timed)
  PROVE  Granted'
<1>0. flags = WAIT_FOR_ALL
  BY SynchronizationAssumption, Zenon
<1>1. /\ ~k.waiting[t]
      /\ \/ /\ Satisfied(k, flags, S) /\ Woke(k, k', t, S, "ok")
            /\ flags = WAIT_FOR_ALL => Immediately(t, S)
         \/ /\ ~Satisfied(k, flags, S) /\ Queued(k, k', t, S, flags, timed)
            /\ UNCHANGED <<owner, owed>>
  BY WaitForMultipleDoes, Zenon DEF GrantInv, WaitInv
<1>2. CASE Satisfied(k, flags, S) /\ Woke(k, k', t, S, "ok") /\ Immediately(t, S)
  <2>1. \A p \in S : k.fSignalled[p]
    BY <1>0, <1>2, Zenon DEF Satisfied
  <2> QED
    BY <1>2, <2>1, TakenGranted, Zenon
<1>3. CASE /\ Queued(k, k', t, S, flags, timed)
           /\ UNCHANGED <<owner, owed>>
  <2>1. /\ k'.fFlags[t] = WAIT_FOR_ALL /\ k'.objects[t] = S
        /\ \A u \in Threads : u # t => /\ k'.fFlags[u] = k.fFlags[u]
                                       /\ k'.objects[u] = k.objects[u]
                                       /\ k'.waiting[u] = k.waiting[u]
        /\ k'.fCount = k.fCount /\ k'.fSignalled = k.fSignalled
    BY <1>0, <1>3, Zenon DEF Queued
  <2>2. FlagsRight(k')
    <3> SUFFICES ASSUME NEW u \in Threads, k'.waiting[u]
                 PROVE  \/ /\ k'.fFlags[u] = WAIT_FOR_ONE
                           /\ \E p \in Objects : k'.objects[u] = {p}
                        \/ k'.fFlags[u] = WAIT_FOR_ALL /\ Cardinality(k'.objects[u]) = 2
      BY Zenon DEF FlagsRight
    <3>1. CASE u = t
      BY <2>1, <3>1, Zenon
    <3>2. CASE u # t
      <4>1. k.waiting[u] /\ FlagsRight(k)
        BY <2>1, <3>2, Zenon DEF GrantInv, Granted
      <4>2. \/ k.fFlags[u] = WAIT_FOR_ONE /\ \E p \in Objects : k.objects[u] = {p}
            \/ k.fFlags[u] = WAIT_FOR_ALL /\ Cardinality(k.objects[u]) = 2
        BY <4>1, Zenon DEF FlagsRight
      <4>3. k'.fFlags[u] = k.fFlags[u] /\ k'.objects[u] = k.objects[u]
        BY <2>1, <3>2, Zenon
      <4> QED
        BY <4>2, <4>3, Zenon
    <3> QED
      BY <3>1, <3>2
  <2> QED
    BY <1>3, <2>1, <2>2, NothingGranted, Zenon
<1> QED
  BY <1>0, <1>1, <1>2, <1>3, Zenon

LEMMA ReleaseGrants ==
  ASSUME GrantInv, NEW e \in Semaphores, NEW n \in 1..MaxCount, Release(e, n)
  PROVE  Granted'
<1>1. TagsRight(k) /\ owed \in [Semaphores -> 0..MaxCount] /\ \A p \in Semaphores : k.fCount[p] = owed[p]
  BY Zenon DEF GrantInv, WaitInv, Granted
<1> DEFINE given == [Nothing EXCEPT ![e] = n]
<1>2. /\ k.fCount[e] + n <= MaxCount
      /\ Account(k, k', e, {}, given)
  BY Zenon DEF Release
<1>3. n \in Nat /\ n > 0 /\ MaxCount \in Nat /\ e \in Objects /\ Semaphores \cap Mutexes = {}
  BY SynchronizationAssumption DEF Objects
<1>4. /\ given \in [Semaphores -> Nat]
      /\ given[e] = n /\ \A p \in Semaphores : p # e => given[p] = 0
  BY <1>3 DEF Nothing
<1> HIDE DEF given
<1>5. CASE k.fCount[e] # 0 /\ Refilled(k, k', e, n)
  BY <1>2, <1>3, <1>5, RefillGranted, Zenon DEF given
<1>6. CASE k.fCount[e] = 0 /\ \E m, b : Refilled(k, m, e, n) /\ TagsRight(m) /\ Signals(m, k', e, b)
  <2>1. PICK m, b : Refilled(k, m, e, n) /\ Signals(m, k', e, b)
    BY <1>6
  <2>2. /\ m.waiting = k.waiting /\ m.fFlags = k.fFlags /\ m.objects = k.objects
        /\ m.fSignalled = k.fSignalled
        /\ m.fCount[e] = k.fCount[e] + n
        /\ \A p \in Semaphores : p # e => m.fCount[p] = k.fCount[p]
    BY <2>1, Zenon DEF Refilled
  <2>3. \A p \in Semaphores : k.fCount[p] \in 0..MaxCount
    BY <1>1
  <2>4. \A p \in Semaphores : m.fCount[p] = k.fCount[p] + given[p]
    BY <1>3, <1>4, <2>2, <2>3
  <2>5. \A p \in Semaphores : k.fCount[p] + given[p] <= MaxCount
    BY <1>2, <1>3, <1>4, <2>3
  <2>6. \A p \in Semaphores : given[p] > 0 => p = e
    BY <1>4
  <2>7. e \in Semaphores => given[e] > 0
    BY <1>3, <1>4
  <2>8. \A l \in Mutexes : l \in {} <=> l = e
    BY <1>3
  <2> QED
    BY <1>2, <1>3, <1>4, <2>1, <2>2, <2>4, <2>5, <2>6, <2>7, <2>8, SignalGranted, Zenon
<1> QED
  BY <1>1, <1>5, <1>6, ReleaseDoes, Zenon

LEMMA UnlockGrants ==
  ASSUME GrantInv, NEW t \in Threads, NEW m \in Mutexes, Unlock(t, m)
  PROVE  Granted'
<1>1. TagsRight(k) /\ owed \in [Semaphores -> 0..MaxCount] /\ \A p \in Semaphores : k.fCount[p] = owed[p]
  BY Zenon DEF GrantInv, WaitInv, Granted
<1>2. PICK b : Signals(k, k', m, b)
  BY <1>1, UnlockDoes, Zenon
<1>3. Account(k, k', m, {m}, Nothing)
  BY Zenon DEF Unlock
<1>4. MaxCount \in Nat /\ m \in Objects /\ Semaphores \cap Mutexes = {}
  BY SynchronizationAssumption DEF Objects
<1>5. Nothing \in [Semaphores -> Nat] /\ \A p \in Semaphores : Nothing[p] = 0
  BY DEF Nothing
<1>6. \A p \in Semaphores : k.fCount[p] \in 0..MaxCount
  BY <1>1
<1>7. \A p \in Semaphores : k.fCount[p] = k.fCount[p] + Nothing[p] /\ k.fCount[p] + Nothing[p] <= MaxCount
  BY <1>4, <1>5, <1>6
<1>8. \A p \in Semaphores : Nothing[p] > 0 => p = m
  BY <1>5
<1>9. m \in Semaphores => Nothing[m] > 0
  BY <1>4
<1>10. \A l \in Mutexes : l \in {m} <=> l = m
  OBVIOUS
<1> QED
  BY <1>2, <1>3, <1>4, <1>5, <1>7, <1>8, <1>9, <1>10, SignalGranted, Zenon

LEMMA HandleTimeoutGrants ==
  ASSUME GrantInv, NEW t \in Threads, HandleTimeout(t)
  PROVE  Granted'
<1>1. Woke(k, k', t, {}, "timed out") /\ UNCHANGED <<owner, owed>>
  BY HandleTimeoutDoes, Zenon DEF GrantInv, WaitInv
<1>2. /\ k'.fFlags = k.fFlags /\ k'.objects = k.objects
      /\ \A u \in Threads : k'.waiting[u] => k.waiting[u]
      /\ \A e \in Semaphores : e \notin {} => k'.fCount[e] = k.fCount[e]
      /\ \A p \in Objects :
           k'.fSignalled[p] <=> k.fSignalled[p] /\ (p \in {} => p \in Semaphores /\ k.fCount[p] # 1)
  BY <1>1, Zenon DEF Woke, Returned
<1>3. FlagsRight(k')
  BY <1>2, FlagsKept, Zenon DEF GrantInv, Granted
<1>4. /\ \A e \in Semaphores : k'.fCount[e] = k.fCount[e]
      /\ \A p \in Objects : k'.fSignalled[p] <=> k.fSignalled[p]
  BY <1>2
<1> QED
  BY <1>1, <1>3, <1>4, NothingGranted, Zenon

LEMMA NextGrantInv ==
  ASSUME WAIT_FOR_ONE \notin MultipleFlags, GrantInv, [Next]_vars
  PROVE  GrantInv'
<1>1. WaitInv'
  BY NextWaitInv DEF GrantInv
<1>2. CASE UNCHANGED vars
  <2>1. k' = k /\ owner' = owner /\ owed' = owed
    BY <1>2 DEF vars
  <2> QED
    BY <1>1, <2>1, Zenon DEF GrantInv, Granted, MutexHeld
<1>3. ASSUME Next PROVE Granted'
  BY <1>3, WaitGrants, WaitForMultipleGrants, ReleaseGrants, UnlockGrants,
     HandleTimeoutGrants, Zenon DEF Next
<1> QED
  BY <1>1, <1>2, <1>3, Zenon DEF GrantInv

LEMMA SpecGrantInv ==
  ASSUME WAIT_FOR_ONE \notin MultipleFlags
  PROVE  Spec => []GrantInv
<1>1. Init => GrantInv
  BY InitGrantInv
<1>2. GrantInv /\ [Next]_vars => GrantInv'
  BY NextGrantInv
<1> QED
  BY <1>1, <1>2, PTL DEF Spec

\* When no wait for several objects is a wait for one of them, every token that
\* was released and that no thread was told it got is in the count of its
\* semaphore, never fewer than none, and the semaphore is signalled exactly while
\* it has some, through Release, Signal to many, waits for all and timeouts.
THEOREM SynchronizationTokens ==
  ASSUME WAIT_FOR_ONE \notin MultipleFlags
  PROVE  Spec => []TokensConserved
<1>1. GrantInv => TokensConserved
  <2> SUFFICES ASSUME GrantInv PROVE TokensConserved
    OBVIOUS
  <2>1. /\ k \in States /\ CountsRight(k)
        /\ owner \in [Mutexes -> Threads \cup {None}]
        /\ owed \in [Semaphores -> 0..MaxCount]
        /\ \A e \in Semaphores : k.fCount[e] = owed[e]
    BY Zenon DEF GrantInv, WaitInv, TagsRight, Granted
  <2>2. k.fCount \in [Semaphores -> 0..MaxCount]
    <3>1. k.fCount \in [Semaphores -> Int] /\ \A e \in Semaphores : k.fCount[e] \in 0..MaxCount
      BY <2>1, Parts
    <3> QED
      BY <3>1
  <2>3. k \in [fSignalled : [Objects -> BOOLEAN],
               fTags : [Objects -> Seq(Threads)],
               fCount : [Semaphores -> 0..MaxCount],
               fFlags : [Threads -> {WAIT_FOR_ONE, WAIT_FOR_ALL}],
               objects : [Threads -> SUBSET Objects],
               timer : [Threads -> BOOLEAN],
               waiting : [Threads -> BOOLEAN],
               fWakeError : [Threads -> {"ok", "timed out"}]]
    <3>1. PICK Count, Errors : Count = [Semaphores -> 0..MaxCount] /\ Errors = {"ok", "timed out"}
      BY Zenon
    <3>2. k.fCount \in Count
      BY <2>2, <3>1, Zenon
    <3>3. k \in [fSignalled : [Objects -> BOOLEAN],
                 fTags : [Objects -> Seq(Threads)],
                 fCount : [Semaphores -> Int],
                 fFlags : [Threads -> {WAIT_FOR_ONE, WAIT_FOR_ALL}],
                 objects : [Threads -> SUBSET Objects],
                 timer : [Threads -> BOOLEAN],
                 waiting : [Threads -> BOOLEAN],
                 fWakeError : [Threads -> Errors]]
      BY <2>1, <3>1, Zenon DEF States
    <3>4. k \in [fSignalled : [Objects -> BOOLEAN],
                 fTags : [Objects -> Seq(Threads)],
                 fCount : Count,
                 fFlags : [Threads -> {WAIT_FOR_ONE, WAIT_FOR_ALL}],
                 objects : [Threads -> SUBSET Objects],
                 timer : [Threads -> BOOLEAN],
                 waiting : [Threads -> BOOLEAN],
                 fWakeError : [Threads -> Errors]]
      BY ONLY <3>2, <3>3
    <3> QED
      BY <3>1, <3>4, Zenon
  <2>4. TypeOK
    BY <2>1, <2>3, Zenon DEF TypeOK
  <2> QED
    BY <2>1, <2>4, Zenon DEF TokensConserved, CountsRight
<1> QED
  BY <1>1, SpecGrantInv, PTL

\* Under the same condition a mutex is signalled exactly while nobody has it:
\* Unlock hands it to a waiter or lets it go, and a wait for all takes every
\* mutex that it waits for or none.
THEOREM SynchronizationMutexHeld ==
  ASSUME WAIT_FOR_ONE \notin MultipleFlags
  PROVE  Spec => []MutexHeld
<1>1. GrantInv => MutexHeld
  BY Zenon DEF GrantInv, Granted
<1> QED
  BY <1>1, SpecGrantInv, PTL

-----------------------------------------------------------------------------
(* First come, first served. *)

\* What a queue holds.
LEMMA InQueue ==
  ASSUME NEW s, TagsRight(s), NEW o \in Objects, NEW t \in Threads
  PROVE  t \in Range(s.fTags[o]) <=> t \in WaitersOf(s, o)
<1> DEFINE q == s.fTags[o]
<1>1. q \in Seq(WaitersOf(s, o)) /\ \A u \in WaitersOf(s, o) : \E i \in 1..Len(q) : q[i] = u
  BY Zenon DEF TagsRight, Once
<1>2. DOMAIN q = 1..Len(q) /\ \A i \in 1..Len(q) : q[i] \in WaitersOf(s, o)
  BY <1>1, LenProperties, ElementOfSeq, Zenon
<1> QED
  BY <1>1, <1>2, Zenon DEF Range

\* A thread returned that did not wait or that timed out.
Answered(t) ==
  \E G, error : Woke(k, k', t, G, error) /\ (k.waiting[t] => error = "timed out")

\* A thread came to wait.
Enqueued(t) ==
  \E S, flags, timed : ~k.waiting[t] /\ Queued(k, k', t, S, flags, timed)

\* o was signalled; b is what the loop began with.
Lighted(o, b) ==
  /\ TagsRight(b) /\ Loop(b, k', o, b.fTags[o], Len(b.fTags[o]))
  /\ b.fTags = k.fTags /\ b.fFlags = k.fFlags /\ b.objects = k.objects /\ b.waiting = k.waiting

\* The queues and the waits are what they were.
AsBefore == k'.fTags = k.fTags /\ k'.objects = k.objects /\ k'.waiting = k.waiting

LEMMA StepIs ==
  ASSUME TagsRight(k), [Next]_vars
  PROVE  \/ \E t \in Threads : Answered(t) \/ Enqueued(t)
         \/ \E o \in Objects : \E b : Lighted(o, b)
         \/ AsBefore
<1>1. ASSUME NEW t \in Threads, NEW o \in Objects, NEW timed \in BOOLEAN, Wait(t, o, timed)
      PROVE  Answered(t) \/ Enqueued(t)
  BY <1>1, WaitDoes, Zenon DEF Answered, Enqueued
<1>2. ASSUME NEW t \in Threads, NEW S \in SUBSET Objects, NEW flags \in MultipleFlags,
             NEW timed \in BOOLEAN, WaitForMultiple(t, S, flags, timed)
      PROVE  Answered(t) \/ Enqueued(t)
  BY <1>2, WaitForMultipleDoes, Zenon DEF Answered, Enqueued
<1>3. ASSUME NEW m, NEW o, NEW b, Signals(m, k', o, b),
             m.fTags = k.fTags, m.fFlags = k.fFlags, m.objects = k.objects, m.waiting = k.waiting
      PROVE  Lighted(o, b)
  BY <1>3, Zenon DEF Signals, Lit, Lighted
<1>4. ASSUME NEW e \in Semaphores, NEW n \in 1..MaxCount, Release(e, n)
      PROVE  (\E o \in Objects : \E b : Lighted(o, b)) \/ AsBefore
  <2>1. e \in Objects
    BY DEF Objects
  <2>2. CASE \E m, b : Refilled(k, m, e, n) /\ TagsRight(m) /\ Signals(m, k', e, b)
    <3>1. PICK m, b : Refilled(k, m, e, n) /\ Signals(m, k', e, b)
      BY <2>2, Zenon
    <3>2. Lighted(e, b)
      BY <1>3, <3>1, Zenon DEF Refilled
    <3> QED
      BY <2>1, <3>2, Zenon
  <2>3. CASE Refilled(k, k', e, n)
    BY <2>3, Zenon DEF Refilled, AsBefore
  <2> QED
    BY <1>4, <2>2, <2>3, ReleaseDoes, Zenon
<1>5. ASSUME NEW t \in Threads, NEW m \in Mutexes, Unlock(t, m)
      PROVE  \E o \in Objects : \E b : Lighted(o, b)
  <2>1. PICK b : Signals(k, k', m, b)
    BY <1>5, UnlockDoes, Zenon
  <2> QED
    BY <1>3, <2>1, Zenon DEF Objects
<1>6. ASSUME NEW t \in Threads, HandleTimeout(t) PROVE Answered(t)
  BY <1>6, HandleTimeoutDoes, Zenon DEF Answered
<1>7. CASE UNCHANGED vars
  BY <1>7 DEF vars, AsBefore
<1> QED
  BY <1>1, <1>2, <1>4, <1>5, <1>6, <1>7, Zenon DEF Next

\* i comes before j in a queue.
Before(s, o, a, b) ==
  \E i, j \in 1..Len(s.fTags[o]) : i < j /\ s.fTags[o][i] = a /\ s.fTags[o][j] = b

\* Nobody gets into a queue but at its end.
LEMMA ComesLast ==
  ASSUME TagsRight(k), TagsRight(k'), [Next]_vars, NEW o \in Objects,
         NEW a \in WaitersOf(k, o), NEW b \in WaitersOf(k', o), b \notin WaitersOf(k, o)
  PROVE  Before(k', o, a, b)
<1>1. b \in Threads /\ k'.waiting[b] /\ o \in k'.objects[b]
  BY Zenon DEF WaitersOf
<1>2. ~(k.waiting[b] /\ o \in k.objects[b])
  BY <1>1, Zenon DEF WaitersOf
<1>3. ASSUME NEW t \in Threads, Answered(t) PROVE FALSE
  BY <1>1, <1>2, <1>3, Zenon DEF Answered, Woke, Returned
<1>4. ASSUME NEW p, NEW l, Lighted(p, l) PROVE FALSE
  BY <1>1, <1>2, <1>4, Zenon DEF Lighted, Loop
<1>5. CASE AsBefore
  BY <1>1, <1>2, <1>5, Zenon DEF AsBefore
<1>6. ASSUME NEW t \in Threads, Enqueued(t) PROVE Before(k', o, a, b)
  <2>1. PICK S, flags, timed : Queued(k, k', t, S, flags, timed)
    BY <1>6, Zenon DEF Enqueued
  <2>2. b = t /\ o \in S
    BY <1>1, <1>2, <2>1, Zenon DEF Queued
  <2> DEFINE q == k.fTags[o]
  <2>3. q \in Seq(WaitersOf(k, o)) /\ \E i \in 1..Len(q) : q[i] = a
    BY Zenon DEF TagsRight, Once
  <2>4. k'.fTags[o] = Append(q, b)
    BY <2>1, <2>2, Zenon DEF Queued
  <2> HIDE DEF q
  <2>5. PICK i \in 1..Len(q) : q[i] = a
    BY <2>3
  <2>6. q \in Seq(WaitersOf(k, o) \cup {b})
    BY <2>3
  <2>7. Len(q) \in Nat
    BY <2>6, LenProperties, Zenon
  <2>8. /\ Len(Append(q, b)) = Len(q) + 1
        /\ Append(q, b)[i] = a /\ Append(q, b)[Len(q) + 1] = b
    BY <2>5, <2>6
  <2>9. i \in 1..(Len(q) + 1) /\ Len(q) + 1 \in 1..(Len(q) + 1) /\ i < Len(q) + 1
    BY <2>5, <2>7
  <2> QED
    BY <2>4, <2>8, <2>9, Zenon DEF Before
<1> QED
  BY <1>3, <1>4, <1>5, <1>6, StepIs, Zenon

\* Nobody who wants no more than this object is served before one who came
\* earlier and wants this object.
LEMMA ServedInOrder ==
  ASSUME TagsRight(k), FlagsRight(k), [Next]_vars, NEW o \in Objects,
         NEW a \in Threads, NEW b \in Threads, Before(k, o, a, b),
         k.fFlags[a] = WAIT_FOR_ONE, ~k'.waiting[b], k'.fWakeError[b] = "ok"
  PROVE  ~k'.waiting[a] \/ (k.fFlags[b] = WAIT_FOR_ALL /\ Cardinality(k.objects[b]) > 1)
<1> DEFINE q == k.fTags[o]
<1>1. PICK i, j \in 1..Len(q) : i < j /\ q[i] = a /\ q[j] = b
  BY Zenon DEF Before
<1>2. k.waiting[b] /\ o \in k.objects[b]
  <2>1. q \in Seq(WaitersOf(k, o))
    BY Zenon DEF TagsRight, Once
  <2>2. b \in WaitersOf(k, o)
    BY <1>1, <2>1, ElementOfSeq, Zenon
  <2> QED
    BY <2>2, Zenon DEF WaitersOf
<1>3. ASSUME NEW t \in Threads, Answered(t) PROVE FALSE
  <2>1. PICK G, error : Woke(k, k', t, G, error) /\ (k.waiting[t] => error = "timed out")
    BY <1>3, Zenon DEF Answered
  <2>2. b = t /\ k'.fWakeError[t] = error
    BY <1>2, <2>1, Zenon DEF Woke, Returned
  <2>3. k'.fWakeError[b] = "timed out"
    BY <1>2, <2>1, <2>2, Zenon
  <2>4. "ok" # "timed out"
    BY Zenon
  <2> QED
    BY <2>3, <2>4, Zenon
<1>4. ASSUME NEW t \in Threads, Enqueued(t) PROVE FALSE
  BY <1>2, <1>4, Zenon DEF Enqueued, Queued
<1>5. CASE AsBefore
  BY <1>2, <1>5, Zenon DEF AsBefore
<1>6. ASSUME NEW p \in Objects, NEW l, Lighted(p, l)
      PROVE  ~k'.waiting[a] \/ (k.fFlags[b] = WAIT_FOR_ALL /\ Cardinality(k.objects[b]) > 1)
  <2>1. /\ TagsRight(l) /\ Loop(l, k', p, l.fTags[p], Len(l.fTags[p]))
        /\ l.fTags = k.fTags /\ l.fFlags = k.fFlags /\ l.objects = k.objects
        /\ l.waiting = k.waiting
    BY <1>6, Zenon DEF Lighted
  <2>2. CASE p = o
    BY <1>1, <2>1, <2>2, Zenon DEF Loop
  <2>3. CASE p # o
    <3>1. b \in Gone(l, k')
      BY <1>2, <2>1, Zenon DEF Gone
    <3>2. PICK n \in 1..Len(l.fTags[p]) : l.fTags[p][n] = b
      BY <2>1, <3>1, Zenon DEF Loop
    <3>3. b \in WaitersOf(l, p)
      <4>1. l.fTags[p] \in Seq(WaitersOf(l, p))
        BY <2>1, Zenon DEF TagsRight, Once
      <4> QED
        BY <3>2, <4>1, ElementOfSeq, Zenon
    <3>4. p \in k.objects[b]
      BY <2>1, <3>3, Zenon DEF WaitersOf
    <3>5. ~ \E x \in Objects : k.objects[b] = {x}
      BY <1>2, <2>3, <3>4
    <3>6. k.fFlags[b] = WAIT_FOR_ALL /\ Cardinality(k.objects[b]) = 2
      BY <1>2, <3>5, Zenon DEF FlagsRight
    <3> QED
      BY <3>6
  <2> QED
    BY <2>2, <2>3
<1> QED
  BY <1>3, <1>4, <1>5, <1>6, StepIs, Zenon

\* Under the same condition waiters of an object are served in the order in which
\* they came: a tag gets behind those in its queue, Signal goes through the queue
\* from its head, and a waiter that it skips did not want this object alone.
THEOREM SynchronizationFirstCome ==
  ASSUME WAIT_FOR_ONE \notin MultipleFlags
  PROVE  Spec => FirstComeFirstServed
<1>1. ASSUME GrantInv, GrantInv', [Next]_vars, NEW o \in Objects, NEW a \in Threads, NEW b \in Threads
      PROVE  /\ /\ a \in Range(k.fTags[o]) /\ a \in Range(k'.fTags[o])
                /\ ~(b \in Range(k.fTags[o])) /\ b \in Range(k'.fTags[o])
                => Before(k', o, a, b)
             /\ /\ Before(k, o, a, b)
                /\ k.fFlags[a] = WAIT_FOR_ONE
                /\ ~k'.waiting[b] /\ k'.fWakeError[b] = "ok"
                => ~k'.waiting[a] \/ (k.fFlags[b] = WAIT_FOR_ALL /\ Cardinality(k.objects[b]) > 1)
  <2>1. TagsRight(k) /\ TagsRight(k') /\ FlagsRight(k)
    BY <1>1, Zenon DEF GrantInv, WaitInv, Granted
  <2>2. ASSUME a \in Range(k.fTags[o]), ~(b \in Range(k.fTags[o])), b \in Range(k'.fTags[o])
        PROVE  Before(k', o, a, b)
    <3>1. a \in WaitersOf(k, o) /\ b \notin WaitersOf(k, o) /\ b \in WaitersOf(k', o)
      BY <2>1, <2>2, InQueue, Zenon
    <3> QED
      BY <1>1, <2>1, <3>1, ComesLast, Zenon
  <2>3. ASSUME Before(k, o, a, b), k.fFlags[a] = WAIT_FOR_ONE, ~k'.waiting[b],
               k'.fWakeError[b] = "ok"
        PROVE  ~k'.waiting[a] \/ (k.fFlags[b] = WAIT_FOR_ALL /\ Cardinality(k.objects[b]) > 1)
    BY <1>1, <2>1, <2>3, ServedInOrder, Zenon
  <2> QED
    BY <2>2, <2>3, Zenon
<1>2. GrantInv /\ GrantInv' /\ [Next]_vars =>
      [\A o \in Objects : \A a, b \in Threads :
         LET before(s) == \E i, j \in 1..Len(s.fTags[o]) :
                            i < j /\ s.fTags[o][i] = a /\ s.fTags[o][j] = b
             inQueue(s, t) == t \in Range(s.fTags[o])
         IN  /\ inQueue(k, a) /\ inQueue(k', a) /\ ~inQueue(k, b) /\ inQueue(k', b)
               => before(k')
             /\ /\ before(k)
                /\ k.fFlags[a] = WAIT_FOR_ONE
                /\ ~k'.waiting[b] /\ k'.fWakeError[b] = "ok"
                => ~k'.waiting[a] \/ (k.fFlags[b] = WAIT_FOR_ALL /\ Cardinality(k.objects[b]) > 1)]_vars
  <2> SUFFICES ASSUME GrantInv, GrantInv', [Next]_vars,
                      NEW o \in Objects, NEW a \in Threads, NEW b \in Threads
               PROVE  LET before(s) == Before(s, o, a, b)
                          inQueue(s, t) == t \in Range(s.fTags[o])
                      IN  /\ inQueue(k, a) /\ inQueue(k', a) /\ ~inQueue(k, b) /\ inQueue(k', b)
                            => before(k')
                          /\ /\ before(k)
                             /\ k.fFlags[a] = WAIT_FOR_ONE
                             /\ ~k'.waiting[b] /\ k'.fWakeError[b] = "ok"
                             => ~k'.waiting[a]
                                \/ (k.fFlags[b] = WAIT_FOR_ALL /\ Cardinality(k.objects[b]) > 1)
    BY Zenon DEF Before
  <2> QED
    BY <1>1, Zenon
<1> QED
  BY <1>2, SpecGrantInv, PTL DEF Spec, FirstComeFirstServed
=============================================================================
