--------------------------- MODULE StructureProofs ---------------------------
(***************************************************************************)
(* Proofs about the structures that MCStructures puts together and about   *)
(* the timers, one section for each.                                       *)
(*                                                                         *)
(* RecursiveExclusion holds for any number of threads and any depth of     *)
(* recursion.  It is inductive as it stands: what a thread may conclude    *)
(* from fHolder follows from where the owner of the mutex is in Lock or    *)
(* Unlock, and that is what the invariant records.                         *)
(*                                                                         *)
(* SlotsKept holds for any number of slots, pages and buckets.  It is      *)
(* inductive too: that the oldest slot of the queue may be given to        *)
(* another page follows from what it says of counts and of the queue.      *)
(*                                                                         *)
(* HardwareCovers and NothingOverdue hold for any number of timers, any    *)
(* delays and any latency of the interrupt.  TimerInv adds that the queue  *)
(* is in the order in which timers are due, so that its head stands for    *)
(* all, and where the driver thread is while the motor's timer is pending  *)
(* and not in the queue.  The loop of the interrupt is followed turn by    *)
(* turn: each lessens the number of microseconds by which timers are       *)
(* overdue together, so that it has ended after Turns of them.             *)
(*                                                                         *)
(* HeapTiles and HeapImplements hold for any sizes of the heap, of headers *)
(* and of requests.  HeapInv says that the parts are laid out one after    *)
(* the other (Layout), that each has its header and its footer             *)
(* (PartRight), that the index lists the holes once, and that no two holes *)
(* are neighbours.  It names no old headers and footers: hfree looks only  *)
(* where a part ends and where the next begins, and there the memory is    *)
(* right.  That holes are never neighbours is needed because hfree unifies *)
(* one hole on each side and no more.                                      *)
(*                                                                         *)
(* WalksByName holds for any names, nodes, mounts and lengths of paths.    *)
(* NamesRight says that an entry of a directory is a node whose parent is  *)
(* that directory, or a device, and never the root of a file system; that  *)
(* a root is its own parent; and that a node is covered by the file system *)
(* that covers it.  With it a step to a name and one to .. cancel out,     *)
(* whether a mount lies between them or not.                               *)
(*                                                                         *)
(* PagesCounted and MapsImplement hold for any number of maps, any sizes   *)
(* of directories and tables and any range that is unmapped.  TablesRight  *)
(* adds the types to PagesCounted, and Unshared is what it needs: an entry *)
(* of a table is one address of one map, so that clearing it changes only  *)
(* that.  Unmap's loop is followed round by round (RoundsDone).            *)
(*                                                                         *)
(* FindsTheFirstRun and FramesAccounted hold for any amount of memory, any *)
(* words of the bitmap, tables of any size and any numbers of frames that  *)
(* are asked for; FramesAccounted if the bitmap fills its frames.          *)
(* FindsTheFirstRun is what the search computes, whatever is in use.       *)
(* FramesRight says that no frame has two uses and none is given away      *)
(* twice, that a page leads nowhere or to the frame last put behind it     *)
(* (Leading), and that this frame is behind no other page (BehindAlone);   *)
(* what FramesAccounted counts follows from that.                          *)
(***************************************************************************)
EXTENDS RecursiveLock, LockedPages, Timer, KernelHeap, Namespace, PageTables,
        FrameMap, Counting

-----------------------------------------------------------------------------
(* RecursiveLock. *)

\* Lock and Unlock leave everything in its type.
LEMMA TypesKept ==
  ASSUME RecursiveExclusion, NEW t \in Lockers, Move(t)
  PROVE  RecursiveTypes'
<1> USE DEF RecursiveExclusion, RecursiveTypes, Places, GoTo
<1>1. CASE Lock(t)
  BY <1>1 DEF Lock
<1>2. CASE LockMutex(t)
  BY <1>2 DEF LockMutex
<1>3. CASE SetHolder(t)
  BY <1>3 DEF SetHolder
<1>4. CASE Count(t)
  BY <1>4 DEF Count
<1>5. CASE Unlock(t)
  <2>1. Holds(t) /\ fMutex = t /\ fRecursion = depth[t]
    BY <1>5 DEF Unlock, Holds
  <2>2. fRecursion - 1 \in Nat /\ depth[t] - 1 \in Nat
    BY <1>5, <2>1 DEF Unlock
  <2> QED
    BY <1>5, <2>2 DEF Unlock
<1>6. CASE ClearHolder(t)
  BY <1>6 DEF ClearHolder
<1>7. CASE UnlockMutex(t)
  BY <1>7 DEF UnlockMutex
<1> QED
  BY <1>1, <1>2, <1>3, <1>4, <1>5, <1>6, <1>7 DEF Move

\* A step of one thread keeps what the invariant says of every thread.
LEMMA ThreadsKept ==
  ASSUME RecursiveExclusion, NEW t \in Lockers, Move(t), NEW u \in Lockers
  PROVE  /\ Holds(u)' <=> fHolder' = u
         /\ (Holds(u) \/ at[u] \in {"hold", "release"})' <=> fMutex' = u
         /\ fMutex' = u => fRecursion' = depth'[u]
         /\ at'[u] \in {"wait", "hold", "clear", "release"} => depth'[u] = 0
<1> USE RecursiveAssumption DEF RecursiveExclusion, RecursiveTypes, Places, GoTo, Holds
<1>1. CASE Lock(t)
  BY <1>1 DEF Lock
<1>2. CASE LockMutex(t)
  BY <1>2 DEF LockMutex
<1>3. CASE SetHolder(t)
  BY <1>3 DEF SetHolder
<1>4. CASE Count(t)
  BY <1>4 DEF Count
<1>5. CASE Unlock(t)
  BY <1>5 DEF Unlock
<1>6. CASE ClearHolder(t)
  BY <1>6 DEF ClearHolder
<1>7. CASE UnlockMutex(t)
  BY <1>7 DEF UnlockMutex
<1> QED
  BY <1>1, <1>2, <1>3, <1>4, <1>5, <1>6, <1>7 DEF Move

\* While nobody has the mutex the lock is not counted as locked.
LEMMA FreeKept ==
  ASSUME RecursiveExclusion, NEW t \in Lockers, Move(t), fMutex' = Nobody
  PROVE  fRecursion' = 0
<1> USE RecursiveAssumption DEF RecursiveExclusion, RecursiveTypes, Places, GoTo, Holds
<1>1. CASE Lock(t)
  BY <1>1 DEF Lock
<1>2. CASE LockMutex(t)
  BY <1>2 DEF LockMutex
<1>3. CASE SetHolder(t)
  BY <1>3 DEF SetHolder
<1>4. CASE Count(t)
  BY <1>4 DEF Count
<1>5. CASE Unlock(t)
  BY <1>5 DEF Unlock
<1>6. CASE ClearHolder(t)
  BY <1>6 DEF ClearHolder
<1>7. CASE UnlockMutex(t)
  BY <1>7 DEF UnlockMutex
<1> QED
  BY <1>1, <1>2, <1>3, <1>4, <1>5, <1>6, <1>7 DEF Move

\* RecursiveLock::Lock and Unlock: what RecursiveExclusion says of fHolder,
\* fRecursion and the mutex is true in every state, for every set of threads.
THEOREM RecursiveLockExclusion == RecursiveSpec => []RecursiveExclusion
<1>1. RecursiveInit => RecursiveExclusion
  BY RecursiveAssumption DEF RecursiveInit, RecursiveExclusion, RecursiveTypes, Places, Holds
<1>2. RecursiveExclusion /\ [RecursiveNext]_recursiveVars => RecursiveExclusion'
  <2> SUFFICES ASSUME RecursiveExclusion, [RecursiveNext]_recursiveVars
               PROVE  RecursiveExclusion'
    OBVIOUS
  <2>1. ASSUME NEW t \in Lockers, Move(t)
        PROVE  RecursiveExclusion'
    <3>1. RecursiveTypes'
      BY <2>1, TypesKept
    <3>2. \A u \in Lockers : /\ Holds(u)' <=> fHolder' = u
                             /\ (Holds(u) \/ at[u] \in {"hold", "release"})' <=> fMutex' = u
                             /\ fMutex' = u => fRecursion' = depth'[u]
                             /\ at'[u] \in {"wait", "hold", "clear", "release"} => depth'[u] = 0
      BY <2>1, ThreadsKept
    <3>3. fMutex' = Nobody => fRecursion' = 0
      BY <2>1, FreeKept
    <3> QED
      BY <3>1, <3>2, <3>3 DEF RecursiveExclusion, Holds
  <2>2. CASE UNCHANGED recursiveVars
    BY <2>2 DEF RecursiveExclusion, RecursiveTypes, Holds, recursiveVars
  <2> QED
    BY <2>1, <2>2 DEF RecursiveNext
<1> QED
  BY <1>1, <1>2, PTL DEF RecursiveSpec

-----------------------------------------------------------------------------
(* LockedPages. *)

\* A slot that is found again leaves the queue, and only it does.
LEMMA LeavesQueue ==
  ASSUME NEW S, NEW q \in Seq(S), IsInjective(q), NEW i \in DOMAIN q
  PROVE  /\ RemoveAt(q, i) \in Seq(S)
         /\ IsInjective(RemoveAt(q, i))
         /\ ToSet(RemoveAt(q, i)) = ToSet(q) \ {q[i]}
<1> DEFINE r == RemoveAt(q, i)
<1>1. Len(q) \in Nat /\ DOMAIN q = 1..Len(q) /\ i \in 1..Len(q)
  BY LenProperties
<1>2. /\ r \in Seq(S) /\ Len(r) = Len(q) - 1 /\ DOMAIN r = 1..(Len(q) - 1)
      /\ \A j \in 1..(Len(q) - 1) : r[j] = IF j < i THEN q[j] ELSE q[j + 1]
  <2>1. /\ r \in Seq(S) /\ Len(r) = Len(q) - 1
        /\ \A j \in 1..(Len(q) - 1) : r[j] = IF j < i THEN q[j] ELSE q[j + 1]
    BY <1>1, RemoveAtPlace, Zenon
  <2> HIDE DEF r
  <2>2. DOMAIN r = 1..Len(r)
    BY <2>1, LenProperties, Zenon
  <2> QED
    BY <2>1, <2>2, Zenon
<1> HIDE DEF r
<1>3. \A j, k \in 1..Len(q) : q[j] = q[k] => j = k
  BY <1>1 DEF IsInjective
<1>4. \A j, k \in 1..(Len(q) - 1) : r[j] = r[k] => j = k
  BY <1>1, <1>2, <1>3
<1>5. IsInjective(r)
  BY <1>2, <1>4 DEF IsInjective
<1>6. ASSUME NEW x \in ToSet(r)
      PROVE  x \in ToSet(q) \ {q[i]}
  <2>1. PICK j \in 1..(Len(q) - 1) : x = r[j]
    BY <1>2 DEF ToSet
  <2>2. CASE j < i
    <3>1. j \in 1..Len(q) /\ j # i /\ x = q[j]
      BY <2>1, <2>2, <1>1, <1>2
    <3> QED
      BY <3>1, <1>1, <1>3 DEF ToSet
  <2>3. CASE j >= i
    <3>1. j + 1 \in 1..Len(q) /\ j + 1 # i /\ x = q[j + 1]
      BY <2>1, <2>3, <1>1, <1>2
    <3> QED
      BY <3>1, <1>1, <1>3 DEF ToSet
  <2> QED
    BY <2>1, <2>2, <2>3, <1>1
<1>7. ASSUME NEW x \in ToSet(q) \ {q[i]}
      PROVE  x \in ToSet(r)
  <2>1. PICK k \in 1..Len(q) : x = q[k] /\ k # i
    BY <1>1 DEF ToSet
  <2>2. CASE k < i
    BY <2>1, <2>2, <1>1, <1>2 DEF ToSet
  <2>3. CASE k > i
    <3>1. k - 1 \in 1..(Len(q) - 1) /\ r[k - 1] = x
      BY <2>1, <2>3, <1>1, <1>2
    <3> QED
      BY <3>1, <1>2 DEF ToSet
  <2> QED
    BY <2>1, <2>2, <2>3, <1>1
<1> QED
  BY <1>2, <1>5, <1>6, <1>7 DEF r

\* The oldest slot leaves the queue.
LEMMA HeadLeaves ==
  ASSUME NEW S, NEW q \in Seq(S), IsInjective(q), q # << >>
  PROVE  /\ Head(q) \in ToSet(q)
         /\ Tail(q) \in Seq(S)
         /\ IsInjective(Tail(q))
         /\ ToSet(Tail(q)) = ToSet(q) \ {Head(q)}
<1>1. Len(q) \in Nat \ {0} /\ DOMAIN q = 1..Len(q)
  BY LenProperties, EmptySeq
<1>2. Head(q) = q[1] /\ 1 \in DOMAIN q
  BY <1>1
<1>3. Tail(q) = RemoveAt(q, 1)
  <2>1. /\ Tail(q) \in Seq(S) /\ Len(Tail(q)) = Len(q) - 1
        /\ \A j \in 1..(Len(q) - 1) : Tail(q)[j] = q[j + 1]
    BY <1>1, HeadTailProperties
  <2>2. /\ RemoveAt(q, 1) \in Seq(S) /\ Len(RemoveAt(q, 1)) = Len(q) - 1
        /\ \A j \in 1..(Len(q) - 1) : RemoveAt(q, 1)[j] = q[j + 1]
    <3>1. 1 \in 1..Len(q) /\ \A j \in 1..(Len(q) - 1) : ~(j < 1)
      BY <1>1
    <3> QED
      BY <3>1, RemoveAtPlace
  <2> QED
    BY <2>1, <2>2, SeqEqual
<1>4. /\ RemoveAt(q, 1) \in Seq(S)
      /\ IsInjective(RemoveAt(q, 1))
      /\ ToSet(RemoveAt(q, 1)) = ToSet(q) \ {q[1]}
  BY <1>2, LeavesQueue
<1>5. q[1] \in ToSet(q)
  BY <1>2 DEF ToSet
<1> QED
  BY <1>2, <1>3, <1>4, <1>5

\* A slot that nobody holds any more joins the queue.
LEMMA JoinsQueue ==
  ASSUME NEW S, NEW q \in Seq(S), IsInjective(q), NEW x \in S, x \notin ToSet(q)
  PROVE  /\ Append(q, x) \in Seq(S)
         /\ IsInjective(Append(q, x))
         /\ ToSet(Append(q, x)) = ToSet(q) \cup {x}
<1> DEFINE r == Append(q, x)
<1>1. Len(q) \in Nat /\ DOMAIN q = 1..Len(q)
  BY LenProperties
<1>2. /\ r \in Seq(S) /\ Len(r) = Len(q) + 1 /\ DOMAIN r = 1..(Len(q) + 1)
      /\ r[Len(q) + 1] = x /\ \A j \in 1..Len(q) : r[j] = q[j]
  BY <1>1, AppendProperties, LenProperties
<1> HIDE DEF r
<1>3. \A j \in 1..Len(q) : q[j] # x
  BY <1>1 DEF ToSet
<1>4. \A j \in 1..(Len(q) + 1) : j \in 1..Len(q) \/ j = Len(q) + 1
  BY <1>1
<1>5. ASSUME NEW j \in 1..(Len(q) + 1), NEW k \in 1..(Len(q) + 1), r[j] = r[k]
      PROVE  j = k
  BY <1>1, <1>2, <1>3, <1>4, <1>5 DEF IsInjective
<1>6. IsInjective(r)
  BY <1>2, <1>5 DEF IsInjective
<1>7. Len(q) + 1 \in 1..(Len(q) + 1) /\ \A j \in 1..Len(q) : j \in 1..(Len(q) + 1)
  BY <1>1
<1>8. ToSet(r) = ToSet(q) \cup {x}
  BY <1>1, <1>2, <1>4, <1>7 DEF ToSet
<1> QED
  BY <1>2, <1>6, <1>8 DEF r

\* What Hold does to the count of one slot and page, and of all others.
LEMMA HoldCounts ==
  ASSUME LockedTypes, NEW slot \in Slots, NEW page \in PhysicalPages, Hold(slot, page)
  PROVE  /\ holds' \in [AllHolds -> Nat]
         /\ \A s \in Slots, p \in PhysicalPages :
              holds'[<<s, p>>] = IF s = slot /\ p = page THEN holds[<<s, p>>] + 1
                                 ELSE holds[<<s, p>>]
<1>1. <<slot, page>> \in AllHolds /\ holds[<<slot, page>>] \in Nat
  BY DEF LockedTypes, AllHolds
<1>2. holds' \in [AllHolds -> Nat]
  BY <1>1 DEF LockedTypes, Hold
<1>3. ASSUME NEW s \in Slots, NEW p \in PhysicalPages
      PROVE  holds'[<<s, p>>] = IF s = slot /\ p = page THEN holds[<<s, p>>] + 1
                                ELSE holds[<<s, p>>]
  <2>1. <<s, p>> \in AllHolds
    BY DEF AllHolds
  <2>2. CASE s = slot /\ p = page
    BY <1>1, <2>2 DEF LockedTypes, Hold
  <2>3. CASE ~(s = slot /\ p = page)
    <3>1. <<s, p>> # <<slot, page>>
      BY <2>3
    <3> QED
      BY <2>1, <2>3, <3>1 DEF LockedTypes, Hold
  <2> QED
    BY <2>2, <2>3
<1> QED
  BY <1>2, <1>3

\* A page that is found again: its slot is counted once more and, if it was in
\* the queue, leaves it.
LEMMA LockMappedStep ==
  ASSUME SlotsKept, NEW page \in PhysicalPages, LockMapped(page)
  PROVE  SlotsKept'
<1> DEFINE slot == Mapped(page)
           q == fInactiveLockedPages
<1>1. slot \in Slots /\ pa[slot] = page
  BY LockedPagesAssumption DEF SlotsKept, LockedTypes, LockMapped, Mapped
<1>2. /\ mapCount' = [mapCount EXCEPT ![slot] = @ + 1]
      /\ q' = IF mapCount[slot] = 0 THEN RemoveAt(q, Place(slot)) ELSE q
      /\ Hold(slot, page)
      /\ pa' = pa /\ fLockedPageHash' = fLockedPageHash
  BY DEF LockMapped
<1> HIDE DEF slot
<1> USE DEF SlotsKept, LockedTypes
<1>3. /\ holds' \in [AllHolds -> Nat]
      /\ \A s \in Slots, p \in PhysicalPages :
           holds'[<<s, p>>] = IF s = slot /\ p = page THEN holds[<<s, p>>] + 1
                              ELSE holds[<<s, p>>]
  BY <1>1, <1>2, HoldCounts
<1>4. \A s \in Slots, p \in PhysicalPages : holds'[<<s, p>>] > 0 => pa'[s] = p
  BY <1>1, <1>2, <1>3
<1>5. /\ mapCount' \in [Slots -> Nat]
      /\ \A s \in Slots : mapCount'[s] = IF s = slot THEN mapCount[s] + 1 ELSE mapCount[s]
  BY <1>1, <1>2
<1>6. /\ \A s \in Slots : pa'[s] = INVALID_PAGE => mapCount'[s] = 0
      /\ \A s \in Slots, p \in PhysicalPages : pa'[s] = p => mapCount'[s] = holds'[<<s, p>>]
  BY <1>1, <1>2, <1>3, <1>5, LockedPagesAssumption
<1>7. {s \in Slots : mapCount'[s] = 0} = {s \in Slots : mapCount[s] = 0} \ {slot}
  BY <1>1, <1>5
<1>8. q' \in Seq(Slots) /\ IsInjective(q') /\ ToSet(q') = ToSet(q) \ {slot}
  <2>1. CASE mapCount[slot] = 0
    <3>1. slot \in ToSet(q)
      BY <1>1, <2>1
    <3>2. Place(slot) \in DOMAIN q /\ q[Place(slot)] = slot
      BY <3>1 DEF ToSet, Place
    <3>3. q' = RemoveAt(q, Place(slot))
      BY <1>2, <2>1
    <3> QED
      BY <3>2, <3>3, LeavesQueue
  <2>2. CASE mapCount[slot] # 0
    BY <1>2, <2>2
  <2> QED
    BY <2>1, <2>2
<1> QED
  BY <1>2, <1>3, <1>4, <1>5, <1>6, <1>7, <1>8

\* Any other page: the oldest slot of the queue has no holder who would still
\* read another page through it.
LEMMA LockAnewStep ==
  ASSUME SlotsKept, NEW page \in PhysicalPages, LockAnew(page)
  PROVE  SlotsKept'
<1> DEFINE q == fInactiveLockedPages
           slot == Head(q)
<1> USE DEF SlotsKept, LockedTypes
<1>1. q # << >> /\ q' = Tail(q)
  BY DEF LockAnew
<1>2. /\ slot \in ToSet(q) /\ q' \in Seq(Slots) /\ IsInjective(q')
      /\ ToSet(q') = ToSet(q) \ {slot}
  BY <1>1, HeadLeaves
<1>3. slot \in Slots /\ mapCount[slot] = 0
  BY <1>2
<1>4. /\ pa' = [pa EXCEPT ![slot] = page]
      /\ mapCount' = [mapCount EXCEPT ![slot] = @ + 1]
      /\ Hold(slot, page)
  BY DEF LockAnew
<1>5. fLockedPageHash' \in [Buckets -> Slots \cup {NoSlot}]
  BY <1>3, LockedPagesAssumption DEF LockAnew
<1> HIDE DEF slot
<1>6. /\ holds' \in [AllHolds -> Nat]
      /\ \A s \in Slots, p \in PhysicalPages :
           holds'[<<s, p>>] = IF s = slot /\ p = page THEN holds[<<s, p>>] + 1
                              ELSE holds[<<s, p>>]
  BY <1>3, <1>4, HoldCounts
<1>7. \A p \in PhysicalPages : holds[<<slot, p>>] = 0
  <2> SUFFICES ASSUME NEW p \in PhysicalPages, holds[<<slot, p>>] # 0
               PROVE  FALSE
    OBVIOUS
  <2>1. holds[<<slot, p>>] \in Nat
    BY <1>3 DEF AllHolds
  <2>2. pa[slot] = p
    BY <2>1, <1>3
  <2> QED
    BY <2>2, <1>3, LockedPagesAssumption
<1>8. /\ pa'[slot] = page /\ \A s \in Slots \ {slot} : pa'[s] = pa[s]
      /\ mapCount'[slot] = 1 /\ \A s \in Slots \ {slot} : mapCount'[s] = mapCount[s]
  BY <1>3, <1>4
<1>9. pa' \in [Slots -> PhysicalPages \cup {INVALID_PAGE}] /\ mapCount' \in [Slots -> Nat]
  BY <1>3, <1>4
<1>10. \A s \in Slots, p \in PhysicalPages : holds'[<<s, p>>] > 0 => pa'[s] = p
  BY <1>6, <1>7, <1>8
<1>11. /\ \A s \in Slots : pa'[s] = INVALID_PAGE => mapCount'[s] = 0
       /\ \A s \in Slots, p \in PhysicalPages : pa'[s] = p => mapCount'[s] = holds'[<<s, p>>]
  <2>1. page # INVALID_PAGE
    BY LockedPagesAssumption
  <2>2. \A s \in Slots : pa'[s] = INVALID_PAGE => mapCount'[s] = 0
    BY <2>1, <1>3, <1>8
  <2>3. ASSUME NEW s \in Slots, NEW p \in PhysicalPages, pa'[s] = p
        PROVE  mapCount'[s] = holds'[<<s, p>>]
    <3>1. CASE s = slot
      <4>1. p = page /\ holds'[<<s, p>>] = 0 + 1
        BY <3>1, <2>3, <1>3, <1>6, <1>7, <1>8
      <4> QED
        BY <4>1, <3>1, <1>8
    <3>2. CASE s # slot
      BY <3>2, <2>3, <1>6, <1>8
    <3> QED
      BY <3>1, <3>2
  <2> QED
    BY <2>2, <2>3
<1>12. {s \in Slots : mapCount'[s] = 0} = {s \in Slots : mapCount[s] = 0} \ {slot}
  BY <1>3, <1>8
<1> QED
  BY <1>2, <1>5, <1>6, <1>9, <1>10, <1>11, <1>12

\* UnlockPhysicalPage: the slot joins the queue with its last holder.
LEMMA UnlockStep ==
  ASSUME SlotsKept, NEW slot \in Slots, NEW page \in PhysicalPages,
         UnlockPhysicalPage(slot, page)
  PROVE  SlotsKept'
<1> DEFINE q == fInactiveLockedPages
<1> USE DEF SlotsKept, LockedTypes
<1>1. /\ holds[<<slot, page>>] > 0 /\ holds' = [holds EXCEPT ![<<slot, page>>] = @ - 1]
      /\ mapCount' = [mapCount EXCEPT ![slot] = @ - 1]
      /\ q' = IF mapCount[slot] = 1 THEN Append(q, slot) ELSE q
      /\ pa' = pa /\ fLockedPageHash' = fLockedPageHash
  BY DEF UnlockPhysicalPage
<1>2. <<slot, page>> \in AllHolds /\ holds[<<slot, page>>] \in Nat \ {0}
  BY <1>1 DEF AllHolds
<1>3. pa[slot] = page /\ mapCount[slot] = holds[<<slot, page>>]
  BY <1>1
<1>4. holds' \in [AllHolds -> Nat] /\ mapCount' \in [Slots -> Nat]
  BY <1>1, <1>2, <1>3
<1>5. /\ mapCount'[slot] = mapCount[slot] - 1
      /\ \A s \in Slots \ {slot} : mapCount'[s] = mapCount[s]
      /\ holds'[<<slot, page>>] = holds[<<slot, page>>] - 1
  BY <1>1, <1>2
<1>6. ASSUME NEW s \in Slots, NEW p \in PhysicalPages, ~(s = slot /\ p = page)
      PROVE  holds'[<<s, p>>] = holds[<<s, p>>]
  <2>1. <<s, p>> \in AllHolds /\ <<s, p>> # <<slot, page>>
    BY <1>6 DEF AllHolds
  <2> QED
    BY <2>1, <1>1
<1>7. ASSUME NEW s \in Slots, NEW p \in PhysicalPages, holds'[<<s, p>>] > 0
      PROVE  pa'[s] = p
  <2>1. CASE s = slot /\ p = page
    BY <2>1, <1>1, <1>3
  <2>2. CASE ~(s = slot /\ p = page)
    BY <2>2, <1>1, <1>6, <1>7
  <2> QED
    BY <2>1, <2>2
<1>8. ASSUME NEW s \in Slots, pa'[s] = INVALID_PAGE
      PROVE  mapCount'[s] = 0
  BY <1>1, <1>3, <1>5, <1>8, LockedPagesAssumption
<1>9. ASSUME NEW s \in Slots, NEW p \in PhysicalPages, pa'[s] = p
      PROVE  mapCount'[s] = holds'[<<s, p>>]
  <2>1. CASE s = slot
    <3>1. p = page
      BY <2>1, <1>1, <1>3, <1>9
    <3> QED
      BY <2>1, <3>1, <1>3, <1>5
  <2>2. CASE s # slot
    BY <2>2, <1>1, <1>5, <1>6, <1>9
  <2> QED
    BY <2>1, <2>2
<1>10. mapCount[slot] \in Nat \ {0}
  BY <1>2, <1>3
<1>11. q' \in Seq(Slots) /\ IsInjective(q') /\ ToSet(q') = {s \in Slots : mapCount'[s] = 0}
  <2>1. CASE mapCount[slot] = 1
    <3>1. slot \notin ToSet(q)
      BY <2>1
    <3>2. q' = Append(q, slot)
      BY <1>1, <2>1
    <3>3. /\ Append(q, slot) \in Seq(Slots) /\ IsInjective(Append(q, slot))
          /\ ToSet(Append(q, slot)) = ToSet(q) \cup {slot}
      BY <3>1, JoinsQueue
    <3>4. {s \in Slots : mapCount'[s] = 0} = {s \in Slots : mapCount[s] = 0} \cup {slot}
      BY <2>1, <1>5
    <3> QED
      BY <3>2, <3>3, <3>4
  <2>2. CASE mapCount[slot] # 1
    <3>1. mapCount'[slot] # 0 /\ mapCount[slot] # 0
      BY <2>2, <1>5, <1>10
    <3>2. {s \in Slots : mapCount'[s] = 0} = {s \in Slots : mapCount[s] = 0}
      BY <3>1, <1>5
    <3>3. q' = q
      BY <1>1, <2>2
    <3> QED
      BY <3>2, <3>3
  <2> QED
    BY <2>1, <2>2
<1> QED
  BY <1>1, <1>4, <1>7, <1>8, <1>9, <1>11

\* LockPhysicalPage and UnlockPhysicalPage: whoever has locked a page reaches it
\* until it unlocks it, although the hash table loses slots whose bucket another
\* page takes, for any number of slots, pages and buckets.
THEOREM LockedPagesKeepSlots == LockedSpec => []SlotsKept
<1>1. LockedInit => SlotsKept
  <2> SUFFICES ASSUME LockedInit
               PROVE  SlotsKept
    OBVIOUS
  <2>1. LockedTypes
    BY LockedPagesAssumption DEF LockedInit, LockedTypes
  <2>2. \A s \in Slots, p \in PhysicalPages : holds[<<s, p>>] = 0 /\ pa[s] # p
    BY LockedPagesAssumption DEF LockedInit, AllHolds
  <2>3. \A s \in Slots : mapCount[s] = 0
    BY DEF LockedInit
  <2>4. /\ ToSet(fInactiveLockedPages) = {s \in Slots : mapCount[s] = 0}
        /\ IsInjective(fInactiveLockedPages)
    BY <2>3, LockedPagesAssumption DEF LockedInit, Slots
  <2> QED
    BY <2>1, <2>2, <2>3, <2>4 DEF SlotsKept
<1>2. SlotsKept /\ [LockedNext]_lockedVars => SlotsKept'
  <2> SUFFICES ASSUME SlotsKept, [LockedNext]_lockedVars
               PROVE  SlotsKept'
    OBVIOUS
  <2>1. ASSUME NEW page \in PhysicalPages, LockMapped(page)
        PROVE  SlotsKept'
    BY <2>1, LockMappedStep
  <2>2. ASSUME NEW page \in PhysicalPages, LockAnew(page)
        PROVE  SlotsKept'
    BY <2>2, LockAnewStep
  <2>3. ASSUME NEW slot \in Slots, NEW page \in PhysicalPages, UnlockPhysicalPage(slot, page)
        PROVE  SlotsKept'
    BY <2>3, UnlockStep
  <2>4. CASE UNCHANGED lockedVars
    BY <2>4 DEF lockedVars, SlotsKept, LockedTypes
  <2> QED
    BY <2>1, <2>2, <2>3, <2>4 DEF LockedNext
<1> QED
  BY <1>1, <1>2, PTL DEF LockedSpec

-----------------------------------------------------------------------------
(* Timer. *)

\* What tm keeps.
TimerStates ==
  [fTimerQueue : Seq(Timers),
   due : [Timers -> Int],
   fMode : [Timers -> Modes],
   fInterval : [Timers -> Nat],
   fPending : [Timers -> BOOLEAN],
   hw : Off..kMaxTimerInterval]

LEMMA TimerParts ==
  ASSUME NEW s \in TimerStates
  PROVE  /\ s = [fTimerQueue |-> s.fTimerQueue, due |-> s.due, fMode |-> s.fMode,
                 fInterval |-> s.fInterval, fPending |-> s.fPending, hw |-> s.hw]
         /\ s.fTimerQueue \in Seq(Timers)
         /\ s.due \in [Timers -> Int]
         /\ s.fMode \in [Timers -> Modes]
         /\ s.fInterval \in [Timers -> Nat]
         /\ s.fPending \in [Timers -> BOOLEAN]
         /\ s.hw \in Off..kMaxTimerInterval
BY DEF TimerStates

\* n is s with the queue q.
OnlyQueue(s, n, q) ==
  /\ n \in TimerStates /\ n.fTimerQueue = q
  /\ n.due = s.due /\ n.fMode = s.fMode /\ n.fInterval = s.fInterval
  /\ n.fPending = s.fPending /\ n.hw = s.hw

LEMMA QueuePut ==
  ASSUME NEW s \in TimerStates, NEW q \in Seq(Timers)
  PROVE  OnlyQueue(s, [s EXCEPT !.fTimerQueue = q], q)
<1>0. PICK n : n = [s EXCEPT !.fTimerQueue = q]
  OBVIOUS
<1>1. n = [fTimerQueue |-> q, due |-> s.due, fMode |-> s.fMode,
           fInterval |-> s.fInterval, fPending |-> s.fPending, hw |-> s.hw]
  <2>1. s = [fTimerQueue |-> s.fTimerQueue, due |-> s.due, fMode |-> s.fMode,
             fInterval |-> s.fInterval, fPending |-> s.fPending, hw |-> s.hw]
    BY TimerParts, Zenon
  <2> QED
    BY ONLY <1>0, <2>1
<1>2. n \in TimerStates
  BY <1>1, TimerParts DEF TimerStates
<1>3. /\ n.fTimerQueue = q /\ n.due = s.due /\ n.fMode = s.fMode
      /\ n.fInterval = s.fInterval /\ n.fPending = s.fPending /\ n.hw = s.hw
  BY ONLY <1>1
<1>4. OnlyQueue(s, n, q)
  BY <1>2, <1>3, Zenon DEF OnlyQueue
<1> QED
  BY <1>0, <1>4, Zenon

\* n is s but for the hardware timer.
OnlyHardware(s, n) ==
  /\ n \in TimerStates
  /\ n.fTimerQueue = s.fTimerQueue /\ n.due = s.due /\ n.fMode = s.fMode
  /\ n.fInterval = s.fInterval /\ n.fPending = s.fPending

\* The hardware timer comes no later than the head of the queue is due.
Covers(s) ==
  s.fTimerQueue # << >> =>
    s.hw = 0 \/ (s.hw # Off /\ s.hw <= s.due[Head(s.fTimerQueue)])

LEMMA HardwarePut ==
  ASSUME NEW s \in TimerStates, NEW h \in Off..kMaxTimerInterval
  PROVE  OnlyHardware(s, [s EXCEPT !.hw = h]) /\ [s EXCEPT !.hw = h].hw = h
<1>0. PICK n : n = [s EXCEPT !.hw = h]
  OBVIOUS
<1>1. n = [fTimerQueue |-> s.fTimerQueue, due |-> s.due, fMode |-> s.fMode,
           fInterval |-> s.fInterval, fPending |-> s.fPending, hw |-> h]
  <2>1. s = [fTimerQueue |-> s.fTimerQueue, due |-> s.due, fMode |-> s.fMode,
             fInterval |-> s.fInterval, fPending |-> s.fPending, hw |-> s.hw]
    BY TimerParts, Zenon
  <2> QED
    BY ONLY <1>0, <2>1
<1>2. n \in TimerStates
  BY <1>1, TimerParts DEF TimerStates
<1>3. /\ n.fTimerQueue = s.fTimerQueue /\ n.due = s.due /\ n.fMode = s.fMode
      /\ n.fInterval = s.fInterval /\ n.fPending = s.fPending /\ n.hw = h
  BY ONLY <1>1
<1>4. OnlyHardware(s, n) /\ n.hw = h
  BY <1>2, <1>3, Zenon DEF OnlyHardware
<1> QED
  BY <1>0, <1>4, Zenon

\* The hardware timer is set for the head of the queue.
LEMMA ReprogramCovers ==
  ASSUME NEW s \in TimerStates, NEW early \in Early
  PROVE  /\ OnlyHardware(s, ReprogramHardwareTimer(s, early))
         /\ Covers(ReprogramHardwareTimer(s, early))
<1>1. CASE s.fTimerQueue = << >>
  <2>1. ReprogramHardwareTimer(s, early) = s
    BY <1>1, Zenon DEF ReprogramHardwareTimer
  <2> QED
    BY <1>1, <2>1, Zenon DEF OnlyHardware, Covers
<1>2. CASE s.fTimerQueue # << >>
  <2> DEFINE next == s.due[Head(s.fTimerQueue)]
             h == IF s.hw = 0 \/ next <= 0 THEN 0
                  ELSE IF next < kMaxTimerInterval THEN next - early
                  ELSE kMaxTimerInterval
  <2>1. next \in Int
    <3>1. s.fTimerQueue \in Seq(Timers) /\ s.due \in [Timers -> Int]
      BY TimerParts
    <3>2. Head(s.fTimerQueue) \in Timers
      BY <1>2, <3>1
    <3> QED
      BY <3>1, <3>2
  <2>2. ReprogramHardwareTimer(s, early) = [s EXCEPT !.hw = h]
    BY <1>2, Zenon DEF ReprogramHardwareTimer, SetHardwareTimer
  <2>3. s.hw \in Int /\ kMaxTimerInterval \in Nat \ {0} /\ early \in {0, 1}
    BY TimerParts, TimerAssumption DEF Early, Off
  <2>4. h \in 0..kMaxTimerInterval /\ (h = 0 \/ h <= next)
    <3> HIDE DEF next
    <3>1. CASE s.hw = 0 \/ next <= 0
      <4>1. h = 0
        BY <3>1, Zenon
      <4> QED
        BY <2>3, <4>1
    <3>2. CASE ~(s.hw = 0 \/ next <= 0) /\ next < kMaxTimerInterval
      <4>1. next > 0
        BY <2>1, <3>2
      <4>2. h = next - early
        BY <3>2, Zenon
      <4> HIDE DEF h
      <4> QED
        BY <2>1, <2>3, <3>2, <4>1, <4>2
    <3>3. CASE ~(s.hw = 0 \/ next <= 0) /\ ~(next < kMaxTimerInterval)
      <4>1. h = kMaxTimerInterval
        BY <3>3, Zenon
      <4> HIDE DEF h
      <4> QED
        BY <2>1, <2>3, <3>3, <4>1
    <3> QED
      BY <3>1, <3>2, <3>3
  <2> HIDE DEF h
  <2>5. h \in Off..kMaxTimerInterval /\ h # Off
    BY <2>3, <2>4 DEF Off
  <2>6. PICK n : n = [s EXCEPT !.hw = h]
    OBVIOUS
  <2>7. OnlyHardware(s, n) /\ n.hw = h
    BY <2>5, <2>6, HardwarePut, Zenon
  <2>8. Covers(n)
    BY <2>4, <2>5, <2>7, Zenon DEF Covers, OnlyHardware
  <2> QED
    BY <2>2, <2>6, <2>7, <2>8, Zenon
<1> QED
  BY <1>1, <1>2

\* n is s but for the fields of t.
OnlyTimer(s, n, t) ==
  /\ n \in TimerStates /\ n.fTimerQueue = s.fTimerQueue /\ n.hw = s.hw
  /\ \A u \in Timers : u # t => /\ n.due[u] = s.due[u] /\ n.fMode[u] = s.fMode[u]
                                /\ n.fInterval[u] = s.fInterval[u]
                                /\ n.fPending[u] = s.fPending[u]

\* t was set.
Armed(s, n, t, mode, time) ==
  /\ OnlyTimer(s, n, t)
  /\ n.fPending[t] /\ n.due[t] = time /\ n.fMode[t] = mode
  /\ mode = "periodic" => n.fInterval[t] = time

\* t is no longer pending.
Disarmed(s, n, t) ==
  /\ OnlyTimer(s, n, t)
  /\ ~n.fPending[t] /\ n.due[t] = 0 /\ n.fMode[t] = "one shot"

\* The fields of t, one value each.
Fields(s, t, mode, pending, time, interval) ==
  [s EXCEPT !.fMode[t] = mode, !.fPending[t] = pending, !.due[t] = time,
            !.fInterval[t] = interval]

Fielded(s, n, t, mode, pending, time, interval) ==
  /\ OnlyTimer(s, n, t)
  /\ n.fPending[t] = pending /\ n.due[t] = time /\ n.fMode[t] = mode
  /\ n.fInterval[t] = interval

LEMMA FieldsPut ==
  ASSUME NEW s \in TimerStates, NEW t \in Timers, NEW mode \in Modes, NEW pending \in BOOLEAN,
         NEW time \in Int, NEW interval \in Nat
  PROVE  Fielded(s, Fields(s, t, mode, pending, time, interval), t, mode, pending, time, interval)
<1>0. PICK n : n = Fields(s, t, mode, pending, time, interval)
  OBVIOUS
<1> DEFINE mo == [s.fMode EXCEPT ![t] = mode]
           pe == [s.fPending EXCEPT ![t] = pending]
           du == [s.due EXCEPT ![t] = time]
           iv == [s.fInterval EXCEPT ![t] = interval]
<1>1. n = [s EXCEPT !.fMode = mo, !.fPending = pe, !.due = du, !.fInterval = iv]
  BY <1>0, TimerParts DEF Fields
<1>2. /\ mo \in [Timers -> Modes] /\ pe \in [Timers -> BOOLEAN]
      /\ du \in [Timers -> Int] /\ iv \in [Timers -> Nat]
  BY TimerParts
<1>3. /\ mo[t] = mode /\ pe[t] = pending /\ du[t] = time /\ iv[t] = interval
      /\ \A u \in Timers : u # t => /\ mo[u] = s.fMode[u] /\ pe[u] = s.fPending[u]
                                    /\ du[u] = s.due[u] /\ iv[u] = s.fInterval[u]
  BY TimerParts
<1> HIDE DEF mo, pe, du, iv
<1>4. n = [fTimerQueue |-> s.fTimerQueue, due |-> du, fMode |-> mo,
           fInterval |-> iv, fPending |-> pe, hw |-> s.hw]
  <2>1. s = [fTimerQueue |-> s.fTimerQueue, due |-> s.due, fMode |-> s.fMode,
             fInterval |-> s.fInterval, fPending |-> s.fPending, hw |-> s.hw]
    BY TimerParts, Zenon
  <2> QED
    BY ONLY <1>1, <2>1
<1>5. n \in TimerStates
  BY <1>2, <1>4, TimerParts DEF TimerStates
<1>6. /\ n.fTimerQueue = s.fTimerQueue /\ n.due = du /\ n.fMode = mo
      /\ n.fInterval = iv /\ n.fPending = pe /\ n.hw = s.hw
  BY ONLY <1>4
<1>7. Fielded(s, n, t, mode, pending, time, interval)
  BY <1>3, <1>5, <1>6, Zenon DEF Fielded, OnlyTimer
<1> QED
  BY <1>0, <1>7, Zenon

LEMMA AssignArms ==
  ASSUME NEW s \in TimerStates, NEW t \in Timers, NEW mode \in Modes, NEW time \in Nat
  PROVE  Armed(s, Assign(s, t, mode, time), t, mode, time)
<1>0. PICK interval, yes : interval = (IF mode = "periodic" THEN time ELSE s.fInterval[t]) /\ yes = TRUE
  OBVIOUS
<1>1. s.fInterval[t] \in Nat
  BY TimerParts
<1>2. interval \in Nat /\ (mode = "periodic" => interval = time) /\ time \in Int /\ yes \in BOOLEAN
  BY <1>0, <1>1
<1>3. Assign(s, t, mode, time) = Fields(s, t, mode, yes, time, interval)
  <2>1. Assign(s, t, mode, time)
          = [s EXCEPT !.fMode[t] = mode, !.fPending[t] = TRUE, !.due[t] = time,
                      !.fInterval[t] = IF mode = "periodic" THEN time ELSE @]
    BY Zenon DEF Assign
  <2> QED
    BY <1>0, <2>1, TimerParts DEF Fields
<1>4. PICK n : n = Assign(s, t, mode, time)
  OBVIOUS
<1>5. n = Fields(s, t, mode, yes, time, interval)
  BY <1>3, <1>4, Zenon
<1>6. Fielded(s, n, t, mode, yes, time, interval)
  <2>1. Fielded(s, Fields(s, t, mode, yes, time, interval), t, mode, yes, time, interval)
    BY <1>2, FieldsPut, Zenon
  <2> QED
    BY <1>5, <2>1, Zenon
<1>7. Armed(s, n, t, mode, time)
  BY <1>0, <1>2, <1>6, Zenon DEF Armed, Fielded
<1> QED
  BY <1>4, <1>7, Zenon

LEMMA NotPendingDisarms ==
  ASSUME NEW s \in TimerStates, NEW t \in Timers
  PROVE  Disarmed(s, NotPending(s, t), t)
<1>2. PICK no \in BOOLEAN, zero \in Nat : no = FALSE /\ zero = 0
  OBVIOUS
<1>3. zero \in Int
  BY <1>2
<1>1. PICK mode \in Modes : mode = "one shot"
  BY Zenon DEF Modes
<1>4. PICK n : n = NotPending(s, t)
  OBVIOUS
<1>5. n = [s EXCEPT !.fPending[t] = no, !.due[t] = zero, !.fMode[t] = mode, !.fInterval[t] = zero]
  BY <1>1, <1>2, <1>4, Zenon DEF NotPending
<1>6. n = Fields(s, t, mode, no, zero, zero)
  BY <1>5, TimerParts, ZenonT(60) DEF Fields
<1>7. Fielded(s, n, t, mode, no, zero, zero)
  <2>1. Fielded(s, Fields(s, t, mode, no, zero, zero), t, mode, no, zero, zero)
    BY <1>3, FieldsPut, Zenon
  <2> QED
    BY <1>6, <2>1, Zenon
<1>8. Disarmed(s, n, t)
  BY <1>1, <1>2, <1>7, Zenon DEF Disarmed, Fielded
<1> QED
  BY <1>4, <1>8, Zenon

\* The queue of s lists the timers of L in the order in which they are due.
QueueRight(s, L) ==
  /\ s \in TimerStates /\ L \in SUBSET Timers
  /\ Once(s.fTimerQueue, L)
  /\ Rising(s.fTimerQueue, s.due)
  /\ \A t \in Timers : s.due[t] >= -MaxLatency /\ (s.fMode[t] = "periodic" => s.fInterval[t] > 0)
  /\ \A t \in L : s.fPending[t]

\* The head of a queue that was put in place of another is its old head or t.
Placed(s, n, t) ==
  /\ OnlyQueue(s, n, n.fTimerQueue) /\ n.fTimerQueue # << >>
  /\ Head(n.fTimerQueue) = t \/ (s.fTimerQueue # << >> /\ Head(n.fTimerQueue) = Head(s.fTimerQueue))

\* A timer goes to its place in the queue.
LEMMA EnqueueRight ==
  ASSUME NEW s, NEW L, QueueRight(s, L), NEW t \in Timers, t \notin L, s.fPending[t]
  PROVE  /\ QueueRight(Enqueue(s, t), L \cup {t})
         /\ Placed(s, Enqueue(s, t), t)
<1> DEFINE q == s.fTimerQueue
           d == s.due
           sooner == {i \in 1..Len(q) : d[q[i]] < d[t]}
           place == IF q = << >> \/ d[Head(q)] >= d[t] THEN 0 ELSE Max(sooner)
<1>1. s \in TimerStates /\ L \in SUBSET Timers /\ Once(q, L) /\ Rising(q, d)
  BY Zenon DEF QueueRight
<1>2. /\ q \in Seq(L) /\ Len(q) \in Nat /\ DOMAIN q = 1..Len(q)
      /\ \A i \in 1..Len(q) : q[i] \in L
  BY <1>1, LenProperties DEF Once
<1>3. d \in [Timers -> Int] /\ \A u \in Timers : d[u] \in Int
  <2>1. d \in [Timers -> Int]
    BY <1>1, TimerParts, Zenon
  <2> HIDE DEF d
  <2> QED
    BY <2>1
<1>4. \A i \in 1..Len(q) : d[q[i]] \in Int
  BY <1>1, <1>2, <1>3
<1>5. Enqueue(s, t) = [s EXCEPT !.fTimerQueue = InsertAt(q, place + 1, t)]
  BY Zenon DEF Enqueue
<1> HIDE DEF q, d
<1>6. /\ place \in 0..Len(q)
      /\ \A j \in 1..Len(q) : (j < place + 1 => d[q[j]] <= d[t]) /\ (j >= place + 1 => d[t] <= d[q[j]])
  <2>1. CASE q = << >>
    BY <1>2, <2>1
  <2>2. CASE q # << >> /\ d[Head(q)] >= d[t]
    <3>1. place = 0
      BY <2>2, Zenon
    <3>2. Head(q) = q[1] /\ 1 \in 1..Len(q)
      BY <1>2, <2>2, EmptySeq
    <3>3. \A j \in 1..Len(q) : d[q[1]] <= d[q[j]]
      <4> TAKE j \in 1..Len(q)
      <4>1. CASE j = 1
        BY <1>4, <3>2, <4>1
      <4>2. CASE j # 1
        <5>1. 1 < j
          BY <4>2
        <5> QED
          BY <1>1, <3>2, <5>1, Zenon DEF Rising
      <4> QED
        BY <4>1, <4>2
    <3>4. d[t] \in Int /\ d[q[1]] >= d[t] /\ d[q[1]] \in Int
      BY <1>3, <1>4, <2>2, <3>2
    <3> HIDE DEF place
    <3>5. ASSUME NEW j \in 1..Len(q) PROVE ~(j < place + 1) /\ d[t] <= d[q[j]]
      <4>1. d[q[1]] <= d[q[j]] /\ d[q[j]] \in Int
        BY <1>4, <3>3, Zenon
      <4>2. ~(j < place + 1)
        BY <3>1
      <4> QED
        BY <3>4, <4>1, <4>2
    <3> QED
      BY <1>2, <3>1, <3>5
  <2>3. CASE q # << >> /\ ~(d[Head(q)] >= d[t])
    <3>1. place = Max(sooner)
      BY <2>3, Zenon
    <3>2. Head(q) = q[1] /\ 1 \in 1..Len(q)
      BY <1>2, <2>3, EmptySeq
    <3>3. 1 \in sooner /\ sooner \in SUBSET (0..Len(q))
      BY <1>3, <1>4, <2>3, <3>2
    <3>4. PICK m \in sooner : \A y \in sooner : m >= y
      <4>1. sooner \in SUBSET Int /\ sooner # {} /\ \A y \in sooner : y <= Len(q)
        BY <1>2, <3>3
      <4>2. Len(q) \in Int
        BY <1>2
      <4> HIDE DEF sooner
      <4> QED
        BY <4>1, <4>2, GreatestNumber, Zenon
    <3>5. place \in sooner /\ \A y \in sooner : place >= y
      <4>1. m \in sooner /\ \A y \in sooner : m >= y
        BY <3>3, <3>4
      <4> HIDE DEF sooner, place
      <4> QED
        BY <3>1, <4>1, Zenon DEF Max
    <3>6. place \in 1..Len(q) /\ d[q[place]] < d[t]
      BY <3>5
    <3>7. \A y \in 1..Len(q) : d[q[y]] < d[t] => place >= y
      BY <3>5
    <3> HIDE DEF place, sooner
    <3>8. ASSUME NEW j \in 1..Len(q), j < place + 1 PROVE d[q[j]] <= d[t]
      <4>1. CASE j = place
        BY <1>3, <1>4, <3>6, <4>1
      <4>2. CASE j # place
        <5>1. j < place
          BY <3>6, <3>8, <4>2
        <5>2. d[q[j]] <= d[q[place]]
          BY <1>1, <3>6, <5>1, Zenon DEF Rising
        <5> QED
          BY <1>3, <1>4, <3>6, <5>2
      <4> QED
        BY <4>1, <4>2
    <3>9. ASSUME NEW j \in 1..Len(q), j >= place + 1 PROVE d[t] <= d[q[j]]
      BY <1>3, <1>4, <3>6, <3>7, <3>9
    <3> QED
      BY <1>2, <3>6, <3>8, <3>9
  <2> QED
    BY <2>1, <2>2, <2>3, Zenon
<1> HIDE DEF place, sooner
<1>7. PICK i : i = place + 1
  OBVIOUS
<1>8. i \in 1..(Len(q) + 1) /\ i \in Int
  BY <1>2, <1>6, <1>7
<1>9. PICK r : r = InsertAt(q, i, t)
  OBVIOUS
<1>10. Once(r, L \cup {t})
  BY <1>1, <1>8, <1>9, OnceInsert, Zenon
<1>11. Rising(r, d)
  <2>1. \A u \in L \cup {t} : d[u] \in Int
    BY <1>1, <1>3
  <2>2. \A j \in 1..Len(q) : (j < i => d[q[j]] <= d[t]) /\ (j >= i => d[t] <= d[q[j]])
    BY <1>6, <1>7, Zenon
  <2> QED
    BY <1>1, <1>8, <1>9, <2>1, <2>2, RisingInsert, Zenon
<1>12. r \in Seq(Timers) /\ r \in Seq(L \cup {t}) /\ L \cup {t} \in SUBSET Timers
  BY <1>1, <1>10 DEF Once
<1>13. r # << >> /\ (Head(r) = t \/ (q # << >> /\ Head(r) = Head(q)))
  <2>1. q \in Seq(L \cup {t}) /\ t \in L \cup {t}
    BY <1>2
  <2>2. /\ Len(r) = Len(q) + 1
        /\ \A j \in 1..(Len(q) + 1) : /\ j < i => r[j] = q[j]
                                      /\ j = i => r[j] = t
    BY <1>8, <1>9, <2>1, InsertAtPlace
  <2>3. r # << >> /\ Head(r) = r[1] /\ 1 \in 1..(Len(q) + 1)
    BY <1>2, <1>12, <2>2
  <2>4. CASE i = 1
    BY <2>2, <2>3, <2>4
  <2>5. CASE i # 1
    <3>1. r[1] = q[1] /\ Len(q) > 0
      BY <1>2, <1>8, <2>2, <2>3, <2>5
    <3>2. q # << >> /\ Head(q) = q[1]
      BY <1>2, <3>1, EmptySeq
    <3> QED
      BY <2>3, <3>1, <3>2, Zenon
  <2> QED
    BY <2>4, <2>5
<1>14. PICK n : n = Enqueue(s, t)
  OBVIOUS
<1>15. OnlyQueue(s, n, r)
  <2>1. n = [s EXCEPT !.fTimerQueue = r]
    BY <1>5, <1>7, <1>9, <1>14, Zenon
  <2> QED
    BY <1>1, <1>12, <2>1, QueuePut, Zenon
<1>16. QueueRight(n, L \cup {t})
  <2>1. /\ n \in TimerStates /\ n.fTimerQueue = r /\ n.due = s.due /\ n.fMode = s.fMode
        /\ n.fInterval = s.fInterval /\ n.fPending = s.fPending
    BY <1>15, Zenon DEF OnlyQueue
  <2>2. \A u \in Timers : n.due[u] >= -MaxLatency /\ (n.fMode[u] = "periodic" => n.fInterval[u] > 0)
    BY <2>1, Zenon DEF QueueRight
  <2>3. \A u \in L \cup {t} : n.fPending[u]
    BY <2>1, Zenon DEF QueueRight
  <2>4. Rising(n.fTimerQueue, n.due)
    BY <1>11, <2>1, Zenon DEF d
  <2> QED
    BY <1>10, <1>12, <2>1, <2>2, <2>3, <2>4, Zenon DEF QueueRight
<1>17. Placed(s, n, t)
  BY <1>13, <1>15, Zenon DEF Placed, OnlyQueue, q
<1> QED
  BY <1>14, <1>16, <1>17, Zenon

\* The other timers are what they were.
OthersKept(s, n, t) ==
  \A u \in Timers : u # t => /\ n.due[u] = s.due[u] /\ n.fMode[u] = s.fMode[u]
                             /\ n.fInterval[u] = s.fInterval[u]
                             /\ n.fPending[u] = s.fPending[u]

\* The fields of t are what they were.
TimerKept(s, n, t) ==
  /\ n.due[t] = s.due[t] /\ n.fMode[t] = s.fMode[t]
  /\ n.fInterval[t] = s.fInterval[t] /\ n.fPending[t] = s.fPending[t]

\* A queue with the same timers in it.
LEMMA HardwareKeepsQueue ==
  ASSUME NEW s, NEW L, QueueRight(s, L), NEW n, OnlyHardware(s, n)
  PROVE  QueueRight(n, L) /\ \A u \in Timers : TimerKept(s, n, u)
BY Zenon DEF QueueRight, OnlyHardware, TimerKept

\* The part of SetTimeout with interrupts off: the hardware timer is set when the
\* head has changed, and otherwise it covers the head already.
LEMMA InsertTimeoutRight ==
  ASSUME NEW s, NEW L, QueueRight(s, L), Covers(s), NEW t \in Timers, t \notin L, s.fPending[t],
         NEW early \in Early
  PROVE  /\ QueueRight(InsertTimeout(s, t, early), L \cup {t})
         /\ Covers(InsertTimeout(s, t, early))
         /\ \A u \in Timers : TimerKept(s, InsertTimeout(s, t, early), u)
<1>1. PICK r : r = Enqueue(s, t)
  OBVIOUS
<1>2. QueueRight(r, L \cup {t}) /\ Placed(s, r, t)
  BY <1>1, EnqueueRight, Zenon
<1>3. \A u \in Timers : TimerKept(s, r, u)
  BY <1>2, Zenon DEF Placed, OnlyQueue, TimerKept
<1>4. CASE s.fTimerQueue = << >> \/ Head(r.fTimerQueue) # Head(s.fTimerQueue)
  <2>1. InsertTimeout(s, t, early) = ReprogramHardwareTimer(r, early)
    BY <1>1, <1>4, Zenon DEF InsertTimeout
  <2>2. PICK n : n = ReprogramHardwareTimer(r, early)
    OBVIOUS
  <2>3. r \in TimerStates
    BY <1>2, Zenon DEF QueueRight
  <2>4. OnlyHardware(r, n) /\ Covers(n)
    BY <2>2, <2>3, ReprogramCovers, Zenon
  <2>5. QueueRight(n, L \cup {t}) /\ \A u \in Timers : TimerKept(r, n, u)
    BY <1>2, <2>4, HardwareKeepsQueue, Zenon
  <2>6. \A u \in Timers : TimerKept(s, n, u)
    BY <1>3, <2>5, Zenon DEF TimerKept
  <2> QED
    BY <2>1, <2>2, <2>4, <2>5, <2>6, Zenon
<1>5. CASE ~(s.fTimerQueue = << >> \/ Head(r.fTimerQueue) # Head(s.fTimerQueue))
  <2>1. InsertTimeout(s, t, early) = r
    BY <1>1, <1>5, Zenon DEF InsertTimeout
  <2>2. Covers(r)
    BY <1>2, <1>5, Zenon DEF Covers, Placed, OnlyQueue
  <2> QED
    BY <1>2, <1>3, <2>1, <2>2, Zenon
<1> QED
  BY <1>4, <1>5, Zenon

\* The fields of a timer that is in no queue are its own business.
LEMMA TimerChanged ==
  ASSUME NEW s, NEW L, QueueRight(s, L), NEW t \in Timers, t \notin L, NEW n, OnlyTimer(s, n, t),
         n.due[t] >= -MaxLatency, n.fMode[t] = "periodic" => n.fInterval[t] > 0
  PROVE  QueueRight(n, L) /\ (Covers(s) => Covers(n))
<1>1. /\ n \in TimerStates /\ n.fTimerQueue = s.fTimerQueue /\ n.hw = s.hw
      /\ OthersKept(s, n, t)
  BY Zenon DEF OnlyTimer, OthersKept
<1>2. \A u \in Timers : n.due[u] >= -MaxLatency /\ (n.fMode[u] = "periodic" => n.fInterval[u] > 0)
  <2> TAKE u \in Timers
  <2>1. CASE u = t
    BY <2>1, Zenon
  <2>2. CASE u # t
    BY <1>1, <2>2, Zenon DEF OthersKept, QueueRight
  <2> QED
    BY <2>1, <2>2
<1>3. \A u \in L : u # t /\ u \in Timers
  BY DEF QueueRight
<1>4. \A u \in L : n.fPending[u] /\ n.due[u] = s.due[u]
  BY <1>1, <1>3, Zenon DEF OthersKept, QueueRight
<1>5. Rising(n.fTimerQueue, n.due)
  <2>1. \A i \in 1..Len(s.fTimerQueue) : s.fTimerQueue[i] \in L
    BY DEF QueueRight, Once
  <2> QED
    BY <1>1, <1>4, <2>1, ZenonT(30) DEF Rising, QueueRight
<1>6. QueueRight(n, L)
  BY <1>1, <1>2, <1>4, <1>5, Zenon DEF QueueRight
<1>7. ASSUME Covers(s) PROVE Covers(n)
  <2>1. ASSUME s.fTimerQueue # << >> PROVE n.due[Head(s.fTimerQueue)] = s.due[Head(s.fTimerQueue)]
    <3>1. Head(s.fTimerQueue) \in L
      BY <2>1, OnceTail, Zenon DEF QueueRight
    <3> QED
      BY <1>4, <3>1, Zenon
  <2> QED
    BY <1>1, <1>7, <2>1, Zenon DEF Covers
<1> QED
  BY <1>6, <1>7, Zenon

LEMMA AssignRight ==
  ASSUME NEW s, NEW L, QueueRight(s, L), NEW t \in Timers, t \notin L,
         NEW mode \in Modes, NEW time \in Nat, mode = "periodic" => time > 0
  PROVE  /\ QueueRight(Assign(s, t, mode, time), L)
         /\ Covers(s) => Covers(Assign(s, t, mode, time))
         /\ Armed(s, Assign(s, t, mode, time), t, mode, time)
<1>1. PICK n : n = Assign(s, t, mode, time)
  OBVIOUS
<1>2. s \in TimerStates
  BY Zenon DEF QueueRight
<1>3. Armed(s, n, t, mode, time)
  BY <1>1, <1>2, AssignArms, Zenon
<1>4. time >= -MaxLatency
  BY TimerAssumption
<1>5. /\ OnlyTimer(s, n, t) /\ n.due[t] >= -MaxLatency
      /\ n.fMode[t] = "periodic" => n.fInterval[t] > 0
  BY <1>3, <1>4, Zenon DEF Armed
<1>6. QueueRight(n, L) /\ (Covers(s) => Covers(n))
  BY <1>5, TimerChanged, Zenon
<1> QED
  BY <1>1, <1>3, <1>6, Zenon

LEMMA NotPendingRight ==
  ASSUME NEW s, NEW L, QueueRight(s, L), NEW t \in Timers, t \notin L
  PROVE  /\ QueueRight(NotPending(s, t), L)
         /\ Covers(s) => Covers(NotPending(s, t))
         /\ Disarmed(s, NotPending(s, t), t)
<1>1. PICK n : n = NotPending(s, t)
  OBVIOUS
<1>2. s \in TimerStates
  BY Zenon DEF QueueRight
<1>3. Disarmed(s, n, t)
  BY <1>1, <1>2, NotPendingDisarms, Zenon
<1>4. 0 >= -MaxLatency
  BY TimerAssumption
<1>5. /\ OnlyTimer(s, n, t) /\ n.due[t] >= -MaxLatency
      /\ n.fMode[t] = "periodic" => n.fInterval[t] > 0
  <2>1. "one shot" # "periodic"
    BY Zenon
  <2> QED
    BY <1>3, <1>4, <2>1, Zenon DEF Disarmed
<1>6. QueueRight(n, L) /\ (Covers(s) => Covers(n))
  BY <1>5, TimerChanged, Zenon
<1> QED
  BY <1>1, <1>3, <1>6, Zenon

\* Remove of a timer that is in the queue.
LEMMA RemovedRight ==
  ASSUME NEW s, NEW L, QueueRight(s, L), NEW t \in L
  PROVE  /\ QueueRight(Removed(s, t), L \ {t})
         /\ OnlyQueue(s, Removed(s, t), RemoveFirst(s.fTimerQueue, t))
         /\ Head(s.fTimerQueue) # t =>
              /\ Removed(s, t).fTimerQueue # << >>
              /\ Head(Removed(s, t).fTimerQueue) = Head(s.fTimerQueue)
<1>1. /\ s \in TimerStates /\ L \in SUBSET Timers /\ Once(s.fTimerQueue, L)
      /\ Rising(s.fTimerQueue, s.due)
  BY Zenon DEF QueueRight
<1>2. PICK q : q = RemoveFirst(s.fTimerQueue, t)
  OBVIOUS
<1>3. Once(q, L \ {t})
  BY <1>1, <1>2, OnceRemove, Zenon
<1>4. q \in Seq(Timers)
  BY <1>1, <1>3 DEF Once
<1>5. s.fTimerQueue # << >>
  BY <1>1, OnceEmpty, Zenon
<1>6. /\ Rising(q, s.due)
      /\ Head(s.fTimerQueue) # t => q # << >> /\ Head(q) = Head(s.fTimerQueue)
  BY <1>1, <1>2, <1>5, RisingRemove, Zenon
<1>7. PICK n : n = Removed(s, t)
  OBVIOUS
<1>8. OnlyQueue(s, n, q)
  <2>1. n = [s EXCEPT !.fTimerQueue = q]
    BY <1>2, <1>7, Zenon DEF Removed
  <2> QED
    BY <1>1, <1>4, <2>1, QueuePut, Zenon
<1>9. QueueRight(n, L \ {t})
  <2>1. /\ n \in TimerStates /\ n.fTimerQueue = q /\ n.due = s.due /\ n.fMode = s.fMode
        /\ n.fInterval = s.fInterval /\ n.fPending = s.fPending
    BY <1>8, Zenon DEF OnlyQueue
  <2>2. L \ {t} \in SUBSET Timers
    BY <1>1
  <2>3. \A u \in Timers : n.due[u] >= -MaxLatency /\ (n.fMode[u] = "periodic" => n.fInterval[u] > 0)
    BY <2>1, Zenon DEF QueueRight
  <2>4. \A u \in L \ {t} : n.fPending[u]
    BY <2>1, Zenon DEF QueueRight
  <2> QED
    BY <1>3, <1>6, <2>1, <2>2, <2>3, <2>4, Zenon DEF QueueRight
<1> QED
  BY <1>2, <1>6, <1>7, <1>8, <1>9, Zenon DEF OnlyQueue

\* What is in the queue.
LEMMA LinkedIs ==
  ASSUME NEW s, NEW L, QueueRight(s, L), NEW t
  PROVE  Linked(s, t) <=> t \in L
<1> DEFINE q == s.fTimerQueue
<1>1. q \in Seq(L) /\ \A u \in L : \E i \in 1..Len(q) : q[i] = u
  BY Zenon DEF QueueRight, Once
<1>2. DOMAIN q = 1..Len(q) /\ \A i \in 1..Len(q) : q[i] \in L
  BY <1>1, LenProperties, ElementOfSeq, Zenon
<1> QED
  BY <1>1, <1>2, Zenon DEF Linked, Range

\* CancelTimeout: the hardware timer is set when the head goes.
LEMMA CancelledRight ==
  ASSUME NEW s, NEW L, QueueRight(s, L), Covers(s), NEW t \in Timers, s.fPending[t] => t \in L,
         NEW early \in Early
  PROVE  /\ QueueRight(Cancelled(s, t, early), L \ {t})
         /\ Covers(Cancelled(s, t, early))
         /\ ~Cancelled(s, t, early).fPending[t]
         /\ OthersKept(s, Cancelled(s, t, early), t)
<1>1. PICK m : m = IF s.fPending[t] THEN Removed(s, t) ELSE s
  OBVIOUS
<1>2. PICK r : r = NotPending(m, t)
  OBVIOUS
<1>3. Cancelled(s, t, early)
        = IF Linked(s, t) /\ Head(s.fTimerQueue) = t THEN ReprogramHardwareTimer(r, early) ELSE r
  BY <1>1, <1>2, Zenon DEF Cancelled
<1>4. t \in L => s.fPending[t]
  BY Zenon DEF QueueRight
<1>5. /\ QueueRight(m, L \ {t})
      /\ \A u \in Timers : TimerKept(s, m, u)
      /\ ~(Linked(s, t) /\ Head(s.fTimerQueue) = t) => Covers(m)
  <2>1. CASE t \in L
    <3>1. m = Removed(s, t) /\ Linked(s, t)
      BY <1>1, <1>4, <2>1, LinkedIs, Zenon
    <3>2. QueueRight(m, L \ {t}) /\ OnlyQueue(s, m, RemoveFirst(s.fTimerQueue, t))
      BY <2>1, <3>1, RemovedRight, Zenon
    <3>3. \A u \in Timers : TimerKept(s, m, u)
      BY <3>2, Zenon DEF OnlyQueue, TimerKept
    <3>4. ASSUME Head(s.fTimerQueue) # t PROVE Covers(m)
      <4>1. m.fTimerQueue # << >> /\ Head(m.fTimerQueue) = Head(s.fTimerQueue)
        BY <2>1, <3>1, <3>4, RemovedRight, Zenon
      <4>2. s.fTimerQueue # << >>
        BY <2>1, OnceEmpty, Zenon DEF QueueRight
      <4>3. m.hw = s.hw /\ m.due = s.due
        BY <3>2, Zenon DEF OnlyQueue
      <4> QED
        BY <4>1, <4>2, <4>3, Zenon DEF Covers
    <3> QED
      BY <3>1, <3>2, <3>3, <3>4, Zenon
  <2>2. CASE t \notin L
    <3>1. m = s /\ L \ {t} = L
      BY <1>1, <2>2
    <3> QED
      BY <3>1, Zenon DEF TimerKept
  <2> QED
    BY <2>1, <2>2
<1>6. t \notin L \ {t}
  OBVIOUS
<1>7. /\ QueueRight(r, L \ {t})
      /\ Covers(m) => Covers(r)
      /\ Disarmed(m, r, t)
  BY <1>2, <1>5, <1>6, NotPendingRight, Zenon
<1>8. ~r.fPending[t] /\ OthersKept(s, r, t)
  BY <1>5, <1>7, Zenon DEF Disarmed, OnlyTimer, OthersKept, TimerKept
<1>9. CASE Linked(s, t) /\ Head(s.fTimerQueue) = t
  <2>1. PICK n : n = ReprogramHardwareTimer(r, early)
    OBVIOUS
  <2>2. r \in TimerStates
    BY <1>7, Zenon DEF QueueRight
  <2>3. OnlyHardware(r, n) /\ Covers(n)
    BY <2>1, <2>2, ReprogramCovers, Zenon
  <2>4. QueueRight(n, L \ {t}) /\ \A u \in Timers : TimerKept(r, n, u)
    BY <1>7, <2>3, HardwareKeepsQueue, Zenon
  <2>5. ~n.fPending[t] /\ OthersKept(s, n, t)
    BY <1>8, <2>4, Zenon DEF TimerKept, OthersKept
  <2>6. Cancelled(s, t, early) = n
    BY <1>3, <1>9, <2>1, Zenon
  <2> QED
    BY <2>3, <2>4, <2>5, <2>6, Zenon
<1>10. CASE ~(Linked(s, t) /\ Head(s.fTimerQueue) = t)
  <2>1. Cancelled(s, t, early) = r
    BY <1>3, <1>10, Zenon
  <2> QED
    BY <1>5, <1>7, <1>8, <1>10, <2>1, Zenon
<1> QED
  BY <1>9, <1>10, Zenon

\* The head expired: it is due later, or no longer pending.
HeadExpired(s, n, L, t) ==
  /\ n.hw = s.hw /\ OthersKept(s, n, t)
  /\ \/ QueueRight(n, L) /\ n.fPending[t] /\ n.due[t] > s.due[t]
     \/ QueueRight(n, L \ {t}) /\ ~n.fPending[t]

LEMMA ExpireHeadRight ==
  ASSUME NEW s, NEW L, QueueRight(s, L), s.fTimerQueue # << >>
  PROVE  /\ Head(s.fTimerQueue) \in L
         /\ HeadExpired(s, ExpireHead(s), L, Head(s.fTimerQueue))
<1>1. PICK t : t = Head(s.fTimerQueue)
  OBVIOUS
<1>2. /\ s \in TimerStates /\ L \in SUBSET Timers /\ Once(s.fTimerQueue, L)
      /\ Rising(s.fTimerQueue, s.due)
  BY Zenon DEF QueueRight
<1>3. t \in L /\ Once(Tail(s.fTimerQueue), L \ {t}) /\ Rising(Tail(s.fTimerQueue), s.due)
  BY <1>1, <1>2, OnceTail, RisingTail, Zenon
<1>4. t \in Timers /\ s.fPending[t] /\ L \ {t} \in SUBSET Timers /\ t \notin L \ {t}
      /\ (L \ {t}) \cup {t} = L
  BY <1>2, <1>3 DEF QueueRight
<1>5. PICK r : r = [s EXCEPT !.fTimerQueue = Tail(s.fTimerQueue)]
  OBVIOUS
<1>6. Tail(s.fTimerQueue) \in Seq(Timers)
  BY <1>2, <1>3 DEF Once
<1>7. OnlyQueue(s, r, Tail(s.fTimerQueue))
  BY <1>2, <1>5, <1>6, QueuePut, Zenon
<1>8. /\ r \in TimerStates /\ r.fTimerQueue = Tail(s.fTimerQueue) /\ r.due = s.due
      /\ r.fMode = s.fMode /\ r.fInterval = s.fInterval /\ r.fPending = s.fPending
      /\ r.hw = s.hw
  BY <1>7, Zenon DEF OnlyQueue
<1>9. QueueRight(r, L \ {t})
  <2>1. \A u \in Timers : r.due[u] >= -MaxLatency /\ (r.fMode[u] = "periodic" => r.fInterval[u] > 0)
    BY <1>8, Zenon DEF QueueRight
  <2>2. \A u \in L \ {t} : r.fPending[u]
    BY <1>8, Zenon DEF QueueRight
  <2> QED
    BY <1>3, <1>4, <1>8, <2>1, <2>2, Zenon DEF QueueRight
<1>10. PICK n : n = ExpireHead(s)
  OBVIOUS
<1>11. CASE s.fMode[t] = "periodic"
  <2>1. PICK d : d = r.due[t] + s.fInterval[t]
    OBVIOUS
  <2>2. /\ d \in Int /\ d > s.due[t] /\ d >= -MaxLatency
        /\ r.fMode[t] \in Modes /\ r.fPending[t] \in BOOLEAN /\ r.fInterval[t] \in Nat
    <3>1. s.due[t] \in Int /\ s.fInterval[t] \in Nat /\ r.fPending[t] \in BOOLEAN /\ r.fMode[t] \in Modes
      BY <1>2, <1>4, <1>8, TimerParts
    <3>2. s.due[t] >= -MaxLatency /\ s.fInterval[t] > 0
      BY <1>4, <1>11, Zenon DEF QueueRight
    <3>3. MaxLatency \in Nat
      BY TimerAssumption
    <3> QED
      BY <1>8, <2>1, <3>1, <3>2, <3>3
  <2>3. PICK m : m = [r EXCEPT !.due[t] = d]
    OBVIOUS
  <2>4. m = Fields(r, t, r.fMode[t], r.fPending[t], d, r.fInterval[t])
    BY <1>8, <2>3, TimerParts DEF Fields
  <2>5. Fielded(r, m, t, r.fMode[t], r.fPending[t], d, r.fInterval[t])
    <3>1. Fielded(r, Fields(r, t, r.fMode[t], r.fPending[t], d, r.fInterval[t]),
                  t, r.fMode[t], r.fPending[t], d, r.fInterval[t])
      BY <1>4, <1>8, <2>2, FieldsPut, Zenon
    <3> QED
      BY <2>4, <3>1, Zenon
  <2>6. /\ OnlyTimer(r, m, t) /\ m.due[t] = d /\ m.fPending[t]
        /\ m.fMode[t] = "periodic" => m.fInterval[t] > 0
    BY <1>4, <1>8, <2>5, Zenon DEF Fielded, QueueRight
  <2>7. QueueRight(m, L \ {t})
    BY <1>4, <1>9, <2>2, <2>6, TimerChanged, Zenon
  <2>8. n = Enqueue(m, t)
    <3>1. n = Enqueue([r EXCEPT !.due[t] = @ + s.fInterval[t]], t)
      BY <1>1, <1>5, <1>10, <1>11, Zenon DEF ExpireHead
    <3> QED
      BY <2>1, <2>3, <3>1, Zenon
  <2>9. QueueRight(n, L) /\ Placed(m, n, t)
    <3>1. QueueRight(n, (L \ {t}) \cup {t}) /\ Placed(m, n, t)
      BY <1>4, <2>6, <2>7, <2>8, EnqueueRight, Zenon
    <3> QED
      BY <1>4, <3>1, Zenon
  <2>10. /\ n.due = m.due /\ n.fMode = m.fMode /\ n.fInterval = m.fInterval
         /\ n.fPending = m.fPending /\ n.hw = m.hw
    BY <2>9, Zenon DEF Placed, OnlyQueue
  <2>11. OthersKept(s, n, t) /\ n.hw = s.hw
    <3>1. n.hw = s.hw
      BY <1>8, <2>6, <2>10, Zenon DEF OnlyTimer
    <3>2. OthersKept(s, n, t)
      BY <1>8, <2>6, <2>10, ZenonT(30) DEF OnlyTimer, OthersKept
    <3> QED
      BY <3>1, <3>2, Zenon
  <2>12. HeadExpired(s, n, L, t)
    BY <2>2, <2>6, <2>9, <2>10, <2>11, Zenon DEF HeadExpired
  <2> QED
    BY <1>1, <1>3, <1>10, <2>12, Zenon
<1>12. CASE s.fMode[t] # "periodic"
  <2>1. n = NotPending(r, t)
    BY <1>1, <1>5, <1>10, <1>12, Zenon DEF ExpireHead
  <2>2. QueueRight(n, L \ {t}) /\ Disarmed(r, n, t)
    BY <1>4, <1>9, <2>1, NotPendingRight, Zenon
  <2>3. ~n.fPending[t] /\ n.hw = s.hw /\ OthersKept(s, n, t)
    BY <1>8, <2>2, Zenon DEF Disarmed, OnlyTimer, OthersKept
  <2>4. HeadExpired(s, n, L, t)
    BY <2>2, <2>3, Zenon DEF HeadExpired
  <2> QED
    BY <1>1, <1>3, <1>10, <2>4, Zenon
<1> QED
  BY <1>11, <1>12, Zenon

\* The values of the interrupt's loop in i turns.
Passes(after, s, i) ==
  after = [n \in 0..i |-> IF n = 0 THEN s ELSE Turn(after[n - 1])]

\* There is such a function: the least number without one would have one, made
\* from that of the number before.
LEMMA PassesExist ==
  ASSUME NEW s, NEW len \in Nat
  PROVE  \E after : Passes(after, s, len)
<1> DEFINE bad == {i \in Nat : ~ \E after : Passes(after, s, i)}
<1>1. SUFFICES ASSUME bad # {} PROVE FALSE
  OBVIOUS
<1>2. bad \in SUBSET Nat
  OBVIOUS
<1> HIDE DEF bad
<1>3. PICK i \in bad : \A y \in bad : i <= y
  BY <1>1, <1>2, LeastNumber
<1>4. i \in Nat /\ ~ \E after : Passes(after, s, i)
  BY <1>3, Zenon DEF bad
<1>5. i # 0
  <2> DEFINE f == [n \in 0..0 |-> s]
  <2>1. Passes(f, s, 0)
    <3>1. \A n \in 0..0 : n = 0
      OBVIOUS
    <3> QED
      BY <3>1, Zenon DEF Passes
  <2> QED
    BY <2>1, <1>4, Zenon
<1>6. i - 1 \in Nat /\ i - 1 \notin bad
  BY <1>2, <1>3, <1>4, <1>5
<1>7. PICK g : Passes(g, s, i - 1)
  BY <1>6, Zenon DEF bad
<1> DEFINE last == Turn(g[i - 1])
           f == [n \in 0..i |-> IF n = i THEN last ELSE g[n]]
           h == [n \in 0..i |-> IF n = 0 THEN s ELSE Turn(f[n - 1])]
<1>8. \A n \in 0..i : f[n] = h[n]
  <2> TAKE n \in 0..i
  <2>1. CASE n = 0
    <3>1. 0 # i /\ 0 \in 0..i /\ 0 \in 0..(i - 1)
      BY <1>4, <1>5
    <3>2. g[0] = s
      BY <1>7, <3>1, Zenon DEF Passes
    <3> QED
      BY <2>1, <3>1, <3>2, Zenon
  <2>2. CASE n = i
    <3>1. i # 0 /\ i \in 0..i /\ i - 1 \in 0..i /\ i - 1 # i
      BY <1>4, <1>5
    <3>2. f[i - 1] = g[i - 1]
      BY <3>1, Zenon
    <3> QED
      BY <2>2, <3>1, <3>2, Zenon
  <2>3. CASE n # 0 /\ n # i
    <3>1. n - 1 \in 0..i /\ n - 1 # i /\ n \in 0..(i - 1) /\ n \in 0..i
      BY <2>3, <1>4
    <3>2. f[n - 1] = g[n - 1] /\ f[n] = g[n]
      BY <2>3, <3>1, Zenon
    <3>3. g[n] = Turn(g[n - 1])
      BY <1>7, <2>3, <3>1, Zenon DEF Passes
    <3> QED
      BY <2>3, <3>2, <3>3, Zenon
  <2> QED
    BY <2>1, <2>2, <2>3, Zenon
<1>9. f = h
  BY <1>8, Zenon
<1>10. Passes(f, s, i)
  BY <1>9, Zenon DEF Passes
<1> QED
  BY <1>4, <1>10, Zenon

\* The same, value by value.
Passed(after, s, len) ==
  /\ after[0] = s
  /\ \A n \in 1..len : after[n] = Turn(after[n - 1])

LEMMA ExpireIs ==
  ASSUME NEW s, NEW len \in Nat, len = Turns
  PROVE  \E after : Expire(s) = after[len] /\ Passed(after, s, len)
<1> DEFINE after[n \in 0..Turns] == IF n = 0 THEN s ELSE Turn(after[n - 1])
<1>1. Expire(s) = after[Turns]
  BY Zenon DEF Expire
<1>2. \E f : f = [n \in 0..Turns |-> IF n = 0 THEN s ELSE Turn(f[n - 1])]
  <2>1. PICK f : Passes(f, s, len)
    BY PassesExist, Zenon
  <2>2. f = [n \in 0..Turns |-> IF n = 0 THEN s ELSE Turn(f[n - 1])]
    BY <2>1, Zenon DEF Passes
  <2> QED
    BY <2>2, Zenon
<1>3. after = [n \in 0..Turns |-> IF n = 0 THEN s ELSE Turn(after[n - 1])]
  BY <1>2, Zenon
<1> HIDE DEF after
<1>4. 0 \in 0..len /\ \A n \in 1..len : n \in 0..len /\ n # 0
  OBVIOUS
<1>5. after[0] = s
  BY <1>3, <1>4, Zenon
<1>6. \A n \in 1..len : after[n] = Turn(after[n - 1])
  BY <1>3, <1>4, Zenon
<1>7. Passed(after, s, len)
  BY <1>5, <1>6, Zenon DEF Passed
<1> QED
  BY <1>1, <1>7, Zenon

\* How overdue the timers of L are: a pair for each timer and each microsecond
\* between the time it was due and now, both included.
Debt(s, L) == {p \in Timers \X (0..MaxLatency) : p[1] \in L /\ s.due[p[1]] + p[2] <= 0}

LEMMA DebtBounded ==
  ASSUME NEW s, NEW L
  PROVE  /\ Turns \in Nat
         /\ IsFiniteSet(Debt(s, L)) /\ Cardinality(Debt(s, L)) \in Nat
         /\ Cardinality(Debt(s, L)) <= Turns
<1>1. IsFiniteSet(Timers)
  <2>1. IsFiniteSet(WaitTimers \cup {Quantum}) /\ Timers = (WaitTimers \cup {Quantum}) \cup {Motor}
    BY TimerAssumption, FS_AddElement DEF Timers
  <2> QED
    BY <2>1, FS_AddElement
<1>2. MaxLatency \in Nat
  BY TimerAssumption
<1>3. IsFiniteSet(0..MaxLatency) /\ Cardinality(0..MaxLatency) = MaxLatency + 1
  BY <1>2, FS_Interval
<1>4. /\ IsFiniteSet(Timers \X (0..MaxLatency))
      /\ Cardinality(Timers \X (0..MaxLatency)) = Cardinality(Timers) * Cardinality(0..MaxLatency)
  BY <1>1, <1>3, FS_Product, Zenon
<1>5. Cardinality(Timers) \in Nat
  BY <1>1, FS_CardinalityType
<1>6. Turns \in Nat /\ Cardinality(Timers \X (0..MaxLatency)) = Turns
  BY <1>2, <1>3, <1>4, <1>5 DEF Turns
<1>7. Debt(s, L) \in SUBSET (Timers \X (0..MaxLatency))
  BY DEF Debt
<1>8. /\ IsFiniteSet(Debt(s, L))
      /\ Cardinality(Debt(s, L)) <= Cardinality(Timers \X (0..MaxLatency))
  BY <1>4, <1>7, FS_Subset, Zenon
<1>9. Cardinality(Debt(s, L)) \in Nat
  BY <1>8, FS_CardinalityType
<1> QED
  BY <1>6, <1>8, <1>9

\* The head of a queue that is overdue counts.
LEMMA HeadInDebt ==
  ASSUME NEW s, NEW L, QueueRight(s, L), Overdue(s)
  PROVE  /\ s.fTimerQueue # << >> /\ Head(s.fTimerQueue) \in L
         /\ <<Head(s.fTimerQueue), 0>> \in Debt(s, L)
         /\ <<Head(s.fTimerQueue), -s.due[Head(s.fTimerQueue)]>> \in Debt(s, L)
<1>1. PICK t : t = Head(s.fTimerQueue)
  OBVIOUS
<1>2. s.fTimerQueue # << >> /\ s.due[t] <= 0 /\ t \in L /\ t \in Timers
  <2>1. s.fTimerQueue # << >> /\ s.due[t] <= 0
    BY <1>1, Zenon DEF Overdue
  <2>2. t \in L
    BY <1>1, <2>1, OnceTail, Zenon DEF QueueRight
  <2> QED
    BY <2>1, <2>2 DEF QueueRight
<1>3. s.due[t] \in Int /\ s.due[t] >= -MaxLatency /\ MaxLatency \in Nat
  <2>1. s.due \in [Timers -> Int]
    BY TimerParts, Zenon DEF QueueRight
  <2>2. s.due[t] >= -MaxLatency
    BY <1>2, Zenon DEF QueueRight
  <2> QED
    BY <1>2, <2>1, <2>2, TimerAssumption
<1>4. PICK d \in Int : d = s.due[t]
  BY <1>3
<1>5. /\ -d \in 0..MaxLatency /\ 0 \in 0..MaxLatency
      /\ d + (-d) <= 0 /\ d + 0 <= 0
  BY <1>2, <1>3, <1>4
<1>6. ASSUME NEW j \in 0..MaxLatency, d + j <= 0 PROVE <<t, j>> \in Debt(s, L)
  <2>1. PICK p : p = <<t, j>>
    OBVIOUS
  <2>2. p \in Timers \X (0..MaxLatency) /\ p[1] = t /\ p[2] = j
    BY <1>2, <2>1
  <2>3. p \in Debt(s, L)
    BY <1>2, <1>4, <1>6, <2>2, Zenon DEF Debt
  <2> QED
    BY <2>1, <2>3, Zenon
<1>7. <<t, 0>> \in Debt(s, L) /\ <<t, -d>> \in Debt(s, L)
  BY <1>5, <1>6, Zenon
<1> QED
  BY <1>1, <1>2, <1>4, <1>7, Zenon

\* The timers of L that did not expire for good.
Left(r, L) == {u \in L : r.fPending[u]}

\* The loop of the interrupt that began with s has taken i turns and made r of it.
LoopRight(s, r, L, i) ==
  /\ QueueRight(r, Left(r, L)) /\ r.hw = s.hw
  /\ \A u \in Timers : u \notin L => r.fPending[u] = s.fPending[u]
  /\ Overdue(r) => Cardinality(Debt(r, Left(r, L))) <= Turns - i

\* A turn lessens the debt.
LEMMA TurnRight ==
  ASSUME NEW s, NEW L \in SUBSET Timers, NEW i \in Int, NEW r, LoopRight(s, r, L, i - 1)
  PROVE  LoopRight(s, Turn(r), L, i)
<1>1. CASE ~Overdue(r)
  <2>1. Turn(r) = r
    BY <1>1, Zenon DEF Turn
  <2> QED
    BY <1>1, <2>1, Zenon DEF LoopRight
<1>2. CASE Overdue(r)
  <2>1. PICK n : n = ExpireHead(r)
    OBVIOUS
  <2>2. PICK t : t = Head(r.fTimerQueue)
    OBVIOUS
  <2>3. PICK K : K = Left(r, L)
    OBVIOUS
  <2>4. QueueRight(r, K) /\ r.hw = s.hw
    BY <2>3, Zenon DEF LoopRight
  <2>5. /\ r.fTimerQueue # << >> /\ t \in K
        /\ <<t, -r.due[t]>> \in Debt(r, K)
    BY <1>2, <2>2, <2>4, HeadInDebt, Zenon
  <2>6. HeadExpired(r, n, K, t)
    BY <2>1, <2>2, <2>4, <2>5, ExpireHeadRight, Zenon
  <2>7. t \in L /\ t \in Timers /\ \A u \in K : u \in L /\ u \in Timers
    BY <2>3, <2>5 DEF Left
  <2>8. OthersKept(r, n, t) /\ n.hw = s.hw
    BY <2>4, <2>6, Zenon DEF HeadExpired
  <2>9. \A u \in L : u # t => (u \in Left(n, L) <=> u \in K)
    BY <2>3, <2>8, Zenon DEF Left, OthersKept
  <2>10. \A u \in L : u \in Timers
    OBVIOUS
  <2>11. /\ QueueRight(n, Left(n, L))
         /\ t \in Left(n, L) => n.due[t] > r.due[t]
    <3>1. CASE QueueRight(n, K) /\ n.fPending[t] /\ n.due[t] > r.due[t]
      <4>1. Left(n, L) = K
        <5>1. t \in Left(n, L)
          BY <2>7, <3>1, Zenon DEF Left
        <5>2. Left(n, L) \subseteq L /\ K \subseteq L
          BY <2>3 DEF Left
        <5>3. \A u \in L : u \in Left(n, L) <=> u \in K
          BY <2>5, <2>9, <5>1, Zenon
        <5> QED
          BY ONLY <5>2, <5>3
      <4> QED
        BY <3>1, <4>1, Zenon
    <3>2. CASE QueueRight(n, K \ {t}) /\ ~n.fPending[t]
      <4>1. Left(n, L) = K \ {t}
        <5>1. t \notin Left(n, L)
          BY <3>2, Zenon DEF Left
        <5>2. Left(n, L) \subseteq L /\ K \subseteq L
          BY <2>3 DEF Left
        <5> QED
          BY <2>9, <5>1, <5>2, Zenon
      <4> QED
        BY <3>2, <4>1, Zenon
    <3> QED
      BY <2>6, <3>1, <3>2, Zenon DEF HeadExpired
  <2>12. PICK x : x = <<t, -r.due[t]>>
    OBVIOUS
  <2>13. r.due \in [Timers -> Int] /\ n.due \in [Timers -> Int]
    BY <2>4, <2>11, TimerParts, Zenon DEF QueueRight
  <2>14. r.due[t] \in Int /\ n.due[t] \in Int
    BY <2>7, <2>13
  <2>15. Debt(n, Left(n, L)) \in SUBSET (Debt(r, K) \ {x})
    <3> SUFFICES ASSUME NEW p \in Debt(n, Left(n, L)) PROVE p \in Debt(r, K) /\ p # x
      OBVIOUS
    <3>1. /\ p \in Timers \X (0..MaxLatency)
          /\ p[1] \in Left(n, L) /\ n.due[p[1]] + p[2] <= 0
      BY DEF Debt
    <3>2. p[1] \in L /\ p[1] \in Timers /\ p[2] \in Int
      BY <3>1 DEF Left
    <3>3. CASE p[1] = t
      <4>1. n.due[t] > r.due[t] /\ t \in K
        BY <2>5, <2>11, <3>1, <3>3, Zenon
      <4>2. r.due[t] + p[2] <= 0 /\ p[2] # -r.due[t]
        BY <2>14, <3>1, <3>2, <3>3, <4>1
      <4>3. p \in Debt(r, K)
        BY <3>1, <3>3, <4>1, <4>2, Zenon DEF Debt
      <4>4. p # x
        BY <2>12, <4>2
      <4> QED
        BY <4>3, <4>4
    <3>4. CASE p[1] # t
      <4>1. p[1] \in K /\ n.due[p[1]] = r.due[p[1]]
        BY <2>8, <2>9, <3>1, <3>2, <3>4, Zenon DEF OthersKept
      <4>2. p \in Debt(r, K)
        BY <3>1, <4>1, Zenon DEF Debt
      <4>3. p # x
        BY <2>12, <3>4
      <4> QED
        BY <4>2, <4>3
    <3> QED
      BY <3>3, <3>4
  <2>16. Cardinality(Debt(n, Left(n, L))) <= Turns - i
    <3>1. IsFiniteSet(Debt(r, K)) /\ Turns \in Nat /\ Cardinality(Debt(r, K)) \in Nat
      BY DebtBounded, Zenon
    <3>2. x \in Debt(r, K)
      BY <2>5, <2>12, Zenon
    <3>3. /\ IsFiniteSet(Debt(r, K) \ {x})
          /\ Cardinality(Debt(r, K) \ {x}) = Cardinality(Debt(r, K)) - 1
      BY <3>1, <3>2, CountOut, Zenon
    <3>4. Cardinality(Debt(n, Left(n, L))) <= Cardinality(Debt(r, K) \ {x})
      BY <2>15, <3>3, FS_Subset, Zenon
    <3>5. Cardinality(Debt(r, K)) <= Turns - (i - 1)
      BY <1>2, <2>3, Zenon DEF LoopRight
    <3>6. Cardinality(Debt(n, Left(n, L))) \in Nat
      BY DebtBounded, Zenon
    <3> QED
      BY <3>1, <3>3, <3>4, <3>5, <3>6
  <2>17. \A u \in Timers : u \notin L => n.fPending[u] = s.fPending[u]
    BY <2>7, <2>8, Zenon DEF LoopRight, OthersKept
  <2>18. Turn(r) = n
    BY <1>2, <2>1, Zenon DEF Turn
  <2> QED
    BY <2>8, <2>11, <2>16, <2>17, <2>18, Zenon DEF LoopRight
<1> QED
  BY <1>1, <1>2

\* The loop ends with nothing overdue: if a turn went wrong, the first that did
\* would follow one that did not, and when all turns are taken no debt is left.
LEMMA ExpireRight ==
  ASSUME NEW s, NEW L, QueueRight(s, L)
  PROVE  /\ QueueRight(Expire(s), Left(Expire(s), L))
         /\ \A u \in Timers : u \notin L => Expire(s).fPending[u] = s.fPending[u]
         /\ ~Overdue(Expire(s))
<1>1. PICK len \in Nat : len = Turns
  BY DebtBounded, Zenon
<1>2. PICK after : Expire(s) = after[len] /\ Passed(after, s, len)
  BY <1>1, ExpireIs, Zenon
<1> DEFINE right(n) == LoopRight(s, after[n], L, n)
           bad == {n \in 0..len : ~right(n)}
<1>3. right(0)
  <2>1. Left(s, L) = L
    BY Zenon DEF Left, QueueRight
  <2>2. Cardinality(Debt(s, L)) <= Turns - 0
    <3>1. Cardinality(Debt(s, L)) <= Turns /\ Turns \in Nat /\ Cardinality(Debt(s, L)) \in Nat
      BY DebtBounded, Zenon
    <3> QED
      BY <3>1
  <2>3. after[0] = s
    BY <1>2, Zenon DEF Passed
  <2> QED
    BY <2>1, <2>2, <2>3, Zenon DEF LoopRight
<1>4. ASSUME NEW n \in 1..len, right(n - 1) PROVE right(n)
  <2>1. after[n] = Turn(after[n - 1])
    BY <1>2, Zenon DEF Passed
  <2>3. n \in Int
    BY ONLY n \in 1..len, len \in Nat
  <2>2. L \in SUBSET Timers
    BY Zenon DEF QueueRight
  <2> QED
    BY <1>4, <2>1, <2>2, <2>3, TurnRight, Zenon
<1> HIDE DEF right
<1>5. bad = {}
  <2>1. SUFFICES ASSUME bad # {} PROVE FALSE
    OBVIOUS
  <2>2. bad \in SUBSET Nat
    OBVIOUS
  <2>3. \A n \in bad : n \in 0..len /\ ~right(n)
    OBVIOUS
  <2>4. \A n \in 0..len : n \notin bad => right(n)
    OBVIOUS
  <2> HIDE DEF bad
  <2>5. PICK n \in bad : \A y \in bad : n <= y
    BY <2>1, <2>2, LeastNumber
  <2>6. n # 0
    BY <1>3, <2>3
  <2>7. n \in 1..len /\ n - 1 \in 0..len /\ n - 1 \notin bad
    BY <2>3, <2>5, <2>6
  <2> QED
    BY <1>4, <2>3, <2>4, <2>7, Zenon
<1>6. right(len)
  BY <1>5
<1>7. PICK r : r = Expire(s)
  OBVIOUS
<1>8. LoopRight(s, r, L, len)
  BY <1>2, <1>6, <1>7, Zenon DEF right
<1>9. ~Overdue(r)
  <2> SUFFICES ASSUME Overdue(r) PROVE FALSE
    OBVIOUS
  <2>1. Cardinality(Debt(r, Left(r, L))) <= Turns - len /\ QueueRight(r, Left(r, L))
    BY <1>8, Zenon DEF LoopRight
  <2>2. PICK x : x \in Debt(r, Left(r, L))
    BY <2>1, HeadInDebt, Zenon
  <2>3. IsFiniteSet(Debt(r, Left(r, L)))
    BY DebtBounded, Zenon
  <2>4. Cardinality(Debt(r, Left(r, L))) \in Nat /\ Cardinality(Debt(r, Left(r, L))) > 0
    BY <2>2, <2>3, CountOut, Zenon
  <2> QED
    BY <1>1, <2>1, <2>4
<1> QED
  BY <1>7, <1>8, <1>9, Zenon DEF LoopRight

\* The timers that are to be listed when those of out are not.
On(s, out) == {u \in Timers : s.fPending[u]} \ out

\* What holds of tm between two steps: out is the timer that a driver thread has
\* assigned and not yet inserted.
Fine(s, out) == QueueRight(s, On(s, out)) /\ Covers(s)

LEMMA OnIs ==
  ASSUME NEW s, NEW out, NEW L \in SUBSET Timers,
         \A u \in Timers : u \in L <=> (s.fPending[u] /\ u \notin out)
  PROVE  On(s, out) = L
BY DEF On

\* n is s with t set.
TimerSet(s, n, out, t, time) ==
  Fine(n, out) /\ OthersKept(s, n, t) /\ n.due[t] = time

\* SetTimeout with interrupts off.
LEMMA SetFine ==
  ASSUME NEW s, NEW out, Fine(s, out), NEW t \in Timers, ~s.fPending[t], t \notin out,
         NEW mode \in Modes, NEW time \in Nat, mode = "periodic" => time > 0,
         NEW early \in Early
  PROVE  TimerSet(s, InsertTimeout(Assign(s, t, mode, time), t, early), out, t, time)
<1>1. PICK a : a = Assign(s, t, mode, time)
  OBVIOUS
<1>2. PICK n : n = InsertTimeout(a, t, early)
  OBVIOUS
<1>3. PICK L : L = On(s, out)
  OBVIOUS
<1>4. QueueRight(s, L) /\ Covers(s)
  BY <1>3, Zenon DEF Fine
<1>5. t \notin L
  BY <1>3, Zenon DEF On
<1>6. QueueRight(a, L) /\ Covers(a) /\ Armed(s, a, t, mode, time)
  BY <1>1, <1>4, <1>5, AssignRight, Zenon
<1>7. /\ a.fPending[t] /\ a.due[t] = time
      /\ \A u \in Timers : u # t => /\ a.due[u] = s.due[u] /\ a.fMode[u] = s.fMode[u]
                                    /\ a.fInterval[u] = s.fInterval[u]
                                    /\ a.fPending[u] = s.fPending[u]
  BY <1>6, Zenon DEF Armed, OnlyTimer
<1>8. /\ QueueRight(n, L \cup {t}) /\ Covers(n)
      /\ \A u \in Timers : TimerKept(a, n, u)
  BY <1>2, <1>5, <1>6, <1>7, InsertTimeoutRight, Zenon
<1>9. n.fPending[t] /\ n.due[t] = time /\ OthersKept(s, n, t)
  BY <1>7, <1>8, Zenon DEF TimerKept, OthersKept
<1>10. On(n, out) = L \cup {t}
  <2>1. L \cup {t} \in SUBSET Timers
    BY <1>8, Zenon DEF QueueRight
  <2>2. \A u \in Timers : u \in L \cup {t} <=> (n.fPending[u] /\ u \notin out)
    <3> TAKE u \in Timers
    <3>1. CASE u = t
      BY <1>9, <3>1
    <3>2. CASE u # t
      <4>1. n.fPending[u] = s.fPending[u]
        BY <1>9, <3>2, Zenon DEF OthersKept
      <4>2. u \in L \cup {t} <=> u \in L
        BY ONLY <3>2
      <4>3. u \in L <=> s.fPending[u] /\ u \notin out
        BY <1>3, Zenon DEF On
      <4> QED
        BY <4>1, <4>2, <4>3, Zenon
    <3> QED
      BY <3>1, <3>2, Zenon
  <2> QED
    BY <2>1, <2>2, OnIs, Zenon
<1> QED
  BY <1>1, <1>2, <1>8, <1>9, <1>10, Zenon DEF Fine, TimerSet

\* CancelTimeout.
LEMMA CancelFine ==
  ASSUME NEW s, NEW out, Fine(s, out), NEW t \in Timers, t \notin out, NEW early \in Early
  PROVE  /\ Fine(Cancelled(s, t, early), out)
         /\ OthersKept(s, Cancelled(s, t, early), t)
         /\ ~Cancelled(s, t, early).fPending[t]
<1>2. PICK n : n = Cancelled(s, t, early)
  OBVIOUS
<1>3. PICK L : L = On(s, out)
  OBVIOUS
<1>4. QueueRight(s, L) /\ Covers(s)
  BY <1>3, Zenon DEF Fine
<1>5. s.fPending[t] => t \in L
  BY <1>3, Zenon DEF On
<1>6. /\ QueueRight(n, L \ {t}) /\ Covers(n) /\ ~n.fPending[t] /\ OthersKept(s, n, t)
  BY <1>2, <1>4, <1>5, CancelledRight, Zenon
<1>7. On(n, out) = L \ {t}
  <2>1. L \ {t} \in SUBSET Timers
    BY <1>6, Zenon DEF QueueRight
  <2>2. \A u \in Timers : u \in L \ {t} <=> (n.fPending[u] /\ u \notin out)
    <3> TAKE u \in Timers
    <3>1. CASE u = t
      BY <1>6, <3>1
    <3>2. CASE u # t
      <4>1. n.fPending[u] = s.fPending[u]
        BY <1>6, <3>2, Zenon DEF OthersKept
      <4>2. u \in L \ {t} <=> u \in L
        BY ONLY <3>2
      <4>3. u \in L <=> s.fPending[u] /\ u \notin out
        BY <1>3, Zenon DEF On
      <4> QED
        BY <4>1, <4>2, <4>3, Zenon
    <3> QED
      BY <3>1, <3>2, Zenon
  <2> QED
    BY <2>1, <2>2, OnIs, Zenon
<1> QED
  BY <1>2, <1>6, <1>7, Zenon DEF Fine

\* Nothing is overdue when no timer of the queue is.
LEMMA OverdueIs ==
  ASSUME NEW s, NEW L, QueueRight(s, L)
  PROVE  ~Overdue(s) <=> \A u \in L : s.due[u] > 0
<1>1. /\ L \in SUBSET Timers /\ Once(s.fTimerQueue, L) /\ Rising(s.fTimerQueue, s.due)
      /\ s \in TimerStates
  BY Zenon DEF QueueRight
<1>2. \A u \in L : s.due[u] \in Int
  BY <1>1, TimerParts
<1>3. ASSUME ~Overdue(s), NEW u \in L PROVE s.due[u] > 0
  <2>1. /\ s.fTimerQueue # << >> /\ Head(s.fTimerQueue) \in L
        /\ s.due[Head(s.fTimerQueue)] <= s.due[u]
    BY <1>1, <1>2, HeadIsLeast, Zenon
  <2>2. ~(s.due[Head(s.fTimerQueue)] <= 0)
    BY <1>3, <2>1, Zenon DEF Overdue
  <2> QED
    BY <1>2, <2>1, <2>2
<1>4. ASSUME Overdue(s), \A u \in L : s.due[u] > 0 PROVE FALSE
  <2>1. s.fTimerQueue # << >> /\ s.due[Head(s.fTimerQueue)] <= 0
    BY <1>4, Zenon DEF Overdue
  <2>2. Head(s.fTimerQueue) \in L
    BY <1>1, <2>1, LenProperties, EmptySeq DEF Once
  <2> QED
    BY <1>2, <1>4, <2>1, <2>2
<1> QED
  BY <1>3, <1>4, Zenon

\* Reschedule sets or cancels the quantum timer only, and none that is due.
LEMMA RescheduledFine ==
  ASSUME NEW s, NEW out, Fine(s, out), Quantum \notin out, NEW what \in Reschedules,
         NEW early \in Early
  PROVE  /\ Fine(Rescheduled(s, what, early), out)
         /\ OthersKept(s, Rescheduled(s, what, early), Quantum)
         /\ ~Overdue(s) => ~Overdue(Rescheduled(s, what, early))
<1>1. PICK n : n = Rescheduled(s, what, early)
  OBVIOUS
<1>2. PICK c : c = Cancelled(s, Quantum, early)
  OBVIOUS
<1>3. Quantum \in Timers
  BY DEF Timers
<1>4. Fine(c, out) /\ OthersKept(s, c, Quantum) /\ ~c.fPending[Quantum]
  BY <1>2, <1>3, CancelFine, Zenon
<1>5. what = "go on" \/ what = "switch" \/ what = "switch, others ready"
  BY Zenon DEF Reschedules
<1>6. /\ Fine(n, out) /\ OthersKept(s, n, Quantum)
      /\ n # s => (n.fPending[Quantum] => n.due[Quantum] > 0)
  <2>1. CASE what = "go on"
    <3>1. n = s
      BY <1>1, <2>1, Zenon DEF Rescheduled
    <3> QED
      BY <3>1, Zenon DEF OthersKept
  <2>2. CASE what = "switch"
    <3>1. n = c
      BY <1>1, <1>2, <2>2, Zenon DEF Rescheduled
    <3> QED
      BY <1>4, <3>1, Zenon
  <2>3. CASE what = "switch, others ready"
    <3>1. PICK mode \in Modes : mode = "one shot"
      BY Zenon DEF Modes
    <3>2. n = InsertTimeout(Assign(c, Quantum, mode, kQuantum), Quantum, early)
      BY <1>1, <1>2, <2>3, <3>1, Zenon DEF Rescheduled
    <3>3. mode # "periodic"
      BY ONLY <3>1, Zenon
    <3>4. kQuantum \in Nat /\ kQuantum > 0
      BY TimerAssumption
    <3>5. Fine(n, out) /\ OthersKept(c, n, Quantum) /\ n.due[Quantum] = kQuantum
      <4>1. mode \in Modes /\ (mode = "periodic" => kQuantum > 0)
        BY <3>1, <3>4, Zenon
      <4>2. TimerSet(c, InsertTimeout(Assign(c, Quantum, mode, kQuantum), Quantum, early),
                     out, Quantum, kQuantum)
        BY <1>3, <1>4, <3>4, <4>1, SetFine, Zenon
      <4> QED
        BY <3>2, <4>2, Zenon DEF TimerSet
    <3>6. OthersKept(s, n, Quantum)
      BY <1>4, <3>5, Zenon DEF OthersKept
    <3> QED
      BY <3>4, <3>5, <3>6, Zenon
  <2> QED
    BY <1>5, <2>1, <2>2, <2>3, Zenon
<1>7. ASSUME ~Overdue(s) PROVE ~Overdue(n)
  <2>1. CASE n = s
    BY <1>7, <2>1, Zenon
  <2>2. CASE n # s
    <3>1. QueueRight(s, On(s, out)) /\ QueueRight(n, On(n, out))
      BY <1>6, Zenon DEF Fine
    <3>2. \A u \in On(s, out) : s.due[u] > 0
      BY <1>7, <3>1, OverdueIs, Zenon
    <3>3. \A u \in On(n, out) : n.due[u] > 0
      <4> TAKE u \in On(n, out)
      <4>1. u \in Timers /\ n.fPending[u] /\ u \notin out
        BY Zenon DEF On
      <4>2. CASE u = Quantum
        BY <1>6, <2>2, <4>1, <4>2, Zenon
      <4>3. CASE u # Quantum
        <5>1. s.fPending[u] /\ n.due[u] = s.due[u]
          BY <1>6, <4>1, <4>3, Zenon DEF OthersKept
        <5>2. u \in On(s, out)
          BY <4>1, <5>1, Zenon DEF On
        <5> QED
          BY <3>2, <5>1, <5>2, Zenon
      <4> QED
        BY <4>2, <4>3, Zenon
    <3> QED
      BY <3>1, <3>3, OverdueIs, Zenon
  <2> QED
    BY <2>1, <2>2, Zenon
<1> QED
  BY <1>1, <1>6, <1>7, Zenon

\* What the interrupt makes of s.
Interrupted(s, what, early) ==
  Rescheduled(ReprogramHardwareTimer(Expire([s EXCEPT !.hw = Off]), early), what, early)

\* The interrupt leaves nothing overdue, and touches no timer that is not listed
\* but the quantum timer.
LEMMA InterruptFine ==
  ASSUME NEW s, NEW out, Fine(s, out), Quantum \notin out, NEW what \in Reschedules,
         NEW early \in Early
  PROVE  /\ Fine(Interrupted(s, what, early), out)
         /\ ~Overdue(Interrupted(s, what, early))
         /\ \A u \in Timers : u # Quantum /\ u \notin On(s, out) =>
              Interrupted(s, what, early).fPending[u] = s.fPending[u]
<1>1. PICK m : m = [s EXCEPT !.hw = Off]
  OBVIOUS
<1>2. PICK x : x = Expire(m)
  OBVIOUS
<1>3. PICK r : r = ReprogramHardwareTimer(x, early)
  OBVIOUS
<1>4. PICK n : n = Rescheduled(r, what, early)
  OBVIOUS
<1>5. PICK L : L = On(s, out)
  OBVIOUS
<1>6. QueueRight(s, L) /\ s \in TimerStates
  BY <1>5, Zenon DEF Fine, QueueRight
<1>7. OnlyHardware(s, m)
  <2>1. Off \in Off..kMaxTimerInterval
    BY TimerAssumption DEF Off
  <2> QED
    BY <1>1, <1>6, <2>1, HardwarePut, Zenon
<1>8. QueueRight(m, L) /\ \A u \in Timers : m.fPending[u] = s.fPending[u]
  <2>1. QueueRight(m, L) /\ \A u \in Timers : TimerKept(s, m, u)
    BY <1>6, <1>7, HardwareKeepsQueue, Zenon
  <2> QED
    BY <2>1, Zenon DEF TimerKept
<1>9. /\ QueueRight(x, Left(x, L)) /\ ~Overdue(x)
      /\ \A u \in Timers : u \notin L => x.fPending[u] = m.fPending[u]
  BY <1>2, <1>8, ExpireRight, Zenon
<1>10. On(x, out) = Left(x, L)
  <2>1. Left(x, L) \in SUBSET Timers
    BY <1>9, Zenon DEF QueueRight
  <2>2. \A u \in Timers : u \in Left(x, L) <=> (x.fPending[u] /\ u \notin out)
    BY <1>5, <1>8, <1>9, Zenon DEF Left, On
  <2> QED
    BY <2>1, <2>2, OnIs, Zenon
<1>11. OnlyHardware(x, r) /\ Covers(r)
  BY <1>3, <1>9, ReprogramCovers, Zenon DEF QueueRight
<1>12. QueueRight(r, Left(x, L)) /\ \A u \in Timers : TimerKept(x, r, u)
  BY <1>9, <1>11, HardwareKeepsQueue, Zenon
<1>13. ~Overdue(r)
  BY <1>9, <1>11, Zenon DEF Overdue, OnlyHardware
<1>14. On(r, out) = Left(x, L)
  <2>1. Left(x, L) \in SUBSET Timers
    BY <1>9, Zenon DEF QueueRight
  <2>2. \A u \in Timers : u \in Left(x, L) <=> (r.fPending[u] /\ u \notin out)
    BY <1>10, <1>12, Zenon DEF TimerKept, On
  <2> QED
    BY <2>1, <2>2, OnIs, Zenon
<1>15. Fine(r, out)
  BY <1>11, <1>12, <1>14, Zenon DEF Fine
<1>16. Fine(n, out) /\ OthersKept(r, n, Quantum) /\ ~Overdue(n)
  BY <1>4, <1>13, <1>15, RescheduledFine, Zenon
<1>17. \A u \in Timers : u # Quantum /\ u \notin L => n.fPending[u] = s.fPending[u]
  BY <1>8, <1>9, <1>12, <1>16, Zenon DEF OthersKept, TimerKept
<1>18. Interrupted(s, what, early) = n
  BY <1>1, <1>2, <1>3, <1>4, Zenon DEF Interrupted
<1> QED
  BY <1>5, <1>16, <1>17, <1>18, Zenon

\* Where a driver thread can be.
DriverPlaces == {"idle", "motor on", "cancelled", "checked", "assigned"}

\* The floppy is used by one thread.  (With two, the run timer_cancel shows how
\* the one's CancelTimeout meets the other's SetTimeout.)
OneDriver == \A d, e \in DriverThreads : d = e

\* The timer that is assigned and not inserted yet, when the driver threads are at p.
OutOf(p) == {t \in {Motor} : \E d \in DriverThreads : p[d] = "assigned"}

\* A driver thread that has cancelled the motor's timer finds it not pending
\* until it has set it again.
DriverRight(s, p) ==
  /\ p \in [DriverThreads -> DriverPlaces]
  /\ \A d \in DriverThreads :
       /\ p[d] = "cancelled" => ~s.fPending[Motor]
       /\ p[d] = "checked" => ~s.fPending[Motor]
       /\ p[d] = "assigned" => s.fPending[Motor]

\* The inductive invariant.
TimerInv ==
  /\ Fine(tm, OutOf(pc)) /\ DriverRight(tm, pc)
  /\ late \in 0..MaxLatency
  /\ crash = "no"

LEMMA DriversKept ==
  ASSUME NEW s, NEW p, DriverRight(s, p), NEW n, n.fPending[Motor] = s.fPending[Motor]
  PROVE  DriverRight(n, p)
BY Zenon DEF DriverRight

LEMMA OutIsMotor ==
  ASSUME NEW p
  PROVE  /\ OutOf(p) \subseteq {Motor}
         /\ \A t \in WaitTimers \cup {Quantum} : t \in Timers /\ t # Motor /\ t \notin OutOf(p)
BY TimerAssumption DEF OutOf, Timers

\* The one driver thread has gone from p[d] to next.
Moved(p, q, d, next) ==
  /\ q \in [DriverThreads -> DriverPlaces]
  /\ \A e \in DriverThreads : q[e] = next
  /\ IF p[d] = "assigned" THEN OutOf(p) = {Motor} ELSE OutOf(p) = {}
  /\ IF next = "assigned" THEN OutOf(q) = {Motor} ELSE OutOf(q) = {}

LEMMA DriverMoves ==
  ASSUME OneDriver, NEW p \in [DriverThreads -> DriverPlaces], NEW d \in DriverThreads,
         NEW next \in DriverPlaces
  PROVE  Moved(p, [p EXCEPT ![d] = next], d, next)
<1>1. \A e \in DriverThreads : e = d
  BY Zenon DEF OneDriver
<1>2. PICK q : q = [p EXCEPT ![d] = next]
  OBVIOUS
<1>3. q \in [DriverThreads -> DriverPlaces] /\ q[d] = next
  BY <1>2
<1>4. \A e \in DriverThreads : q[e] = next
  BY <1>1, <1>3, Zenon
<1>5. ASSUME NEW f PROVE /\ f[d] = "assigned" => OutOf(f) = {Motor}
                         /\ f[d] # "assigned" => OutOf(f) = {}
  BY <1>1 DEF OutOf
<1> QED
  BY <1>2, <1>3, <1>4, <1>5, Zenon DEF Moved

LEMMA InitFine ==
  ASSUME Init
  PROVE  TimerInv
<1>1. /\ tm = [fTimerQueue |-> << >>,
               due |-> [t \in Timers |-> 0],
               fMode |-> [t \in Timers |-> "one shot"],
               fInterval |-> [t \in Timers |-> 0],
               fPending |-> [t \in Timers |-> FALSE],
               hw |-> Off]
      /\ late = 0 /\ crash = "no"
      /\ pc = [d \in DriverThreads |-> "idle"]
  BY Zenon DEF Init
<1>2. PICK mode \in Modes : mode = "one shot"
  BY Zenon DEF Modes
<1>3. mode # "periodic"
  BY ONLY <1>2, Zenon
<1>4. tm = [fTimerQueue |-> << >>,
            due |-> [t \in Timers |-> 0],
            fMode |-> [t \in Timers |-> mode],
            fInterval |-> [t \in Timers |-> 0],
            fPending |-> [t \in Timers |-> FALSE],
            hw |-> Off]
  BY <1>1, <1>2, Zenon
<1>5. PICK s : s = tm
  OBVIOUS
<1>6. s = [fTimerQueue |-> << >>,
           due |-> [t \in Timers |-> 0],
           fMode |-> [t \in Timers |-> mode],
           fInterval |-> [t \in Timers |-> 0],
           fPending |-> [t \in Timers |-> FALSE],
           hw |-> Off]
  BY ONLY <1>4, <1>5
<1>7. PICK place \in DriverPlaces : place = "idle"
  BY Zenon DEF DriverPlaces
<1>8. place # "cancelled" /\ place # "checked" /\ place # "assigned"
  BY ONLY <1>7, Zenon
<1>9. PICK p : p = pc
  OBVIOUS
<1>10. p = [d \in DriverThreads |-> place]
  BY <1>1, <1>7, <1>9, Zenon
<1>11. p \in [DriverThreads -> DriverPlaces] /\ \A d \in DriverThreads : p[d] = place
  BY ONLY <1>10, place \in DriverPlaces
<1>12. DriverRight(s, p)
  BY <1>8, <1>11, Zenon DEF DriverRight
<1>13. s.fTimerQueue = << >> /\ \A t \in Timers : /\ s.fPending[t] = FALSE /\ s.due[t] = 0
                                                  /\ s.fMode[t] = mode
  BY ONLY <1>6
<1>14. s \in TimerStates
  <2>1. Off \in Off..kMaxTimerInterval /\ 0 \in Int /\ 0 \in Nat /\ << >> \in Seq(Timers)
    BY TimerAssumption, EmptySeq DEF Off
  <2>2. mode \in Modes
    BY <1>2
  <2> HIDE DEF Off, Modes
  <2> QED
    BY ONLY <1>6, <2>1, <2>2 DEF TimerStates
<1>15. On(s, OutOf(p)) = {}
  BY <1>13 DEF On
<1>16. Once(<< >>, {}) /\ Rising(<< >>, s.due)
  BY EmptySeq DEF Once, Rising
<1>17. MaxLatency \in Nat
  BY TimerAssumption
<1>18. \A t \in Timers : s.due[t] >= -MaxLatency /\ (s.fMode[t] = "periodic" => s.fInterval[t] > 0)
  <2> TAKE t \in Timers
  <2>1. s.due[t] >= -MaxLatency
    <3>1. s.due[t] = 0
      BY <1>13, Zenon
    <3> QED
      BY <1>17, <3>1
  <2>2. s.fMode[t] # "periodic"
    BY <1>3, <1>13, Zenon
  <2> QED
    BY <2>1, <2>2, Zenon
<1>19. QueueRight(s, On(s, OutOf(p)))
  <2>1. \A t \in {} : s.fPending[t]
    OBVIOUS
  <2>2. {} \in SUBSET Timers
    OBVIOUS
  <2> QED
    BY <1>13, <1>14, <1>15, <1>16, <1>18, <2>1, <2>2, Zenon DEF QueueRight
<1>20. Covers(s)
  BY <1>13, Zenon DEF Covers
<1>21. late \in 0..MaxLatency
  <2>1. late = 0
    BY <1>1, Zenon
  <2> QED
    BY <1>17, <2>1
<1> QED
  BY <1>1, <1>5, <1>9, <1>12, <1>19, <1>20, <1>21, Zenon DEF TimerInv, Fine

\* A step of anyone but the driver.
LEMMA OthersStep ==
  ASSUME TimerInv, Fine(tm', OutOf(pc)), tm'.fPending[Motor] = tm.fPending[Motor],
         pc' = pc, crash' = crash, late' \in 0..MaxLatency
  PROVE  TimerInv'
<1>1. DriverRight(tm', pc)
  BY DriversKept, Zenon DEF TimerInv
<1> QED
  BY <1>1, Zenon DEF TimerInv

LEMMA SetTimeoutFine ==
  ASSUME TimerInv, NEW t \in WaitTimers, NEW mode \in Modes, NEW time \in Nat,
         mode = "periodic" => time > 0, NEW e \in Early, SetTimeout(t, mode, time, e)
  PROVE  TimerInv'
<1>1. t \in Timers /\ t # Motor /\ t \notin OutOf(pc)
  BY OutIsMotor, Zenon
<1>2. ~tm.fPending[t] /\ tm' = InsertTimeout(Assign(tm, t, mode, time), t, e)
  BY Zenon DEF SetTimeout
<1>3. Fine(tm, OutOf(pc))
  BY Zenon DEF TimerInv
<1>4. TimerSet(tm, InsertTimeout(Assign(tm, t, mode, time), t, e), OutOf(pc), t, time)
  BY <1>1, <1>2, <1>3, SetFine, Zenon
<1>5. Fine(tm', OutOf(pc)) /\ OthersKept(tm, tm', t)
  BY <1>2, <1>4, Zenon DEF TimerSet
<1>6. tm'.fPending[Motor] = tm.fPending[Motor]
  <2>1. Motor \in Timers
    BY DEF Timers
  <2> QED
    BY <1>1, <1>5, <2>1, Zenon DEF OthersKept
<1>7. pc' = pc /\ crash' = crash /\ late' \in 0..MaxLatency
  BY Zenon DEF SetTimeout, TimerInv
<1> QED
  BY <1>5, <1>6, <1>7, OthersStep, Zenon

LEMMA CancelTimeoutFine ==
  ASSUME TimerInv, NEW t \in WaitTimers, NEW e \in Early, CancelTimeout(t, e)
  PROVE  TimerInv'
<1>1. t \in Timers /\ t # Motor /\ t \notin OutOf(pc)
  BY OutIsMotor, Zenon
<1>2. tm' = Cancelled(tm, t, e)
  BY Zenon DEF CancelTimeout
<1>3. Fine(tm, OutOf(pc))
  BY Zenon DEF TimerInv
<1>4. Fine(tm', OutOf(pc)) /\ OthersKept(tm, tm', t)
  BY <1>1, <1>2, <1>3, CancelFine, Zenon
<1>5. tm'.fPending[Motor] = tm.fPending[Motor]
  <2>1. Motor \in Timers
    BY DEF Timers
  <2> QED
    BY <1>1, <1>4, <2>1, Zenon DEF OthersKept
<1>6. pc' = pc /\ crash' = crash /\ late' \in 0..MaxLatency
  BY Zenon DEF CancelTimeout, TimerInv
<1> QED
  BY <1>4, <1>5, <1>6, OthersStep, Zenon

LEMMA RescheduleFine ==
  ASSUME TimerInv, NEW what \in Reschedules, NEW e \in Early, Reschedule(what, e)
  PROVE  TimerInv'
<1>1. Quantum \in Timers /\ Quantum # Motor /\ Quantum \notin OutOf(pc)
  BY OutIsMotor, Zenon
<1>2. tm' = Rescheduled(tm, what, e)
  BY Zenon DEF Reschedule
<1>3. Fine(tm, OutOf(pc))
  BY Zenon DEF TimerInv
<1>4. Fine(tm', OutOf(pc)) /\ OthersKept(tm, tm', Quantum)
  BY <1>1, <1>2, <1>3, RescheduledFine, Zenon
<1>5. tm'.fPending[Motor] = tm.fPending[Motor]
  <2>1. Motor \in Timers
    BY DEF Timers
  <2> QED
    BY <1>1, <1>4, <2>1, Zenon DEF OthersKept
<1>6. pc' = pc /\ crash' = crash /\ late' \in 0..MaxLatency
  BY Zenon DEF Reschedule, TimerInv
<1> QED
  BY <1>4, <1>5, <1>6, OthersStep, Zenon

\* The interrupt touches the motor's timer only when it is listed, and then no
\* driver thread is between its CancelTimeout and the end of its SetTimeout.
LEMMA InterruptStepFine ==
  ASSUME TimerInv, NEW what \in Reschedules, NEW e \in Early, HardwareTimerInterrupt(what, e)
  PROVE  TimerInv' /\ ~Overdue(tm')
<1>1. Quantum \in Timers /\ Quantum # Motor /\ Quantum \notin OutOf(pc)
  BY OutIsMotor, Zenon
<1>2. tm' = Interrupted(tm, what, e)
  BY Zenon DEF HardwareTimerInterrupt, Interrupted
<1>3. Fine(tm, OutOf(pc)) /\ DriverRight(tm, pc)
  BY Zenon DEF TimerInv
<1>4. /\ Fine(tm', OutOf(pc)) /\ ~Overdue(tm')
      /\ \A u \in Timers : u # Quantum /\ u \notin On(tm, OutOf(pc)) =>
           tm'.fPending[u] = tm.fPending[u]
  BY <1>1, <1>2, <1>3, InterruptFine, Zenon
<1>5. Motor \in Timers
  BY DEF Timers
<1>6. DriverRight(tm', pc)
  <2>1. CASE \E d \in DriverThreads : pc[d] \in {"cancelled", "checked", "assigned"}
    <3>1. PICK d \in DriverThreads : pc[d] \in {"cancelled", "checked", "assigned"}
      BY <2>1, Zenon
    <3>2. Motor \notin On(tm, OutOf(pc))
      <4>1. CASE pc[d] = "assigned"
        <5>1. Motor \in OutOf(pc)
          BY <3>1, <4>1, Zenon DEF OutOf
        <5> QED
          BY <5>1, Zenon DEF On
      <4>2. CASE pc[d] # "assigned"
        <5>1. ~tm.fPending[Motor]
          BY <1>3, <3>1, <4>2, Zenon DEF DriverRight
        <5> QED
          BY <5>1, Zenon DEF On
      <4> QED
        BY <4>1, <4>2, Zenon
    <3>3. tm'.fPending[Motor] = tm.fPending[Motor]
      BY <1>1, <1>4, <1>5, <3>2, Zenon
    <3> QED
      BY <1>3, <3>3, DriversKept, Zenon
  <2>2. CASE ~\E d \in DriverThreads : pc[d] \in {"cancelled", "checked", "assigned"}
    BY <1>3, <2>2, Zenon DEF DriverRight
  <2> QED
    BY <2>1, <2>2, Zenon
<1>7. pc' = pc /\ crash' = crash /\ late' = 0
  BY Zenon DEF HardwareTimerInterrupt
<1>8. late' \in 0..MaxLatency
  BY <1>7, TimerAssumption
<1> QED
  BY <1>4, <1>6, <1>7, <1>8, Zenon DEF TimerInv

\* The same of a step.
LEMMA DriverAt ==
  ASSUME TimerInv, OneDriver, NEW d \in DriverThreads, NEW next \in DriverPlaces,
         pc' = [pc EXCEPT ![d] = next]
  PROVE  Moved(pc, pc', d, next)
<1>1. pc \in [DriverThreads -> DriverPlaces]
  BY Zenon DEF TimerInv, DriverRight
<1> QED
  BY <1>1, DriverMoves, Zenon

\* The driver thread's CancelTimeout finds the motor's timer in the queue when it
\* is pending.
LEMMA MotorCancelFine ==
  ASSUME TimerInv, OneDriver, NEW d \in DriverThreads, pc[d] # "assigned",
         NEW next \in DriverPlaces, next # "assigned", next # "checked", NEW e \in Early,
         MotorCancel(d, next, e), crash = "no"
  PROVE  TimerInv'
<1>1. /\ Fine(tm, OutOf(pc)) /\ DriverRight(tm, pc) /\ late \in 0..MaxLatency
      /\ pc \in [DriverThreads -> DriverPlaces]
  BY Zenon DEF TimerInv, DriverRight
<1>2. Motor \in Timers
  BY DEF Timers
<1>3. pc' = [pc EXCEPT ![d] = next] /\ late' = late
  BY Zenon DEF MotorCancel
<1>4. Moved(pc, pc', d, next)
  BY <1>3, DriverAt, Zenon
<1>5. OutOf(pc) = {}
  BY <1>4, Zenon DEF Moved
<1>6. /\ pc' \in [DriverThreads -> DriverPlaces] /\ OutOf(pc') = {}
      /\ \A f \in DriverThreads : pc'[f] = next
  BY <1>4, Zenon DEF Moved
<1>7. ~(tm.fPending[Motor] /\ ~Linked(tm, Motor))
  <2>1. SUFFICES ASSUME tm.fPending[Motor] PROVE Linked(tm, Motor)
    BY Zenon
  <2>2. Motor \in On(tm, {})
    BY <1>2, <2>1, Zenon DEF On
  <2>3. QueueRight(tm, On(tm, {}))
    BY <1>1, <1>5, Zenon DEF Fine
  <2> QED
    BY <2>2, <2>3, LinkedIs, Zenon
<1>8. tm' = Cancelled(tm, Motor, e) /\ crash' = crash
  BY <1>7, Zenon DEF MotorCancel
<1>9. Motor \notin OutOf(pc)
  BY <1>5
<1>10. Fine(tm', OutOf(pc)) /\ ~tm'.fPending[Motor]
  BY <1>1, <1>2, <1>8, <1>9, CancelFine, Zenon
<1>11. DriverRight(tm', pc')
  BY <1>6, <1>10, Zenon DEF DriverRight
<1> QED
  BY <1>1, <1>5, <1>3, <1>6, <1>8, <1>10, <1>11, Zenon DEF TimerInv

LEMMA TurnOnMotorFine ==
  ASSUME TimerInv, OneDriver, NEW d \in DriverThreads, NEW e \in Early, TurnOnMotor(d, e)
  PROVE  TimerInv'
<1>1. PICK next \in DriverPlaces : next = "motor on"
  BY Zenon DEF DriverPlaces
<1>2. next # "assigned" /\ next # "checked"
  BY <1>1, Zenon
<1>3. crash = "no" /\ pc[d] # "assigned" /\ MotorCancel(d, next, e)
  BY <1>1, Zenon DEF TurnOnMotor
<1> QED
  BY <1>2, <1>3, MotorCancelFine, Zenon

LEMMA SpinDownMotorFine ==
  ASSUME TimerInv, OneDriver, NEW d \in DriverThreads, NEW e \in Early, SpinDownMotor(d, e)
  PROVE  TimerInv'
<1>1. PICK next \in DriverPlaces : next = "cancelled"
  BY Zenon DEF DriverPlaces
<1>2. next # "assigned" /\ next # "checked"
  BY <1>1, Zenon
<1>3. crash = "no" /\ pc[d] # "assigned" /\ MotorCancel(d, next, e)
  BY <1>1, Zenon DEF SpinDownMotor
<1> QED
  BY <1>2, <1>3, MotorCancelFine, Zenon

LEMMA MotorCheckFine ==
  ASSUME TimerInv, OneDriver, NEW d \in DriverThreads, MotorCheck(d)
  PROVE  TimerInv'
<1>1. PICK next \in DriverPlaces : next = "checked"
  BY Zenon DEF DriverPlaces
<1>2. pc[d] = "cancelled" /\ pc' = [pc EXCEPT ![d] = next] /\ tm' = tm /\ late' = late
  BY <1>1, Zenon DEF MotorCheck
<1>3. next # "assigned" /\ pc[d] # "assigned" /\ next # "cancelled"
  BY <1>1, <1>2, Zenon
<1>4. /\ pc' \in [DriverThreads -> DriverPlaces] /\ \A f \in DriverThreads : pc'[f] = next
      /\ OutOf(pc) = {} /\ OutOf(pc') = {}
  <2>1. Moved(pc, pc', d, next)
    BY <1>2, DriverAt, Zenon
  <2> QED
    BY <1>2, <1>3, <2>1, Zenon DEF Moved
<1>5. ~tm.fPending[Motor]
  BY <1>2, Zenon DEF TimerInv, DriverRight
<1>6. crash' = crash
  BY <1>5, Zenon DEF MotorCheck
<1>7. DriverRight(tm', pc')
  BY <1>2, <1>3, <1>4, <1>5, Zenon DEF DriverRight
<1> QED
  BY <1>2, <1>4, <1>6, <1>7, Zenon DEF TimerInv

LEMMA MotorAssignFine ==
  ASSUME TimerInv, OneDriver, NEW d \in DriverThreads, NEW time \in Nat, MotorAssign(d, time)
  PROVE  TimerInv'
<1>1. PICK next \in DriverPlaces : next = "assigned"
  BY Zenon DEF DriverPlaces
<1>2. PICK mode \in Modes : mode = "one shot"
  BY Zenon DEF Modes
<1>3. /\ pc[d] = "checked" /\ pc' = [pc EXCEPT ![d] = next]
      /\ tm' = Assign(tm, Motor, mode, time) /\ late' = late /\ crash' = crash
  BY <1>1, <1>2, Zenon DEF MotorAssign
<1>4. pc[d] # "assigned" /\ next # "checked" /\ next # "cancelled"
  BY <1>1, <1>3, Zenon
<1>5. /\ pc' \in [DriverThreads -> DriverPlaces] /\ \A f \in DriverThreads : pc'[f] = next
      /\ OutOf(pc) = {} /\ OutOf(pc') = {Motor}
  <2>1. Moved(pc, pc', d, next)
    BY <1>3, DriverAt, Zenon
  <2> QED
    BY <1>1, <1>3, <1>4, <2>1, Zenon DEF Moved
<1>6. PICK L : L = On(tm, {})
  OBVIOUS
<1>7. QueueRight(tm, L) /\ Covers(tm) /\ ~tm.fPending[Motor]
  BY <1>3, <1>5, <1>6, Zenon DEF TimerInv, Fine, DriverRight
<1>8. Motor \in Timers /\ Motor \notin L
  BY <1>6, <1>7 DEF Timers, On
<1>9. mode = "periodic" => time > 0
  BY <1>2, Zenon
<1>10. /\ QueueRight(tm', L) /\ Covers(tm') /\ Armed(tm, tm', Motor, mode, time)
  BY <1>2, <1>3, <1>7, <1>8, <1>9, AssignRight, Zenon
<1>11. On(tm', {Motor}) = L
  <2>1. L \in SUBSET Timers
    BY <1>10, Zenon DEF QueueRight
  <2>2. \A u \in Timers : u # Motor => tm'.fPending[u] = tm.fPending[u]
    BY <1>10, Zenon DEF Armed, OnlyTimer
  <2>3. \A u \in Timers : u \in L <=> (tm'.fPending[u] /\ u \notin {Motor})
    <3> TAKE u \in Timers
    <3>1. CASE u = Motor
      BY <1>8, <3>1
    <3>2. CASE u # Motor
      <4>1. u \in L <=> tm.fPending[u]
        BY <1>6, Zenon DEF On
      <4> QED
        BY <2>2, <3>2, <4>1, Zenon
    <3> QED
      BY <3>1, <3>2, Zenon
  <2> QED
    BY <2>1, <2>3, OnIs, Zenon
<1>12. DriverRight(tm', pc')
  BY <1>4, <1>5, <1>10, Zenon DEF DriverRight, Armed
<1> QED
  BY <1>3, <1>5, <1>10, <1>11, <1>12, Zenon DEF TimerInv, Fine

LEMMA MotorInsertFine ==
  ASSUME TimerInv, OneDriver, NEW d \in DriverThreads, NEW e \in Early, MotorInsert(d, e)
  PROVE  TimerInv'
<1>1. PICK next \in DriverPlaces : next = "idle"
  BY Zenon DEF DriverPlaces
<1>3. /\ pc[d] = "assigned" /\ pc' = [pc EXCEPT ![d] = next]
      /\ tm' = InsertTimeout(tm, Motor, e) /\ late' = late /\ crash' = crash
  BY <1>1, Zenon DEF MotorInsert
<1>4. next # "assigned" /\ next # "checked" /\ next # "cancelled"
  BY <1>1, Zenon
<1>5. /\ pc' \in [DriverThreads -> DriverPlaces] /\ \A f \in DriverThreads : pc'[f] = next
      /\ OutOf(pc) = {Motor} /\ OutOf(pc') = {}
  <2>1. Moved(pc, pc', d, next)
    BY <1>3, DriverAt, Zenon
  <2> QED
    BY <1>3, <1>4, <2>1, Zenon DEF Moved
<1>6. PICK L : L = On(tm, {Motor})
  OBVIOUS
<1>7. QueueRight(tm, L) /\ Covers(tm) /\ tm.fPending[Motor]
  BY <1>3, <1>5, <1>6, Zenon DEF TimerInv, Fine, DriverRight
<1>8. Motor \in Timers /\ Motor \notin L
  BY <1>6 DEF Timers, On
<1>10. /\ QueueRight(tm', L \cup {Motor}) /\ Covers(tm') /\ \A u \in Timers : TimerKept(tm, tm', u)
  BY <1>3, <1>7, <1>8, InsertTimeoutRight, Zenon
<1>11. On(tm', {}) = L \cup {Motor}
  <2>1. L \cup {Motor} \in SUBSET Timers
    BY <1>10, Zenon DEF QueueRight
  <2>2. \A u \in Timers : tm'.fPending[u] = tm.fPending[u]
    BY <1>10, Zenon DEF TimerKept
  <2>3. \A u \in Timers : u \in L \cup {Motor} <=> (tm'.fPending[u] /\ u \notin {})
    <3> TAKE u \in Timers
    <3>1. CASE u = Motor
      BY <1>7, <2>2, <3>1
    <3>2. CASE u # Motor
      <4>1. u \in L <=> tm.fPending[u]
        BY <1>6, <3>2 DEF On
      <4>2. u \in L \cup {Motor} <=> u \in L
        BY ONLY <3>2
      <4> QED
        BY <2>2, <4>1, <4>2, Zenon
    <3> QED
      BY <3>1, <3>2, Zenon
  <2> QED
    BY <2>1, <2>3, OnIs, Zenon
<1>12. DriverRight(tm', pc')
  BY <1>4, <1>5, Zenon DEF DriverRight
<1> QED
  BY <1>3, <1>5, <1>10, <1>11, <1>12, Zenon DEF TimerInv, Fine

\* n is s with other times.
OnlyTimes(s, n, du, h) ==
  /\ n \in TimerStates
  /\ n.fTimerQueue = s.fTimerQueue /\ n.due = du /\ n.fMode = s.fMode
  /\ n.fInterval = s.fInterval /\ n.fPending = s.fPending /\ n.hw = h

LEMMA TimesPut ==
  ASSUME NEW s \in TimerStates, NEW du \in [Timers -> Int], NEW h \in Off..kMaxTimerInterval
  PROVE  OnlyTimes(s, [s EXCEPT !.due = du, !.hw = h], du, h)
<1>0. PICK n : n = [s EXCEPT !.due = du, !.hw = h]
  OBVIOUS
<1>1. n = [fTimerQueue |-> s.fTimerQueue, due |-> du, fMode |-> s.fMode,
           fInterval |-> s.fInterval, fPending |-> s.fPending, hw |-> h]
  <2>1. s = [fTimerQueue |-> s.fTimerQueue, due |-> s.due, fMode |-> s.fMode,
             fInterval |-> s.fInterval, fPending |-> s.fPending, hw |-> s.hw]
    BY TimerParts, Zenon
  <2> QED
    BY ONLY <1>0, <2>1
<1>2. n \in TimerStates
  BY <1>1, TimerParts DEF TimerStates
<1>3. /\ n.fTimerQueue = s.fTimerQueue /\ n.due = du /\ n.fMode = s.fMode
      /\ n.fInterval = s.fInterval /\ n.fPending = s.fPending /\ n.hw = h
  BY ONLY <1>1
<1>4. OnlyTimes(s, n, du, h)
  BY <1>2, <1>3, Zenon DEF OnlyTimes
<1> QED
  BY <1>0, <1>4, Zenon

\* Time passes for all pending timers alike, and for the hardware timer.
LEMMA TickFine ==
  ASSUME TimerInv, Tick
  PROVE  TimerInv'
<1> DEFINE du == [t \in Timers |-> IF tm.fPending[t] /\ tm.due[t] > -MaxLatency
                                     THEN tm.due[t] - 1 ELSE tm.due[t]]
           h == IF tm.hw > 0 THEN tm.hw - 1 ELSE tm.hw
<1>1. PICK L : L = On(tm, OutOf(pc))
  OBVIOUS
<1>2. QueueRight(tm, L) /\ Covers(tm) /\ late \in 0..MaxLatency
  BY <1>1, Zenon DEF TimerInv, Fine
<1>3. /\ tm \in TimerStates /\ L \in SUBSET Timers
      /\ Once(tm.fTimerQueue, L) /\ Rising(tm.fTimerQueue, tm.due)
      /\ \A t \in Timers : tm.due[t] >= -MaxLatency
                           /\ (tm.fMode[t] = "periodic" => tm.fInterval[t] > 0)
      /\ \A t \in L : tm.fPending[t]
  BY <1>2, Zenon DEF QueueRight
<1>4. /\ tm.due \in [Timers -> Int] /\ tm.hw \in Off..kMaxTimerInterval
      /\ MaxLatency \in Nat /\ kMaxTimerInterval \in Nat
  BY <1>3, TimerParts, TimerAssumption
<1>5. tm' = [tm EXCEPT !.due = du, !.hw = h]
  BY Zenon DEF Tick
<1>6. du \in [Timers -> Int] /\ h \in Off..kMaxTimerInterval
  BY <1>4 DEF Off
<1>7. OnlyTimes(tm, tm', du, h)
  BY <1>3, <1>5, <1>6, TimesPut, Zenon
<1>8. \A t \in Timers : /\ du[t] \in Int /\ du[t] >= -MaxLatency
                        /\ tm.fPending[t] => du[t] = IF tm.due[t] > -MaxLatency THEN tm.due[t] - 1 ELSE tm.due[t]
  BY <1>3, <1>4
<1>9. \A t, u \in L : tm.due[t] <= tm.due[u] => du[t] <= du[u]
  <2> TAKE t, u \in L
  <2>1. t \in Timers /\ u \in Timers /\ tm.fPending[t] /\ tm.fPending[u]
    BY <1>3
  <2>2. tm.due[t] \in Int /\ tm.due[u] \in Int /\ tm.due[t] >= -MaxLatency /\ tm.due[u] >= -MaxLatency
    BY <1>3, <1>4, <2>1
  <2>3. /\ du[t] = IF tm.due[t] > -MaxLatency THEN tm.due[t] - 1 ELSE tm.due[t]
        /\ du[u] = IF tm.due[u] > -MaxLatency THEN tm.due[u] - 1 ELSE tm.due[u]
    BY <1>8, <2>1
  <2> QED
    BY ONLY <1>4, <2>2, <2>3
<1> HIDE DEF du, h
<1>10. Rising(tm.fTimerQueue, du)
  <2>1. \A i \in 1..Len(tm.fTimerQueue) : tm.fTimerQueue[i] \in L
    BY <1>3, ElementOfSeq, Zenon DEF Once
  <2> QED
    BY <1>3, <1>9, <2>1, Zenon DEF Rising
<1>11. QueueRight(tm', L)
  BY <1>3, <1>7, <1>8, <1>10, Zenon DEF QueueRight, OnlyTimes
<1>12. Covers(tm')
  <2>1. SUFFICES ASSUME tm.fTimerQueue # << >>
                 PROVE  h = 0 \/ (h # Off /\ h <= du[Head(tm.fTimerQueue)])
    BY <1>7, Zenon DEF Covers, OnlyTimes
  <2>2. PICK t : t = Head(tm.fTimerQueue)
    OBVIOUS
  <2>3. t \in L
    BY <1>3, <2>1, <2>2, LenProperties, EmptySeq DEF Once
  <2>4. t \in Timers /\ tm.fPending[t] /\ tm.due[t] \in Int
    BY <1>3, <1>4, <2>3
  <2>5. tm.hw = 0 \/ (tm.hw # Off /\ tm.hw <= tm.due[t])
    BY <1>2, <2>1, <2>2, Zenon DEF Covers
  <2>6. du[t] = IF tm.due[t] > -MaxLatency THEN tm.due[t] - 1 ELSE tm.due[t]
    BY <1>8, <2>4
  <2>7. h = IF tm.hw > 0 THEN tm.hw - 1 ELSE tm.hw
    BY DEF h
  <2>8. h = 0 \/ (h # Off /\ h <= du[t])
    BY ONLY <1>4, <2>4, <2>5, <2>6, <2>7 DEF Off
  <2> QED
    BY <2>2, <2>8, Zenon
<1>13. On(tm', OutOf(pc)) = L
  BY <1>1, <1>7, Zenon DEF On, OnlyTimes
<1>14. Fine(tm', OutOf(pc)) /\ tm'.fPending[Motor] = tm.fPending[Motor]
  BY <1>7, <1>11, <1>12, <1>13, Zenon DEF Fine, OnlyTimes
<1>15. late' \in 0..MaxLatency
  <2>1. (tm.hw = 0 => late < MaxLatency) /\ late' = IF tm.hw = 0 THEN late + 1 ELSE late
    BY Zenon DEF Tick
  <2> QED
    BY <1>2, <1>4, <2>1
<1>16. pc' = pc /\ crash' = crash
  BY Zenon DEF Tick
<1> QED
  BY <1>14, <1>15, <1>16, OthersStep, Zenon

LEMMA TimerStep ==
  ASSUME TimerInv, OneDriver, [Next]_vars
  PROVE  TimerInv'
<1>1. CASE UNCHANGED vars
  <2>1. tm' = tm /\ late' = late /\ pc' = pc /\ crash' = crash
    BY <1>1, Zenon DEF vars
  <2> QED
    BY <2>1, Zenon DEF TimerInv
<1>2. ASSUME NEW t \in WaitTimers, NEW time \in Delays, NEW e \in Early,
             SetTimeout(t, "one shot", time, e)
      PROVE  TimerInv'
  <2>1. PICK mode \in Modes : mode = "one shot"
    BY Zenon DEF Modes
  <2>2. time \in Nat
    BY <1>2, TimerAssumption
  <2>3. SetTimeout(t, mode, time, e) /\ (mode = "periodic" => time > 0)
    BY <1>2, <2>1, Zenon
  <2> QED
    BY <2>1, <2>2, <2>3, SetTimeoutFine, Zenon
<1>3. ASSUME NEW t \in WaitTimers, NEW time \in Intervals, NEW e \in Early,
             SetTimeout(t, "periodic", time, e)
      PROVE  TimerInv'
  <2>1. PICK mode \in Modes : mode = "periodic"
    BY Zenon DEF Modes
  <2>2. time \in Nat /\ time > 0
    BY <1>3, TimerAssumption
  <2>3. SetTimeout(t, mode, time, e)
    BY <1>3, <2>1, Zenon
  <2> QED
    BY <2>1, <2>2, <2>3, SetTimeoutFine, Zenon
<1>4. ASSUME NEW d \in DriverThreads, NEW time \in Delays, MotorAssign(d, time) PROVE TimerInv'
  <2>1. time \in Nat
    BY <1>4, TimerAssumption
  <2> QED
    BY <1>4, <2>1, MotorAssignFine, Zenon
<1>5. CASE Next
  <2>1. CASE \E t \in WaitTimers, time \in Delays, e \in Early : SetTimeout(t, "one shot", time, e)
    BY <1>2, <2>1, Zenon
  <2>2. CASE \E t \in WaitTimers, time \in Intervals, e \in Early : SetTimeout(t, "periodic", time, e)
    BY <1>3, <2>2, Zenon
  <2>3. CASE \E t \in WaitTimers, e \in Early : CancelTimeout(t, e)
    BY <2>3, CancelTimeoutFine, Zenon
  <2>4. CASE \E what \in Reschedules, e \in Early :
               Reschedule(what, e) \/ HardwareTimerInterrupt(what, e)
    BY <2>4, RescheduleFine, InterruptStepFine, Zenon
  <2>5. CASE \E d \in DriverThreads, e \in Early :
               TurnOnMotor(d, e) \/ SpinDownMotor(d, e) \/ MotorInsert(d, e)
    BY <2>5, TurnOnMotorFine, SpinDownMotorFine, MotorInsertFine, Zenon
  <2>6. CASE \E d \in DriverThreads : MotorCheck(d) \/ \E time \in Delays : MotorAssign(d, time)
    BY <1>4, <2>6, MotorCheckFine, Zenon
  <2>7. CASE Tick
    BY <2>7, TickFine, Zenon
  <2> QED
    BY <1>5, <2>1, <2>2, <2>3, <2>4, <2>5, <2>6, <2>7, Zenon DEF Next
<1> QED
  BY <1>1, <1>5, Zenon

\* Every pending timer is in the queue once, so that TypeOK follows, and with
\* Covers what the run checks.
LEMMA TimerInvCovers ==
  ASSUME TimerInv
  PROVE  HardwareCovers
<1>1. PICK L : L = On(tm, OutOf(pc))
  OBVIOUS
<1>2. /\ QueueRight(tm, L) /\ Covers(tm) /\ late \in 0..MaxLatency
      /\ pc \in [DriverThreads -> DriverPlaces] /\ crash = "no"
  BY <1>1, Zenon DEF TimerInv, Fine, DriverRight
<1>3. tm \in TimerStates /\ Once(tm.fTimerQueue, L)
  BY <1>2, Zenon DEF QueueRight
<1>4. \A t \in Timers :
        Cardinality({i \in 1..Len(tm.fTimerQueue) : tm.fTimerQueue[i] = t})
          = IF tm.fPending[t] /\ ~(t = Motor /\ \E d \in DriverThreads : pc[d] = "assigned")
              THEN 1 ELSE 0
  <2> TAKE t \in Timers
  <2>1. t \in L <=> tm.fPending[t] /\ ~(t = Motor /\ \E d \in DriverThreads : pc[d] = "assigned")
    BY <1>1, Zenon DEF On, OutOf
  <2>2. CASE t \in L
    <3>1. Cardinality({i \in 1..Len(tm.fTimerQueue) : tm.fTimerQueue[i] = t}) = 1
      BY <1>3, <2>2, OnceCount
    <3> QED
      BY <2>1, <2>2, <3>1, Zenon
  <2>3. CASE t \notin L
    <3>1. Cardinality({i \in 1..Len(tm.fTimerQueue) : tm.fTimerQueue[i] = t}) = 0
      BY <1>3, <2>3, OnceCount
    <3> QED
      BY <2>1, <2>3, <3>1, Zenon
  <2> QED
    BY <2>2, <2>3, Zenon
<1>5. TypeOK
  BY <1>2, <1>3, <1>4, Zenon DEF TypeOK, TimerStates, DriverPlaces
<1> QED
  BY <1>2, <1>5, Zenon DEF HardwareCovers, Covers

\* The hardware timer always covers the head of the queue, which holds every
\* pending timer once, in the order in which they are due: through every
\* SetTimeout, CancelTimeout and Reschedule, and through the loop of
\* HardwareTimerInterrupt.  The floppy is used by one thread.
THEOREM TimerHardwareCovers ==
  ASSUME OneDriver
  PROVE  Spec => []HardwareCovers
<1>1. Init => TimerInv
  BY InitFine, Zenon
<1>2. TimerInv /\ [Next]_vars => TimerInv'
  BY TimerStep, Zenon
<1>3. TimerInv => HardwareCovers
  BY TimerInvCovers, Zenon
<1> QED
  BY <1>1, <1>2, <1>3, PTL DEF Spec

\* An interrupt, however late it comes, leaves nothing overdue: the loop of
\* HardwareTimerInterrupt catches up with every periodic timer, and Reschedule
\* sets none that is due.
THEOREM TimerNothingOverdue ==
  ASSUME OneDriver
  PROVE  Spec => NothingOverdue
<1>1. Init => TimerInv
  BY InitFine, Zenon
<1>2. TimerInv /\ [Next]_vars => TimerInv'
  BY TimerStep, Zenon
<1>3. TimerInv /\ [Next]_vars => [tm.hw = 0 /\ late' = 0 /\ late > 0 => ~Overdue(tm')]_vars
  <2>1. SUFFICES ASSUME TimerInv, Next, tm.hw = 0, late' = 0, late > 0 PROVE ~Overdue(tm')
    BY Zenon
  <2>2. late' # late
    BY <2>1
  <2>3. PICK what \in Reschedules, e \in Early : HardwareTimerInterrupt(what, e)
    <3>1. CASE Tick
      <4>1. late' = late + 1
        BY <2>1, <3>1, Zenon DEF Tick
      <4>2. late \in 0..MaxLatency
        BY <2>1, Zenon DEF TimerInv
      <4> QED
        BY <2>1, <4>1, <4>2
    <3>2. CASE ~Tick
      BY <2>1, <2>2, <3>2, Zenon DEF Next, SetTimeout, CancelTimeout, Reschedule, TurnOnMotor,
         SpinDownMotor, MotorCancel, MotorCheck, MotorAssign, MotorInsert
    <3> QED
      BY <3>1, <3>2, Zenon
  <2> QED
    BY <2>1, <2>3, InterruptStepFine, Zenon
<1> QED
  BY <1>1, <1>2, <1>3, PTL DEF Spec, NothingOverdue

-----------------------------------------------------------------------------
(* KernelHeap. *)

\* The parts that begin at S, with the sizes d, follow each other from the
\* beginning of the memory to its end.
Layout(S, d) ==
  /\ S \subseteq Addresses /\ 0 \in S
  /\ \A a \in S : /\ d[a] \in Int /\ d[a] >= Overhead /\ a + d[a] <= HeapSize
                  /\ a + d[a] = HeapSize \/ a + d[a] \in S
  /\ \A a, b \in S : a < b => a + d[a] <= b

LEMMA OverheadIs ==
  /\ HeaderSize \in Int /\ HeaderSize > 0 /\ FooterSize \in Int /\ FooterSize > 0
  /\ Overhead \in Int /\ Overhead > FooterSize
  /\ HeapSize \in Int /\ HeapSize > Overhead
BY HeapAssumption DEF Overhead

\* Every address is in one part.
LEMMA Covered ==
  ASSUME NEW S, NEW d, Layout(S, d), NEW x \in Addresses
  PROVE  \E a \in S : /\ a <= x /\ x < a + d[a]
                      /\ \A b \in S \ {a} : ~(b <= x /\ x < b + d[b])
<1> DEFINE below == {a \in S : a <= x}
<1>1. /\ S \subseteq Int /\ 0 \in S /\ x \in Int /\ 0 <= x /\ x < HeapSize
      /\ \A a \in S : d[a] \in Int /\ d[a] > 0
  BY OverheadIs DEF Layout, Addresses
<1>2. below \in SUBSET Int /\ below # {}
  BY <1>1
<1>3. \A a \in below : a <= x
  OBVIOUS
<1>4. PICK a \in below : \A b \in below : b <= a
  BY <1>1, <1>2, <1>3, GreatestNumber, Zenon
<1>5. a \in S /\ a <= x
  OBVIOUS
<1>6. x < a + d[a]
  <2>1. SUFFICES ASSUME a + d[a] <= x PROVE FALSE
    BY <1>1, <1>5
  <2>2. a + d[a] \in S
    BY <1>1, <1>5, <2>1, OverheadIs DEF Layout
  <2>3. a + d[a] \in below
    BY <2>1, <2>2
  <2>4. a + d[a] <= a
    BY <1>4, <2>3, Zenon
  <2> QED
    BY <1>1, <1>5, <2>4
<1>7. ASSUME NEW b \in S \ {a}, b <= x, x < b + d[b] PROVE FALSE
  <2>1. b \in below
    BY <1>7
  <2>2. b <= a
    BY <1>4, <2>1, Zenon
  <2>3. b < a
    BY <1>1, <1>5, <1>7, <2>2
  <2>4. b + d[b] <= a
    BY <1>5, <1>7, <2>3 DEF Layout
  <2> QED
    BY <1>1, <1>5, <1>7, <2>4
<1> QED
  BY <1>5, <1>6, <1>7, Zenon

\* Every part but the first has one on its left.
LEMMA LeftOf ==
  ASSUME NEW S, NEW d, Layout(S, d), NEW a \in S, a # 0
  PROVE  \E l \in S : l + d[l] = a
<1>1. /\ S \subseteq Int /\ a \in 0..(HeapSize - 1) /\ a - 1 \in Addresses
      /\ \A b \in S : d[b] \in Int /\ d[b] > 0
  BY OverheadIs DEF Layout, Addresses
<1>2. PICK l \in S : l <= a - 1 /\ a - 1 < l + d[l]
  BY <1>1, Covered, Zenon
<1>3. l < a /\ a <= l + d[l]
  BY <1>1, <1>2
<1>4. l + d[l] <= a
  BY <1>3 DEF Layout
<1> QED
  BY <1>1, <1>2, <1>3, <1>4

\* Parts that end at the same place are the same.
LEMMA SameEnd ==
  ASSUME NEW S, NEW d, Layout(S, d), NEW a \in S, NEW b \in S, a + d[a] = b + d[b]
  PROVE  a = b
<1>1. /\ a \in Int /\ b \in Int /\ d[a] \in Int /\ d[b] \in Int /\ d[a] > 0 /\ d[b] > 0
      /\ a < b => a + d[a] <= b
      /\ b < a => b + d[b] <= a
  BY OverheadIs DEF Layout, Addresses
<1> QED
  BY <1>1

\* A part is divided in two.
LEMMA LayoutSplit ==
  ASSUME NEW S, NEW d, Layout(S, d), NEW a \in S, NEW k \in Int, k >= Overhead,
         d[a] - k >= Overhead, NEW e, e[a] = k, e[a + k] = d[a] - k,
         \A b \in S \ {a} : e[b] = d[b]
  PROVE  Layout(S \cup {a + k}, e) /\ a + k \notin S
<1>1. /\ S \subseteq Addresses /\ S \subseteq Int /\ 0 \in S
      /\ \A b \in S : /\ d[b] \in Int /\ d[b] >= Overhead /\ b + d[b] <= HeapSize /\ b >= 0
                      /\ b + d[b] = HeapSize \/ b + d[b] \in S
      /\ \A b, c \in S : b < c => b + d[b] <= c
  BY DEF Layout, Addresses
<1> USE OverheadIs
<1>2. a + k \notin S
  BY <1>1
<1>3. a + k \in Addresses
  BY <1>1 DEF Addresses
<1>4. ASSUME NEW b \in S \cup {a + k}
      PROVE  /\ e[b] \in Int /\ e[b] >= Overhead /\ b + e[b] <= HeapSize
             /\ b + e[b] = HeapSize \/ b + e[b] \in S \cup {a + k}
  <2>1. CASE b = a
    BY <1>1, <2>1
  <2>2. CASE b = a + k
    BY <1>1, <2>2
  <2>3. CASE b \in S \ {a}
    BY <1>1, <2>3
  <2> QED
    BY <1>4, <2>1, <2>2, <2>3
<1>5. ASSUME NEW b \in S \cup {a + k}, NEW c \in S \cup {a + k}, b < c PROVE b + e[b] <= c
  <2>1. CASE b = a /\ c # a + k
    BY <1>1, <1>5, <2>1
  <2>2. CASE c = a + k /\ b # a
    BY <1>1, <1>5, <2>2
  <2>3. CASE b = a /\ c = a + k
    BY <1>1, <2>3
  <2>4. CASE b = a + k /\ c \in S
    BY <1>1, <1>5, <2>4
  <2>5. CASE b \in S \ {a} /\ c \in S
    BY <1>1, <1>5, <2>5
  <2> QED
    BY <1>1, <1>5, <2>1, <2>2, <2>3, <2>4, <2>5
<1> QED
  BY <1>1, <1>2, <1>3, <1>4, <1>5 DEF Layout

\* Two parts become one.
LEMMA LayoutJoin ==
  ASSUME NEW S, NEW d, Layout(S, d), NEW l \in S, NEW a \in S, l + d[l] = a,
         NEW e, e[l] = d[l] + d[a], \A b \in S \ {l, a} : e[b] = d[b]
  PROVE  Layout(S \ {a}, e) /\ l # a
<1>1. /\ S \subseteq Addresses /\ S \subseteq Int /\ 0 \in S
      /\ \A b \in S : /\ d[b] \in Int /\ d[b] >= Overhead /\ b + d[b] <= HeapSize /\ b >= 0
                      /\ b + d[b] = HeapSize \/ b + d[b] \in S
      /\ \A b, c \in S : b < c => b + d[b] <= c
  BY DEF Layout, Addresses
<1> USE OverheadIs
<1>2. l # a /\ a # 0
  BY <1>1
<1>3. ASSUME NEW b \in S \ {a}
      PROVE  /\ e[b] \in Int /\ e[b] >= Overhead /\ b + e[b] <= HeapSize
             /\ b + e[b] = HeapSize \/ b + e[b] \in S \ {a}
  <2>1. CASE b = l
    BY <1>1, <2>1
  <2>2. CASE b # l
    <3>1. b + d[b] # a
      BY <1>3, <2>2, SameEnd
    <3> QED
      BY <1>1, <1>3, <2>2, <3>1
  <2> QED
    BY <2>1, <2>2
<1>4. ASSUME NEW b \in S \ {a}, NEW c \in S \ {a}, b < c PROVE b + e[b] <= c
  <2>1. CASE b = l
    BY <1>1, <1>4, <2>1
  <2>2. CASE b # l
    BY <1>1, <1>4, <2>2
  <2> QED
    BY <2>1, <2>2
<1> QED
  BY <1>1, <1>2, <1>3, <1>4 DEF Layout

\* What headers, footers and the index are.
Headers == [size : Int, is_hole : BOOLEAN]

HeapStates ==
  [header : [Addresses -> Headers \cup {NoMagic}],
   footer : [Addresses -> Addresses \cup {NoMagic}],
   index : Seq(Addresses)]

LEMMA HeapParts ==
  ASSUME NEW h \in HeapStates
  PROVE  /\ h = [header |-> h.header, footer |-> h.footer, index |-> h.index]
         /\ h.header \in [Addresses -> Headers \cup {NoMagic}]
         /\ h.footer \in [Addresses -> Addresses \cup {NoMagic}]
         /\ h.index \in Seq(Addresses)
BY DEF HeapStates

\* n is h with another header at a, or footer, or index.
HeaderPut(h, n, a, size, is_hole) ==
  /\ n \in HeapStates /\ n.footer = h.footer /\ n.index = h.index
  /\ n.header[a] \in Headers /\ n.header[a].size = size /\ n.header[a].is_hole = is_hole
  /\ \A x \in Addresses : x # a => n.header[x] = h.header[x]

FooterPut(h, n, x, a) ==
  /\ n \in HeapStates /\ n.header = h.header /\ n.index = h.index
  /\ n.footer[x] = a
  /\ \A y \in Addresses : y # x => n.footer[y] = h.footer[y]

IndexPut(h, n, q) ==
  /\ n \in HeapStates /\ n.header = h.header /\ n.footer = h.footer
  /\ n.index = q

LEMMA PutHeaderIs ==
  ASSUME NEW h \in HeapStates, NEW a \in Addresses, NEW size \in Int, NEW is_hole \in BOOLEAN
  PROVE  HeaderPut(h, PutHeader(h, a, size, is_hole), a, size, is_hole)
<1>0. PICK n : n = PutHeader(h, a, size, is_hole)
  OBVIOUS
<1>1. PICK r : r = [size |-> size, is_hole |-> is_hole]
  OBVIOUS
<1>2. r \in Headers /\ r.size = size /\ r.is_hole = is_hole
  BY <1>1 DEF Headers
<1>3. PICK f : f = [h.header EXCEPT ![a] = r]
  OBVIOUS
<1>4. /\ f \in [Addresses -> Headers \cup {NoMagic}] /\ f[a] = r
      /\ \A x \in Addresses : x # a => f[x] = h.header[x]
  BY <1>2, <1>3, HeapParts
<1>5. n = [header |-> f, footer |-> h.footer, index |-> h.index]
  <2>1. h = [header |-> h.header, footer |-> h.footer, index |-> h.index]
    BY HeapParts, Zenon
  <2>2. n = [h EXCEPT !.header[a] = r]
    BY <1>0, <1>1, Zenon DEF PutHeader
  <2> QED
    BY ONLY <2>1, <2>2, <1>3
<1>6. n \in HeapStates
  BY <1>4, <1>5, HeapParts DEF HeapStates
<1>7. n.header = f /\ n.footer = h.footer /\ n.index = h.index
  BY ONLY <1>5
<1>8. HeaderPut(h, n, a, size, is_hole)
  BY <1>2, <1>4, <1>6, <1>7, Zenon DEF HeaderPut
<1> QED
  BY <1>0, <1>8, Zenon

LEMMA PutFooterIs ==
  ASSUME NEW h \in HeapStates, NEW a \in Addresses, NEW size, a + size - FooterSize \in Addresses
  PROVE  FooterPut(h, PutFooter(h, a, size), a + size - FooterSize, a)
<1>0. PICK n : n = PutFooter(h, a, size)
  OBVIOUS
<1>1. PICK x \in Addresses : x = a + size - FooterSize
  OBVIOUS
<1>3. PICK f : f = [h.footer EXCEPT ![x] = a]
  OBVIOUS
<1>4. /\ f \in [Addresses -> Addresses \cup {NoMagic}] /\ f[x] = a
      /\ \A y \in Addresses : y # x => f[y] = h.footer[y]
  BY <1>3, HeapParts
<1>5. n = [header |-> h.header, footer |-> f, index |-> h.index]
  <2>1. h = [header |-> h.header, footer |-> h.footer, index |-> h.index]
    BY HeapParts, Zenon
  <2>2. n = [h EXCEPT !.footer[x] = a]
    BY <1>0, <1>1, Zenon DEF PutFooter
  <2> QED
    BY ONLY <2>1, <2>2, <1>3
<1>6. n \in HeapStates
  BY <1>4, <1>5, HeapParts DEF HeapStates
<1>7. n.header = h.header /\ n.footer = f /\ n.index = h.index
  BY ONLY <1>5
<1>8. FooterPut(h, n, x, a)
  BY <1>4, <1>6, <1>7, Zenon DEF FooterPut
<1> QED
  BY <1>0, <1>1, <1>8, Zenon

LEMMA IndexPutIs ==
  ASSUME NEW h \in HeapStates, NEW q \in Seq(Addresses)
  PROVE  IndexPut(h, [h EXCEPT !.index = q], q)
<1>0. PICK n : n = [h EXCEPT !.index = q]
  OBVIOUS
<1>5. n = [header |-> h.header, footer |-> h.footer, index |-> q]
  <2>1. h = [header |-> h.header, footer |-> h.footer, index |-> h.index]
    BY HeapParts, Zenon
  <2> QED
    BY ONLY <2>1, <1>0
<1>6. n \in HeapStates
  BY <1>5, HeapParts DEF HeapStates
<1>7. n.header = h.header /\ n.footer = h.footer /\ n.index = q
  BY ONLY <1>5
<1>8. IndexPut(h, n, q)
  BY <1>6, <1>7, Zenon DEF IndexPut
<1> QED
  BY <1>0, <1>8, Zenon

\* The memory of a block that is handed out.
Erased(h, n, a, size) ==
  /\ n \in HeapStates /\ n.index = h.index
  /\ \A x \in Addresses : ~(a < x /\ x < a + size) => n.header[x] = h.header[x]
  /\ \A x \in Addresses : ~(a <= x /\ x < a + size) => n.footer[x] = h.footer[x]

LEMMA OverwrittenIs ==
  ASSUME NEW h \in HeapStates, NEW a \in Addresses, NEW size \in Int
  PROVE  Erased(h, Overwritten(h, a, size), a, size)
<1>0. PICK n : n = Overwritten(h, a, size)
  OBVIOUS
<1>1. PICK f : f = [x \in Addresses |-> IF a < x /\ x < a + size THEN NoMagic ELSE h.header[x]]
  OBVIOUS
<1>2. PICK g : g = [x \in Addresses |-> IF a <= x /\ x < a + size - FooterSize THEN NoMagic
                                        ELSE h.footer[x]]
  OBVIOUS
<1>3. /\ f \in [Addresses -> Headers \cup {NoMagic}]
      /\ \A x \in Addresses : ~(a < x /\ x < a + size) => f[x] = h.header[x]
  <2>1. h.header \in [Addresses -> Headers \cup {NoMagic}]
    BY HeapParts, Zenon
  <2>2. \A x \in Addresses : ~(a < x /\ x < a + size) => f[x] = h.header[x]
    BY ONLY <1>1
  <2>3. f \in [Addresses -> Headers \cup {NoMagic}]
    BY ONLY <1>1, <2>1
  <2> QED
    BY <2>2, <2>3, Zenon
<1>4. /\ g \in [Addresses -> Addresses \cup {NoMagic}]
      /\ \A x \in Addresses : ~(a <= x /\ x < a + size) => g[x] = h.footer[x]
  <2>1. h.footer \in [Addresses -> Addresses \cup {NoMagic}]
    BY HeapParts, Zenon
  <2>2. \A x \in Addresses : x \in Int
    BY DEF Addresses
  <2>3. a \in Int /\ FooterSize \in Int /\ FooterSize > 0
    BY <2>2, OverheadIs
  <2>4. ASSUME NEW x \in Addresses, ~(a <= x /\ x < a + size)
        PROVE  g[x] = h.footer[x]
    <3>1. ~(a <= x /\ x < a + size - FooterSize)
      BY <2>2, <2>3, <2>4
    <3> QED
      BY <1>2, <3>1, Zenon
  <2>5. g \in [Addresses -> Addresses \cup {NoMagic}]
    BY ONLY <1>2, <2>1
  <2> QED
    BY <2>4, <2>5, Zenon
<1>5. n = [header |-> f, footer |-> g, index |-> h.index]
  <2>1. h = [header |-> h.header, footer |-> h.footer, index |-> h.index]
    BY HeapParts, Zenon
  <2>2. n = [h EXCEPT !.header = f, !.footer = g]
    BY <1>0, <1>1, <1>2, Zenon DEF Overwritten
  <2> QED
    BY ONLY <2>1, <2>2
<1>6. n \in HeapStates
  BY <1>3, <1>4, <1>5, HeapParts DEF HeapStates
<1>7. n.header = f /\ n.footer = g /\ n.index = h.index
  BY ONLY <1>5
<1>8. Erased(h, n, a, size)
  BY <1>3, <1>4, <1>6, <1>7, Zenon DEF Erased
<1> QED
  BY <1>0, <1>8, Zenon

\* What headers say.
Sizes(h) == [a \in Addresses |-> h.header[a].size]

\* The header and the footer of a part; the hole that is the whole heap has no
\* footer.
PartRight(h, a, H) ==
  /\ h.header[a] \in Headers /\ (h.header[a].is_hole <=> a \in H)
  /\ (h.header[a].size = HeapSize /\ a \in H) \/ h.footer[a + h.header[a].size - FooterSize] = a

\* The heap is laid out in the blocks B and the holes H.
Shape(h, B, H) ==
  /\ h \in HeapStates /\ B \cap H = {}
  /\ Layout(B \cup H, Sizes(h))
  /\ \A a \in B \cup H : PartRight(h, a, H)

LEMMA ShapeIs ==
  ASSUME NEW h, NEW B, NEW H, Shape(h, B, H)
  PROVE  /\ B \subseteq Addresses /\ H \subseteq Addresses /\ 0 \in B \cup H
         /\ \A a \in B \cup H :
              /\ a \in Int /\ a >= 0 /\ a < HeapSize
              /\ h.header[a] \in Headers /\ h.header[a] # NoMagic
              /\ Sizes(h)[a] = h.header[a].size
              /\ h.header[a].size \in Int /\ h.header[a].size >= Overhead
              /\ a + h.header[a].size <= HeapSize
              /\ a + h.header[a].size = HeapSize \/ a + h.header[a].size \in B \cup H
<1>1. Layout(B \cup H, Sizes(h)) /\ \A a \in B \cup H : h.header[a] \in Headers
  BY Zenon DEF Shape, PartRight
<1>2. B \cup H \subseteq Addresses /\ 0 \in B \cup H
  BY <1>1, Zenon DEF Layout
<1>3. ASSUME NEW a \in B \cup H
      PROVE  /\ a \in Int /\ a >= 0 /\ a < HeapSize
             /\ h.header[a] \in Headers /\ h.header[a] # NoMagic
             /\ Sizes(h)[a] = h.header[a].size
  <2>1. a \in Addresses /\ h.header[a] \in Headers
    BY <1>1, <1>2
  <2>2. h.header[a] # NoMagic
    BY <2>1, HeapAssumption, Zenon DEF Headers
  <2>3. Sizes(h)[a] = h.header[a].size
    BY <2>1, Zenon DEF Sizes
  <2> QED
    BY <2>1, <2>2, <2>3, OverheadIs DEF Addresses
<1>4. ASSUME NEW a \in B \cup H
      PROVE  /\ h.header[a].size \in Int /\ h.header[a].size >= Overhead
             /\ a + h.header[a].size <= HeapSize
             /\ a + h.header[a].size = HeapSize \/ a + h.header[a].size \in B \cup H
  <2>1. PICK s : s = h.header[a].size
    OBVIOUS
  <2>2. Sizes(h)[a] = s
    BY <1>3, <2>1, Zenon
  <2>3. /\ s \in Int /\ s >= Overhead /\ a + s <= HeapSize
        /\ a + s = HeapSize \/ a + s \in B \cup H
    BY <1>1, <2>2, Zenon DEF Layout
  <2> QED
    BY <2>1, <2>3, Zenon
<1> QED
  BY <1>2, <1>3, <1>4

\* What is known of one part.
PartIs(h, a, S) ==
  /\ a \in Int /\ a >= 0 /\ a < HeapSize /\ a \in Addresses
  /\ h.header[a] \in Headers /\ h.header[a] # NoMagic
  /\ Sizes(h)[a] = h.header[a].size
  /\ h.header[a].size \in Int /\ h.header[a].size >= Overhead
  /\ a + h.header[a].size <= HeapSize
  /\ a + h.header[a].size = HeapSize \/ a + h.header[a].size \in S

LEMMA PartOf ==
  ASSUME NEW h, NEW B, NEW H, Shape(h, B, H), NEW a, a \in B \/ a \in H
  PROVE  PartIs(h, a, B \cup H)
<1>1. a \in B \cup H
  OBVIOUS
<1>2. PICK S : S = B \cup H
  OBVIOUS
<1>3. /\ S \subseteq Addresses
      /\ \A x \in S :
              /\ x \in Int /\ x >= 0 /\ x < HeapSize
              /\ h.header[x] \in Headers /\ h.header[x] # NoMagic
              /\ Sizes(h)[x] = h.header[x].size
              /\ h.header[x].size \in Int /\ h.header[x].size >= Overhead
              /\ x + h.header[x].size <= HeapSize
              /\ x + h.header[x].size = HeapSize \/ x + h.header[x].size \in S
  BY <1>2, ShapeIs
<1>4. a \in S /\ a \in Addresses
  BY <1>1, <1>2, <1>3
<1>5. PartIs(h, a, S)
  BY <1>3, <1>4, Zenon DEF PartIs
<1> QED
  BY <1>2, <1>5, Zenon

\* What follows a part is a hole exactly if it looks like one.
LEMMA RightHole ==
  ASSUME NEW h, NEW B, NEW H, Shape(h, B, H), NEW a \in B \cup H
  PROVE  IsHoleAt(h, a + h.header[a].size) <=> a + h.header[a].size \in H
<1>1. PICK r : r = a + h.header[a].size
  OBVIOUS
<1>2. r = HeapSize \/ r \in B \cup H
  BY <1>1, ShapeIs, Zenon
<1>3. CASE r = HeapSize
  <2>1. r \notin Addresses /\ H \subseteq Addresses
    BY <1>3, ShapeIs, OverheadIs DEF Addresses
  <2>2. HeaderAt(h, r) = NoMagic
    BY <2>1, Zenon DEF HeaderAt
  <2>3. r \notin H /\ ~IsHoleAt(h, r)
    BY <2>1, <2>2, Zenon DEF IsHoleAt
  <2> QED
    BY <1>1, <2>3, Zenon
<1>4. CASE r \in B \cup H
  <2>1. r \in Addresses /\ h.header[r] # NoMagic
    BY <1>4, ShapeIs
  <2>2. HeaderAt(h, r) = h.header[r]
    BY <2>1, Zenon DEF HeaderAt
  <2>3. IsHoleAt(h, r) <=> r \in H
    BY <1>4, <2>1, <2>2, Zenon DEF IsHoleAt, Shape, PartRight
  <2> QED
    BY <1>1, <2>3, Zenon
<1> QED
  BY <1>2, <1>3, <1>4, Zenon

\* left is what the footer before a says: a hole that ends at a, if there is one.
LeftIs(h, H, a, left) ==
  /\ (left # NoMagic /\ IsHoleAt(h, left)) => (left \in H /\ left + h.header[left].size = a)
  /\ (\E l \in H : l + h.header[l].size = a) => (left # NoMagic /\ IsHoleAt(h, left))

\* The footer before a part leads to the part on its left.
LEMMA LeftHole ==
  ASSUME NEW h, NEW B, NEW H, Shape(h, B, H), NEW a \in B \cup H,
         NEW left, left = FooterAt(h, a - FooterSize)
  PROVE  LeftIs(h, H, a, left)
<1>1. CASE a = 0
  <2>1. a - FooterSize \notin Addresses
    BY <1>1, OverheadIs DEF Addresses
  <2>2. left = NoMagic
    BY <2>1, Zenon DEF FooterAt
  <2>3. ASSUME NEW l \in H, l + h.header[l].size = a PROVE FALSE
    <3>1. l \in Int /\ l >= 0 /\ h.header[l].size \in Int /\ h.header[l].size >= Overhead
      BY ShapeIs
    <3> QED
      BY <1>1, <2>3, <3>1, OverheadIs
  <2> QED
    BY <2>2, <2>3, Zenon DEF LeftIs
<1>2. CASE a # 0
  <2>1. Layout(B \cup H, Sizes(h))
    BY Zenon DEF Shape
  <2>2. PICK l \in B \cup H : l + Sizes(h)[l] = a
    <3>1. PICK S, d : S = B \cup H /\ d = Sizes(h)
      OBVIOUS
    <3>2. Layout(S, d) /\ a \in S
      BY <2>1, <3>1, Zenon
    <3>3. \E l \in S : l + d[l] = a
      BY ONLY <1>2, <3>2, LeftOf
    <3> QED
      BY <3>1, <3>3, Zenon
  <2>3. PICK s : s = h.header[l].size
    OBVIOUS
  <2>4. /\ l \in Int /\ l >= 0 /\ l \in Addresses /\ Sizes(h)[l] = s /\ s \in Int /\ s >= Overhead
        /\ a \in Int /\ a < HeapSize /\ h.header[l] # NoMagic
    <3>1. l \in Addresses
      BY <2>2, ShapeIs
    <3>2. PartIs(h, l, B \cup H) /\ PartIs(h, a, B \cup H)
      BY <2>2, PartOf
    <3> QED
      BY <2>3, <3>1, <3>2, Zenon DEF PartIs
  <2>5. l + s = a /\ s # HeapSize /\ a - FooterSize \in Addresses /\ l + s - FooterSize = a - FooterSize
    BY <2>2, <2>4, OverheadIs DEF Addresses
  <2>6. left = l
    <3>1. h.footer[l + s - FooterSize] = l
      BY <2>3, <2>5, Zenon DEF Shape, PartRight
    <3> QED
      BY <2>5, <3>1, Zenon DEF FooterAt
  <2>7. left # NoMagic
    BY <2>4, <2>6, HeapAssumption, Zenon
  <2>8. IsHoleAt(h, left) <=> l \in H
    <3>1. HeaderAt(h, l) = h.header[l]
      BY <2>4, Zenon DEF HeaderAt
    <3>2. IsHoleAt(h, l) <=> l \in H
      BY <2>4, <3>1, Zenon DEF IsHoleAt, Shape, PartRight
    <3> QED
      BY <2>6, <3>2, Zenon
  <2>9. ASSUME NEW m \in H, m + h.header[m].size = a PROVE m = l
    <3>1. m + Sizes(h)[m] = l + Sizes(h)[l]
      BY <2>2, <2>9, ShapeIs
    <3> QED
      BY <2>1, <3>1, SameEnd
  <2> QED
    BY <2>3, <2>5, <2>6, <2>7, <2>8, <2>9, Zenon DEF LeftIs
<1> QED
  BY <1>1, <1>2, Zenon

\* The layout that headers give is the one that only a hole's size tells apart.
LEMMA ShapeFrom ==
  ASSUME NEW h \in HeapStates, NEW B, NEW H, B \cap H = {},
         NEW d, Layout(B \cup H, d),
         \A a \in B \cup H : PartRight(h, a, H) /\ h.header[a].size = d[a]
  PROVE  Shape(h, B, H)
<1>1. \A a \in B \cup H : a \in Addresses
  BY DEF Layout
<1>2. \A a \in B \cup H : Sizes(h)[a] = d[a]
  BY <1>1, Zenon DEF Sizes
<1>3. Layout(B \cup H, Sizes(h))
  <2>1. PICK e, S : e = Sizes(h) /\ S = B \cup H
    OBVIOUS
  <2>2. Layout(S, d) /\ \A a \in S : e[a] = d[a]
    BY <1>2, <2>1, Zenon
  <2>3. Layout(S, e)
    BY <2>2 DEF Layout
  <2> QED
    BY <2>1, <2>3, Zenon
<1> QED
  BY <1>3, Zenon DEF Shape

\* A hole takes in the hole on its right.
Joined(h, n, l, a) ==
  /\ n.index = h.index
  /\ n.header[l].size = h.header[l].size + h.header[a].size
  /\ \A x \in Addresses : x # l => n.header[x] = h.header[x]

LEMMA ShapeJoin ==
  ASSUME NEW h, NEW B, NEW H, Shape(h, B, H), NEW l \in H, NEW a \in H,
         l + h.header[l].size = a, NEW w, w = h.header[l].size + h.header[a].size
  PROVE  /\ Shape(PutFooter(PutHeader(h, l, w, TRUE), l, w), B, H \ {a})
         /\ Joined(h, PutFooter(PutHeader(h, l, w, TRUE), l, w), l, a)
         /\ l # a
<1>1. /\ B \subseteq Addresses /\ H \subseteq Addresses /\ h \in HeapStates /\ B \cap H = {}
      /\ Layout(B \cup H, Sizes(h)) /\ \A x \in B \cup H : PartRight(h, x, H)
  BY ShapeIs, Zenon DEF Shape
<1>2. PICK sl, sa : sl = h.header[l].size /\ sa = h.header[a].size
  OBVIOUS
<1>3. /\ l \in Int /\ l >= 0 /\ sl \in Int /\ sl >= Overhead /\ Sizes(h)[l] = sl
      /\ a \in Int /\ a < HeapSize /\ sa \in Int /\ sa >= Overhead /\ Sizes(h)[a] = sa /\ a + sa <= HeapSize
      /\ l \in Addresses /\ a \in Addresses
  <2>1. PartIs(h, l, B \cup H) /\ PartIs(h, a, B \cup H)
    BY PartOf, Zenon
  <2> QED
    BY <1>2, <2>1, Zenon DEF PartIs
<1>4. w = sl + sa /\ w \in Int /\ l + sl = a /\ l + w - FooterSize \in Addresses
      /\ l + w - FooterSize = a + sa - FooterSize
  BY <1>2, <1>3, OverheadIs DEF Addresses
<1>5. PICK m : m = PutHeader(h, l, w, TRUE)
  OBVIOUS
<1>6. PICK n : n = PutFooter(m, l, w)
  OBVIOUS
<1>7. HeaderPut(h, m, l, w, TRUE)
  <2>1. TRUE \in BOOLEAN
    OBVIOUS
  <2> QED
    BY <1>1, <1>3, <1>4, <1>5, <2>1, PutHeaderIs, Zenon
<1>8. FooterPut(m, n, l + w - FooterSize, l)
  <2>1. m \in HeapStates
    BY <1>7, Zenon DEF HeaderPut
  <2> QED
    BY <1>3, <1>4, <1>6, <2>1, PutFooterIs, Zenon
<1>9. /\ n \in HeapStates /\ n.index = h.index
      /\ n.header[l] \in Headers /\ n.header[l].size = w /\ n.header[l].is_hole = TRUE
      /\ \A x \in Addresses : x # l => n.header[x] = h.header[x]
      /\ n.footer[l + w - FooterSize] = l
      /\ \A y \in Addresses : y # l + w - FooterSize => n.footer[y] = h.footer[y]
  BY <1>7, <1>8, Zenon DEF HeaderPut, FooterPut
<1>10. PICK e, d, S : e = Sizes(n) /\ d = Sizes(h) /\ S = B \cup H
  OBVIOUS
<1>11. e[l] = d[l] + d[a] /\ \A b \in S \ {l, a} : e[b] = d[b]
  <2>1. \A x \in Addresses : e[x] = n.header[x].size /\ d[x] = h.header[x].size
    BY <1>10, Zenon DEF Sizes
  <2>2. e[l] = d[l] + d[a]
    BY <1>2, <1>3, <1>4, <1>9, <2>1, Zenon
  <2>3. \A b \in S \ {l, a} : b \in Addresses /\ b # l
    BY <1>1, <1>10
  <2>4. \A b \in S \ {l, a} : e[b] = d[b]
    <3> TAKE b \in S \ {l, a}
    <3>1. b \in Addresses /\ b # l
      BY <2>3
    <3>2. n.header[b] = h.header[b]
      BY <1>9, <3>1, Zenon
    <3>3. e[b] = n.header[b].size /\ d[b] = h.header[b].size
      BY <2>1, <3>1, Zenon
    <3> QED
      BY <3>2, <3>3, Zenon
  <2> QED
    BY <2>2, <2>4, Zenon
<1>12. Layout(S \ {a}, e) /\ l # a
  <2>1. Layout(S, d) /\ l \in S /\ a \in S /\ l + d[l] = a
    BY <1>1, <1>3, <1>4, <1>10
  <2> QED
    BY ONLY <1>11, <2>1, LayoutJoin
<1>13. S \ {a} = B \cup (H \ {a}) /\ B \cap (H \ {a}) = {}
  BY <1>1, <1>10
<1>14. ASSUME NEW b \in B \cup (H \ {a}) PROVE PartRight(n, b, H \ {a})
  <2>1. CASE b = l
    <3>1. l \in H \ {a} /\ n.header[l].is_hole = TRUE
      BY <1>9, <1>12
    <3> QED
      BY <1>9, <2>1, <3>1, Zenon DEF PartRight
  <2>2. CASE b # l
    <3>1. b \in B \cup H /\ b # a /\ b \in Addresses
      BY <1>1, <1>14
    <3>2. PartRight(h, b, H) /\ n.header[b] = h.header[b] /\ (b \in H \ {a} <=> b \in H)
      BY <1>1, <1>9, <2>2, <3>1
    <3>3. PICK sb : sb = h.header[b].size
      OBVIOUS
    <3>4. b \in Int /\ b >= 0 /\ sb \in Int /\ sb >= Overhead /\ d[b] = sb /\ b + sb <= HeapSize
      <4>1. PartIs(h, b, B \cup H)
        BY <3>1, PartOf
      <4> QED
        BY <1>10, <3>3, <4>1, Zenon DEF PartIs
    <3>5. b + sb # a + sa
      <4>1. Layout(S, d) /\ b \in S /\ a \in S /\ d[a] = sa
        BY <1>1, <1>3, <1>10, <3>1
      <4> QED
        BY ONLY <3>1, <3>4, <4>1, SameEnd
    <3>6. b + sb - FooterSize \in Addresses /\ b + sb - FooterSize # l + w - FooterSize
      BY <1>3, <1>4, <3>4, <3>5, OverheadIs DEF Addresses
    <3>7. n.footer[b + sb - FooterSize] = h.footer[b + sb - FooterSize]
      BY <1>9, <3>6, Zenon
    <3> QED
      BY <3>2, <3>3, <3>7, Zenon DEF PartRight
  <2> QED
    BY <2>1, <2>2, Zenon
<1>15. Shape(n, B, H \ {a})
  BY <1>9, <1>10, <1>12, <1>13, <1>14, Zenon DEF Shape
<1>16. Joined(h, n, l, a)
  BY <1>2, <1>4, <1>9, Zenon DEF Joined
<1> QED
  BY <1>5, <1>6, <1>12, <1>15, <1>16, Zenon

\* n is h with another index, that lists L.
Listing(h, n, L) ==
  /\ n \in HeapStates /\ n.header = h.header /\ n.footer = h.footer
  /\ Once(n.index, L)

LEMMA OnceRemoveAt ==
  ASSUME NEW q, NEW S, Once(q, S), NEW i \in 1..Len(q)
  PROVE  Once(RemoveAt(q, i), S \ {q[i]})
<1>1. /\ q[i] \in S
      /\ \A j \in 1..Len(q) : q[j] = q[i] => j = i
  BY ONLY Once(q, S), i \in 1..Len(q), LenProperties, ElementOfSeq DEF Once
<1>2. PICK j \in 1..Len(q) : q[j] = q[i] /\ RemoveFirst(q, q[i]) = RemoveAt(q, j)
  BY <1>1, RemoveFirstIs, Zenon
<1>3. j = i
  BY <1>1, <1>2, Zenon
<1> QED
  <2>1. Once(RemoveFirst(q, q[i]), S \ {q[i]})
    BY <1>1, OnceRemove, Zenon
  <2>2. RemoveFirst(q, q[i]) = RemoveAt(q, i)
    BY <1>2, <1>3, Zenon
  <2> QED
    BY <2>1, <2>2, Zenon

LEMMA OnceInAddresses ==
  ASSUME NEW q, NEW S, Once(q, S), S \subseteq Addresses
  PROVE  q \in Seq(Addresses)
<1>1. q \in Seq(S)
  BY Zenon DEF Once
<1> QED
  BY <1>1

LEMMA RemovedFromIndex ==
  ASSUME NEW h \in HeapStates, NEW L, L \subseteq Addresses, Once(h.index, L),
         NEW i \in 1..Len(h.index)
  PROVE  Listing(h, remove_ordered_array(h, i), L \ {h.index[i]})
<1>1. PICK q : q = RemoveAt(h.index, i)
  OBVIOUS
<1>2. Once(q, L \ {h.index[i]})
  BY <1>1, OnceRemoveAt, Zenon
<1>3. q \in Seq(Addresses)
  <2>1. L \ {h.index[i]} \subseteq Addresses
    OBVIOUS
  <2> QED
    BY <1>2, <2>1, OnceInAddresses, Zenon
<1>4. PICK n : n = [h EXCEPT !.index = q]
  OBVIOUS
<1>5. IndexPut(h, n, q)
  BY <1>3, <1>4, IndexPutIs, Zenon
<1>6. remove_ordered_array(h, i) = n
  BY <1>1, <1>4, Zenon DEF remove_ordered_array
<1> QED
  BY <1>2, <1>5, <1>6, Zenon DEF IndexPut, Listing

LEMMA InsertedInIndex ==
  ASSUME NEW h \in HeapStates, NEW L, L \subseteq Addresses, Once(h.index, L),
         NEW item \in Addresses, item \notin L
  PROVE  Listing(h, insert_ordered_array(h, item), L \cup {item})
<1> DEFINE notSmaller == {i \in 1..Len(h.index) : h.header[h.index[i]].size >= h.header[item].size}
           places == notSmaller \cup {Len(h.index) + 1}
<1>1. Len(h.index) \in Nat
  BY HeapParts, LenProperties
<1>2. places \subseteq 1..(Len(h.index) + 1) /\ places # {} /\ places \in SUBSET Nat
  BY <1>1
<1> HIDE DEF notSmaller
<1>3. \E i \in places : \A j \in places : i <= j
  <2>1. PICK P : P = places
    OBVIOUS
  <2>2. P \in SUBSET Nat /\ P # {}
    BY <1>2, <2>1
  <2> QED
    BY <2>1, <2>2, LeastNumber
<1>4. PICK i : i = Min(places)
  OBVIOUS
<1>5. i \in 1..(Len(h.index) + 1)
  <2>1. i \in places
    BY <1>3, <1>4, Zenon DEF Min
  <2> QED
    BY <1>2, <2>1
<1>6. PICK q : q = InsertAt(h.index, i, item)
  OBVIOUS
<1>7. Once(q, L \cup {item})
  BY <1>5, <1>6, OnceInsert, Zenon
<1>8. q \in Seq(Addresses)
  <2>1. L \cup {item} \subseteq Addresses
    OBVIOUS
  <2> QED
    BY <1>7, <2>1, OnceInAddresses, Zenon
<1>9. PICK n : n = [h EXCEPT !.index = q]
  OBVIOUS
<1>10. IndexPut(h, n, q)
  BY <1>8, <1>9, IndexPutIs, Zenon
<1>11. insert_ordered_array(h, item) = n
  BY <1>4, <1>6, <1>9, Zenon DEF insert_ordered_array, notSmaller
<1> QED
  BY <1>7, <1>10, <1>11, Zenon DEF IndexPut, Listing

\* Only the index is another.
LEMMA ShapeListing ==
  ASSUME NEW h, NEW B, NEW H, Shape(h, B, H), NEW n, NEW L, Listing(h, n, L)
  PROVE  Shape(n, B, H)
<1>1. Sizes(n) = Sizes(h)
  BY Zenon DEF Sizes, Listing
<1>2. \A a \in B \cup H : PartRight(n, a, H)
  BY Zenon DEF Shape, PartRight, Listing
<1> QED
  BY <1>1, <1>2, Zenon DEF Shape, Listing

\* The hole on the right, if there is one, becomes part of the hole at c and
\* leaves the index.
Unified(h, n, B, H, L, c) ==
  IF c + h.header[c].size \in H
    THEN /\ Shape(n, B, H \ {c + h.header[c].size}) /\ Once(n.index, L \ {c + h.header[c].size})
         /\ c # c + h.header[c].size
         /\ n.header[c].size = h.header[c].size + h.header[c + h.header[c].size].size
         /\ \A x \in Addresses : x # c => n.header[x] = h.header[x]
    ELSE n = h

LEMMA UnifyRightIs ==
  ASSUME NEW h, NEW B, NEW H, Shape(h, B, H), NEW c \in H, NEW L, L \subseteq Addresses, Once(h.index, L),
         c + h.header[c].size \in H => c + h.header[c].size \in L
  PROVE  Unified(h, UnifyRight(h, c), B, H, L, c)
<1>1. PICK r : r = c + h.header[c].size
  OBVIOUS
<1>2. PICK w : w = h.header[c].size + h.header[r].size
  OBVIOUS
<1>3. IsHoleAt(h, r) <=> r \in H
  BY <1>1, RightHole, Zenon
<1>4. PICK m : m = PutFooter(PutHeader(h, c, w, TRUE), c, w)
  OBVIOUS
<1>5. UnifyRight(h, c) = IF ~IsHoleAt(h, r) THEN h
                         ELSE remove_ordered_array(m, CHOOSE i \in 1..Len(h.index) : h.index[i] = r)
  <2> DEFINE right == c + h.header[c].size
             size == h.header[c].size + h.header[right].size
             merged == PutFooter(PutHeader(h, c, size, TRUE), c, size)
  <2>1. UnifyRight(h, c) = IF ~IsHoleAt(h, right) THEN h
                           ELSE remove_ordered_array(merged, CHOOSE i \in 1..Len(h.index) : h.index[i] = right)
    BY Zenon DEF UnifyRight
  <2>2. right = r
    BY <1>1, Zenon
  <2> HIDE DEF right
  <2>3. size = w
    BY <1>2, <2>2, Zenon
  <2> HIDE DEF size
  <2>4. merged = m
    BY <1>4, <2>3, Zenon
  <2> HIDE DEF merged
  <2> QED
    BY <2>1, <2>2, <2>4, Zenon
<1>6. PICK n : n = UnifyRight(h, c)
  OBVIOUS
<1>7. CASE r \in H
  <2>1. Shape(m, B, H \ {r}) /\ Joined(h, m, c, r) /\ c # r
    BY <1>1, <1>2, <1>4, <1>7, ShapeJoin, Zenon
  <2>2. PICK k : k = CHOOSE i \in 1..Len(h.index) : h.index[i] = r
    OBVIOUS
  <2>3. k \in 1..Len(h.index) /\ h.index[k] = r
    <3>1. \E i \in 1..Len(h.index) : h.index[i] = r
      BY <1>1, <1>7, Zenon DEF Once
    <3> QED
      BY <2>2, <3>1, Zenon
  <2>4. m.index = h.index /\ m \in HeapStates
    BY <2>1, Zenon DEF Joined, Shape
  <2>5. n = remove_ordered_array(m, k)
    BY <1>3, <1>5, <1>6, <1>7, <2>2, Zenon
  <2>6. Listing(m, n, L \ {r})
    BY <2>3, <2>4, <2>5, RemovedFromIndex, Zenon
  <2>7. Shape(n, B, H \ {r})
    BY <2>1, <2>6, ShapeListing, Zenon
  <2>8. n.header = m.header /\ Once(n.index, L \ {r})
    BY <2>6, Zenon DEF Listing
  <2>9. Unified(h, n, B, H, L, c)
    BY <1>1, <1>7, <2>1, <2>7, <2>8, Zenon DEF Unified, Joined
  <2> QED
    BY <1>6, <2>9, Zenon
<1>8. CASE r \notin H
  <2>1. n = h
    BY <1>3, <1>5, <1>6, <1>8, Zenon
  <2> QED
    BY <1>1, <1>6, <1>8, <2>1, Zenon DEF Unified
<1> QED
  BY <1>7, <1>8, Zenon

\* What holds of the heap whose blocks are B: the index lists the holes H, and
\* holes are never next to each other.
HeapRight(h, B, H) ==
  /\ Shape(h, B, H)
  /\ Once(h.index, H)
  /\ \A x, y \in H : x + h.header[x].size # y

\* A block's header becomes that of a hole.
LEMMA BlockToHole ==
  ASSUME NEW h, NEW B, NEW H, Shape(h, B, H), NEW a \in B, NEW size, size = h.header[a].size
  PROVE  /\ Shape(PutHeader(h, a, size, TRUE), B \ {a}, H \cup {a})
         /\ HeaderPut(h, PutHeader(h, a, size, TRUE), a, size, TRUE)
<1>1. PICK n : n = PutHeader(h, a, size, TRUE)
  OBVIOUS
<1>2. h \in HeapStates /\ B \cap H = {} /\ a \in Addresses /\ size \in Int
  <2>1. PartIs(h, a, B \cup H)
    BY PartOf, Zenon
  <2> QED
    BY <2>1, Zenon DEF PartIs, Shape
<1>3. HeaderPut(h, n, a, size, TRUE)
  <2>1. TRUE \in BOOLEAN
    OBVIOUS
  <2> QED
    BY <1>1, <1>2, <2>1, PutHeaderIs, Zenon
<1>4. /\ n \in HeapStates /\ n.footer = h.footer
      /\ n.header[a] \in Headers /\ n.header[a].size = size /\ n.header[a].is_hole = TRUE
      /\ \A x \in Addresses : x # a => n.header[x] = h.header[x]
  BY <1>3, Zenon DEF HeaderPut
<1>5. (B \ {a}) \cup (H \cup {a}) = B \cup H /\ (B \ {a}) \cap (H \cup {a}) = {}
  BY <1>2
<1>6. \A x \in Addresses : n.header[x].size = h.header[x].size
  <2> TAKE x \in Addresses
  <2>1. CASE x = a
    BY <1>4, <2>1, Zenon
  <2>2. CASE x # a
    BY <1>4, <2>2, Zenon
  <2> QED
    BY <2>1, <2>2, Zenon
<1>7. Sizes(n) = Sizes(h)
  BY <1>6, Zenon DEF Sizes
<1>8. ASSUME NEW b \in B \cup H PROVE PartRight(n, b, H \cup {a})
  <2>0. b \in Addresses
    <3>1. PartIs(h, b, B \cup H)
      BY <1>8, PartOf
    <3> QED
      BY <3>1, Zenon DEF PartIs
  <2>1. PartRight(h, b, H)
    BY <1>8, Zenon DEF Shape
  <2>2. CASE b = a
    <3>1. a \notin H /\ a \in H \cup {a}
      BY <1>2
    <3>2. h.footer[a + h.header[a].size - FooterSize] = a
      BY <2>1, <2>2, <3>1, Zenon DEF PartRight
    <3>3. n.footer[a + n.header[a].size - FooterSize] = a
      BY <1>4, <3>2, Zenon
    <3> QED
      BY <1>4, <2>2, <3>1, <3>3, Zenon DEF PartRight
  <2>3. CASE b # a
    <3>1. n.header[b] = h.header[b] /\ (b \in H \cup {a} <=> b \in H)
      BY <1>4, <2>0, <2>3
    <3> QED
      BY <1>4, <2>1, <3>1, Zenon DEF PartRight
  <2> QED
    BY <2>2, <2>3, Zenon
<1>9. Shape(n, B \ {a}, H \cup {a})
  <2>1. Layout(B \cup H, Sizes(h))
    BY Zenon DEF Shape
  <2> QED
    BY <1>4, <1>5, <1>7, <1>8, <2>1, Zenon DEF Shape
<1> QED
  BY <1>1, <1>3, <1>9, Zenon

\* a was released.
Released(h, n, B, a, G) ==
  /\ HeapRight(n, B \ {a}, G)
  /\ \A b \in B : b # a => n.header[b] = h.header[b]

\* The block becomes part of the hole on its left.
LEMMA FreeLeft ==
  ASSUME NEW h, NEW B, NEW H, HeapRight(h, B, H), NEW a \in B, NEW l \in H, l + h.header[l].size = a,
         NEW g, g = PutHeader(h, a, h.header[a].size, TRUE),
         NEW w, w = h.header[l].size + h.header[a].size,
         NEW n, n = UnifyRight(PutFooter(PutHeader(g, l, w, TRUE), l, w), l)
  PROVE  \E G : Released(h, n, B, a, G)
<1>1. Shape(h, B, H) /\ Once(h.index, H) /\ \A x, y \in H : x + h.header[x].size # y
  BY Zenon DEF HeapRight
<1>2. Shape(g, B \ {a}, H \cup {a}) /\ HeaderPut(h, g, a, h.header[a].size, TRUE)
  BY <1>1, BlockToHole, Zenon
<1>3. /\ B \cap H = {} /\ a \notin H /\ l # a /\ B \subseteq Addresses /\ H \subseteq Addresses
      /\ l \in Addresses /\ a \in Addresses
  <2>1. B \cap H = {}
    BY <1>1, Zenon DEF Shape
  <2>2. B \subseteq Addresses /\ H \subseteq Addresses
    BY <1>1, ShapeIs, Zenon
  <2> QED
    BY <2>1, <2>2
<1>4. /\ g.index = h.index /\ g.header[a].size = h.header[a].size
      /\ \A x \in Addresses : x # a => g.header[x] = h.header[x]
  BY <1>2, Zenon DEF HeaderPut
<1>5. g.header[l] = h.header[l]
  BY <1>3, <1>4, Zenon
<1>6. PICK m : m = PutFooter(PutHeader(g, l, w, TRUE), l, w)
  OBVIOUS
<1>7. Shape(m, B \ {a}, (H \cup {a}) \ {a}) /\ Joined(g, m, l, a)
  <2>1. l \in H \cup {a} /\ a \in H \cup {a}
    OBVIOUS
  <2>2. l + g.header[l].size = a /\ w = g.header[l].size + g.header[a].size
    BY <1>4, <1>5, Zenon
  <2> QED
    BY <1>2, <1>6, <2>1, <2>2, ShapeJoin, Zenon
<1>8. Shape(m, B \ {a}, H)
  <2>1. (H \cup {a}) \ {a} = H
    BY <1>3
  <2> QED
    BY <1>7, <2>1, Zenon
<1>9. /\ m.index = h.index /\ m.header[l].size = w
      /\ \A x \in Addresses : x # a /\ x # l => m.header[x] = h.header[x]
  BY <1>4, <1>5, <1>7, Zenon DEF Joined
<1>10. PICK r : r = l + w
  OBVIOUS
<1>11. Unified(m, n, B \ {a}, H, H, l)
  <2>1. Once(m.index, H)
    BY <1>1, <1>9, Zenon
  <2>2. l + m.header[l].size \in H => l + m.header[l].size \in H
    OBVIOUS
  <2> QED
    BY <1>3, <1>6, <1>8, <2>1, <2>2, UnifyRightIs, Zenon
<1>12. l + m.header[l].size = r
  BY <1>9, <1>10, Zenon
<1>13. CASE r \in H
  <2>1. /\ Shape(n, B \ {a}, H \ {r}) /\ Once(n.index, H \ {r}) /\ l # r
        /\ n.header[l].size = w + m.header[r].size
        /\ \A x \in Addresses : x # l => n.header[x] = m.header[x]
    BY <1>9, <1>11, <1>12, <1>13, Zenon DEF Unified
  <2>2. r \in Addresses /\ r # a
    BY <1>3, <1>13
  <2>3. m.header[r] = h.header[r]
    BY <1>9, <2>1, <2>2, Zenon
  <2>4. n.header[l].size = w + h.header[r].size
    BY <2>1, <2>3, Zenon
  <2>5. l + n.header[l].size = r + h.header[r].size
    <3>1. PartIs(h, l, B \cup H) /\ PartIs(h, a, B \cup H) /\ PartIs(h, r, B \cup H)
      BY <1>1, <1>13, PartOf, Zenon
    <3>2. l \in Int /\ h.header[l].size \in Int /\ h.header[a].size \in Int /\ h.header[r].size \in Int
      BY <3>1, Zenon DEF PartIs
    <3>3. PICK sl, sa, sr : sl = h.header[l].size /\ sa = h.header[a].size /\ sr = h.header[r].size
      OBVIOUS
    <3>4. l + (w + sr) = r + sr
      <4>1. w = sl + sa /\ sl \in Int /\ sa \in Int /\ sr \in Int /\ l \in Int
        BY <3>2, <3>3, Zenon
      <4> QED
        BY ONLY <1>10, <4>1
    <3> QED
      BY <2>4, <3>3, <3>4, Zenon
  <2>6. ASSUME NEW x \in H, NEW y \in H PROVE x + n.header[x].size # y
    <3>1. CASE x = l
      <4>1. r + h.header[r].size # y
        BY <1>1, <1>13, Zenon
      <4> QED
        BY <2>5, <3>1, <4>1, Zenon
    <3>2. CASE x # l
      <4>1. x \in Addresses /\ x # a
        BY <1>3
      <4>2. n.header[x] = h.header[x]
        BY <1>9, <2>1, <3>2, <4>1, Zenon
      <4> QED
        BY <1>1, <4>2, Zenon
    <3> QED
      BY <3>1, <3>2, Zenon
  <2>7. \A b \in B : b # a => n.header[b] = h.header[b]
    <3> TAKE b \in B
    <3> HAVE b # a
    <3>1. b \in Addresses /\ b # l
      BY <1>3
    <3> QED
      BY <1>9, <2>1, <3>1, Zenon
  <2>8. \A x, y \in H \ {r} : x + n.header[x].size # y
    BY <2>6
  <2> QED
    BY <2>1, <2>7, <2>8, Zenon DEF Released, HeapRight
<1>14. CASE r \notin H
  <2>1. n = m
    BY <1>11, <1>12, <1>14, Zenon DEF Unified
  <2>2. ASSUME NEW x \in H, NEW y \in H PROVE x + n.header[x].size # y
    <3>1. CASE x = l
      BY <1>12, <1>14, <2>1, <3>1, Zenon
    <3>2. CASE x # l
      <4>1. x \in Addresses /\ x # a
        BY <1>3
      <4>2. n.header[x] = h.header[x]
        BY <1>9, <2>1, <3>2, <4>1, Zenon
      <4> QED
        BY <1>1, <4>2, Zenon
    <3> QED
      BY <3>1, <3>2, Zenon
  <2>3. \A b \in B : b # a => n.header[b] = h.header[b]
    <3> TAKE b \in B
    <3> HAVE b # a
    <3>1. b \in Addresses /\ b # l
      BY <1>3
    <3> QED
      BY <1>9, <2>1, <3>1, Zenon
  <2>4. Shape(n, B \ {a}, H) /\ Once(n.index, H)
    BY <1>1, <1>8, <1>9, <2>1, Zenon
  <2> QED
    BY <2>2, <2>3, <2>4, Zenon DEF Released, HeapRight
<1> QED
  BY <1>13, <1>14, Zenon

\* The block becomes a hole of its own.
LEMMA FreeAlone ==
  ASSUME NEW h, NEW B, NEW H, HeapRight(h, B, H), NEW a \in B,
         \A l \in H : l + h.header[l].size # a,
         NEW g, g = PutHeader(h, a, h.header[a].size, TRUE),
         NEW n, n = insert_ordered_array(UnifyRight(g, a), a)
  PROVE  \E G : Released(h, n, B, a, G)
<1>1. Shape(h, B, H) /\ Once(h.index, H) /\ \A x, y \in H : x + h.header[x].size # y
  BY Zenon DEF HeapRight
<1>2. Shape(g, B \ {a}, H \cup {a}) /\ HeaderPut(h, g, a, h.header[a].size, TRUE)
  BY <1>1, BlockToHole, Zenon
<1>3. /\ B \cap H = {} /\ a \notin H /\ B \subseteq Addresses /\ H \subseteq Addresses
      /\ a \in Addresses
  <2>1. B \cap H = {}
    BY <1>1, Zenon DEF Shape
  <2>2. B \subseteq Addresses /\ H \subseteq Addresses
    BY <1>1, ShapeIs, Zenon
  <2> QED
    BY <2>1, <2>2
<1>4. /\ g.index = h.index /\ g.header[a].size = h.header[a].size
      /\ \A x \in Addresses : x # a => g.header[x] = h.header[x]
  BY <1>2, Zenon DEF HeaderPut
<1>5. PICK r : r = a + h.header[a].size
  OBVIOUS
<1>6. PICK u : u = UnifyRight(g, a)
  OBVIOUS
<1>7. r # a
  <2>1. PartIs(h, a, B \cup H)
    BY <1>1, PartOf, Zenon
  <2>2. a \in Int /\ h.header[a].size \in Int /\ h.header[a].size >= Overhead
    BY <2>1, Zenon DEF PartIs
  <2>3. PICK s : s = h.header[a].size
    OBVIOUS
  <2> QED
    BY <1>5, <2>2, <2>3, OverheadIs
<1>8. a + g.header[a].size = r
  BY <1>4, <1>5, Zenon
<1>9. Unified(g, u, B \ {a}, H \cup {a}, H, a)
  <2>1. r \in H \cup {a} => r \in H
    BY <1>7
  <2>2. a \in H \cup {a}
    OBVIOUS
  <2> QED
    BY <1>1, <1>2, <1>3, <1>4, <1>6, <1>8, <2>1, <2>2, UnifyRightIs, Zenon
<1>10. CASE r \in H
  <2>1. /\ Shape(u, B \ {a}, (H \cup {a}) \ {r}) /\ Once(u.index, H \ {r})
        /\ u.header[a].size = g.header[a].size + g.header[r].size
        /\ \A x \in Addresses : x # a => u.header[x] = g.header[x]
    <3>1. r \in H \cup {a}
      BY <1>10
    <3> QED
      BY <1>8, <1>9, <3>1, Zenon DEF Unified
  <2>2. PICK G : G = (H \cup {a}) \ {r}
    OBVIOUS
  <2>3. Listing(u, n, (H \ {r}) \cup {a})
    <3>1. u \in HeapStates
      BY <2>1, Zenon DEF Shape
    <3>2. H \ {r} \subseteq Addresses /\ a \notin H \ {r}
      BY <1>3
    <3> QED
      BY <1>3, <1>6, <2>1, <3>1, <3>2, InsertedInIndex, Zenon
  <2>4. (H \ {r}) \cup {a} = G
    BY <1>7, <2>2
  <2>5. Shape(n, B \ {a}, G) /\ Once(n.index, G) /\ n.header = u.header
    BY <2>1, <2>2, <2>3, <2>4, ShapeListing, Zenon DEF Listing
  <2>6. \A x \in Addresses : x # a => n.header[x] = h.header[x]
    BY <1>4, <2>1, <2>5, Zenon
  <2>7. a + n.header[a].size = r + h.header[r].size
    <3>1. PartIs(h, a, B \cup H) /\ PartIs(h, r, B \cup H)
      BY <1>1, <1>10, PartOf, Zenon
    <3>2. PICK sa, sr : sa = h.header[a].size /\ sr = h.header[r].size
      OBVIOUS
    <3>3. r \in Addresses
      BY <1>3, <1>10
    <3>4. n.header[a].size = sa + sr
      BY <1>4, <1>7, <2>1, <2>5, <3>2, <3>3, Zenon
    <3>5. sa \in Int /\ sr \in Int /\ a \in Int /\ r = a + sa
      BY <1>5, <3>1, <3>2, Zenon DEF PartIs
    <3>6. a + (sa + sr) = r + sr
      BY ONLY <3>5
    <3> QED
      BY <3>2, <3>4, <3>6, Zenon
  <2>8. ASSUME NEW x \in G, NEW y \in G PROVE x + n.header[x].size # y
    <3>1. (x \in H \/ x = a) /\ (y \in H \/ y = a)
      BY <2>2
    <3>2. CASE x = a
      <4>1. r + h.header[r].size # y
        BY <1>1, <1>10, <3>1, Zenon
      <4> QED
        BY <2>7, <3>2, <4>1, Zenon
    <3>3. CASE x # a
      <4>1. x \in H /\ x \in Addresses
        BY <1>3, <3>1, <3>3
      <4>2. n.header[x] = h.header[x]
        BY <2>6, <3>3, <4>1, Zenon
      <4>3. x + h.header[x].size # y
        BY <1>1, <3>1, <4>1, Zenon
      <4> QED
        BY <4>2, <4>3, Zenon
    <3> QED
      BY <3>2, <3>3, Zenon
  <2>9. \A b \in B : b # a => n.header[b] = h.header[b]
    <3> TAKE b \in B
    <3>1. b \in Addresses
      BY <1>3
    <3> QED
      BY <2>6, <3>1, Zenon
  <2> QED
    BY <2>5, <2>8, <2>9, Zenon DEF Released, HeapRight
<1>11. CASE r \notin H
  <2>1. u = g
    <3>1. r \notin H \cup {a}
      BY <1>7, <1>11
    <3> QED
      BY <1>8, <1>9, <3>1, Zenon DEF Unified
  <2>2. PICK G : G = H \cup {a}
    OBVIOUS
  <2>3. Listing(u, n, H \cup {a})
    <3>1. u \in HeapStates /\ Once(u.index, H)
      BY <1>1, <1>2, <1>4, <2>1, Zenon DEF Shape
    <3> QED
      BY <1>3, <1>6, <3>1, InsertedInIndex, Zenon
  <2>5. Shape(n, B \ {a}, G) /\ Once(n.index, G) /\ n.header = u.header
    BY <1>2, <2>1, <2>2, <2>3, ShapeListing, Zenon DEF Listing
  <2>6. \A x \in Addresses : x # a => n.header[x] = h.header[x]
    BY <1>4, <2>1, <2>5, Zenon
  <2>7. a + n.header[a].size = r
    BY <1>8, <2>1, <2>5, Zenon
  <2>8. ASSUME NEW x \in G, NEW y \in G PROVE x + n.header[x].size # y
    <3>1. (x \in H \/ x = a) /\ (y \in H \/ y = a)
      BY <2>2
    <3>2. CASE x = a
      BY <1>7, <1>11, <2>7, <3>1, <3>2, Zenon
    <3>3. CASE x # a
      <4>1. x \in H /\ x \in Addresses
        BY <1>3, <3>1, <3>3
      <4>2. n.header[x] = h.header[x]
        BY <2>6, <3>3, <4>1, Zenon
      <4>3. x + h.header[x].size # y
        BY <1>1, <3>1, <4>1, Zenon
      <4> QED
        BY <4>2, <4>3, Zenon
    <3> QED
      BY <3>2, <3>3, Zenon
  <2>9. \A b \in B : b # a => n.header[b] = h.header[b]
    <3> TAKE b \in B
    <3>1. b \in Addresses
      BY <1>3
    <3> QED
      BY <2>6, <3>1, Zenon
  <2> QED
    BY <2>5, <2>8, <2>9, Zenon DEF Released, HeapRight
<1> QED
  BY <1>10, <1>11, Zenon

\* hfree gives the block back, whatever is on its left and on its right.
LEMMA FreeRight ==
  ASSUME NEW h, NEW B, NEW H, HeapRight(h, B, H), NEW a \in B
  PROVE  \E G : Released(h, hfree(h, a), B, a, G)
<1>1. PICK left : left = FooterAt(h, a - FooterSize)
  OBVIOUS
<1>2. Shape(h, B, H)
  BY Zenon DEF HeapRight
<1>3. /\ (left # NoMagic /\ IsHoleAt(h, left)) => (left \in H /\ left + h.header[left].size = a)
      /\ (\E l \in H : l + h.header[l].size = a) => (left # NoMagic /\ IsHoleAt(h, left))
  <2>1. a \in B \cup H
    OBVIOUS
  <2>2. LeftIs(h, H, a, left)
    BY <1>1, <1>2, <2>1, LeftHole, Zenon
  <2> QED
    BY <2>2, Zenon DEF LeftIs
<1>4. PICK g : g = PutHeader(h, a, h.header[a].size, TRUE)
  OBVIOUS
<1>5. PICK w : w = h.header[left].size + h.header[a].size
  OBVIOUS
<1>6. PICK n : n = hfree(h, a)
  OBVIOUS
<1>7. n = IF left # NoMagic /\ IsHoleAt(h, left)
            THEN UnifyRight(PutFooter(PutHeader(g, left, w, TRUE), left, w), left)
            ELSE insert_ordered_array(UnifyRight(g, a), a)
  <2> DEFINE size == h.header[a].size
             lf == FooterAt(h, a - FooterSize)
             hole == PutHeader(h, a, size, TRUE)
             whole == h.header[lf].size + size
  <2>1. n = IF lf # NoMagic /\ IsHoleAt(h, lf)
              THEN UnifyRight(PutFooter(PutHeader(hole, lf, whole, TRUE), lf, whole), lf)
              ELSE insert_ordered_array(UnifyRight(hole, a), a)
    BY <1>6, Zenon DEF hfree
  <2>2. lf = left /\ hole = g
    BY <1>1, <1>4, Zenon
  <2> HIDE DEF lf, hole
  <2>3. whole = w
    BY <1>5, <2>2, Zenon
  <2> HIDE DEF whole
  <2> QED
    BY <2>1, <2>2, <2>3, Zenon
<1>8. CASE left # NoMagic /\ IsHoleAt(h, left)
  <2>1. left \in H /\ left + h.header[left].size = a
    BY <1>3, <1>8, Zenon
  <2>2. n = UnifyRight(PutFooter(PutHeader(g, left, w, TRUE), left, w), left)
    BY <1>7, <1>8, Zenon
  <2> QED
    BY <1>4, <1>5, <1>6, <2>1, <2>2, FreeLeft, Zenon
<1>9. CASE ~(left # NoMagic /\ IsHoleAt(h, left))
  <2>1. \A l \in H : l + h.header[l].size # a
    BY <1>3, <1>9, Zenon
  <2>2. n = insert_ordered_array(UnifyRight(g, a), a)
    BY <1>7, <1>9, Zenon
  <2> QED
    BY <1>4, <1>6, <2>1, <2>2, FreeAlone, Zenon
<1> QED
  BY <1>8, <1>9, Zenon

\* n is h outside of the memory from lo to hi.
Outside(h, n, lo, hi) ==
  \A x \in Addresses : (x < lo \/ x >= hi) => (n.header[x] = h.header[x] /\ n.footer[x] = h.footer[x])

\* n has the part at a, of the size k, that is a hole or a block, and is h
\* outside of it.
PartPut(h, n, a, k, is_hole) ==
  /\ n \in HeapStates /\ n.index = h.index
  /\ n.header[a] \in Headers /\ n.header[a].size = k /\ n.header[a].is_hole = is_hole
  /\ n.footer[a + k - FooterSize] = a
  /\ Outside(h, n, a, a + k)

\* A header and a footer around the part.
LEMMA PutPart ==
  ASSUME NEW h \in HeapStates, NEW a \in Addresses, NEW k \in Int, k >= Overhead, a + k <= HeapSize,
         NEW is_hole \in BOOLEAN
  PROVE  PartPut(h, PutFooter(PutHeader(h, a, k, is_hole), a, k), a, k, is_hole)
<1>1. PICK m : m = PutHeader(h, a, k, is_hole)
  OBVIOUS
<1>2. PICK n : n = PutFooter(m, a, k)
  OBVIOUS
<1>3. PICK f \in Addresses : f = a + k - FooterSize
  BY OverheadIs DEF Addresses
<1>4. HeaderPut(h, m, a, k, is_hole)
  BY <1>1, PutHeaderIs, Zenon
<1>5. FooterPut(m, n, f, a)
  <2>1. m \in HeapStates
    BY <1>4, Zenon DEF HeaderPut
  <2> QED
    BY <1>2, <1>3, <2>1, PutFooterIs, Zenon
<1>6. ASSUME NEW x \in Addresses, x < a \/ x >= a + k
      PROVE  n.header[x] = h.header[x] /\ n.footer[x] = h.footer[x]
  <2>1. x # a /\ x # f
    BY <1>3, <1>6, OverheadIs DEF Addresses
  <2> QED
    BY <1>4, <1>5, <2>1, Zenon DEF HeaderPut, FooterPut
<1>7. Outside(h, n, a, a + k)
  BY <1>6, Zenon DEF Outside
<1>8. PartPut(h, n, a, k, is_hole)
  BY <1>3, <1>4, <1>5, <1>7, Zenon DEF PartPut, HeaderPut, FooterPut
<1> QED
  BY <1>1, <1>2, <1>8, Zenon

\* The memory that is handed out, with its header and its footer.
LEMMA PutBlock ==
  ASSUME NEW h \in HeapStates, NEW a \in Addresses, NEW k \in Int, k >= Overhead, a + k <= HeapSize
  PROVE  PartPut(h, PutFooter(PutHeader(Overwritten(h, a, k), a, k, FALSE), a, k), a, k, FALSE)
<1>1. PICK t : t = Overwritten(h, a, k)
  OBVIOUS
<1>2. Erased(h, t, a, k)
  BY <1>1, OverwrittenIs, Zenon
<1>3. PICK n : n = PutFooter(PutHeader(t, a, k, FALSE), a, k)
  OBVIOUS
<1>4. PartPut(t, n, a, k, FALSE)
  <2>1. FALSE \in BOOLEAN /\ t \in HeapStates
    BY <1>2, Zenon DEF Erased
  <2> QED
    BY <1>3, <2>1, PutPart, Zenon
<1>5. ASSUME NEW x \in Addresses, x < a \/ x >= a + k
      PROVE  n.header[x] = h.header[x] /\ n.footer[x] = h.footer[x]
  <2>1. ~(a < x /\ x < a + k) /\ ~(a <= x /\ x < a + k)
    BY <1>5, OverheadIs DEF Addresses
  <2>2. t.header[x] = h.header[x] /\ t.footer[x] = h.footer[x]
    BY <1>2, <2>1, Zenon DEF Erased
  <2>3. n.header[x] = t.header[x] /\ n.footer[x] = t.footer[x]
    BY <1>4, <1>5, Zenon DEF PartPut, Outside
  <2> QED
    BY <2>2, <2>3, Zenon
<1>6. Outside(h, n, a, a + k)
  BY <1>5, Zenon DEF Outside
<1>7. PartPut(h, n, a, k, FALSE)
  BY <1>2, <1>4, <1>6, Zenon DEF PartPut, Erased
<1> QED
  BY <1>1, <1>3, <1>7, Zenon

\* The part at b is as it was, and is right among the holes G.
OtherIs(h, n, b, G) == PartRight(n, b, G) /\ n.header[b] = h.header[b]

\* A change inside one part leaves the others as they are.
LEMMA OtherPart ==
  ASSUME NEW h, NEW B, NEW H, Shape(h, B, H), NEW a, a \in B \/ a \in H,
         NEW n, Outside(h, n, a, a + h.header[a].size),
         NEW b, b \in B \/ b \in H, b # a, NEW G, b \in G <=> b \in H
  PROVE  OtherIs(h, n, b, G)
<1>1. PICK sa, sb : sa = h.header[a].size /\ sb = h.header[b].size
  OBVIOUS
<1>2. PartIs(h, a, B \cup H) /\ PartIs(h, b, B \cup H)
  BY PartOf, Zenon
<1>3. /\ a \in Int /\ a >= 0 /\ sa \in Int /\ sa >= Overhead /\ Sizes(h)[a] = sa
      /\ b \in Int /\ b >= 0 /\ sb \in Int /\ sb >= Overhead /\ Sizes(h)[b] = sb
      /\ a + sa <= HeapSize /\ b + sb <= HeapSize /\ b \in Addresses
  BY <1>1, <1>2, Zenon DEF PartIs
<1>4. b + sb <= a \/ b >= a + sa
  <2>1. PICK S, d : S = B \cup H /\ d = Sizes(h)
    OBVIOUS
  <2>2. a \in S /\ b \in S /\ Layout(S, d) /\ d[a] = sa /\ d[b] = sb
    BY <1>3, <2>1 DEF Shape
  <2>3. (a < b => a + sa <= b) /\ (b < a => b + sb <= a)
    BY <2>2, Zenon DEF Layout
  <2> QED
    BY ONLY <1>3, <2>3, b # a
<1>5. PICK f \in Addresses : f = b + sb - FooterSize
  BY <1>3, OverheadIs DEF Addresses
<1>6. (b < a \/ b >= a + sa) /\ (f < a \/ f >= a + sa)
  BY ONLY <1>3, <1>4, <1>5, OverheadIs
<1>7. n.header[b] = h.header[b] /\ n.footer[f] = h.footer[f]
  BY <1>1, <1>3, <1>6, Zenon DEF Outside
<1>8. PartRight(h, b, H)
  <2>1. b \in B \cup H
    OBVIOUS
  <2> QED
    BY <2>1, Zenon DEF Shape
<1>9. PartRight(n, b, G)
  BY <1>1, <1>5, <1>7, <1>8, Zenon DEF PartRight
<1> QED
  BY <1>7, <1>9, Zenon DEF OtherIs

\* A hole of h becomes the block at a of n, or its beginning does, and the blocks
\* that are held are not touched.
Allocated(h, n, B, a, size, G) ==
  /\ HeapRight(n, B \cup {a}, G) /\ a \notin B
  /\ n.header[a].size >= size + Overhead
  /\ \A b \in B : n.header[b] = h.header[b]

\* The whole hole is handed out.
LEMMA AllocWhole ==
  ASSUME NEW h, NEW B, NEW H, HeapRight(h, B, H), NEW a \in H, NEW k, k = h.header[a].size,
         NEW r, Listing(h, r, H \ {a}), NEW n, PartPut(r, n, a, k, FALSE), NEW size, k >= size + Overhead
  PROVE  Allocated(h, n, B, a, size, H \ {a})
<1>1. Shape(h, B, H) /\ Once(h.index, H) /\ \A x, y \in H : x + h.header[x].size # y
  BY Zenon DEF HeapRight
<1>2. /\ n \in HeapStates /\ n.header[a] \in Headers /\ n.header[a].size = k /\ n.header[a].is_hole = FALSE
      /\ n.footer[a + k - FooterSize] = a /\ Outside(h, n, a, a + k) /\ Once(n.index, H \ {a})
  BY Zenon DEF PartPut, Listing, Outside
<1>3. PICK C, G : C = B \cup {a} /\ G = H \ {a}
  OBVIOUS
<1>4. C \cup G = B \cup H /\ C \cap G = {} /\ a \notin G /\ a \notin B
  BY <1>1, <1>3 DEF Shape
<1>5. ASSUME NEW b \in B \cup H, b # a PROVE PartRight(n, b, G) /\ n.header[b] = h.header[b]
  <2>1. (b \in B \/ b \in H) /\ (b \in G <=> b \in H)
    BY <1>3, <1>5
  <2> QED
    <3>1. Outside(h, n, a, a + h.header[a].size) /\ (a \in B \/ a \in H)
      BY <1>2, Zenon
    <3>2. OtherIs(h, n, b, G)
      BY <1>1, <1>5, <2>1, <3>1, OtherPart, Zenon
    <3> QED
      BY <3>2, Zenon DEF OtherIs
<1>6. PartRight(n, a, G)
  BY <1>2, <1>4, Zenon DEF PartRight
<1>7. Shape(n, C, G)
  <2>1. PICK S, d : S = B \cup H /\ d = Sizes(h)
    OBVIOUS
  <2>2. Layout(C \cup G, d)
    BY <1>1, <1>4, <2>1, Zenon DEF Shape
  <2>3. ASSUME NEW b \in C \cup G PROVE PartRight(n, b, G) /\ n.header[b].size = d[b]
    <3>0. b \in B \cup H
      BY <1>4, <2>3, Zenon
    <3>1. Sizes(h)[b] = h.header[b].size
      BY <1>1, <3>0, ShapeIs, Zenon
    <3>2. CASE b = a
      BY <1>2, <1>6, <2>1, <3>1, <3>2, Zenon
    <3>3. CASE b # a
      BY <1>5, <2>1, <3>0, <3>1, <3>3, Zenon
    <3> QED
      BY <3>2, <3>3, Zenon
  <2> QED
    BY <1>2, <1>4, <2>2, <2>3, ShapeFrom, Zenon
<1>8. \A b \in B : n.header[b] = h.header[b]
  <2> TAKE b \in B
  <2>1. b \in B \cup H /\ b # a
    BY <1>4
  <2> QED
    BY <1>5, <2>1, Zenon
<1>9. \A x, y \in G : x + n.header[x].size # y
  <2> TAKE x, y \in G
  <2>1. x \in H /\ y \in H /\ x # a /\ x \in B \cup H
    BY <1>3
  <2> QED
    BY <1>1, <1>5, <2>1, Zenon
<1> QED
  BY <1>2, <1>3, <1>4, <1>7, <1>8, <1>9, Zenon DEF Allocated, HeapRight

\* What is left of the hole is a hole.
LEMMA AllocBegin ==
  ASSUME NEW h, NEW B, NEW H, HeapRight(h, B, H), NEW a \in H,
         NEW k \in Int, k >= Overhead, h.header[a].size - k >= Overhead,
         NEW r, Listing(h, r, H \ {a}), NEW m, PartPut(r, m, a, k, FALSE),
         NEW rest, rest = a + k, NEW left, left = h.header[a].size - k,
         NEW p, PartPut(m, p, rest, left, TRUE), NEW n, n = insert_ordered_array(p, rest),
         NEW size, k >= size + Overhead
  PROVE  Allocated(h, n, B, a, size, (H \ {a}) \cup {rest})
<1>1. Shape(h, B, H) /\ Once(h.index, H) /\ \A x, y \in H : x + h.header[x].size # y
  BY Zenon DEF HeapRight
<1>2. PICK hs : hs = h.header[a].size
  OBVIOUS
<1>3. /\ a \in Int /\ a >= 0 /\ hs \in Int /\ Sizes(h)[a] = hs /\ a + hs <= HeapSize
      /\ a \in Addresses
  <2>1. PartIs(h, a, B \cup H)
    BY <1>1, PartOf, Zenon
  <2> QED
    BY <1>2, <2>1, Zenon DEF PartIs
<1>4. PICK C, G, L : C = B \cup {a} /\ G = (H \ {a}) \cup {rest} /\ L = H \ {a}
  OBVIOUS
<1>5. PICK S, d, e : S = B \cup H /\ d = Sizes(h) /\ e = Sizes(p)
  OBVIOUS
<1>6. S \subseteq Addresses /\ a \in S /\ B \cap H = {} /\ L \subseteq Addresses /\ Layout(S, d) /\ h \in HeapStates
  BY <1>1, <1>4, <1>5, ShapeIs DEF Shape
<1>7. /\ rest = a + k /\ left = hs - k /\ rest + left = a + hs /\ hs - k >= Overhead /\ d[a] = hs
      /\ rest \in Addresses /\ rest \in Int /\ left \in Int /\ left >= Overhead
  BY <1>2, <1>3, <1>5, OverheadIs DEF Addresses
<1>8. /\ r \in HeapStates /\ r.header = h.header /\ r.footer = h.footer /\ Once(r.index, L)
  BY <1>4, Zenon DEF Listing
<1>9. /\ m \in HeapStates /\ m.index = r.index
      /\ m.header[a] \in Headers /\ m.header[a].size = k /\ m.header[a].is_hole = FALSE
      /\ m.footer[a + k - FooterSize] = a
      /\ Outside(h, m, a, a + k)
  BY <1>8, Zenon DEF PartPut, Outside
<1>10. /\ p \in HeapStates /\ Once(p.index, L)
       /\ p.header[rest] \in Headers /\ p.header[rest].size = left /\ p.header[rest].is_hole = TRUE
       /\ p.footer[rest + left - FooterSize] = rest
       /\ Outside(m, p, rest, rest + left)
  BY <1>8, <1>9, Zenon DEF PartPut
<1>11. p.header[a] = m.header[a] /\ p.footer[a + k - FooterSize] = a
  <2>1. a < rest /\ a + k - FooterSize < rest /\ a + k - FooterSize \in Addresses
    BY <1>3, <1>7, OverheadIs DEF Addresses
  <2> QED
    BY <1>3, <1>9, <1>10, <2>1, Zenon DEF Outside
<1>12. Outside(h, p, a, a + hs)
  <2>1. SUFFICES ASSUME NEW x \in Addresses, x < a \/ x >= a + hs
                 PROVE  p.header[x] = h.header[x] /\ p.footer[x] = h.footer[x]
    BY Zenon DEF Outside
  <2>2. (x < a \/ x >= a + k) /\ (x < rest \/ x >= rest + left)
    BY <1>3, <1>7, <2>1, OverheadIs DEF Addresses
  <2> QED
    BY <1>9, <1>10, <2>2, Zenon DEF Outside
<1>13. /\ e[a] = k /\ e[rest] = left
       /\ \A b \in S \ {a} : p.header[b] = h.header[b] /\ e[b] = d[b] /\ (rest # b => PartRight(p, b, G))
  <2>1. \A x \in Addresses : e[x] = p.header[x].size /\ d[x] = h.header[x].size
    BY <1>5, Zenon DEF Sizes
  <2>2. ASSUME NEW b \in S \ {a}
        PROVE  p.header[b] = h.header[b] /\ e[b] = d[b] /\ (rest # b => PartRight(p, b, G))
    <3>1. (b \in B \/ b \in H) /\ b # a /\ b \in Addresses /\ (rest # b => (b \in G <=> b \in H))
      BY <1>4, <1>5, <1>6
    <3>2. p.header[b] = h.header[b] /\ (rest # b => PartRight(p, b, G))
      <4>1. Outside(h, p, a, a + h.header[a].size) /\ (a \in B \/ a \in H)
        BY <1>2, <1>12, Zenon
      <4>2. OtherIs(h, p, b, H) /\ (rest # b => OtherIs(h, p, b, G))
        <5>1. b \in H <=> b \in H
          OBVIOUS
        <5>2. OtherIs(h, p, b, H)
          BY <1>1, <3>1, <4>1, <5>1, OtherPart, Zenon
        <5>3. ASSUME rest # b PROVE OtherIs(h, p, b, G)
          BY <1>1, <3>1, <4>1, <5>3, OtherPart, Zenon
        <5> QED
          BY <5>2, <5>3, Zenon
      <4> QED
        BY <4>2, Zenon DEF OtherIs
    <3> QED
      BY <2>1, <3>1, <3>2, Zenon
  <2> QED
    BY <1>3, <1>7, <1>9, <1>10, <1>11, <2>1, <2>2, Zenon
<1>14. Layout(S \cup {rest}, e) /\ rest \notin S
  <2>1. k \in Int /\ k >= Overhead /\ d[a] - k >= Overhead /\ e[a + k] = d[a] - k
    BY <1>7, <1>13
  <2>2. Layout(S \cup {a + k}, e) /\ a + k \notin S
    <3>1. \A b \in S \ {a} : e[b] = d[b]
      BY <1>13, Zenon
    <3>2. Layout(S, d) /\ a \in S /\ e[a] = k
      BY <1>6, <1>13, Zenon
    <3> QED
      BY ONLY <2>1, <3>1, <3>2, LayoutSplit
  <2> QED
    BY <1>7, <2>2, Zenon
<1>15. /\ C \cup G = S \cup {rest} /\ C \cap G = {} /\ a \notin B /\ a \notin G /\ rest \in G /\ rest \notin L
       /\ rest # a
  BY <1>4, <1>5, <1>6, <1>14
<1>16. Shape(p, C, G)
  <2>1. ASSUME NEW b \in C \cup G PROVE PartRight(p, b, G) /\ p.header[b].size = e[b]
    <3>0. b \in S \cup {rest} /\ b \in Addresses
      BY <1>6, <1>7, <1>15, <2>1
    <3>1. p.header[b].size = e[b]
      BY <1>5, <3>0, Zenon DEF Sizes
    <3>2. CASE b = a
      <4>1. p.footer[a + p.header[a].size - FooterSize] = a
        BY <1>9, <1>11, Zenon
      <4>2. PartRight(p, a, G)
        BY <1>9, <1>11, <1>15, <4>1, Zenon DEF PartRight
      <4> QED
        BY <3>1, <3>2, <4>2, Zenon
    <3>3. CASE b = rest
      <4>1. PartRight(p, rest, G)
        BY <1>10, <1>15, Zenon DEF PartRight
      <4> QED
        BY <3>1, <3>3, <4>1, Zenon
    <3>4. CASE b # a /\ b # rest
      <4>1. b \in S \ {a} /\ rest # b
        BY <3>0, <3>4
      <4> QED
        BY <1>13, <3>1, <4>1, Zenon
    <3> QED
      BY <3>2, <3>3, <3>4, Zenon
  <2>2. Layout(C \cup G, e)
    BY <1>14, <1>15, Zenon
  <2> QED
    BY <1>10, <1>15, <2>1, <2>2, ShapeFrom, Zenon
<1>17. Listing(p, n, L \cup {rest})
  BY <1>6, <1>7, <1>10, <1>15, InsertedInIndex, Zenon
<1>18. Shape(n, C, G) /\ Once(n.index, G) /\ n.header = p.header
  BY <1>4, <1>16, <1>17, ShapeListing, Zenon DEF Listing
<1>19. \A b \in B : n.header[b] = h.header[b]
  <2> TAKE b \in B
  <2>1. b \in S \ {a}
    BY <1>5, <1>15
  <2> QED
    BY <1>13, <1>18, <2>1, Zenon
<1>20. ASSUME NEW x \in G, NEW y \in G, x + n.header[x].size = y PROVE FALSE
  <2>1. ((x \in H /\ x # a) \/ x = rest) /\ (y \in H \/ y = rest)
    BY <1>4
  <2>2. CASE x = rest
    <3>1. y = a + hs
      BY <1>7, <1>10, <1>18, <1>20, <2>2, Zenon
    <3>2. y # rest
      BY <1>7, <3>1, OverheadIs
    <3> QED
      BY <1>1, <1>2, <2>1, <3>1, <3>2, Zenon
  <2>3. CASE x # rest
    <3>1. x \in H /\ x # a /\ x \in S \ {a}
      BY <1>5, <2>1, <2>3
    <3>2. n.header[x] = h.header[x] /\ e[x] = d[x]
      BY <1>13, <1>18, <3>1, Zenon
    <3>3. CASE y = rest
      <4>1. x + e[x] = rest
        <5>1. x \in Addresses
          BY <1>6, <3>1
        <5>2. e[x] = p.header[x].size
          BY <1>5, <5>1, Zenon DEF Sizes
        <5> QED
          BY <1>18, <1>20, <3>3, <5>2, Zenon
      <4>2. x + e[x] = a + e[a] /\ x \in S \cup {rest} /\ a \in S \cup {rest}
        BY <1>6, <1>7, <1>13, <3>1, <4>1
      <4>3. x = a
        BY ONLY <1>14, <4>2, SameEnd
      <4> QED
        BY <3>1, <4>3, Zenon
    <3>4. CASE y # rest
      BY <1>1, <1>20, <2>1, <3>1, <3>2, <3>4, Zenon
    <3> QED
      BY <3>3, <3>4, Zenon
  <2> QED
    BY <2>2, <2>3, Zenon
<1>21. n.header[a].size >= size + Overhead
  BY <1>9, <1>11, <1>18, Zenon
<1> QED
  BY <1>4, <1>15, <1>18, <1>19, <1>20, <1>21, Zenon DEF Allocated, HeapRight

\* memory_alloc gives a new block, from the first hole that is large enough.
LEMMA AllocRight ==
  ASSUME NEW h, NEW B, NEW H, HeapRight(h, B, H), NEW size \in Nat,
         Fitting(h, size + Overhead) # {}
  PROVE  \E G : Allocated(h, memory_alloc(h, size), B, HoleFor(h, size), size, G)
<1>1. Shape(h, B, H) /\ Once(h.index, H) /\ h \in HeapStates
  BY Zenon DEF HeapRight, Shape
<1>2. PICK req \in Int : req = size + Overhead
  BY OverheadIs
<1>3. PICK i : i = find_smallest_hole(h, req)
  OBVIOUS
<1>4. i \in Fitting(h, req)
  <2>1. PICK P : P = Fitting(h, req)
    OBVIOUS
  <2>2. Len(h.index) \in Nat
    BY <1>1, HeapParts, LenProperties
  <2>3. P \in SUBSET Nat /\ P # {}
    BY <1>2, <2>1, <2>2 DEF Fitting
  <2>4. \E j \in P : \A k \in P : j <= k
    BY <2>3, LeastNumber
  <2> QED
    BY <1>3, <2>1, <2>4, Zenon DEF find_smallest_hole, Min
<1>5. PICK a : a = h.index[i]
  OBVIOUS
<1>6. PICK hs : hs = h.header[a].size
  OBVIOUS
<1>7. i \in 1..Len(h.index) /\ hs >= req
  BY <1>4, <1>5, <1>6, Zenon DEF Fitting
<1>8. a \in H
  <2>1. PICK q : q = h.index
    OBVIOUS
  <2>2. q \in Seq(H) /\ i \in 1..Len(q) /\ a = q[i]
    BY <1>1, <1>5, <1>7, <2>1, Zenon DEF Once
  <2> QED
    BY ONLY <2>2, ElementOfSeq
<1>9. /\ a \in Addresses /\ hs \in Int /\ a + hs <= HeapSize /\ a \in Int /\ H \subseteq Addresses
  <2>1. PartIs(h, a, B \cup H)
    BY <1>1, <1>8, PartOf, Zenon
  <2> QED
    BY <1>1, <1>6, <2>1, ShapeIs, Zenon DEF PartIs
<1>10. PICK k : k = BlockSize(hs, req)
  OBVIOUS
<1>11. /\ k \in Int /\ k >= Overhead /\ k >= size + Overhead /\ a + k <= HeapSize
       /\ k = hs \/ hs - k >= Overhead
  BY <1>2, <1>7, <1>9, <1>10, OverheadIs DEF BlockSize
<1>12. PICK r : r = remove_ordered_array(h, i)
  OBVIOUS
<1>13. Listing(h, r, H \ {a})
  BY <1>1, <1>5, <1>7, <1>9, <1>12, RemovedFromIndex, Zenon
<1>14. PICK m : m = PutFooter(PutHeader(Overwritten(r, a, k), a, k, FALSE), a, k)
  OBVIOUS
<1>15. PartPut(r, m, a, k, FALSE)
  <2>1. r \in HeapStates
    BY <1>13, Zenon DEF Listing
  <2> QED
    BY <1>9, <1>11, <1>14, <2>1, PutBlock, Zenon
<1>16. PICK rest : rest = a + k
  OBVIOUS
<1>17. PICK left : left = hs - k
  OBVIOUS
<1>18. PICK p : p = PutFooter(PutHeader(m, rest, left, TRUE), rest, left)
  OBVIOUS
<1>19. memory_alloc(h, size) = IF left = 0 THEN m ELSE insert_ordered_array(p, rest)
  <2> DEFINE d_i == find_smallest_hole(h, size + Overhead)
             d_a == h.index[d_i]
             d_hs == h.header[d_a].size
             d_k == BlockSize(d_hs, size + Overhead)
             d_t == Overwritten(remove_ordered_array(h, d_i), d_a, d_k)
             d_m == PutFooter(PutHeader(d_t, d_a, d_k, FALSE), d_a, d_k)
             d_rest == d_a + d_k
             d_left == d_hs - d_k
  <2>1. memory_alloc(h, size)
          = IF d_left = 0 THEN d_m
            ELSE insert_ordered_array(PutFooter(PutHeader(d_m, d_rest, d_left, TRUE), d_rest, d_left), d_rest)
    BY Zenon DEF memory_alloc
  <2>2. d_i = i
    BY <1>2, <1>3, Zenon
  <2> HIDE DEF d_i
  <2>3. d_a = a
    BY <1>5, <2>2, Zenon
  <2> HIDE DEF d_a
  <2>4. d_hs = hs
    BY <1>6, <2>3, Zenon
  <2> HIDE DEF d_hs
  <2>5. d_k = k
    BY <1>2, <1>10, <2>4, Zenon
  <2> HIDE DEF d_k
  <2>6. d_m = m
    BY <1>12, <1>14, <2>2, <2>3, <2>5, Zenon
  <2> HIDE DEF d_t, d_m
  <2>7. d_rest = rest /\ d_left = left
    BY <1>16, <1>17, <2>3, <2>4, <2>5, Zenon
  <2> HIDE DEF d_rest, d_left
  <2> QED
    BY <1>18, <2>1, <2>6, <2>7, Zenon
<1>20. HoleFor(h, size) = a
  BY <1>2, <1>3, <1>5, Zenon DEF HoleFor
<1>21. CASE k = hs
  <2>1. left = 0
    BY <1>9, <1>17, <1>21
  <2>2. Allocated(h, m, B, a, size, H \ {a})
    BY <1>6, <1>8, <1>11, <1>13, <1>15, <1>21, AllocWhole, Zenon
  <2> QED
    BY <1>19, <1>20, <2>1, <2>2, Zenon
<1>22. CASE hs - k >= Overhead
  <2>1. left # 0 /\ rest \in Addresses /\ left \in Int /\ left >= Overhead /\ rest + left <= HeapSize
    BY <1>9, <1>11, <1>16, <1>17, <1>22, OverheadIs DEF Addresses
  <2>2. PartPut(m, p, rest, left, TRUE)
    <3>1. m \in HeapStates /\ TRUE \in BOOLEAN
      BY <1>15, Zenon DEF PartPut
    <3> QED
      BY <1>18, <2>1, <3>1, PutPart, Zenon
  <2>3. PICK n : n = insert_ordered_array(p, rest)
    OBVIOUS
  <2>4. Allocated(h, n, B, a, size, (H \ {a}) \cup {rest})
    BY <1>6, <1>8, <1>11, <1>13, <1>15, <1>16, <1>17, <1>22, <2>2, <2>3, AllocBegin, Zenon
  <2> QED
    BY <1>19, <1>20, <2>1, <2>3, <2>4, Zenon
<1> QED
  BY <1>11, <1>21, <1>22, Zenon

-----------------------------------------------------------------------------
\* The heap is right, its blocks are those that callers hold, and each is as
\* large as was asked for.
HeapInv ==
  /\ owned \in [DOMAIN owned -> Nat]
  /\ HeapRight(Heap, DOMAIN owned, Holes)
  /\ \A a \in DOMAIN owned : header[a].size >= owned[a] + Overhead

\* The holes are those that the index lists.
LEMMA HolesListed ==
  ASSUME NEW q, NEW H, Once(q, H)
  PROVE  H = {q[i] : i \in 1..Len(q)}
<1>1. \A i \in 1..Len(q) : q[i] \in H
  BY ElementOfSeq DEF Once
<1>2. \A x \in H : \E i \in 1..Len(q) : q[i] = x
  BY DEF Once
<1> QED
  BY <1>1, <1>2

\* The next state of the heap.
LEMMA Becomes ==
  ASSUME NEW n, NEW C, NEW G, HeapRight(n, C, G), Become(n), NEW f \in [C -> Nat], owned' = f,
         \A a \in C : n.header[a].size >= f[a] + Overhead
  PROVE  HeapInv'
<1>1. n \in HeapStates /\ Once(n.index, G)
  BY Zenon DEF HeapRight, Shape
<1>2. Heap' = n
  <2>1. n = [header |-> n.header, footer |-> n.footer, index |-> n.index]
    BY <1>1, HeapParts, Zenon
  <2>2. Heap' = [header |-> header', footer |-> footer', index |-> index']
    BY DEF Heap
  <2> QED
    BY <2>1, <2>2, Zenon DEF Become
<1>3. Holes' = G
  <2>1. G = {n.index[i] : i \in 1..Len(n.index)}
    BY <1>1, HolesListed, Zenon
  <2>2. Holes' = {index'[i] : i \in 1..Len(index')}
    BY DEF Holes
  <2> QED
    BY <2>1, <2>2, Zenon DEF Become
<1>4. DOMAIN owned' = C /\ owned' \in [DOMAIN owned' -> Nat]
  OBVIOUS
<1>5. \A a \in DOMAIN owned' : header'[a].size >= owned'[a] + Overhead
  BY <1>4, Zenon DEF Become
<1>6. HeapRight(Heap', DOMAIN owned', Holes')
  BY <1>2, <1>3, <1>4, Zenon
<1> QED
  BY <1>4, <1>5, <1>6 DEF HeapInv

LEMMA InitRight ==
  ASSUME HeapInit
  PROVE  HeapInv
<1> USE OverheadIs
<1>1. PICK r : r = [size |-> HeapSize, is_hole |-> TRUE]
  OBVIOUS
<1>2. r \in Headers /\ r.size = HeapSize /\ r.is_hole = TRUE
  BY <1>1 DEF Headers
<1>3. 0 \in Addresses
  BY DEF Addresses
<1>4. header \in [Addresses -> Headers \cup {NoMagic}] /\ header[0] = r
  <2>1. header = [a \in Addresses |-> IF a = 0 THEN r ELSE NoMagic]
    BY <1>1, Zenon DEF HeapInit
  <2> QED
    BY <1>2, <1>3, <2>1
<1>5. footer \in [Addresses -> Addresses \cup {NoMagic}]
  BY DEF HeapInit
<1>6. index = <<0>> /\ index \in Seq(Addresses) /\ index \in Seq({0})
  BY <1>3 DEF HeapInit
<1>7. owned = << >> /\ DOMAIN owned = {} /\ owned \in [DOMAIN owned -> Nat]
  <2>1. owned = << >>
    BY Zenon DEF HeapInit
  <2>2. DOMAIN owned = {}
    BY <2>1
  <2> QED
    BY <2>1, <2>2
<1>8. Heap \in HeapStates /\ Heap.header = header /\ Heap.footer = footer /\ Heap.index = index
  BY <1>4, <1>5, <1>6 DEF Heap, HeapStates
<1>9. Once(index, {0})
  BY <1>6 DEF Once
<1>10. Holes = {0}
  BY <1>9, HolesListed, Zenon DEF Holes
<1>11. Shape(Heap, {}, {0})
  <2>1. PICK d : d = [a \in Addresses |-> IF a = 0 THEN HeapSize ELSE 0]
    OBVIOUS
  <2>2. d[0] = HeapSize
    BY <1>3, <2>1
  <2>3. Layout({} \cup {0}, d)
    BY <1>3, <2>2 DEF Layout
  <2>4. PartRight(Heap, 0, {0})
    <3>1. Heap.header[0] \in Headers /\ Heap.header[0].size = HeapSize /\ Heap.header[0].is_hole = TRUE /\ 0 \in {0}
      BY <1>2, <1>4, <1>8
    <3> QED
      BY <3>1, Zenon DEF PartRight
  <2>5. \A a \in {} \cup {0} : PartRight(Heap, a, {0}) /\ Heap.header[a].size = d[a]
    <3> TAKE a \in {} \cup {0}
    <3>1. a = 0
      OBVIOUS
    <3>2. Heap.header[0].size = d[0]
      BY <1>2, <1>4, <1>8, <2>2
    <3> QED
      BY <2>4, <3>1, <3>2, Zenon
  <2>6. {} \cap {0} = {}
    OBVIOUS
  <2> QED
    BY <1>8, <2>3, <2>5, <2>6, ShapeFrom, Zenon
<1>12. \A x, y \in {0} : x + Heap.header[x].size # y
  BY <1>2, <1>4, <1>8
<1>13. HeapRight(Heap, {}, {0})
  BY <1>8, <1>9, <1>11, <1>12, Zenon DEF HeapRight
<1> QED
  BY <1>7, <1>10, <1>13, Zenon DEF HeapInv

LEMMA MallocRight ==
  ASSUME HeapInv, NEW size \in Nat, Malloc(size)
  PROVE  HeapInv'
<1>1. PICK n, a : n = memory_alloc(Heap, size) /\ a = HoleFor(Heap, size)
  OBVIOUS
<1>2. PICK G : Allocated(Heap, n, DOMAIN owned, a, size, G)
  BY <1>1, AllocRight, Zenon DEF HeapInv, Malloc
<1>3. PICK f : f = Own(a, size)
  OBVIOUS
<1>4. f \in [DOMAIN owned \cup {a} -> Nat] /\ f[a] = size /\ \A b \in DOMAIN owned : b # a => f[b] = owned[b]
  BY <1>3 DEF Own, HeapInv
<1>5. ASSUME NEW b \in DOMAIN owned \cup {a} PROVE n.header[b].size >= f[b] + Overhead
  <2>1. CASE b = a
    BY <1>2, <1>4, <2>1, Zenon DEF Allocated
  <2>2. CASE b # a
    <3>1. b \in DOMAIN owned
      BY <1>5, <2>2
    <3>2. Heap.header = header
      BY DEF Heap
    <3> QED
      BY <1>2, <1>4, <2>2, <3>1, <3>2, Zenon DEF Allocated, HeapInv
  <2> QED
    BY <2>1, <2>2, Zenon
<1>6. Become(n) /\ owned' = f
  BY <1>1, <1>3, Zenon DEF Malloc
<1> QED
  BY <1>2, <1>4, <1>5, <1>6, Becomes, Zenon DEF Allocated

LEMMA FreeStep ==
  ASSUME HeapInv, NEW a, Free(a)
  PROVE  HeapInv'
<1>0. a \in DOMAIN owned
  BY Zenon DEF Free
<1>1. PICK n : n = hfree(Heap, a)
  OBVIOUS
<1>2. PICK G : Released(Heap, n, DOMAIN owned, a, G)
  BY <1>0, <1>1, FreeRight, Zenon DEF HeapInv
<1>3. PICK f : f = Disown(a)
  OBVIOUS
<1>4. f \in [DOMAIN owned \ {a} -> Nat] /\ \A b \in DOMAIN owned \ {a} : f[b] = owned[b]
  BY <1>3 DEF Disown, HeapInv
<1>5. ASSUME NEW b \in DOMAIN owned \ {a} PROVE n.header[b].size >= f[b] + Overhead
  <2>1. b \in DOMAIN owned /\ b # a
    OBVIOUS
  <2>2. Heap.header = header
    BY DEF Heap
  <2> QED
    BY <1>2, <1>4, <1>5, <2>1, <2>2, Zenon DEF Released, HeapInv
<1>6. Become(n) /\ owned' = f
  BY <1>1, <1>3, Zenon DEF Free
<1> QED
  BY <1>2, <1>4, <1>5, <1>6, Becomes, Zenon DEF Released

\* The heap between the allocation of a new block and the release of the old one.
BlockMoved(m, n, a, b, size) ==
  /\ \E G : Allocated(Heap, m, DOMAIN owned, b, size, G)
  /\ \E G : Released(m, n, DOMAIN owned \cup {b}, a, G)
  /\ a \in DOMAIN owned /\ b \notin DOMAIN owned

LEMMA ReallocMoves ==
  ASSUME HeapInv, NEW size \in Nat, NEW a \in DOMAIN owned, Fitting(Heap, size + Overhead) # {}
  PROVE  BlockMoved(memory_alloc(Heap, size), hfree(memory_alloc(Heap, size), a), a, HoleFor(Heap, size), size)
<1>1. PICK m, b : m = memory_alloc(Heap, size) /\ b = HoleFor(Heap, size)
  OBVIOUS
<1>2. PICK G : Allocated(Heap, m, DOMAIN owned, b, size, G)
  BY <1>1, AllocRight, Zenon DEF HeapInv
<1>3. PICK n : n = hfree(m, a)
  OBVIOUS
<1>4. \E K : Released(m, n, DOMAIN owned \cup {b}, a, K)
  <2>1. a \in DOMAIN owned \cup {b}
    OBVIOUS
  <2> QED
    BY <1>2, <1>3, <2>1, FreeRight, Zenon DEF Allocated
<1> QED
  BY <1>1, <1>2, <1>3, <1>4, Zenon DEF BlockMoved, Allocated

LEMMA ReallocRight ==
  ASSUME HeapInv, NEW size \in Nat, NEW a, Realloc(a, size)
  PROVE  HeapInv'
<1>0. a \in DOMAIN owned
  BY Zenon DEF Realloc
<1>1. CASE malloc_size(Heap, a) >= size
  <2>1. owned' = Own(a, size) /\ UNCHANGED <<header, footer, index>>
    BY <1>1, Zenon DEF Realloc
  <2>2. Heap' = Heap /\ Holes' = Holes
    BY <2>1 DEF Heap, Holes
  <2>3. /\ DOMAIN owned' = DOMAIN owned /\ owned' \in [DOMAIN owned -> Nat]
        /\ owned'[a] = size /\ \A b \in DOMAIN owned : b # a => owned'[b] = owned[b]
    BY <1>0, <2>1 DEF Own, HeapInv
  <2>4. PICK s : s = header[a].size
    OBVIOUS
  <2>5. s \in Int
    <3>1. Shape(Heap, DOMAIN owned, Holes)
      BY Zenon DEF HeapInv, HeapRight
    <3>2. PartIs(Heap, a, DOMAIN owned \cup Holes)
      BY <1>0, <3>1, PartOf, Zenon
    <3>3. Heap.header = header
      BY DEF Heap
    <3> QED
      BY <2>4, <3>2, <3>3, Zenon DEF PartIs
  <2>6. s >= size + Overhead
    <3>1. malloc_size(Heap, a) = s - Overhead
      BY <2>4 DEF malloc_size, Heap
    <3> QED
      BY <1>1, <2>5, <3>1, OverheadIs
  <2>7. \A b \in DOMAIN owned' : header'[b].size >= owned'[b] + Overhead
    <3> TAKE b \in DOMAIN owned'
    <3>1. b \in DOMAIN owned
      BY <2>3
    <3>2. CASE b = a
      BY <2>1, <2>3, <2>4, <2>6, <3>2, Zenon
    <3>3. CASE b # a
      BY <2>1, <2>3, <3>1, <3>3, Zenon DEF HeapInv
    <3> QED
      BY <3>2, <3>3, Zenon
  <2>8. HeapRight(Heap', DOMAIN owned', Holes')
    BY <2>2, <2>3, Zenon DEF HeapInv
  <2> QED
    BY <2>3, <2>7, <2>8 DEF HeapInv
<1>2. CASE ~(malloc_size(Heap, a) >= size)
  <2>1. PICK m, b : m = memory_alloc(Heap, size) /\ b = HoleFor(Heap, size)
    OBVIOUS
  <2>2. PICK n : n = hfree(m, a)
    OBVIOUS
  <2>3. /\ Fitting(Heap, size + Overhead) # {} /\ Become(n)
        /\ owned' = [c \in (DOMAIN owned \ {a}) \cup {b} |-> IF c = b THEN size ELSE owned[c]]
    BY <1>2, <2>1, <2>2, Zenon DEF Realloc
  <2>4. BlockMoved(m, n, a, b, size)
    BY <1>0, <2>1, <2>2, <2>3, ReallocMoves, Zenon
  <2>5. PICK C : C = (DOMAIN owned \ {a}) \cup {b}
    OBVIOUS
  <2>6. (DOMAIN owned \cup {b}) \ {a} = C
    BY <1>0, <2>4, <2>5 DEF BlockMoved
  <2>7. PICK G : HeapRight(n, C, G)
    BY <2>4, <2>6, Zenon DEF BlockMoved, Released
  <2>8. PICK f : f = [c \in C |-> IF c = b THEN size ELSE owned[c]]
    OBVIOUS
  <2>9. f \in [C -> Nat] /\ f[b] = size /\ b \in C /\ \A c \in C : c # b => (f[c] = owned[c] /\ c \in DOMAIN owned)
    BY <2>5, <2>8 DEF HeapInv
  <2>10. ASSUME NEW c \in C PROVE n.header[c].size >= f[c] + Overhead
    <3>1. c \in DOMAIN owned \cup {b} /\ c # a
      BY <2>6
    <3>2. n.header[c] = m.header[c]
      BY <2>4, <3>1, Zenon DEF BlockMoved, Released
    <3>3. CASE c = b
      BY <2>4, <2>9, <3>2, <3>3, Zenon DEF BlockMoved, Allocated
    <3>4. CASE c # b
      <4>1. Heap.header = header /\ c \in DOMAIN owned
        BY <2>9, <3>4 DEF Heap
      <4>2. m.header[c] = header[c]
        BY <2>4, <4>1, Zenon DEF BlockMoved, Allocated
      <4> QED
        BY <2>9, <3>2, <3>4, <4>1, <4>2, Zenon DEF HeapInv
    <3> QED
      BY <3>3, <3>4, Zenon
  <2> QED
    BY <2>3, <2>5, <2>7, <2>8, <2>9, <2>10, Becomes, Zenon
<1> QED
  BY <1>1, <1>2, Zenon

LEMMA HeapInvTiles == HeapInv => HeapTiles
<1> SUFFICES ASSUME HeapInv PROVE HeapTiles
  OBVIOUS
<1>1. PICK B, H : B = DOMAIN owned /\ H = Holes
  OBVIOUS
<1>2. /\ Shape(Heap, B, H) /\ Once(index, H) /\ \A x, y \in H : x + header[x].size # y
      /\ Heap.header = header /\ Heap.footer = footer
  <2>1. Heap.header = header /\ Heap.footer = footer /\ Heap.index = index
    BY DEF Heap
  <2>2. HeapRight(Heap, B, H)
    BY <1>1, Zenon DEF HeapInv
  <2> QED
    BY <2>1, <2>2, Zenon DEF HeapRight
<1>3. ASSUME NEW a \in B \cup H
      PROVE  /\ header[a] # NoMagic /\ header[a].is_hole = (a \in H)
             /\ \/ header[a].size = HeapSize /\ a \in H
                \/ footer[a + header[a].size - FooterSize] = a
  <2>1. PartRight(Heap, a, H)
    BY <1>2, Zenon DEF Shape
  <2>2. header[a] \in Headers /\ header[a] # NoMagic /\ (header[a].is_hole <=> a \in H)
    BY <1>2, <2>1, ShapeIs, Zenon DEF PartRight
  <2>3. header[a].is_hole \in BOOLEAN
    BY ONLY <2>2 DEF Headers
  <2>4. header[a].is_hole = (a \in H)
    <3>1. PICK z \in BOOLEAN : z = header[a].is_hole
      BY <2>3, Zenon
    <3>2. z <=> a \in H
      BY <2>2, <3>1, Zenon
    <3>3. z = (a \in H)
      BY ONLY z \in BOOLEAN, <3>2, SMT
    <3> QED
      BY <3>1, <3>3, Zenon
  <2> QED
    BY <1>2, <2>1, <2>2, <2>4, Zenon DEF PartRight
<1>4. ASSUME NEW x \in Addresses
      PROVE  \E a \in B \cup H : Inside(x, a) /\ \A b \in (B \cup H) \ {a} : ~Inside(x, b)
  <2>1. PICK S, d : S = B \cup H /\ d = Sizes(Heap)
    OBVIOUS
  <2>2. Layout(S, d)
    BY <1>2, <2>1, Zenon DEF Shape
  <2>3. \A a \in S : d[a] = header[a].size
    <3> TAKE a \in S
    <3>1. PartIs(Heap, a, B \cup H)
      <4>1. a \in B \/ a \in H
        BY <2>1
      <4> QED
        BY <1>2, <4>1, PartOf, Zenon
    <3> QED
      BY <1>2, <2>1, <3>1, Zenon DEF PartIs
  <2>4. PICK a \in S : /\ a <= x /\ x < a + d[a]
                       /\ \A b \in S \ {a} : ~(b <= x /\ x < b + d[b])
    BY <2>2, Covered, Zenon
  <2>5. Inside(x, a)
    BY <2>3, <2>4, Zenon DEF Inside
  <2>6. ASSUME NEW b \in S \ {a} PROVE ~Inside(x, b)
    <3>1. d[b] = header[b].size
      BY <2>3
    <3> QED
      BY <2>4, <3>1, Zenon DEF Inside
  <2> QED
    BY <2>1, <2>5, <2>6, Zenon
<1>5. B \cap H = {} /\ Cardinality(H) = Len(index)
  BY <1>2, OnceSize, Zenon DEF Shape
<1> QED
  BY <1>1, <1>2, <1>3, <1>4, <1>5, Zenon DEF HeapTiles, Parts, HeapInv

LEMMA HeapStep ==
  HeapInv /\ [HeapNext]_heapVars => HeapInv'
<1> SUFFICES ASSUME HeapInv, [HeapNext]_heapVars PROVE HeapInv'
  OBVIOUS
<1>1. RequestSizes \subseteq Nat
  BY HeapAssumption
<1>2. ASSUME NEW size \in RequestSizes, Malloc(size) PROVE HeapInv'
  BY <1>1, <1>2, MallocRight
<1>3. ASSUME NEW size \in RequestSizes, NEW a, Realloc(a, size) PROVE HeapInv'
  BY <1>1, <1>3, ReallocRight
<1>4. ASSUME NEW a, Free(a) PROVE HeapInv'
  BY <1>4, FreeStep
<1>5. CASE UNCHANGED heapVars
  <2>1. Heap' = Heap /\ Holes' = Holes /\ owned' = owned /\ header' = header
    BY <1>5 DEF heapVars, Heap, Holes
  <2> QED
    BY <2>1, Zenon DEF HeapInv
<1> QED
  BY <1>2, <1>3, <1>4, <1>5, Zenon DEF HeapNext

LEMMA HeapInvariant == HeapSpec => []HeapInv
<1>1. HeapInit => HeapInv
  BY InitRight
<1> QED
  BY <1>1, HeapStep, PTL DEF HeapSpec

\* Blocks and holes divide the memory, whatever was allocated and released in
\* whatever order, for every size of the heap, of headers and of requests
\* (memory_alloc, hfree, krealloc).
THEOREM HeapStaysTiled == HeapSpec => []HeapTiles
<1>1. HeapInv => HeapTiles
  BY HeapInvTiles
<1> QED
  BY <1>1, HeapInvariant, PTL

-----------------------------------------------------------------------------
\* What BlockStore sees of a block is what its header says.
BlocksAre ==
  /\ DOMAIN blocks = DOMAIN owned
  /\ \A a \in DOMAIN owned : blocks[a] = header[a].size

LEMMA BlocksHeld == HeapInv => BlocksAre
<1> SUFFICES ASSUME HeapInv PROVE BlocksAre
  OBVIOUS
<1>1. ASSUME NEW a \in DOMAIN owned PROVE blocks[a] = header[a].size
  <2>1. Shape(Heap, DOMAIN owned, Holes) /\ Heap.header = header
    BY Zenon DEF HeapInv, HeapRight, Heap
  <2>2. PartIs(Heap, a, DOMAIN owned \cup Holes)
    BY <2>1, PartOf, Zenon
  <2>3. header[a] # NoMagic
    BY <2>1, <2>2, Zenon DEF PartIs
  <2> QED
    BY <2>3, Zenon DEF blocks
<1> QED
  BY <1>1, Zenon DEF blocks, BlocksAre

\* Two parts have no address in common.
LEMMA PartsApart ==
  ASSUME NEW h, NEW B, NEW H, Shape(h, B, H), NEW a \in B, NEW b \in B, a # b
  PROVE  Store!Extent(a, h.header[a].size) \cap Store!Extent(b, h.header[b].size) = {}
<1>1. PICK sa, sb : sa = h.header[a].size /\ sb = h.header[b].size
  OBVIOUS
<1>2. PartIs(h, a, B \cup H) /\ PartIs(h, b, B \cup H)
  BY PartOf, Zenon
<1>3. /\ a \in Int /\ sa \in Int /\ Sizes(h)[a] = sa
      /\ b \in Int /\ sb \in Int /\ Sizes(h)[b] = sb
  BY <1>1, <1>2, Zenon DEF PartIs
<1>4. PICK S, d : S = B \cup H /\ d = Sizes(h)
  OBVIOUS
<1>5. a \in S /\ b \in S /\ Layout(S, d) /\ d[a] = sa /\ d[b] = sb
  BY <1>3, <1>4 DEF Shape
<1>6. (a < b => a + sa <= b) /\ (b < a => b + sb <= a)
  BY <1>5, Zenon DEF Layout
<1>7. (a..(a + sa - 1)) \cap (b..(b + sb - 1)) = {}
  BY ONLY <1>3, <1>6, a # b
<1> QED
  BY <1>1, <1>7, Zenon DEF Store!Extent

\* What memory_alloc does is what Allocate does.
LEMMA StoreAllocates ==
  ASSUME HeapInv, HeapInv', NEW gone \in SUBSET DOMAIN owned, NEW m, NEW a, NEW size, NEW G,
         Allocated(Heap, m, DOMAIN owned, a, size, G), DOMAIN owned' = (DOMAIN owned \ gone) \cup {a},
         \A b \in DOMAIN owned' : header'[b] = m.header[b]
  PROVE  Store!Allocate(gone)
<1>1. PICK B, C : B = DOMAIN owned /\ C = DOMAIN owned'
  OBVIOUS
<1>2. C = (B \ gone) \cup {a} /\ a \in C /\ a \notin B
  BY <1>1 DEF Allocated
<1>3. DOMAIN blocks = B /\ \A b \in B : blocks[b] = header[b].size
  BY <1>1, BlocksHeld, Zenon DEF BlocksAre
<1>4. DOMAIN blocks' = C /\ \A b \in C : blocks'[b] = m.header[b].size
  <2>1. BlocksAre'
    BY BlocksHeld, PTL
  <2>2. \A b \in C : header'[b] = m.header[b]
    BY <1>1, Zenon
  <2> QED
    BY <1>1, <2>1, <2>2, Zenon DEF BlocksAre
<1>5. \A b \in B : m.header[b] = header[b]
  <2>1. Heap.header = header
    BY DEF Heap
  <2> QED
    BY <1>1, <2>1, Zenon DEF Allocated
<1>6. Shape(m, B \cup {a}, G) /\ a \in B \cup {a}
  BY <1>1, Zenon DEF Allocated, HeapRight
<1>7. PICK s : s = blocks'[a]
  OBVIOUS
<1>8. s = m.header[a].size
  BY <1>2, <1>4, <1>7, Zenon
<1>9. s > 0 /\ Store!Extent(a, s) \subseteq Addresses
  <2>1. PartIs(m, a, (B \cup {a}) \cup G)
    BY <1>6, PartOf, Zenon
  <2>2. a \in Int /\ a >= 0 /\ s \in Int /\ s >= Overhead /\ a + s <= HeapSize
    BY <1>8, <2>1, Zenon DEF PartIs
  <2> QED
    BY <2>2, OverheadIs DEF Addresses, Store!Extent
<1>10. Store!Apart(a, s)
  <2>1. ASSUME NEW b \in B PROVE Store!Extent(a, s) \cap Store!Extent(b, blocks[b]) = {}
    <3>1. b \in B \cup {a} /\ a # b
      BY <1>2
    <3>2. Store!Extent(a, m.header[a].size) \cap Store!Extent(b, m.header[b].size) = {}
      BY <1>6, <3>1, PartsApart, Zenon
    <3>3. blocks[b] = m.header[b].size
      BY <1>3, <1>5, <2>1, Zenon
    <3> QED
      BY <1>8, <3>2, <3>3, Zenon
  <2> QED
    BY <1>3, <2>1, Zenon DEF Store!Apart
<1>11. blocks' = Store!Given(gone, a, s)
  <2>1. PICK f : f = Store!Given(gone, a, s)
    OBVIOUS
  <2>2. f = [b \in C |-> IF b = a THEN s ELSE blocks[b]]
    BY <1>2, <1>3, <2>1, Zenon DEF Store!Given
  <2>3. blocks' = [b \in C |-> blocks'[b]]
    <3>1. blocks' = [b \in DOMAIN blocks' |-> blocks'[b]]
      BY DEF blocks
    <3> QED
      BY <1>4, <3>1, Zenon
  <2>4. \A b \in C : blocks'[b] = IF b = a THEN s ELSE blocks[b]
    <3> TAKE b \in C
    <3>1. CASE b = a
      BY <1>7, <3>1, Zenon
    <3>2. CASE b # a
      <4>1. b \in B
        BY <1>2, <3>2
      <4> QED
        BY <1>3, <1>4, <1>5, <3>2, <4>1, Zenon
    <3> QED
      BY <3>1, <3>2, Zenon
  <2> QED
    BY <2>1, <2>2, <2>3, <2>4, Zenon
<1>12. a \in DOMAIN blocks' \ DOMAIN blocks
  BY <1>2, <1>3, <1>4
<1> QED
  BY <1>7, <1>9, <1>10, <1>11, <1>12, Zenon DEF Store!Allocate

\* What hfree does is what Release does.
LEMMA StoreReleases ==
  ASSUME HeapInv, HeapInv', NEW a \in DOMAIN owned, DOMAIN owned' = DOMAIN owned \ {a},
         \A b \in DOMAIN owned' : header'[b] = header[b]
  PROVE  Store!Release(a)
<1>1. BlocksAre /\ BlocksAre'
  BY BlocksHeld, PTL
<1>2. blocks' = [b \in DOMAIN blocks' |-> blocks'[b]]
  BY DEF blocks
<1>3. DOMAIN blocks' = DOMAIN blocks \ {a}
  BY <1>1 DEF BlocksAre
<1>4. \A b \in DOMAIN blocks \ {a} : blocks'[b] = blocks[b]
  <2> TAKE b \in DOMAIN blocks \ {a}
  <2>1. b \in DOMAIN owned' /\ b \in DOMAIN owned
    BY <1>1, <1>3, Zenon DEF BlocksAre
  <2> QED
    BY <1>1, <2>1, Zenon DEF BlocksAre
<1>5. blocks' = [b \in DOMAIN blocks \ {a} |-> blocks[b]]
  BY <1>2, <1>3, <1>4, Zenon
<1> QED
  BY <1>5, Zenon DEF Store!Release

\* Nobody's block is another.
LEMMA StoreKeeps ==
  ASSUME DOMAIN owned' = DOMAIN owned, header' = header
  PROVE  blocks' = blocks
BY Zenon DEF blocks

LEMMA StoreMalloc ==
  ASSUME HeapInv, HeapInv', NEW size \in Nat, Malloc(size)
  PROVE  Store!Next
<1>1. PICK n, a : n = memory_alloc(Heap, size) /\ a = HoleFor(Heap, size)
  OBVIOUS
<1>2. PICK G : Allocated(Heap, n, DOMAIN owned, a, size, G)
  BY <1>1, AllocRight, Zenon DEF HeapInv, Malloc
<1>3. Become(n) /\ owned' = Own(a, size)
  BY <1>1, Zenon DEF Malloc
<1>4. DOMAIN owned' = (DOMAIN owned \ {}) \cup {a}
  BY <1>3 DEF Own
<1>5. \A b \in DOMAIN owned' : header'[b] = n.header[b]
  BY <1>3, Zenon DEF Become
<1>6. {} \in SUBSET DOMAIN owned
  OBVIOUS
<1>7. Store!Allocate({})
  BY <1>2, <1>4, <1>5, <1>6, StoreAllocates, Zenon
<1> QED
  BY <1>7, Zenon DEF Store!Next

LEMMA StoreFree ==
  ASSUME HeapInv, HeapInv', NEW a, Free(a)
  PROVE  Store!Next
<1>1. a \in DOMAIN owned
  BY Zenon DEF Free
<1>2. PICK n : n = hfree(Heap, a)
  OBVIOUS
<1>3. PICK G : Released(Heap, n, DOMAIN owned, a, G)
  BY <1>1, <1>2, FreeRight, Zenon DEF HeapInv
<1>4. Become(n) /\ owned' = Disown(a)
  BY <1>2, Zenon DEF Free
<1>5. DOMAIN owned' = DOMAIN owned \ {a}
  BY <1>4 DEF Disown
<1>6. \A b \in DOMAIN owned' : header'[b] = header[b]
  <2> TAKE b \in DOMAIN owned'
  <2>1. b \in DOMAIN owned /\ b # a
    BY <1>5
  <2>2. Heap.header = header
    BY DEF Heap
  <2> QED
    BY <1>3, <1>4, <2>1, <2>2, Zenon DEF Released, Become
<1>7. Store!Release(a)
  BY <1>1, <1>5, <1>6, StoreReleases, Zenon
<1>8. a \in DOMAIN blocks
  BY <1>1, BlocksHeld, Zenon DEF BlocksAre
<1> QED
  BY <1>7, <1>8, Zenon DEF Store!Next

LEMMA StoreRealloc ==
  ASSUME HeapInv, HeapInv', NEW size \in Nat, NEW a, Realloc(a, size)
  PROVE  Store!Next \/ blocks' = blocks
<1>1. a \in DOMAIN owned
  BY Zenon DEF Realloc
<1>2. CASE malloc_size(Heap, a) >= size
  <2>1. owned' = Own(a, size) /\ header' = header
    BY <1>2, Zenon DEF Realloc
  <2>2. DOMAIN owned' = DOMAIN owned
    BY <1>1, <2>1 DEF Own
  <2> QED
    BY <2>1, <2>2, StoreKeeps, Zenon
<1>3. CASE ~(malloc_size(Heap, a) >= size)
  <2>1. PICK m, b : m = memory_alloc(Heap, size) /\ b = HoleFor(Heap, size)
    OBVIOUS
  <2>2. PICK n : n = hfree(m, a)
    OBVIOUS
  <2>3. /\ Fitting(Heap, size + Overhead) # {} /\ Become(n)
        /\ owned' = [c \in (DOMAIN owned \ {a}) \cup {b} |-> IF c = b THEN size ELSE owned[c]]
    BY <1>3, <2>1, <2>2, Zenon DEF Realloc
  <2>4. BlockMoved(m, n, a, b, size)
    BY <1>1, <2>1, <2>2, <2>3, ReallocMoves, Zenon
  <2>5. DOMAIN owned' = (DOMAIN owned \ {a}) \cup {b} /\ {a} \in SUBSET DOMAIN owned
    BY <1>1, <2>3
  <2>6. \A c \in DOMAIN owned' : header'[c] = m.header[c]
    <3> TAKE c \in DOMAIN owned'
    <3>1. c \in DOMAIN owned \cup {b} /\ c # a
      BY <1>1, <2>4, <2>5 DEF BlockMoved
    <3> QED
      BY <2>3, <2>4, <3>1, Zenon DEF BlockMoved, Released, Become
  <2>7. PICK G : Allocated(Heap, m, DOMAIN owned, b, size, G)
    BY <2>4, Zenon DEF BlockMoved
  <2>8. Store!Allocate({a})
    BY <2>5, <2>6, <2>7, StoreAllocates, Zenon
  <2>9. a \in DOMAIN blocks
    BY <1>1, BlocksHeld, Zenon DEF BlocksAre
  <2> QED
    BY <2>8, <2>9, Zenon DEF Store!Next
<1> QED
  BY <1>2, <1>3, Zenon

\* Every step of the heap is a step of BlockStore, or none.
LEMMA HeapStepImplements ==
  HeapInv /\ HeapInv' /\ [HeapNext]_heapVars => [Store!Next]_blocks
<1> SUFFICES ASSUME HeapInv, HeapInv', [HeapNext]_heapVars PROVE Store!Next \/ blocks' = blocks
  OBVIOUS
<1>1. RequestSizes \subseteq Nat
  BY HeapAssumption
<1>2. ASSUME NEW size \in RequestSizes, Malloc(size) PROVE Store!Next
  BY <1>1, <1>2, StoreMalloc
<1>3. ASSUME NEW size \in RequestSizes, NEW a, Realloc(a, size) PROVE Store!Next \/ blocks' = blocks
  BY <1>1, <1>3, StoreRealloc
<1>4. ASSUME NEW a, Free(a) PROVE Store!Next
  BY <1>4, StoreFree
<1>5. CASE UNCHANGED heapVars
  BY <1>5, StoreKeeps DEF heapVars
<1> QED
  BY <1>2, <1>3, <1>4, <1>5, Zenon DEF HeapNext

\* The heap gives its callers what BlockStore promises: what it writes into
\* headers and footers when it splits and unifies holes (memory_alloc, hfree)
\* never touches a block that somebody holds.
THEOREM HeapStoresBlocks == HeapSpec => HeapImplements
<1>1. HeapInit => Store!Init
  <2>1. ASSUME HeapInit PROVE blocks = << >>
    <3>1. owned = << >>
      BY <2>1, Zenon DEF HeapInit
    <3>2. DOMAIN owned = {}
      BY <3>1
    <3> QED
      BY <3>2 DEF blocks
  <2> QED
    BY <2>1 DEF Store!Init
<1> QED
  BY <1>1, HeapInvariant, HeapStepImplements, PTL DEF HeapSpec, HeapImplements, Store!Spec

-----------------------------------------------------------------------------
(* Namespace. *)

\* The first node of every walk.
Start == fs[fRootFileSystem].root

\* The nodes that WalkPath comes to in the first i entries.
Walks(walk, path, i) ==
  walk = [n \in 0..i |-> IF n = 0 THEN Start ELSE Step(walk[n - 1], path[n])]

LEMMA WalksExist ==
  ASSUME NEW path, NEW len \in Nat
  PROVE  \E walk : Walks(walk, path, len)
<1> DEFINE bad == {i \in Nat : ~ \E walk : Walks(walk, path, i)}
<1>1. SUFFICES ASSUME bad # {} PROVE FALSE
  OBVIOUS
<1>2. bad \in SUBSET Nat
  OBVIOUS
<1> HIDE DEF bad
<1>3. PICK i \in bad : \A y \in bad : i <= y
  BY <1>1, <1>2, LeastNumber
<1>4. i \in Nat /\ ~ \E walk : Walks(walk, path, i)
  BY <1>3, Zenon DEF bad
<1>5. i # 0
  <2> DEFINE f == [n \in 0..0 |-> Start]
  <2>1. Walks(f, path, 0)
    <3>1. \A n \in 0..0 : n = 0
      OBVIOUS
    <3> QED
      BY <3>1, Zenon DEF Walks
  <2> QED
    BY <2>1, <1>4, Zenon
<1>6. i - 1 \in Nat /\ i - 1 \notin bad
  BY <1>2, <1>3, <1>4, <1>5
<1>7. PICK g : Walks(g, path, i - 1)
  BY <1>6, Zenon DEF bad
<1> DEFINE last == Step(g[i - 1], path[i])
           f == [n \in 0..i |-> IF n = i THEN last ELSE g[n]]
           h == [n \in 0..i |-> IF n = 0 THEN Start ELSE Step(f[n - 1], path[n])]
<1>8. \A n \in 0..i : f[n] = h[n]
  <2> TAKE n \in 0..i
  <2>1. CASE n = 0
    <3>1. 0 # i /\ 0 \in 0..i /\ 0 \in 0..(i - 1)
      BY <1>4, <1>5
    <3>2. g[0] = Start
      BY <1>7, <3>1, Zenon DEF Walks
    <3> QED
      BY <2>1, <3>1, <3>2, Zenon
  <2>2. CASE n = i
    <3>1. i # 0 /\ i \in 0..i /\ i - 1 \in 0..i /\ i - 1 # i
      BY <1>4, <1>5
    <3>2. f[i - 1] = g[i - 1]
      BY <3>1, Zenon
    <3> QED
      BY <2>2, <3>1, <3>2, Zenon
  <2>3. CASE n # 0 /\ n # i
    <3>1. n - 1 \in 0..i /\ n - 1 # i /\ n \in 0..(i - 1) /\ n \in 0..i
      BY <2>3, <1>4
    <3>2. f[n - 1] = g[n - 1] /\ f[n] = g[n]
      BY <2>3, <3>1, Zenon
    <3>3. g[n] = Step(g[n - 1], path[n])
      BY <1>7, <2>3, <3>1, Zenon DEF Walks
    <3> QED
      BY <2>3, <3>2, <3>3, Zenon
  <2> QED
    BY <2>1, <2>2, <2>3, Zenon
<1>9. f = h
  BY <1>8, Zenon
<1>10. Walks(f, path, i)
  BY <1>9, Zenon DEF Walks
<1> QED
  BY <1>4, <1>10, Zenon

\* The same, node by node.
Walked(walk, path, len) ==
  /\ walk[0] = Start
  /\ \A n \in 1..len : walk[n] = Step(walk[n - 1], path[n])

LEMMA WalkPathIs ==
  ASSUME NEW path, NEW len \in Nat, len = Len(path)
  PROVE  \E walk : WalkPath(path) = walk[len] /\ Walked(walk, path, len)
<1> DEFINE walk == CHOOSE f : f = [k \in 0..Len(path) |-> IF k = 0 THEN fs[fRootFileSystem].root
                                                           ELSE Step(f[k - 1], path[k])]
<1>1. WalkPath(path) = walk[Len(path)]
  BY Zenon DEF WalkPath
<1>2. \E f : f = [k \in 0..Len(path) |-> IF k = 0 THEN fs[fRootFileSystem].root ELSE Step(f[k - 1], path[k])]
  <2>1. PICK f : Walks(f, path, len)
    BY WalksExist, Zenon
  <2>2. f = [k \in 0..Len(path) |-> IF k = 0 THEN fs[fRootFileSystem].root ELSE Step(f[k - 1], path[k])]
    BY <2>1, Zenon DEF Walks, Start
  <2> QED
    BY <2>2, Zenon
<1>3. walk = [k \in 0..Len(path) |-> IF k = 0 THEN fs[fRootFileSystem].root ELSE Step(walk[k - 1], path[k])]
  BY <1>2, Zenon
<1> HIDE DEF walk
<1>4. 0 \in 0..len /\ \A n \in 1..len : n \in 0..len /\ n # 0
  OBVIOUS
<1>5. walk[0] = Start
  BY <1>3, <1>4, Zenon DEF Start
<1>6. \A n \in 1..len : walk[n] = Step(walk[n - 1], path[n])
  BY <1>3, <1>4, Zenon
<1>7. Walked(walk, path, len)
  BY <1>5, <1>6, Zenon DEF Walked
<1> QED
  BY <1>1, <1>7, Zenon

\* Two walks along the same entries come to the same node.
LEMMA SameWalk ==
  ASSUME NEW f, NEW g, NEW p, NEW q, NEW len \in Nat, NEW more \in Nat, len <= more,
         Walked(f, p, len), Walked(g, q, more), \A n \in 1..len : p[n] = q[n]
  PROVE  f[len] = g[len]
<1> DEFINE bad == {i \in Nat : i <= len /\ f[i] # g[i]}
<1>1. SUFFICES ASSUME bad # {} PROVE FALSE
  OBVIOUS
<1>2. bad \in SUBSET Nat
  OBVIOUS
<1> HIDE DEF bad
<1>3. PICK i \in bad : \A y \in bad : i <= y
  BY <1>1, <1>2, LeastNumber
<1>4. i \in Nat /\ i <= len /\ f[i] # g[i]
  BY <1>3, Zenon DEF bad
<1>5. i # 0
  BY <1>4, Zenon DEF Walked
<1>6. i - 1 \in Nat /\ i - 1 \notin bad /\ i - 1 <= len /\ i \in 1..len /\ i \in 1..more
  BY <1>2, <1>3, <1>4, <1>5
<1>7. f[i - 1] = g[i - 1]
  BY <1>6, Zenon DEF bad
<1>8. f[i] = Step(f[i - 1], p[i]) /\ g[i] = Step(g[i - 1], q[i])
  BY <1>6, Zenon DEF Walked
<1> QED
  BY <1>4, <1>6, <1>7, <1>8, Zenon

LEMMA WalkEmpty == WalkPath(<< >>) = Start
<1>1. PICK len \in Nat : len = Len(<< >>) /\ len = 0
  OBVIOUS
<1>2. PICK walk : WalkPath(<< >>) = walk[len] /\ Walked(walk, << >>, len)
  BY <1>1, WalkPathIs, Zenon
<1> QED
  BY <1>1, <1>2, Zenon DEF Walked

LEMMA WalkAppend ==
  ASSUME NEW S, NEW p \in Seq(S), NEW e \in S
  PROVE  WalkPath(Append(p, e)) = Step(WalkPath(p), e)
<1>1. PICK q : q = Append(p, e)
  OBVIOUS
<1>2. PICK len \in Nat : len = Len(p)
  OBVIOUS
<1>3. PICK more \in Nat : more = Len(q) /\ more = len + 1
  BY <1>1, <1>2
<1>4. q[more] = e /\ \A n \in 1..len : p[n] = q[n]
  BY <1>1, <1>2, <1>3
<1>5. PICK f : WalkPath(p) = f[len] /\ Walked(f, p, len)
  BY <1>2, WalkPathIs, Zenon
<1>6. PICK g : WalkPath(q) = g[more] /\ Walked(g, q, more)
  BY <1>3, WalkPathIs, Zenon
<1>7. f[len] = g[len]
  <2>1. len <= more
    BY <1>3
  <2> QED
    BY <1>4, <1>5, <1>6, <2>1, SameWalk, Zenon
<1>8. g[more] = Step(g[more - 1], q[more])
  <2>1. more \in 1..more
    BY <1>3
  <2> QED
    BY <1>6, <2>1, Zenon DEF Walked
<1>9. more - 1 = len
  BY <1>3
<1> QED
  BY <1>1, <1>4, <1>5, <1>6, <1>7, <1>8, <1>9, Zenon

\* What is left of the first i entries of a path.
Reduces(done, path, i) ==
  done = [n \in 0..i |-> IF n = 0 THEN << >> ELSE Shorten(done[n - 1], path[n])]

LEMMA ReducesExist ==
  ASSUME NEW path, NEW len \in Nat
  PROVE  \E done : Reduces(done, path, len)
<1> DEFINE bad == {i \in Nat : ~ \E done : Reduces(done, path, i)}
<1>1. SUFFICES ASSUME bad # {} PROVE FALSE
  OBVIOUS
<1>2. bad \in SUBSET Nat
  OBVIOUS
<1> HIDE DEF bad
<1>3. PICK i \in bad : \A y \in bad : i <= y
  BY <1>1, <1>2, LeastNumber
<1>4. i \in Nat /\ ~ \E done : Reduces(done, path, i)
  BY <1>3, Zenon DEF bad
<1>5. i # 0
  <2> DEFINE f == [n \in 0..0 |-> << >>]
  <2>1. Reduces(f, path, 0)
    <3>1. \A n \in 0..0 : n = 0
      OBVIOUS
    <3> QED
      BY <3>1, Zenon DEF Reduces
  <2> QED
    BY <2>1, <1>4, Zenon
<1>6. i - 1 \in Nat /\ i - 1 \notin bad
  BY <1>2, <1>3, <1>4, <1>5
<1>7. PICK g : Reduces(g, path, i - 1)
  BY <1>6, Zenon DEF bad
<1> DEFINE last == Shorten(g[i - 1], path[i])
           f == [n \in 0..i |-> IF n = i THEN last ELSE g[n]]
           h == [n \in 0..i |-> IF n = 0 THEN << >> ELSE Shorten(f[n - 1], path[n])]
<1>8. \A n \in 0..i : f[n] = h[n]
  <2> TAKE n \in 0..i
  <2>1. CASE n = 0
    <3>1. 0 # i /\ 0 \in 0..i /\ 0 \in 0..(i - 1)
      BY <1>4, <1>5
    <3>2. g[0] = << >>
      BY <1>7, <3>1, Zenon DEF Reduces
    <3> QED
      BY <2>1, <3>1, <3>2, Zenon
  <2>2. CASE n = i
    <3>1. i # 0 /\ i \in 0..i /\ i - 1 \in 0..i /\ i - 1 # i
      BY <1>4, <1>5
    <3>2. f[i - 1] = g[i - 1]
      BY <3>1, Zenon
    <3> QED
      BY <2>2, <3>1, <3>2, Zenon
  <2>3. CASE n # 0 /\ n # i
    <3>1. n - 1 \in 0..i /\ n - 1 # i /\ n \in 0..(i - 1) /\ n \in 0..i
      BY <2>3, <1>4
    <3>2. f[n - 1] = g[n - 1] /\ f[n] = g[n]
      BY <2>3, <3>1, Zenon
    <3>3. g[n] = Shorten(g[n - 1], path[n])
      BY <1>7, <2>3, <3>1, Zenon DEF Reduces
    <3> QED
      BY <2>3, <3>2, <3>3, Zenon
  <2> QED
    BY <2>1, <2>2, <2>3, Zenon
<1>9. f = h
  BY <1>8, Zenon
<1>10. Reduces(f, path, i)
  BY <1>9, Zenon DEF Reduces
<1> QED
  BY <1>4, <1>10, Zenon

\* The same, entry by entry.
Reduced(done, path, len) ==
  /\ done[0] = << >>
  /\ \A n \in 1..len : done[n] = Shorten(done[n - 1], path[n])

LEMMA CanonicalIs ==
  ASSUME NEW path, NEW len \in Nat, len = Len(path)
  PROVE  \E done : Canonical(path) = done[len] /\ Reduced(done, path, len)
<1> DEFINE done == CHOOSE f : f = [k \in 0..Len(path) |-> IF k = 0 THEN << >> ELSE Shorten(f[k - 1], path[k])]
<1>1. Canonical(path) = done[Len(path)]
  BY Zenon DEF Canonical
<1>2. \E f : f = [k \in 0..Len(path) |-> IF k = 0 THEN << >> ELSE Shorten(f[k - 1], path[k])]
  <2>1. PICK f : Reduces(f, path, len)
    BY ReducesExist, Zenon
  <2>2. f = [k \in 0..Len(path) |-> IF k = 0 THEN << >> ELSE Shorten(f[k - 1], path[k])]
    BY <2>1, Zenon DEF Reduces
  <2> QED
    BY <2>2, Zenon
<1>3. done = [k \in 0..Len(path) |-> IF k = 0 THEN << >> ELSE Shorten(done[k - 1], path[k])]
  BY <1>2, Zenon
<1> HIDE DEF done
<1>4. 0 \in 0..len /\ \A n \in 1..len : n \in 0..len /\ n # 0
  OBVIOUS
<1>5. done[0] = << >>
  BY <1>3, <1>4, Zenon
<1>6. \A n \in 1..len : done[n] = Shorten(done[n - 1], path[n])
  BY <1>3, <1>4, Zenon
<1>7. Reduced(done, path, len)
  BY <1>5, <1>6, Zenon DEF Reduced
<1> QED
  BY <1>1, <1>7, Zenon

LEMMA DotsDiffer == "." # ".."
OBVIOUS

\* What Lookup answers, case by case.
LEMMA LookupNone ==
  ASSUME NEW n, NEW e, ~IsDirectory(n)
  PROVE  Lookup(n, e) = NoNode
BY Zenon DEF Lookup

LEMMA LookupDot ==
  ASSUME NEW n, IsDirectory(n)
  PROVE  Lookup(n, ".") = n
BY DotsDiffer, Zenon DEF Lookup

LEMMA LookupUp ==
  ASSUME NEW n, IsDirectory(n)
  PROVE  Lookup(n, "..") = vnode[n].fParentDir
BY DotsDiffer, Zenon DEF Lookup

LEMMA LookupName ==
  ASSUME NEW n, IsDirectory(n), NEW e, e # ".", e # ".."
  PROVE  Lookup(n, e) = IF e \in DOMAIN vnode[n].entries THEN vnode[n].entries[e] ELSE NoNode
BY Zenon DEF Lookup

Plain == Names \cup {disk, ide0}

LEMMA PlainEntries ==
  ASSUME NEW e \in Plain
  PROVE  e # "." /\ e # ".."
BY NamespaceAssumption, Zenon DEF Plain

\* Nodes and file systems.
NodeRecords == [fFileSystem : Nat, fCoveredBy : Nat, fParentDir : Nat,
                entries : UNION {[D -> Nat] : D \in SUBSET Plain}]

SystemRecords == [root : Nat, fCovers : Nat]

\* x may be an entry of the directory n.
ChildIs(v, s, n, x) ==
  /\ x \in 1..Len(v) /\ v[x].fParentDir \in {n, NoNode}
  /\ \A f \in 1..Len(s) : s[f].root # x

NodeIs(v, s, n) ==
  /\ v[n].fFileSystem \in 1..Len(s)
  /\ v[n].fParentDir \in 0..Len(v)
  /\ v[n].fCoveredBy # NoFS => (v[n].fCoveredBy \in 1..Len(s) /\ s[v[n].fCoveredBy].fCovers = n)
  /\ \A e \in DOMAIN v[n].entries : ChildIs(v, s, n, v[n].entries[e])

SystemIs(v, s, f) ==
  /\ s[f].root \in 1..Len(v) /\ s[f].fCovers \in 0..Len(v)
  /\ v[s[f].root].fFileSystem = f /\ v[s[f].root].fParentDir = s[f].root

\* Nodes lead only to nodes, and back, and mounts too.
NamesRight(v, s) ==
  /\ v \in Seq(NodeRecords) /\ s \in Seq(SystemRecords)
  /\ 1 \in 1..Len(s) /\ s[1].fCovers = NoNode
  /\ \A n \in 1..Len(v) : NodeIs(v, s, n)
  /\ \A f \in 1..Len(s) : SystemIs(v, s, f)

\* A node that a walk may come to.
Landed(n) == n \in 1..Len(vnode) /\ (PlainMounts => vnode[n].fCoveredBy = NoFS)

LEMMA NodeNumbers ==
  ASSUME NEW v, NEW s, NamesRight(v, s)
  PROVE  Len(v) \in Nat /\ Len(s) \in Nat /\ NoNode \notin 1..Len(v) /\ \A n \in 0..Len(v) : n # NoNode => n \in 1..Len(v)
BY DEF NamesRight, NoNode

LEMMA BackIs ==
  ASSUME NamesRight(vnode, fs), NEW n \in 1..Len(vnode), NEW e
  PROVE  StepBack(n, e) \in 1..Len(vnode)
<1>1. PICK f : f = vnode[n].fFileSystem
  OBVIOUS
<1>2. f \in 1..Len(fs)
  BY <1>1, Zenon DEF NamesRight, NodeIs
<1>3. fs[f].fCovers \in 0..Len(vnode)
  BY <1>2, Zenon DEF NamesRight, SystemIs
<1>4. StepBack(n, e) = IF e = ".." /\ n = fs[f].root /\ fs[f].fCovers # NoNode THEN fs[f].fCovers ELSE n
  BY <1>1, Zenon DEF StepBack
<1> QED
  BY <1>3, <1>4, NodeNumbers, Zenon

LEMMA LookupIs ==
  ASSUME NamesRight(vnode, fs), NEW n \in 1..Len(vnode), NEW e, Lookup(n, e) # NoNode
  PROVE  Lookup(n, e) \in 1..Len(vnode)
<1>1. IsDirectory(n)
  BY LookupNone, Zenon
<1>2. NodeIs(vnode, fs, n)
  BY Zenon DEF NamesRight
<1>3. CASE e = "."
  BY <1>1, <1>3, LookupDot, Zenon
<1>4. CASE e = ".."
  <2>1. vnode[n].fParentDir \in 0..Len(vnode)
    BY <1>2, Zenon DEF NodeIs
  <2>2. Lookup(n, e) = vnode[n].fParentDir
    BY <1>1, <1>4, LookupUp, Zenon
  <2> QED
    BY <2>1, <2>2, NodeNumbers, Zenon
<1>5. CASE e # "." /\ e # ".."
  <2>1. Lookup(n, e) = IF e \in DOMAIN vnode[n].entries THEN vnode[n].entries[e] ELSE NoNode
    BY <1>1, <1>5, LookupName, Zenon
  <2>2. e \in DOMAIN vnode[n].entries /\ Lookup(n, e) = vnode[n].entries[e]
    BY <2>1, Zenon
  <2> QED
    BY <1>2, <2>2, Zenon DEF NodeIs, ChildIs
<1> QED
  BY <1>3, <1>4, <1>5, Zenon

\* One round of WalkPath, with the node that Lookup finds.
StepTo(n, e, next) ==
  /\ n # NoNode /\ next \in 1..Len(vnode)
  /\ next = Lookup(StepBack(n, e), e)
  /\ Step(n, e) = IF vnode[next].fCoveredBy # NoFS THEN fs[vnode[next].fCoveredBy].root ELSE next

LEMMA StepIs ==
  ASSUME NamesRight(vnode, fs), NEW n, n \in 1..Len(vnode) \/ n = NoNode, NEW e, Step(n, e) # NoNode
  PROVE  /\ n # NoNode
         /\ \E next : StepTo(n, e, next)
<1>1. PICK b : b = StepBack(n, e)
  OBVIOUS
<1>2. PICK next : next = Lookup(b, e)
  OBVIOUS
<1>3. Step(n, e) = IF n = NoNode \/ next = NoNode THEN NoNode
                   ELSE IF vnode[next].fCoveredBy # NoFS THEN fs[vnode[next].fCoveredBy].root
                   ELSE next
  BY <1>1, <1>2, Zenon DEF Step
<1>4. n # NoNode /\ next # NoNode
  BY <1>3, Zenon
<1>5. b \in 1..Len(vnode)
  BY <1>1, <1>4, BackIs, Zenon
<1>6. next \in 1..Len(vnode)
  BY <1>2, <1>4, <1>5, LookupIs, Zenon
<1>7. StepTo(n, e, next)
  BY <1>1, <1>2, <1>3, <1>4, <1>6, Zenon DEF StepTo
<1> QED
  BY <1>4, <1>7, Zenon

LEMMA StepLands ==
  ASSUME NamesRight(vnode, fs), NEW n, n \in 1..Len(vnode) \/ n = NoNode, NEW e, Step(n, e) # NoNode
  PROVE  Landed(Step(n, e))
<1>1. PICK next : StepTo(n, e, next)
  BY StepIs, Zenon
<1>2. PICK r : r = Step(n, e)
  OBVIOUS
<1>3. CASE vnode[next].fCoveredBy # NoFS
  <2>1. PICK f : f = vnode[next].fCoveredBy
    OBVIOUS
  <2>2. f \in 1..Len(fs)
    BY <1>1, <1>3, <2>1, Zenon DEF StepTo, NamesRight, NodeIs
  <2>3. r = fs[f].root
    BY <1>1, <1>2, <1>3, <2>1, Zenon DEF StepTo
  <2>4. r \in 1..Len(vnode) /\ (PlainMounts => vnode[r].fCoveredBy = NoFS)
    BY <2>2, <2>3, Zenon DEF NamesRight, SystemIs, PlainMounts
  <2> QED
    BY <1>2, <2>4, Zenon DEF Landed
<1>4. CASE vnode[next].fCoveredBy = NoFS
  BY <1>1, <1>4, Zenon DEF StepTo, Landed
<1> QED
  BY <1>3, <1>4, Zenon

LEMMA StartLands ==
  ASSUME NamesRight(vnode, fs)
  PROVE  Landed(Start)
BY Zenon DEF NamesRight, SystemIs, PlainMounts, Landed, Start, fRootFileSystem

\* Every node of a walk that goes on is one.
LEMMA WalkLands ==
  ASSUME NamesRight(vnode, fs), NEW walk, NEW path, NEW len \in Nat, Walked(walk, path, len)
  PROVE  walk[len] = NoNode \/ Landed(walk[len])
<1> DEFINE bad == {i \in Nat : i <= len /\ ~(walk[i] = NoNode \/ Landed(walk[i]))}
<1>1. SUFFICES ASSUME bad # {} PROVE FALSE
  OBVIOUS
<1>2. bad \in SUBSET Nat
  OBVIOUS
<1> HIDE DEF bad
<1>3. PICK i \in bad : \A y \in bad : i <= y
  BY <1>1, <1>2, LeastNumber
<1>4. i \in Nat /\ i <= len /\ walk[i] # NoNode /\ ~Landed(walk[i])
  BY <1>3, Zenon DEF bad
<1>5. i # 0
  BY <1>4, StartLands, Zenon DEF Walked
<1>6. i - 1 \in Nat /\ i - 1 \notin bad /\ i - 1 <= len /\ i \in 1..len
  BY <1>2, <1>3, <1>4, <1>5
<1>7. walk[i - 1] = NoNode \/ Landed(walk[i - 1])
  BY <1>6, Zenon DEF bad
<1>8. walk[i] = Step(walk[i - 1], path[i])
  BY <1>6, Zenon DEF Walked
<1>9. walk[i - 1] \in 1..Len(vnode) \/ walk[i - 1] = NoNode
  BY <1>7, Zenon DEF Landed
<1> QED
  BY <1>4, <1>8, <1>9, StepLands, Zenon

LEMMA PathLands ==
  ASSUME NamesRight(vnode, fs), NEW S, NEW path \in Seq(S)
  PROVE  WalkPath(path) = NoNode \/ Landed(WalkPath(path))
<1>1. PICK len \in Nat : len = Len(path)
  OBVIOUS
<1>2. PICK walk : WalkPath(path) = walk[len] /\ Walked(walk, path, len)
  BY <1>1, WalkPathIs, Zenon
<1> QED
  BY <1>2, WalkLands, Zenon

\* . stays.
LEMMA StepDot ==
  ASSUME NamesRight(vnode, fs), PlainMounts, NEW n, Landed(n), Step(n, ".") # NoNode
  PROVE  Step(n, ".") = n
<1>1. PICK next : StepTo(n, ".", next)
  BY StepIs, Zenon DEF Landed
<1>2. StepBack(n, ".") = n
  BY DotsDiffer, Zenon DEF StepBack
<1>3. next = Lookup(n, ".") /\ next # NoNode
  BY <1>1, <1>2, NodeNumbers, Zenon DEF StepTo
<1>4. next = n
  BY <1>3, LookupNone, LookupDot, Zenon
<1> QED
  BY <1>1, <1>4, Zenon DEF StepTo, Landed

\* .. stays at the root of the root file system.
LEMMA StepUpStart ==
  ASSUME NamesRight(vnode, fs), PlainMounts, Step(Start, "..") # NoNode
  PROVE  Step(Start, "..") = Start
<1>1. Landed(Start) /\ SystemIs(vnode, fs, 1) /\ fs[1].fCovers = NoNode /\ Start = fs[1].root
  BY StartLands, Zenon DEF NamesRight, Start, fRootFileSystem
<1>2. PICK next : StepTo(Start, "..", next)
  BY <1>1, StepIs, Zenon DEF Landed
<1>3. vnode[Start].fFileSystem = 1 /\ vnode[Start].fParentDir = Start
  BY <1>1, Zenon DEF SystemIs
<1>4. StepBack(Start, "..") = Start
  BY <1>1, <1>3, Zenon DEF StepBack
<1>5. next = Lookup(Start, "..") /\ next # NoNode
  BY <1>2, <1>4, NodeNumbers, Zenon DEF StepTo
<1>6. next = Start
  BY <1>3, <1>5, LookupNone, LookupUp, Zenon
<1> QED
  BY <1>1, <1>2, <1>6, Zenon DEF StepTo, Landed

\* .. undoes an entry.
LEMMA StepUp ==
  ASSUME NamesRight(vnode, fs), PlainMounts, NEW m, Landed(m), NEW e \in Plain, NEW n, n = Step(m, e), n # NoNode,
         n \in 1..Len(vnode), Step(n, "..") # NoNode
  PROVE  Step(n, "..") = m
<1>1. e # "." /\ e # ".."
  BY PlainEntries, Zenon
<1>2. PICK x : StepTo(m, e, x)
  BY StepIs, Zenon DEF Landed
<1>3. PICK next : StepTo(n, "..", next)
  BY StepIs, Zenon
<1>4. StepBack(m, e) = m
  BY <1>1, Zenon DEF StepBack
<1>5. x = Lookup(m, e) /\ x # NoNode /\ x \in 1..Len(vnode)
  BY <1>2, <1>4, NodeNumbers, Zenon DEF StepTo
<1>6. ChildIs(vnode, fs, m, x)
  <2>1. IsDirectory(m)
    BY <1>5, LookupNone, Zenon
  <2>2. Lookup(m, e) = IF e \in DOMAIN vnode[m].entries THEN vnode[m].entries[e] ELSE NoNode
    BY <1>1, <2>1, LookupName, Zenon
  <2>3. e \in DOMAIN vnode[m].entries /\ x = vnode[m].entries[e]
    BY <1>5, <2>2, Zenon
  <2> QED
    BY <2>3, Zenon DEF NamesRight, NodeIs, Landed
<1>7. PICK f : f = vnode[n].fFileSystem
  OBVIOUS
<1>8. f \in 1..Len(fs)
  BY <1>7, Zenon DEF NamesRight, NodeIs
<1>9. StepBack(n, "..") = IF n = fs[f].root /\ fs[f].fCovers # NoNode THEN fs[f].fCovers ELSE n
  BY <1>7, Zenon DEF StepBack
<1>10. StepBack(n, "..") = x
  <2>1. CASE vnode[x].fCoveredBy # NoFS
    <3>1. PICK c : c = vnode[x].fCoveredBy
      OBVIOUS
    <3>2. c \in 1..Len(fs) /\ fs[c].fCovers = x
      BY <1>5, <2>1, <3>1, Zenon DEF NamesRight, NodeIs
    <3>3. n = fs[c].root
      BY <1>2, <2>1, <3>1, Zenon DEF StepTo
    <3>4. c = f
      BY <1>7, <3>2, <3>3, Zenon DEF NamesRight, SystemIs
    <3> QED
      BY <1>5, <1>9, <3>2, <3>3, <3>4, Zenon
  <2>2. CASE vnode[x].fCoveredBy = NoFS
    <3>1. n = x
      BY <1>2, <2>2, Zenon DEF StepTo
    <3>2. fs[f].root # x
      BY <1>6, <1>8, Zenon DEF ChildIs
    <3> QED
      BY <1>9, <3>1, <3>2, Zenon
  <2> QED
    BY <2>1, <2>2, Zenon
<1>11. next = Lookup(x, "..") /\ next # NoNode
  BY <1>3, <1>10, NodeNumbers, Zenon DEF StepTo
<1>12. next = vnode[x].fParentDir
  BY <1>11, LookupNone, LookupUp, Zenon
<1>13. next = m
  <2>1. vnode[x].fParentDir = m \/ vnode[x].fParentDir = NoNode
    BY <1>6, Zenon DEF ChildIs
  <2> QED
    BY <1>11, <1>12, <2>1, Zenon
<1> QED
  BY <1>3, <1>13, Zenon DEF StepTo, Landed

\* What is left of the entries so far leads to where the walk is.
Follows(n, done) == done \in Seq(Plain) /\ n = WalkPath(done) /\ n # NoNode

LEMMA FollowsOn ==
  ASSUME NamesRight(vnode, fs), PlainMounts, NEW n, NEW done, Follows(n, done), NEW e \in Entries,
         Step(n, e) # NoNode
  PROVE  Follows(Step(n, e), Shorten(done, e))
<1>1. done \in Seq(Plain) /\ n = WalkPath(done) /\ n # NoNode
  BY Zenon DEF Follows
<1>2. Landed(n)
  BY <1>1, PathLands, Zenon
<1>3. CASE e = "."
  <2>1. Shorten(done, e) = done
    BY <1>3, DotsDiffer, Zenon DEF Shorten
  <2>2. Step(n, e) = n
    BY <1>2, <1>3, StepDot, Zenon
  <2> QED
    BY <2>1, <2>2, Zenon
<1>4. CASE e = ".."
  <2>1. Shorten(done, e) = IF done = << >> THEN done ELSE Front(done)
    BY <1>4, DotsDiffer, Zenon DEF Shorten
  <2>2. CASE done = << >>
    <3>1. n = Start
      BY <1>1, <2>2, WalkEmpty, Zenon
    <3>2. Step(n, e) = n
      BY <1>4, <3>1, StepUpStart, Zenon
    <3> QED
      BY <2>1, <2>2, <3>2, Zenon
  <2>3. CASE done # << >>
    <3>1. PICK q, x : q = Front(done) /\ x = Last(done)
      OBVIOUS
    <3>2. q \in Seq(Plain) /\ x \in Plain /\ done = Append(q, x)
      BY <1>1, <2>3, <3>1 DEF Front, Last
    <3>3. PICK m : m = WalkPath(q)
      OBVIOUS
    <3>4. n = Step(m, x)
      BY <1>1, <3>2, <3>3, WalkAppend, Zenon
    <3>5. m = NoNode \/ Landed(m)
      BY <3>2, <3>3, PathLands, Zenon
    <3>6. m # NoNode
      <4>1. m \in 1..Len(vnode) \/ m = NoNode
        BY <3>5, Zenon DEF Landed
      <4> QED
        BY <1>1, <3>4, <4>1, StepIs, Zenon
    <3>7. Step(n, e) = m
      BY <1>1, <1>2, <1>4, <3>2, <3>4, <3>5, <3>6, StepUp, Zenon DEF Landed
    <3>8. Shorten(done, e) = q
      BY <2>1, <2>3, <3>1, Zenon
    <3> QED
      BY <3>2, <3>3, <3>6, <3>7, <3>8, Zenon DEF Follows
  <2> QED
    BY <2>2, <2>3, Zenon
<1>5. CASE e # "." /\ e # ".."
  <2>1. Shorten(done, e) = Append(done, e)
    BY <1>5, Zenon DEF Shorten
  <2>2. e \in Plain
    BY <1>5, Zenon DEF Entries, Plain
  <2>3. WalkPath(Append(done, e)) = Step(n, e)
    BY <1>1, <2>2, WalkAppend, Zenon
  <2>4. Append(done, e) \in Seq(Plain)
    BY <1>1, <2>2
  <2> QED
    BY <2>1, <2>3, <2>4, Zenon DEF Follows
<1> QED
  BY <1>3, <1>4, <1>5, Zenon

LEMMA WalkByName ==
  ASSUME NamesRight(vnode, fs), PlainMounts, NEW path \in Seq(Entries), WalkPath(path) # NoNode
  PROVE  WalkPath(path) = WalkPath(Canonical(path))
<1>1. PICK len \in Nat : len = Len(path)
  OBVIOUS
<1>2. PICK walk : WalkPath(path) = walk[len] /\ Walked(walk, path, len)
  BY <1>1, WalkPathIs, Zenon
<1>3. PICK done : Canonical(path) = done[len] /\ Reduced(done, path, len)
  BY <1>1, CanonicalIs, Zenon
<1>4. ASSUME NEW i \in Nat, i <= len PROVE walk[i] = NoNode \/ walk[i] \in 1..Len(vnode)
  <2>1. \A n \in 1..i : n \in 1..len
    BY <1>4
  <2>2. Walked(walk, path, i)
    BY <1>2, <2>1, Zenon DEF Walked
  <2> QED
    BY <2>2, WalkLands, Zenon DEF Landed
<1> DEFINE bad == {i \in Nat : i <= len /\ walk[i] # NoNode /\ ~Follows(walk[i], done[i])}
<1>5. CASE bad = {}
  <2>1. len \in Nat /\ len <= len
    OBVIOUS
  <2>2. Follows(walk[len], done[len])
    BY <1>2, <1>5, <2>1, Zenon
  <2> QED
    BY <1>2, <1>3, <2>2, Zenon DEF Follows
<1>6. CASE bad # {}
  <2>1. bad \in SUBSET Nat
    OBVIOUS
  <2> HIDE DEF bad
  <2>2. PICK i \in bad : \A y \in bad : i <= y
    BY <1>6, <2>1, LeastNumber
  <2>3. i \in Nat /\ i <= len /\ walk[i] # NoNode /\ ~Follows(walk[i], done[i])
    BY <2>2, Zenon DEF bad
  <2>4. i # 0
    <3>1. << >> \in Seq(Plain)
      OBVIOUS
    <3>2. Follows(Start, << >>) \/ Start = NoNode
      BY <3>1, WalkEmpty, Zenon DEF Follows
    <3> QED
      BY <1>2, <1>3, <2>3, <3>2, Zenon DEF Walked, Reduced
  <2>5. i - 1 \in Nat /\ i - 1 \notin bad /\ i - 1 <= len /\ i \in 1..len
    BY <2>1, <2>2, <2>3, <2>4
  <2>6. walk[i] = Step(walk[i - 1], path[i]) /\ done[i] = Shorten(done[i - 1], path[i])
    BY <1>2, <1>3, <2>5, Zenon DEF Walked, Reduced
  <2>7. walk[i - 1] # NoNode
    <3>1. walk[i - 1] = NoNode \/ walk[i - 1] \in 1..Len(vnode)
      BY <1>4, <2>5, Zenon
    <3> QED
      BY <2>3, <2>6, <3>1, StepIs, Zenon
  <2>8. Follows(walk[i - 1], done[i - 1])
    BY <2>5, <2>7, Zenon DEF bad
  <2>9. path[i] \in Entries
    BY <1>1, <2>5
  <2> QED
    BY <2>3, <2>6, <2>8, <2>9, FollowsOn, Zenon
<1> QED
  BY <1>5, <1>6, Zenon

LEMMA PathsAreEntries ==
  ASSUME NEW path \in Paths
  PROVE  path \in Seq(Entries)
<1>1. PICK E : E = Entries
  OBVIOUS
<1>2. PICK m \in Nat : path \in [1..m -> E]
  <2>1. MaxPath \in Nat
    BY NamespaceAssumption
  <2>2. PICK m \in 0..MaxPath : path \in [1..m -> E]
    BY <1>1 DEF Paths, BoundedSeq, SeqOf
  <2> QED
    BY <2>1, <2>2
<1>3. path \in Seq(E)
  BY <1>2
<1> QED
  BY <1>1, <1>3, Zenon

LEMMA RightWalksByName == NamesRight(vnode, fs) => WalksByName
<1> SUFFICES ASSUME NamesRight(vnode, fs), PlainMounts, NEW path \in Paths, WalkPath(path) # NoNode
             PROVE  WalkPath(path) = WalkPath(Canonical(path))
  BY Zenon DEF WalksByName
<1> QED
  BY PathsAreEntries, WalkByName, Zenon

\* The nodes and file systems of w and t are those of v and s, and more, and the
\* nodes have the parents they had.
Grown(v, s, w, t) ==
  /\ Len(v) \in Nat /\ Len(w) \in Nat /\ Len(v) <= Len(w)
  /\ Len(s) \in Nat /\ Len(t) \in Nat /\ Len(s) <= Len(t)
  /\ \A n \in 1..Len(v) : w[n].fParentDir = v[n].fParentDir /\ w[n].fFileSystem = v[n].fFileSystem
  /\ \A f \in 1..Len(s) : t[f] = s[f]
  /\ \A f \in 1..Len(t) : f \notin 1..Len(s) => t[f].root \notin 1..Len(v)

LEMMA ChildStays ==
  ASSUME NEW v, NEW s, NEW w, NEW t, Grown(v, s, w, t), NEW n, NEW x, ChildIs(v, s, n, x)
  PROVE  ChildIs(w, t, n, x)
<1>1. x \in 1..Len(v) /\ x \in 1..Len(w)
  BY DEF Grown, ChildIs
<1>2. w[x].fParentDir = v[x].fParentDir
  BY <1>1, Zenon DEF Grown
<1>3. ASSUME NEW f \in 1..Len(t) PROVE t[f].root # x
  <2>1. CASE f \in 1..Len(s)
    BY <2>1, Zenon DEF Grown, ChildIs
  <2>2. CASE f \notin 1..Len(s)
    BY <1>1, <2>2, Zenon DEF Grown
  <2> QED
    BY <2>1, <2>2, Zenon
<1> QED
  BY <1>1, <1>2, <1>3, Zenon DEF ChildIs

\* A node whose entries and cover are as they were.
LEMMA NodeStays ==
  ASSUME NEW v, NEW s, NEW w, NEW t, Grown(v, s, w, t), NEW n \in 1..Len(v), NodeIs(v, s, n), w[n] = v[n]
  PROVE  NodeIs(w, t, n)
<1>1. (1..Len(s)) \subseteq (1..Len(t)) /\ (0..Len(v)) \subseteq (0..Len(w))
  BY DEF Grown
<1>2. \A e \in DOMAIN w[n].entries : ChildIs(w, t, n, w[n].entries[e])
  <2> TAKE e \in DOMAIN w[n].entries
  <2>1. PICK x : x = w[n].entries[e]
    OBVIOUS
  <2>2. ChildIs(v, s, n, x)
    BY <2>1, Zenon DEF NodeIs
  <2>3. ChildIs(w, t, n, x)
    BY <2>2, ChildStays, Zenon
  <2> QED
    BY <2>1, <2>3, Zenon
<1>3. w[n].fFileSystem \in 1..Len(t) /\ w[n].fParentDir \in 0..Len(w)
  BY <1>1 DEF NodeIs
<1>4. w[n].fCoveredBy # NoFS => (w[n].fCoveredBy \in 1..Len(t) /\ t[w[n].fCoveredBy].fCovers = n)
  <2>1. PICK c : c = w[n].fCoveredBy
    OBVIOUS
  <2>2. c # NoFS => (c \in 1..Len(s) /\ s[c].fCovers = n)
    BY <2>1, Zenon DEF NodeIs
  <2>3. c \in 1..Len(s) => (c \in 1..Len(t) /\ t[c] = s[c])
    BY <1>1 DEF Grown
  <2> QED
    BY <2>1, <2>2, <2>3, Zenon
<1> QED
  BY <1>2, <1>3, <1>4, Zenon DEF NodeIs

LEMMA SystemStays ==
  ASSUME NEW v, NEW s, NEW w, NEW t, Grown(v, s, w, t), NEW f \in 1..Len(s), SystemIs(v, s, f)
  PROVE  SystemIs(w, t, f)
<1>1. PICK r : r = s[f].root
  OBVIOUS
<1>2. r \in 1..Len(v) /\ r \in 1..Len(w) /\ s[f].fCovers \in 0..Len(w)
  BY <1>1 DEF Grown, SystemIs
<1>3. t[f] = s[f] /\ w[r].fParentDir = v[r].fParentDir /\ w[r].fFileSystem = v[r].fFileSystem
  BY <1>2, Zenon DEF Grown
<1> QED
  BY <1>1, <1>2, <1>3, Zenon DEF SystemIs

EntryMaps == UNION {[D -> Nat] : D \in SUBSET Plain}

LEMMA NodeOf ==
  ASSUME NEW v \in Seq(NodeRecords), NEW n \in 1..Len(v)
  PROVE  /\ v[n] = [fFileSystem |-> v[n].fFileSystem, fCoveredBy |-> v[n].fCoveredBy,
                    fParentDir |-> v[n].fParentDir, entries |-> v[n].entries]
         /\ v[n].fFileSystem \in Nat /\ v[n].fCoveredBy \in Nat /\ v[n].fParentDir \in Nat
         /\ v[n].entries \in EntryMaps
<1>1. v[n] \in NodeRecords
  BY ElementOfSeq
<1>2. NodeRecords = [fFileSystem : Nat, fCoveredBy : Nat, fParentDir : Nat, entries : EntryMaps]
  BY Zenon DEF NodeRecords, EntryMaps
<1> HIDE DEF EntryMaps
<1>3. PICK r, M : r = v[n] /\ M = EntryMaps
  OBVIOUS
<1>4. r \in [fFileSystem : Nat, fCoveredBy : Nat, fParentDir : Nat, entries : M]
  BY <1>1, <1>2, <1>3, Zenon
<1>5. /\ r = [fFileSystem |-> r.fFileSystem, fCoveredBy |-> r.fCoveredBy,
              fParentDir |-> r.fParentDir, entries |-> r.entries]
      /\ r.fFileSystem \in Nat /\ r.fCoveredBy \in Nat /\ r.fParentDir \in Nat /\ r.entries \in M
  BY ONLY <1>4
<1> QED
  BY <1>3, <1>5, Zenon

\* A node with these fields.
NodeFields(r, f, c, p, m) == r.fFileSystem = f /\ r.fCoveredBy = c /\ r.fParentDir = p /\ r.entries = m

LEMMA RecordIs ==
  ASSUME NEW f \in Nat, NEW c \in Nat, NEW p \in Nat, NEW m \in EntryMaps, NEW r,
         r = [fFileSystem |-> f, fCoveredBy |-> c, fParentDir |-> p, entries |-> m]
  PROVE  r \in NodeRecords /\ NodeFields(r, f, c, p, m)
<1>1. NodeRecords = [fFileSystem : Nat, fCoveredBy : Nat, fParentDir : Nat, entries : EntryMaps]
  BY Zenon DEF NodeRecords, EntryMaps
<1>2. PICK M : M = EntryMaps
  OBVIOUS
<1>3. m \in M
  BY <1>2, Zenon
<1>4. r \in [fFileSystem : Nat, fCoveredBy : Nat, fParentDir : Nat, entries : M]
  BY ONLY <1>3, f \in Nat, c \in Nat, p \in Nat, r = [fFileSystem |-> f, fCoveredBy |-> c, fParentDir |-> p, entries |-> m]
<1>5. r.fFileSystem = f /\ r.fCoveredBy = c /\ r.fParentDir = p /\ r.entries = m
  BY ONLY r = [fFileSystem |-> f, fCoveredBy |-> c, fParentDir |-> p, entries |-> m]
<1> QED
  BY <1>1, <1>2, <1>4, <1>5, Zenon DEF NodeFields

LEMMA NewNode ==
  ASSUME NEW f \in Nat, NEW p \in Nat, NEW m \in EntryMaps
  PROVE  Node(f, p, m) \in NodeRecords /\ NodeFields(Node(f, p, m), f, NoFS, p, m)
<1>1. PICK r : r = Node(f, p, m)
  OBVIOUS
<1>2. NoFS \in Nat
  BY DEF NoFS
<1>3. r = [fFileSystem |-> f, fCoveredBy |-> NoFS, fParentDir |-> p, entries |-> m]
  BY <1>1, Zenon DEF Node
<1>4. r \in NodeRecords /\ NodeFields(r, f, NoFS, p, m)
  BY <1>2, <1>3, RecordIs, Zenon
<1> QED
  BY <1>1, <1>4, Zenon

LEMMA EmptyMap == << >> \in EntryMaps /\ DOMAIN << >> = {}
<1>1. << >> \in [{} -> Nat] /\ DOMAIN << >> = {}
  OBVIOUS
<1>2. {} \in SUBSET Plain
  OBVIOUS
<1> QED
  BY <1>1, <1>2, Zenon DEF EntryMaps

\* g is m with x as the entry e.
MapPut(m, g, e, x) ==
  /\ g \in EntryMaps /\ DOMAIN g = DOMAIN m \cup {e}
  /\ g[e] = x /\ \A k \in DOMAIN m : k # e => g[k] = m[k]

LEMMA MapWith ==
  ASSUME NEW m \in EntryMaps, NEW e \in Plain, NEW x \in Nat, NEW g,
         g = [k \in DOMAIN m \cup {e} |-> IF k = e THEN x ELSE m[k]]
  PROVE  MapPut(m, g, e, x)
<1>1. PICK D \in SUBSET Plain : m \in [D -> Nat]
  BY Zenon DEF EntryMaps
<1>2. PICK P : P = Plain
  OBVIOUS
<1>3. DOMAIN m = D /\ D \cup {e} \in SUBSET P /\ e \in P
  BY <1>1, <1>2
<1>4. g \in [D \cup {e} -> Nat]
  BY <1>1, <1>3
<1>5. g \in EntryMaps
  BY <1>2, <1>3, <1>4, Zenon DEF EntryMaps
<1>6. DOMAIN g = DOMAIN m \cup {e} /\ g[e] = x /\ \A k \in DOMAIN m : k # e => g[k] = m[k]
  OBVIOUS
<1> QED
  BY <1>5, <1>6, Zenon DEF MapPut

LEMMA OneEntry ==
  ASSUME NEW e \in Plain, NEW x \in Nat, NEW g, g = [k \in {e} |-> x]
  PROVE  /\ g \in EntryMaps /\ \A k \in DOMAIN g : g[k] = x
<1>1. g \in [{e} -> Nat] /\ \A k \in DOMAIN g : g[k] = x
  OBVIOUS
<1>2. {e} \in SUBSET Plain
  OBVIOUS
<1> QED
  BY <1>1, <1>2, Zenon DEF EntryMaps

\* A new node, without entries.
LEMMA NewNodeIs ==
  ASSUME NEW v, NEW s, NEW n, NEW f \in 1..Len(s), NEW p \in 0..Len(v), NEW m,
         NodeFields(v[n], f, NoFS, p, m), \A e \in DOMAIN m : ChildIs(v, s, n, m[e])
  PROVE  NodeIs(v, s, n)
BY Zenon DEF NodeIs, NodeFields

LEMMA WalkNode ==
  ASSUME NamesRight(vnode, fs), NEW S, NEW path \in Seq(S), WalkPath(path) # NoNode
  PROVE  WalkPath(path) \in 1..Len(vnode)
BY PathLands, Zenon DEF Landed

\* A directory gets a new one as an entry.
LEMMA MakeDirRight ==
  ASSUME NamesRight(vnode, fs), NEW n \in 1..Len(vnode), NEW entry \in Plain, MakeDir(n, entry)
  PROVE  NamesRight(vnode', fs')
<1>1. /\ vnode \in Seq(NodeRecords) /\ fs \in Seq(SystemRecords) /\ 1 \in 1..Len(fs) /\ fs[1].fCovers = NoNode
      /\ \A x \in 1..Len(vnode) : NodeIs(vnode, fs, x)
      /\ \A f \in 1..Len(fs) : SystemIs(vnode, fs, f)
  BY Zenon DEF NamesRight
<1>2. PICK L \in Nat : L = Len(vnode)
  BY <1>1, LenProperties
<1>3. PICK new \in Nat : new = L + 1
  OBVIOUS
<1>4. PICK r : r = vnode[n]
  OBVIOUS
<1>5. PICK m \in EntryMaps : m = r.entries
  BY <1>1, <1>4, NodeOf, Zenon
<1>6. PICK g : g = [e \in DOMAIN m \cup {entry} |-> IF e = entry THEN new ELSE m[e]]
  OBVIOUS
<1>7. /\ g \in EntryMaps /\ DOMAIN g = DOMAIN m \cup {entry}
      /\ g[entry] = new /\ \A k \in DOMAIN m : k # entry => g[k] = m[k]
  <2>1. MapPut(m, g, entry, new)
    BY <1>6, MapWith, Zenon
  <2> QED
    BY <2>1, Zenon DEF MapPut
<1>8. PICK q : q = [r EXCEPT !.entries = g]
  OBVIOUS
<1>9. q \in NodeRecords /\ NodeFields(q, r.fFileSystem, r.fCoveredBy, r.fParentDir, g)
  <2>1. r = [fFileSystem |-> r.fFileSystem, fCoveredBy |-> r.fCoveredBy, fParentDir |-> r.fParentDir, entries |-> r.entries]
    BY <1>1, <1>4, NodeOf, Zenon
  <2>2. q = [fFileSystem |-> r.fFileSystem, fCoveredBy |-> r.fCoveredBy, fParentDir |-> r.fParentDir, entries |-> g]
    BY ONLY <1>8, <2>1
  <2>3. r.fFileSystem \in Nat /\ r.fCoveredBy \in Nat /\ r.fParentDir \in Nat
    BY <1>1, <1>4, NodeOf, Zenon
  <2> QED
    BY <1>7, <2>2, <2>3, RecordIs, Zenon
<1>10. PICK u : u = [vnode EXCEPT ![n] = q]
  OBVIOUS
<1>11. PICK d : d = Node(r.fFileSystem, n, << >>)
  OBVIOUS
<1>12. d \in NodeRecords /\ NodeFields(d, r.fFileSystem, NoFS, n, << >>)
  <2>1. r.fFileSystem \in Nat
    BY <1>1, <1>4, NodeOf, Zenon
  <2>2. n \in Nat
    BY <1>2
  <2> QED
    BY <1>11, <2>1, <2>2, EmptyMap, NewNode, Zenon
<1>13. vnode' = Append(u, d) /\ fs' = fs
  <2>1. vnode' = Append([vnode EXCEPT ![n].entries = [e \in DOMAIN @ \cup {entry} |->
                                                         IF e = entry THEN Len(vnode) + 1 ELSE @[e]]],
                         Node(vnode[n].fFileSystem, n, << >>)) /\ fs' = fs
    BY Zenon DEF MakeDir
  <2>2. PICK k : k = Len(vnode) + 1
    OBVIOUS
  <2>3. k = new
    BY <1>2, <1>3, <2>2, Zenon
  <2>4. [vnode EXCEPT ![n].entries = [e \in DOMAIN @ \cup {entry} |-> IF e = entry THEN k ELSE @[e]]]
        = [vnode EXCEPT ![n] = [r EXCEPT !.entries = [e \in DOMAIN r.entries \cup {entry} |-> IF e = entry THEN k ELSE r.entries[e]]]]
    BY <1>4, Zenon
  <2>5. [e \in DOMAIN r.entries \cup {entry} |-> IF e = entry THEN k ELSE r.entries[e]] = g
    BY <1>5, <1>6, <2>3, Zenon
  <2>6. [vnode EXCEPT ![n].entries = [e \in DOMAIN @ \cup {entry} |-> IF e = entry THEN k ELSE @[e]]] = u
    BY <1>8, <1>10, <2>4, <2>5, Zenon
  <2> QED
    BY <1>4, <1>11, <2>1, <2>2, <2>6, Zenon
<1>14. PICK w : w = vnode'
  OBVIOUS
<1>15. /\ w \in Seq(NodeRecords) /\ Len(w) = new /\ w[new] = d /\ w[n] = q
       /\ \A x \in 1..L : x # n => w[x] = vnode[x]
  <2>1. PICK N : N = NodeRecords
    OBVIOUS
  <2>2. vnode \in Seq(N) /\ q \in N /\ d \in N /\ n \in 1..L
    BY <1>1, <1>2, <1>9, <1>12, <2>1, Zenon
  <2>3. u \in Seq(N) /\ Len(u) = L /\ u[n] = q /\ \A x \in 1..L : x # n => u[x] = vnode[x]
    BY ONLY <1>2, <1>10, <2>2
  <2>4. w = Append(u, d)
    BY <1>13, <1>14, Zenon
  <2>5. w \in Seq(N) /\ Len(w) = L + 1 /\ w[L + 1] = d /\ \A x \in 1..L : w[x] = u[x]
    <3>1. u \in Seq(N) /\ Len(u) = L /\ d \in N
      BY <2>2, <2>3, Zenon
    <3>2. w \in Seq(N) /\ Len(w) = L + 1
      BY ONLY <2>4, <3>1
    <3>3. w[L + 1] = d
      BY ONLY <2>4, <3>1
    <3>4. \A x \in 1..L : w[x] = u[x]
      BY ONLY <2>4, <3>1, L \in Nat
    <3> QED
      BY <3>2, <3>3, <3>4, Zenon
  <2> QED
    BY <1>3, <2>1, <2>2, <2>3, <2>5, Zenon
<1>16. Grown(vnode, fs, w, fs)
  <2>1. Len(vnode) \in Nat /\ Len(w) \in Nat /\ Len(vnode) <= Len(w) /\ Len(fs) \in Nat /\ Len(fs) <= Len(fs)
    BY <1>1, <1>2, <1>3, <1>15, LenProperties
  <2>2. ASSUME NEW x \in 1..Len(vnode)
        PROVE  w[x].fParentDir = vnode[x].fParentDir /\ w[x].fFileSystem = vnode[x].fFileSystem
    <3>1. CASE x = n
      BY <1>4, <1>9, <1>15, <3>1, Zenon DEF NodeFields
    <3>2. CASE x # n
      BY <1>2, <1>15, <2>2, <3>2, Zenon
    <3> QED
      BY <3>1, <3>2, Zenon
  <2> QED
    BY <2>1, <2>2, Zenon DEF Grown
<1>17. n \in 1..Len(w) /\ new \in 1..Len(w) /\ n \in 0..Len(w) /\ new \notin 1..Len(vnode)
  BY <1>2, <1>3, <1>15
<1>18. ChildIs(w, fs, n, new)
  <2>1. w[new].fParentDir = n
    BY <1>12, <1>15, Zenon DEF NodeFields
  <2>2. \A f \in 1..Len(fs) : fs[f].root # new
    BY <1>1, <1>17, Zenon DEF SystemIs
  <2>3. n \in {n, NoNode}
    OBVIOUS
  <2> QED
    BY <1>17, <2>1, <2>2, <2>3, Zenon DEF ChildIs
<1>19. ASSUME NEW x \in 1..Len(w) PROVE NodeIs(w, fs, x)
  <2>1. CASE x = new
    <3>1. r.fFileSystem \in 1..Len(fs)
      BY <1>1, <1>4, Zenon DEF NodeIs
    <3>2. \A e \in DOMAIN << >> : ChildIs(w, fs, new, << >>[e])
      BY EmptyMap, Zenon
    <3>3. NodeFields(w[new], r.fFileSystem, NoFS, n, << >>)
      BY <1>12, <1>15, Zenon
    <3> QED
      BY <1>17, <2>1, <3>1, <3>2, <3>3, NewNodeIs, Zenon
  <2>2. CASE x = n
    <3>1. NodeIs(vnode, fs, n)
      BY <1>1, Zenon
    <3>2. ASSUME NEW e \in DOMAIN g PROVE ChildIs(w, fs, n, g[e])
      <4>1. CASE e = entry
        BY <1>7, <1>18, <4>1, Zenon
      <4>2. CASE e # entry
        <5>1. e \in DOMAIN m /\ g[e] = m[e]
          BY <1>7, <3>2, <4>2
        <5>2. ChildIs(vnode, fs, n, m[e])
          BY <1>4, <1>5, <3>1, <5>1, Zenon DEF NodeIs
        <5>3. ChildIs(w, fs, n, m[e])
          BY <1>16, <5>2, ChildStays, Zenon
        <5> QED
          BY <5>1, <5>3, Zenon
      <4> QED
        BY <4>1, <4>2, Zenon
    <3>3. r.fParentDir \in 0..Len(w)
      <4>1. r.fParentDir \in 0..Len(vnode)
        BY <1>4, <3>1, Zenon DEF NodeIs
      <4> QED
        BY <1>2, <1>3, <1>15, <4>1
    <3> QED
      BY <1>4, <1>9, <1>15, <2>2, <3>1, <3>2, <3>3, Zenon DEF NodeIs, NodeFields
  <2>3. CASE x # new /\ x # n
    <3>1. x \in 1..Len(vnode)
      BY <1>2, <1>3, <1>15, <1>19, <2>3
    <3>2. w[x] = vnode[x] /\ NodeIs(vnode, fs, x)
      BY <1>1, <1>2, <1>15, <2>3, <3>1, Zenon
    <3> QED
      BY <1>16, <3>1, <3>2, NodeStays, Zenon
  <2> QED
    BY <2>1, <2>2, <2>3, Zenon
<1>20. \A f \in 1..Len(fs) : SystemIs(w, fs, f)
  BY <1>1, <1>16, SystemStays, Zenon
<1>21. NamesRight(w, fs)
  BY <1>1, <1>15, <1>19, <1>20, Zenon DEF NamesRight
<1> QED
  BY <1>13, <1>14, <1>21, Zenon

\* A file system gets mounted: a root, a directory in it and a device in that.
LEMMA MountRight ==
  ASSUME NamesRight(vnode, fs), NEW path, WalkPath(path) \in 1..Len(vnode), mount(path)
  PROVE  NamesRight(vnode', fs')
<1>1. /\ vnode \in Seq(NodeRecords) /\ fs \in Seq(SystemRecords) /\ 1 \in 1..Len(fs) /\ fs[1].fCovers = NoNode
      /\ \A x \in 1..Len(vnode) : NodeIs(vnode, fs, x)
      /\ \A f \in 1..Len(fs) : SystemIs(vnode, fs, f)
  BY Zenon DEF NamesRight
<1>2. PICK L \in Nat : L = Len(vnode)
  BY <1>1, LenProperties
<1>3. PICK F \in Nat : F = Len(fs)
  BY <1>1, LenProperties
<1>4. PICK n \in 1..Len(vnode) : n = WalkPath(path)
  OBVIOUS
<1>5. PICK new : new = L + 1
  OBVIOUS
<1>6. PICK f : f = F + 1
  OBVIOUS
<1>7. PICK g : g = [e \in {disk} |-> new + 1]
  OBVIOUS
<1>8. PICK h : h = [e \in {ide0} |-> new + 2]
  OBVIOUS
<1>9. PICK a : a = Node(f, new, g)
  OBVIOUS
<1>10. PICK b : b = Node(f, new, h)
  OBVIOUS
<1>11. PICK c : c = Node(f, NoNode, << >>)
  OBVIOUS
<1>12. PICK z : z = [root |-> new, fCovers |-> n]
  OBVIOUS
<1>13. PICK r : r = vnode[n]
  OBVIOUS
<1>14. PICK q : q = [r EXCEPT !.fCoveredBy = f]
  OBVIOUS
<1>15. vnode' = [vnode EXCEPT ![n] = q] \o <<a, b, c>> /\ fs' = Append(fs, z)
  <2>1. /\ vnode' = [vnode EXCEPT ![n].fCoveredBy = f] \o
                    << Node(f, new, [e \in {disk} |-> new + 1]),
                       Node(f, new, [e \in {ide0} |-> new + 2]),
                       Node(f, NoNode, << >>) >>
        /\ fs' = Append(fs, [root |-> new, fCovers |-> n])
    BY <1>2, <1>3, <1>4, <1>5, <1>6, Zenon DEF mount
  <2>2. [vnode EXCEPT ![n].fCoveredBy = f] = [vnode EXCEPT ![n] = [r EXCEPT !.fCoveredBy = f]]
    BY <1>13, Zenon
  <2> QED
    BY <1>7, <1>8, <1>9, <1>10, <1>11, <1>12, <1>14, <2>1, <2>2, Zenon
<1>16. new \in Nat /\ new + 1 \in Nat /\ new + 2 \in Nat /\ f \in Nat /\ f # NoFS /\ n \in Nat /\ NoNode \in Nat
  BY <1>2, <1>3, <1>4, <1>5, <1>6 DEF NoFS, NoNode
<1>17. /\ g \in EntryMaps /\ \A k \in DOMAIN g : g[k] = new + 1
       /\ h \in EntryMaps /\ \A k \in DOMAIN h : h[k] = new + 2
  <2>1. disk \in Plain /\ ide0 \in Plain
    BY DEF Plain
  <2> QED
    BY <1>7, <1>8, <1>16, <2>1, OneEntry, Zenon
<1>18. /\ a \in NodeRecords /\ NodeFields(a, f, NoFS, new, g)
       /\ b \in NodeRecords /\ NodeFields(b, f, NoFS, new, h)
       /\ c \in NodeRecords /\ NodeFields(c, f, NoFS, NoNode, << >>)
  BY <1>9, <1>10, <1>11, <1>16, <1>17, EmptyMap, NewNode, Zenon
<1>19. q \in NodeRecords /\ NodeFields(q, r.fFileSystem, f, r.fParentDir, r.entries)
  <2>1. r = [fFileSystem |-> r.fFileSystem, fCoveredBy |-> r.fCoveredBy, fParentDir |-> r.fParentDir, entries |-> r.entries]
    BY <1>1, <1>13, NodeOf, Zenon
  <2>2. q = [fFileSystem |-> r.fFileSystem, fCoveredBy |-> f, fParentDir |-> r.fParentDir, entries |-> r.entries]
    BY ONLY <1>14, <2>1
  <2>3. r.fFileSystem \in Nat /\ r.fParentDir \in Nat /\ r.entries \in EntryMaps
    BY <1>1, <1>13, NodeOf, Zenon
  <2> QED
    BY <1>16, <2>2, <2>3, RecordIs, Zenon
<1>20. PICK w : w = vnode'
  OBVIOUS
<1>21. PICK t : t = fs'
  OBVIOUS
<1>22. /\ w \in Seq(NodeRecords) /\ Len(w) = new + 2 /\ w[n] = q
       /\ w[new] = a /\ w[new + 1] = b /\ w[new + 2] = c
       /\ \A x \in 1..L : x # n => w[x] = vnode[x]
  <2>1. PICK N : N = NodeRecords
    OBVIOUS
  <2>2. vnode \in Seq(N) /\ q \in N /\ a \in N /\ b \in N /\ c \in N /\ n \in 1..L
    BY <1>1, <1>2, <1>4, <1>18, <1>19, <2>1, Zenon
  <2>3. PICK u : u = [vnode EXCEPT ![n] = q]
    OBVIOUS
  <2>4. u \in Seq(N) /\ Len(u) = L /\ u[n] = q /\ \A x \in 1..L : x # n => u[x] = vnode[x]
    BY ONLY <1>2, <2>2, <2>3
  <2>5. w = u \o <<a, b, c>>
    BY <1>15, <1>20, <2>3, Zenon
  <2>6. /\ w \in Seq(N) /\ Len(w) = L + 3 /\ \A x \in 1..L : w[x] = u[x]
        /\ w[L + 1] = a /\ w[L + 2] = b /\ w[L + 3] = c
    BY ONLY <2>2, <2>4, <2>5, L \in Nat
  <2>7. new + 1 = L + 2 /\ new + 2 = L + 3
    BY <1>5
  <2> QED
    BY <1>5, <2>1, <2>2, <2>4, <2>6, <2>7, Zenon
<1>23. /\ t \in Seq(SystemRecords) /\ Len(t) = f /\ t[f] = z /\ \A k \in 1..F : t[k] = fs[k]
       /\ z.root = new /\ z.fCovers = n
  <2>1. z \in SystemRecords /\ z.root = new /\ z.fCovers = n
    BY ONLY <1>12, <1>16 DEF SystemRecords
  <2>2. PICK N : N = SystemRecords
    OBVIOUS
  <2>3. fs \in Seq(N) /\ z \in N /\ t = Append(fs, z)
    BY <1>1, <1>15, <1>21, <2>1, <2>2, Zenon
  <2>4. t \in Seq(N) /\ Len(t) = F + 1 /\ t[F + 1] = z /\ \A k \in 1..F : t[k] = fs[k]
    BY ONLY <1>3, <2>3, F \in Nat
  <2> QED
    BY <1>6, <2>1, <2>2, <2>4, Zenon
<1>24. /\ new \in 1..Len(w) /\ new + 1 \in 1..Len(w) /\ new + 2 \in 1..Len(w) /\ new \notin 1..Len(vnode)
       /\ new \in 0..Len(w) /\ NoNode \in 0..Len(w) /\ n \in 1..Len(w) /\ n \in 0..Len(w)
       /\ new + 1 # new /\ new + 2 # new /\ new + 1 \notin 1..Len(vnode) /\ new + 2 \notin 1..Len(vnode)
  BY <1>2, <1>4, <1>5, <1>16, <1>22 DEF NoNode
<1>25. f \in 1..Len(t) /\ f \notin 1..Len(fs) /\ 1 \in 1..Len(t) /\ \A k \in 1..Len(t) : k # f => k \in 1..Len(fs)
  BY <1>1, <1>3, <1>6, <1>23
<1>26. Grown(vnode, fs, w, t)
  <2>1. Len(vnode) \in Nat /\ Len(w) \in Nat /\ Len(vnode) <= Len(w) /\ Len(fs) \in Nat /\ Len(t) \in Nat /\ Len(fs) <= Len(t)
    BY <1>2, <1>3, <1>5, <1>6, <1>22, <1>23
  <2>2. ASSUME NEW x \in 1..Len(vnode)
        PROVE  w[x].fParentDir = vnode[x].fParentDir /\ w[x].fFileSystem = vnode[x].fFileSystem
    <3>1. CASE x = n
      BY <1>13, <1>19, <1>22, <3>1, Zenon DEF NodeFields
    <3>2. CASE x # n
      BY <1>2, <1>22, <2>2, <3>2, Zenon
    <3> QED
      BY <3>1, <3>2, Zenon
  <2>3. \A k \in 1..Len(fs) : t[k] = fs[k]
    BY <1>3, <1>23, Zenon
  <2>4. \A k \in 1..Len(t) : k \notin 1..Len(fs) => t[k].root \notin 1..Len(vnode)
    BY <1>23, <1>24, <1>25, Zenon
  <2> QED
    BY <2>1, <2>2, <2>3, <2>4, Zenon DEF Grown
<1>27. ASSUME NEW x, x \notin 1..Len(vnode), x # new PROVE \A k \in 1..Len(t) : t[k].root # x
  <2>1. \A k \in 1..Len(fs) : fs[k].root \in 1..Len(vnode)
    BY <1>1, Zenon DEF SystemIs
  <2>2. \A k \in 1..Len(fs) : t[k] = fs[k]
    BY <1>3, <1>23, Zenon
  <2> QED
    BY <1>23, <1>25, <1>27, <2>1, <2>2, Zenon
<1>28. ChildIs(w, t, new, new + 1) /\ ChildIs(w, t, new + 1, new + 2)
  <2>1. w[new + 1].fParentDir = new /\ w[new + 2].fParentDir = NoNode
    BY <1>18, <1>22, Zenon DEF NodeFields
  <2>2. new \in {new, NoNode} /\ NoNode \in {new + 1, NoNode}
    OBVIOUS
  <2> QED
    BY <1>24, <1>27, <2>1, <2>2, Zenon DEF ChildIs
<1>29. ASSUME NEW x \in 1..Len(w) PROVE NodeIs(w, t, x)
  <2>1. CASE x = new
    <3>1. NodeFields(w[new], f, NoFS, new, g) /\ \A e \in DOMAIN g : ChildIs(w, t, new, g[e])
      BY <1>17, <1>18, <1>22, <1>28, Zenon
    <3> QED
      BY <1>24, <1>25, <2>1, <3>1, NewNodeIs, Zenon
  <2>2. CASE x = new + 1
    <3>1. NodeFields(w[x], f, NoFS, new, h) /\ \A e \in DOMAIN h : ChildIs(w, t, x, h[e])
      BY <1>17, <1>18, <1>22, <1>28, <2>2, Zenon
    <3> QED
      BY <1>24, <1>25, <3>1, NewNodeIs, Zenon
  <2>3. CASE x = new + 2
    <3>1. NodeFields(w[x], f, NoFS, NoNode, << >>) /\ \A e \in DOMAIN << >> : ChildIs(w, t, x, << >>[e])
      BY <1>18, <1>22, <2>3, EmptyMap, Zenon
    <3> QED
      BY <1>24, <1>25, <3>1, NewNodeIs, Zenon
  <2>4. CASE x = n
    <3>1. NodeIs(vnode, fs, n)
      BY <1>1, Zenon
    <3>2. \A e \in DOMAIN r.entries : ChildIs(w, t, n, r.entries[e])
      BY <1>13, <1>26, <3>1, ChildStays, Zenon DEF NodeIs
    <3>3. r.fParentDir \in 0..Len(w) /\ r.fFileSystem \in 1..Len(t)
      <4>1. r.fParentDir \in 0..Len(vnode) /\ r.fFileSystem \in 1..Len(fs)
        BY <1>13, <3>1, Zenon DEF NodeIs
      <4> QED
        BY <1>2, <1>3, <1>5, <1>6, <1>22, <1>23, <4>1
    <3>4. f \in 1..Len(t) /\ t[f].fCovers = n
      BY <1>23, <1>25, Zenon
    <3> QED
      BY <1>19, <1>22, <2>4, <3>2, <3>3, <3>4, Zenon DEF NodeIs, NodeFields
  <2>5. CASE x # new /\ x # new + 1 /\ x # new + 2 /\ x # n
    <3>1. x \in 1..Len(vnode)
      BY <1>2, <1>5, <1>22, <1>29, <2>5
    <3>2. w[x] = vnode[x] /\ NodeIs(vnode, fs, x)
      BY <1>1, <1>2, <1>22, <2>5, <3>1, Zenon
    <3> QED
      BY <1>26, <3>1, <3>2, NodeStays, Zenon
  <2> QED
    BY <2>1, <2>2, <2>3, <2>4, <2>5, Zenon
<1>30. ASSUME NEW k \in 1..Len(t) PROVE SystemIs(w, t, k)
  <2>1. CASE k = f
    BY <1>18, <1>22, <1>23, <1>24, <2>1, Zenon DEF SystemIs, NodeFields
  <2>2. CASE k # f
    BY <1>1, <1>25, <1>26, <1>30, <2>2, SystemStays, Zenon
  <2> QED
    BY <2>1, <2>2, Zenon
<1>31. t[1].fCovers = NoNode
  BY <1>1, <1>3, <1>23, Zenon
<1>32. NamesRight(w, t)
  BY <1>22, <1>23, <1>25, <1>29, <1>30, <1>31, Zenon DEF NamesRight
<1> QED
  BY <1>20, <1>21, <1>32, Zenon

LEMMA MkdirRight ==
  ASSUME NamesRight(vnode, fs), NEW path \in Seq(Entries), mkdir(path)
  PROVE  NamesRight(vnode', fs')
<1>1. path # << >> /\ Last(path) \in Names
  BY Zenon DEF mkdir
<1>2. WalkPath(Front(path)) # NoNode /\ MakeDir(WalkPath(Front(path)), Last(path))
  BY Zenon DEF mkdir
<1>3. Front(path) \in Seq(Entries)
  <2>1. PICK E : E = Entries
    OBVIOUS
  <2>2. path \in Seq(E)
    BY <2>1, Zenon
  <2>3. SubSeq(path, 1, Len(path) - 1) \in Seq(E)
    BY ONLY <1>1, <2>2
  <2> QED
    BY <2>1, <2>3, Zenon DEF Front
<1>4. WalkPath(Front(path)) \in 1..Len(vnode)
  BY <1>2, <1>3, WalkNode, Zenon
<1>5. Last(path) \in Plain
  BY <1>1 DEF Plain
<1> QED
  BY <1>2, <1>4, <1>5, MakeDirRight, Zenon

LEMMA NamesRightFirst == NameInit => NamesRight(vnode, fs)
<1> SUFFICES ASSUME NameInit PROVE NamesRight(vnode, fs)
  OBVIOUS
<1>1. PICK d : d = Node(1, 1, << >>)
  OBVIOUS
<1>2. PICK z : z = [root |-> 1, fCovers |-> NoNode]
  OBVIOUS
<1>3. vnode = <<d>> /\ fs = <<z>>
  BY <1>1, <1>2, Zenon DEF NameInit, fRootFileSystem
<1>4. d \in NodeRecords /\ NodeFields(d, 1, NoFS, 1, << >>)
  <2>1. 1 \in Nat
    OBVIOUS
  <2> QED
    BY <1>1, <2>1, EmptyMap, NewNode, Zenon
<1>5. z \in SystemRecords /\ z.root = 1 /\ z.fCovers = NoNode
  BY ONLY <1>2 DEF SystemRecords, NoNode
<1>6. /\ vnode \in Seq(NodeRecords) /\ Len(vnode) = 1 /\ vnode[1] = d
      /\ fs \in Seq(SystemRecords) /\ Len(fs) = 1 /\ fs[1] = z
  <2>1. PICK N : N = NodeRecords
    OBVIOUS
  <2>2. PICK M : M = SystemRecords
    OBVIOUS
  <2>3. d \in N /\ z \in M
    BY <1>4, <1>5, <2>1, <2>2, Zenon
  <2>4. /\ vnode \in Seq(N) /\ Len(vnode) = 1 /\ vnode[1] = d
        /\ fs \in Seq(M) /\ Len(fs) = 1 /\ fs[1] = z
    BY ONLY <1>3, <2>3
  <2> QED
    BY <2>1, <2>2, <2>4, Zenon
<1>7. /\ 1 \in 1..Len(vnode) /\ 1 \in 0..Len(vnode) /\ 1 \in 1..Len(fs) /\ NoNode \in 0..Len(vnode)
      /\ (\A x \in 1..Len(vnode) : x = 1) /\ \A f \in 1..Len(fs) : f = 1
  BY <1>6 DEF NoNode
<1>8. NodeIs(vnode, fs, 1)
  <2>1. NodeFields(vnode[1], 1, NoFS, 1, << >>) /\ \A e \in DOMAIN << >> : ChildIs(vnode, fs, 1, << >>[e])
    BY <1>4, <1>6, EmptyMap, Zenon
  <2> QED
    BY <1>7, <2>1, NewNodeIs, Zenon
<1>9. SystemIs(vnode, fs, 1)
  BY <1>4, <1>5, <1>6, <1>7, Zenon DEF SystemIs, NodeFields
<1> QED
  BY <1>5, <1>6, <1>7, <1>8, <1>9, Zenon DEF NamesRight

LEMMA NamesRightNext == NamesRight(vnode, fs) /\ [NameNext]_nameVars => NamesRight(vnode', fs')
<1> SUFFICES ASSUME NamesRight(vnode, fs), [NameNext]_nameVars PROVE NamesRight(vnode', fs')
  OBVIOUS
<1>1. CASE NameNext
  <2>1. PICK path \in Paths : mkdir(path) \/ mount(path)
    BY <1>1, Zenon DEF NameNext
  <2>2. path \in Seq(Entries)
    BY <2>1, PathsAreEntries, Zenon
  <2>3. CASE mkdir(path)
    BY <2>2, <2>3, MkdirRight, Zenon
  <2>4. CASE mount(path)
    <3>1. WalkPath(path) # NoNode
      BY <2>4, Zenon DEF mount
    <3> QED
      BY <2>2, <2>4, <3>1, WalkNode, MountRight, Zenon
  <2> QED
    BY <2>1, <2>3, <2>4, Zenon
<1>2. CASE UNCHANGED nameVars
  <2>1. vnode' = vnode /\ fs' = fs
    BY <1>2, Zenon DEF nameVars
  <2> QED
    BY <2>1, Zenon
<1> QED
  BY <1>1, <1>2, Zenon

\* The names on a path tell where WalkPath ends, whatever directories mkdir has
\* made and whatever file systems mount has mounted where, and however long the
\* path is.
THEOREM NamespaceWalksByName == NameSpec => []WalksByName
<1> DEFINE Right == NamesRight(vnode, fs)
<1>1. NameInit => Right
  BY NamesRightFirst, Zenon
<1>2. Right /\ [NameNext]_nameVars => Right'
  BY NamesRightNext, Zenon
<1>3. Right => WalksByName
  BY RightWalksByName, Zenon
<1> QED
  BY <1>1, <1>2, <1>3, PTL DEF NameSpec

-----------------------------------------------------------------------------
(* PageTables. *)

LEMMA TableSizes == DirectorySize \in Nat \ {0} /\ TableSize \in Nat \ {0}
BY PageTablesAssumption

LEMMA LeastOfTwo ==
  ASSUME NEW a \in Int, NEW b \in Int
  PROVE  Min({a, b}) = IF a <= b THEN a ELSE b
<1>1. PICK c \in {a, b} : \A y \in {a, b} : c <= y
  OBVIOUS
<1>2. PICK x : x = Min({a, b})
  OBVIOUS
<1>3. x \in {a, b} /\ \A y \in {a, b} : x <= y
  BY <1>1, <1>2, Zenon DEF Min
<1> QED
  BY <1>2, <1>3

\* The place of an address in a table.
LEMMA PlaceOf ==
  ASSUME NEW p \in Nat, NEW t \in 0..(TableSize - 1), NEW v \in Int, v = p * TableSize + t
  PROVE  v \div TableSize = p /\ v % TableSize = t
BY TableSizes, DivMod

\* The entries for the addresses from low to below high.
Reached(dir, low, high) ==
  {<<dir[v \div TableSize], v % TableSize>> : v \in {u \in low..(high - 1) : dir[u \div TableSize] # NotPresent}}

ReachedTo(dir, low, mid, high) == Reached(dir, low, high) = Reached(dir, low, mid) \cup Reached(dir, mid, high)

LEMMA ReachedJoin ==
  ASSUME NEW dir, NEW low \in Int, NEW mid \in Int, NEW high \in Int, low <= mid, mid <= high
  PROVE  ReachedTo(dir, low, mid, high)
<1>1. \A v : v \in low..(high - 1) <=> v \in low..(mid - 1) \/ v \in mid..(high - 1)
  OBVIOUS
<1> QED
  BY ONLY <1>1 DEF Reached, ReachedTo

LEMMA ReachedNone ==
  ASSUME NEW dir, NEW low \in Int
  PROVE  Reached(dir, low, low) = {}
<1>1. \A v : v \notin low..(low - 1)
  OBVIOUS
<1> QED
  BY ONLY <1>1 DEF Reached

\* A stretch of addresses that one table is for.
Stretched(p, t, h, pos) ==
  \A v \in pos..(pos + h - 1) : v - pos \in 0..(h - 1) /\ v \div TableSize = p /\ v % TableSize = t + (v - pos)

LEMMA Stretch ==
  ASSUME NEW p \in Nat, NEW t \in 0..(TableSize - 1), NEW h \in Nat, t + h <= TableSize,
         NEW pos \in Nat, pos = p * TableSize + t
  PROVE  Stretched(p, t, h, pos)
<1> SUFFICES \A v \in pos..(pos + h - 1) : v - pos \in 0..(h - 1) /\ v \div TableSize = p /\ v % TableSize = t + (v - pos)
  BY Zenon DEF Stretched
<1> TAKE v \in pos..(pos + h - 1)
<1>1. PICK i \in 0..(h - 1) : i = v - pos
  OBVIOUS
<1>2. PICK j \in Nat : j = t + i
  OBVIOUS
<1>3. j \in 0..(TableSize - 1)
  BY <1>1, <1>2, TableSizes
<1>4. PICK q \in Int : q = p * TableSize
  BY TableSizes
<1>5. v = q + j
  BY <1>1, <1>2, <1>4
<1>6. v \div TableSize = p /\ v % TableSize = j
  BY <1>3, <1>4, <1>5, PlaceOf
<1> QED
  BY <1>1, <1>2, <1>6, Zenon

LEMMA ReachedAbsent ==
  ASSUME NEW dir, NEW p \in Nat, NEW t \in 0..(TableSize - 1), NEW h \in Nat, t + h <= TableSize,
         NEW pos \in Nat, pos = p * TableSize + t, dir[p] = NotPresent
  PROVE  Reached(dir, pos, pos + h) = {}
<1>1. Stretched(p, t, h, pos)
  BY Stretch, Zenon
<1>2. \A v \in pos..(pos + h - 1) : v \div TableSize = p
  BY <1>1, Zenon DEF Stretched
<1> QED
  BY ONLY <1>2, dir[p] = NotPresent DEF Reached

ReachedHere(dir, p, t, h, pos) == Reached(dir, pos, pos + h) = {<<dir[p], t + i>> : i \in 0..(h - 1)}

LEMMA ReachedTable ==
  ASSUME NEW dir, NEW p \in Nat, NEW t \in 0..(TableSize - 1), NEW h \in Nat, t + h <= TableSize,
         NEW pos \in Nat, pos = p * TableSize + t, dir[p] # NotPresent
  PROVE  ReachedHere(dir, p, t, h, pos)
<1>0. Stretched(p, t, h, pos)
  BY Stretch, Zenon
<1>1. \A v \in pos..(pos + h - 1) : v - pos \in 0..(h - 1) /\ v \div TableSize = p /\ v % TableSize = t + (v - pos)
  BY <1>0, Zenon DEF Stretched
<1>2. ASSUME NEW e \in Reached(dir, pos, pos + h) PROVE e \in {<<dir[p], t + i>> : i \in 0..(h - 1)}
  <2>1. PICK v \in pos..(pos + h - 1) : e = <<dir[v \div TableSize], v % TableSize>>
    BY ONLY <1>2 DEF Reached
  <2>2. PICK i : i = v - pos
    OBVIOUS
  <2>3. i \in 0..(h - 1) /\ e = <<dir[p], t + i>>
    BY <1>1, <2>1, <2>2, Zenon
  <2> QED
    BY <2>3, Zenon
<1>3. ASSUME NEW i \in 0..(h - 1) PROVE <<dir[p], t + i>> \in Reached(dir, pos, pos + h)
  <2>1. PICK v \in pos..(pos + h - 1) : i = v - pos
    <3>1. pos + i \in pos..(pos + h - 1) /\ i = (pos + i) - pos
      OBVIOUS
    <3> QED
      BY <3>1, Zenon
  <2>2. v \div TableSize = p /\ v % TableSize = t + i
    BY <1>1, <2>1, Zenon
  <2>3. dir[v \div TableSize] # NotPresent /\ <<dir[p], t + i>> = <<dir[v \div TableSize], v % TableSize>>
    BY <2>2, Zenon
  <2> QED
    BY ONLY <2>1, <2>3 DEF Reached
<1>4. \A e \in {<<dir[p], t + i>> : i \in 0..(h - 1)} : e \in Reached(dir, pos, pos + h)
  BY <1>3, Zenon
<1> QED
  BY <1>2, <1>4, Zenon DEF ReachedHere

\* Where Unmap's loop is after k rounds: at an address, having come to all entries
\* below it, or at the end.
RoundsDone(dir, va, count, k, w) ==
  /\ w.count \in Int
  /\ w.count <= 0 => w.clears = Reached(dir, va, va + count)
  /\ w.count > 0 => /\ w.pdindex = (va \div TableSize) + k /\ w.ptindex \in 0..(TableSize - 1)
                    /\ \E pos \in Nat : /\ pos = w.pdindex * TableSize + w.ptindex
                                        /\ va <= pos /\ pos + w.count = va + count
                                        /\ w.clears = Reached(dir, va, pos)

\* A round that comes to the entries of h pages of a table, at t in it, and goes on
\* at the next table, or is the last.
TableTurn(dir, va, count, k, p, t, left, h, pos, w) ==
  /\ p = (va \div TableSize) + k /\ pos = p * TableSize + t /\ va <= pos /\ pos + left = va + count
  /\ h <= left /\ (h < left => h = TableSize - t)
  /\ w.count = left - h /\ w.pdindex = p + 1 /\ w.ptindex = 0
  /\ w.clears = Reached(dir, va, pos) \cup Reached(dir, pos, pos + h)

LEMMA NextTable ==
  ASSUME NEW dir, NEW va \in Nat, NEW count \in Nat, NEW k \in Nat, NEW p \in Nat,
         NEW t \in 0..(TableSize - 1), NEW left \in Nat, NEW h \in Nat, NEW pos \in Nat, NEW w,
         TableTurn(dir, va, count, k, p, t, left, h, pos, w)
  PROVE  RoundsDone(dir, va, count, k + 1, w)
<1>0. /\ p = (va \div TableSize) + k /\ pos = p * TableSize + t /\ va <= pos /\ pos + left = va + count
      /\ h <= left /\ (h < left => h = TableSize - t)
      /\ w.count = left - h /\ w.pdindex = p + 1 /\ w.ptindex = 0
      /\ w.clears = Reached(dir, va, pos) \cup Reached(dir, pos, pos + h)
  BY Zenon DEF TableTurn
<1>1. PICK next \in Nat : next = pos + h
  BY <1>0
<1>2. w.clears = Reached(dir, va, next)
  <2>1. va <= pos /\ pos <= next /\ va \in Int /\ pos \in Int /\ next \in Int
    BY <1>0, <1>1
  <2>2. ReachedTo(dir, va, pos, next)
    BY <1>0, <2>1, ReachedJoin, Zenon
  <2> QED
    BY <1>0, <1>1, <2>2, Zenon DEF ReachedTo
<1>3. w.count \in Int
  BY <1>0
<1>4. CASE w.count <= 0
  <2>1. next = va + count
    BY <1>0, <1>1, <1>4
  <2> QED
    BY <1>0, <1>2, <1>3, <1>4, <2>1 DEF RoundsDone
<1>5. CASE w.count > 0
  <2>1. h = TableSize - t
    BY <1>0, <1>5
  <2>2. (p + 1) * TableSize = p * TableSize + TableSize
    BY <1>0, TableSizes
  <2>3. PICK q \in Int : q = p * TableSize
    BY ONLY p \in Nat, TableSizes
  <2>4. next = (p + 1) * TableSize + 0
    BY <1>0, <1>1, <2>1, <2>2, <2>3, TableSizes
  <2>5. w.pdindex = (va \div TableSize) + (k + 1)
    <3>1. PICK u \in Nat : u = va \div TableSize
      BY TableSizes, QuotientRemainder, Zenon
    <3>2. w.pdindex = p + 1 /\ p = u + k
      BY <1>0, <3>1, Zenon
    <3>3. w.pdindex = u + (k + 1)
      BY ONLY <3>2, u \in Nat, k \in Nat
    <3> QED
      BY <3>1, <3>3, Zenon
  <2>6. va <= next /\ next + w.count = va + count
    BY <1>0, <1>1
  <2>7. w.ptindex \in 0..(TableSize - 1)
    BY <1>0, TableSizes
  <2>8. next = w.pdindex * TableSize + w.ptindex
    BY <1>0, <2>4, Zenon
  <2>9. ~(w.count <= 0)
    BY <1>0, <1>5, <1>3
  <2> QED
    BY <1>0, <1>2, <1>3, <2>5, <2>6, <2>7, <2>8, <2>9, Zenon DEF RoundsDone
<1> QED
  BY <1>0, <1>3, <1>4, <1>5

LEMMA RoundRight ==
  ASSUME NEW dir, NEW va \in Nat, NEW count \in Nat, NEW k \in Nat, NEW w, RoundsDone(dir, va, count, k, w)
  PROVE  RoundsDone(dir, va, count, k + 1, UnmapRound(dir, w))
<1>0. PICK c \in Int : c = w.count
  BY Zenon DEF RoundsDone
<1>1. CASE c <= 0
  <2>2. w.count <= 0 /\ ~(w.count > 0)
    BY <1>0, <1>1
  <2>1. UnmapRound(dir, w) = w
    BY <2>2, Zenon DEF UnmapRound
  <2> QED
    BY <2>1, <2>2, Zenon DEF RoundsDone
<1>2. CASE c > 0
  <2>1. PICK p \in Nat : p = w.pdindex /\ p = (va \div TableSize) + k
    <3>1. w.pdindex = (va \div TableSize) + k
      BY <1>0, <1>2, Zenon DEF RoundsDone
    <3>2. va \div TableSize \in Nat
      BY TableSizes, QuotientRemainder, Zenon
    <3>3. (va \div TableSize) + k \in Nat
      BY <3>2
    <3> QED
      BY <3>1, <3>3, Zenon
  <2>2. PICK t \in 0..(TableSize - 1) : t = w.ptindex
    BY <1>0, <1>2, Zenon DEF RoundsDone
  <2>3. PICK pos \in Nat : /\ pos = p * TableSize + t
                           /\ va <= pos /\ pos + c = va + count
                           /\ w.clears = Reached(dir, va, pos)
    BY <1>0, <1>2, <2>1, <2>2, Zenon DEF RoundsDone
  <2>4. PICK here \in Nat : here = Min({c, TableSize - t}) /\ here = IF c <= TableSize - t THEN c ELSE TableSize - t
    BY <1>2, TableSizes, LeastOfTwo
  <2>5. ~(c <= 0)
    BY <1>2
  <2>6. PICK n : n = UnmapRound(dir, w)
    OBVIOUS
  <2>7. n = IF dir[p] = NotPresent
            THEN IF t + c < TableSize
                 THEN [pdindex |-> p, ptindex |-> t, count |-> 0, clears |-> w.clears]
                 ELSE [pdindex |-> p + 1, ptindex |-> 0, count |-> c - (TableSize - t), clears |-> w.clears]
            ELSE [pdindex |-> p + 1, ptindex |-> 0, count |-> c - here,
                  clears |-> w.clears \cup {<<dir[p], t + i>> : i \in 0..(here - 1)}]
    BY <1>0, <1>2, <2>1, <2>2, <2>4, <2>5, <2>6, Zenon DEF UnmapRound
  <2>8. CASE dir[p] = NotPresent /\ t + c < TableSize
    <3>1. n = [pdindex |-> p, ptindex |-> t, count |-> 0, clears |-> w.clears]
      BY <2>7, <2>8, Zenon
    <3>2. n.count = 0 /\ n.clears = Reached(dir, va, pos)
      BY ONLY <2>3, <3>1
    <3>3. c \in Nat /\ t + c <= TableSize
      BY <1>2, <2>8, TableSizes
    <3>4. Reached(dir, pos, pos + c) = {}
      BY <2>3, <2>8, <3>3, ReachedAbsent, Zenon
    <3>5. Reached(dir, va, pos + c) = Reached(dir, va, pos) \cup Reached(dir, pos, pos + c)
      <4>1. va \in Int /\ pos \in Int /\ pos + c \in Int /\ va <= pos /\ pos <= pos + c
        BY <1>2, <2>3
      <4>2. ReachedTo(dir, va, pos, pos + c)
        BY <4>1, ReachedJoin, Zenon
      <4> QED
        BY <4>2, Zenon DEF ReachedTo
    <3>6. n.clears = Reached(dir, va, va + count)
      BY ONLY <2>3, <3>2, <3>4, <3>5
    <3> QED
      BY <2>6, <3>2, <3>6 DEF RoundsDone
  <2>9. CASE dir[p] = NotPresent /\ ~(t + c < TableSize)
    <3>1. n = [pdindex |-> p + 1, ptindex |-> 0, count |-> c - (TableSize - t), clears |-> w.clears]
      BY <2>7, <2>9, Zenon
    <3>2. PICK h \in Nat : h = TableSize - t
      BY TableSizes
    <3>3. c \in Nat /\ t + h <= TableSize /\ h <= c
      BY <1>2, <2>9, <3>2, TableSizes
    <3>4. Reached(dir, pos, pos + h) = {}
      BY <2>3, <2>9, <3>3, ReachedAbsent, Zenon
    <3>5. n.count = c - h /\ n.pdindex = p + 1 /\ n.ptindex = 0 /\ n.clears = Reached(dir, va, pos)
      BY ONLY <2>3, <3>1, <3>2
    <3>6. n.clears = Reached(dir, va, pos) \cup Reached(dir, pos, pos + h)
      BY ONLY <3>4, <3>5
    <3>7. RoundsDone(dir, va, count, k + 1, n)
      <4>1. TableTurn(dir, va, count, k, p, t, c, h, pos, n)
        BY <2>1, <2>3, <3>2, <3>3, <3>5, <3>6, Zenon DEF TableTurn
      <4> QED
        BY <3>3, <4>1, NextTable, Zenon
    <3> QED
      BY <2>6, <3>7, Zenon
  <2>10. CASE dir[p] # NotPresent
    <3>1. n = [pdindex |-> p + 1, ptindex |-> 0, count |-> c - here,
               clears |-> w.clears \cup {<<dir[p], t + i>> : i \in 0..(here - 1)}]
      BY <2>7, <2>10, Zenon
    <3>2. c \in Nat /\ t + here <= TableSize /\ here <= c /\ (here < c => here = TableSize - t)
      BY <1>2, <2>4, TableSizes
    <3>3. Reached(dir, pos, pos + here) = {<<dir[p], t + i>> : i \in 0..(here - 1)}
      <4>1. ReachedHere(dir, p, t, here, pos)
        BY <2>3, <2>10, <3>2, ReachedTable, Zenon
      <4> QED
        BY <4>1, Zenon DEF ReachedHere
    <3>4. n.count = c - here /\ n.pdindex = p + 1 /\ n.ptindex = 0
          /\ n.clears = Reached(dir, va, pos) \cup Reached(dir, pos, pos + here)
      BY ONLY <2>3, <3>1, <3>3
    <3>5. RoundsDone(dir, va, count, k + 1, n)
      <4>1. TableTurn(dir, va, count, k, p, t, c, here, pos, n)
        BY <2>1, <2>3, <3>2, <3>4, Zenon DEF TableTurn
      <4> QED
        BY <3>2, <4>1, NextTable, Zenon
    <3> QED
      BY <2>6, <3>5, Zenon
  <2> QED
    BY <2>8, <2>9, <2>10
<1> QED
  BY <1>1, <1>2

\* The rounds of Unmap's loop exist: the first number of rounds for which they did
\* not would be one more than a number for which they do.
UnmapStart(va, count) ==
  [pdindex |-> va \div TableSize, ptindex |-> va % TableSize, count |-> count, clears |-> {}]

Loops(f, dir, s, i) == f = [n \in 0..i |-> IF n = 0 THEN s ELSE UnmapRound(dir, f[n - 1])]

LEMMA LoopsExist ==
  ASSUME NEW dir, NEW s, NEW len \in Nat
  PROVE  \E f : Loops(f, dir, s, len)
<1> DEFINE bad == {i \in Nat : ~ \E f : Loops(f, dir, s, i)}
<1> SUFFICES ASSUME len \in bad PROVE FALSE
  BY Zenon
<1>1. bad # {}
  BY Zenon
<1>2. bad \in SUBSET Nat
  OBVIOUS
<1> HIDE DEF bad
<1>3. PICK i \in bad : \A y \in bad : i <= y
  BY <1>1, <1>2, LeastNumber
<1>4. i \in Nat /\ ~ \E f : Loops(f, dir, s, i)
  BY <1>3, Zenon DEF bad
<1>5. i # 0
  <2> DEFINE f == [n \in 0..0 |-> s]
  <2>1. Loops(f, dir, s, 0)
    <3>1. \A n \in 0..0 : n = 0
      OBVIOUS
    <3> QED
      BY <3>1, Zenon DEF Loops
  <2> QED
    BY <2>1, <1>4, Zenon
<1>6. i - 1 \in Nat /\ i - 1 \notin bad
  BY <1>2, <1>3, <1>4, <1>5
<1>7. PICK g : Loops(g, dir, s, i - 1)
  BY <1>6, Zenon DEF bad
<1> DEFINE last == UnmapRound(dir, g[i - 1])
           f == [n \in 0..i |-> IF n = i THEN last ELSE g[n]]
           h == [n \in 0..i |-> IF n = 0 THEN s ELSE UnmapRound(dir, f[n - 1])]
<1>8. \A n \in 0..i : f[n] = h[n]
  <2> TAKE n \in 0..i
  <2>1. CASE n = 0
    <3>1. 0 # i /\ 0 \in 0..i /\ 0 \in 0..(i - 1)
      BY <1>4, <1>5
    <3>2. g[0] = s
      BY <1>7, <3>1, Zenon DEF Loops
    <3> QED
      BY <2>1, <3>1, <3>2, Zenon
  <2>2. CASE n = i
    <3>1. i # 0 /\ i \in 0..i /\ i - 1 \in 0..i /\ i - 1 # i
      BY <1>4, <1>5
    <3>2. f[i - 1] = g[i - 1]
      BY <3>1, Zenon
    <3> QED
      BY <2>2, <3>1, <3>2, Zenon
  <2>3. CASE n # 0 /\ n # i
    <3>1. n - 1 \in 0..i /\ n - 1 # i /\ n \in 0..(i - 1) /\ n \in 0..i
      BY <2>3, <1>4
    <3>2. f[n - 1] = g[n - 1] /\ f[n] = g[n]
      BY <2>3, <3>1, Zenon
    <3>3. g[n] = UnmapRound(dir, g[n - 1])
      BY <1>7, <2>3, <3>1, Zenon DEF Loops
    <3> QED
      BY <2>3, <3>2, <3>3, Zenon
  <2> QED
    BY <2>1, <2>2, <2>3, Zenon
<1>9. f = h
  BY <1>8, Zenon
<1>10. Loops(f, dir, s, i)
  BY <1>9, Zenon DEF Loops
<1> QED
  BY <1>4, <1>10, Zenon

\* Unmap comes to the entries of all addresses in its range that have a table.
LEMMA UnmapReaches ==
  ASSUME NEW dir, NEW va \in Nat, NEW count \in Nat, va + count <= DirectorySize * TableSize
  PROVE  UnmapEntries(dir, va, count) = Reached(dir, va, va + count)
<1>0. DirectorySize \in Nat
  BY TableSizes
<1>1. PICK s : s = UnmapStart(va, count)
  OBVIOUS
<1> DEFINE loop == CHOOSE f : f = [k \in 0..DirectorySize |->
                     IF k = 0 THEN [pdindex |-> va \div TableSize, ptindex |-> va % TableSize, count |-> count, clears |-> {}]
                     ELSE UnmapRound(dir, f[k - 1])]
<1>2. UnmapEntries(dir, va, count) = loop[DirectorySize].clears
  BY Zenon DEF UnmapEntries
<1>3. Loops(loop, dir, s, DirectorySize)
  <2>1. PICK f : Loops(f, dir, s, DirectorySize)
    BY <1>0, LoopsExist, Zenon
  <2>2. f = [k \in 0..DirectorySize |->
               IF k = 0 THEN [pdindex |-> va \div TableSize, ptindex |-> va % TableSize, count |-> count, clears |-> {}]
               ELSE UnmapRound(dir, f[k - 1])]
    BY <1>1, <2>1, Zenon DEF Loops, UnmapStart
  <2>3. loop = [k \in 0..DirectorySize |->
               IF k = 0 THEN [pdindex |-> va \div TableSize, ptindex |-> va % TableSize, count |-> count, clears |-> {}]
               ELSE UnmapRound(dir, loop[k - 1])]
    BY <2>2, Zenon
  <2> HIDE DEF loop
  <2> QED
    BY <1>1, <2>3, Zenon DEF Loops, UnmapStart
<1> HIDE DEF loop
<1>4. 0 \in 0..DirectorySize /\ DirectorySize \in 0..DirectorySize
  BY <1>0
<1>5. loop[0] = s
  BY <1>3, <1>4, Zenon DEF Loops
<1>6. RoundsDone(dir, va, count, 0, s)
  <2>1. s.pdindex = va \div TableSize /\ s.ptindex = va % TableSize /\ s.count = count /\ s.clears = {}
    BY ONLY <1>1 DEF UnmapStart
  <2>2. /\ va \div TableSize \in Nat /\ va % TableSize \in 0..(TableSize - 1)
        /\ va = (va \div TableSize) * TableSize + (va % TableSize)
    BY TableSizes, QuotientRemainder
  <2>3. (va \div TableSize) + 0 = va \div TableSize /\ va <= va
    BY <2>2
  <2>4. s.clears = Reached(dir, va, va)
    BY <2>1, ReachedNone
  <2>5. s.count <= 0 => va + count = va
    BY <2>1
  <2>6. s.count \in Int
    BY <2>1
  <2>7. va + s.count = va + count
    BY <2>1
  <2> QED
    BY <2>1, <2>2, <2>3, <2>4, <2>5, <2>6, <2>7, Zenon DEF RoundsDone
<1>7. RoundsDone(dir, va, count, DirectorySize, loop[DirectorySize])
  <2> DEFINE bad == {k \in Nat : k <= DirectorySize /\ ~RoundsDone(dir, va, count, k, loop[k])}
  <2>1. SUFFICES ASSUME bad # {} PROVE FALSE
    BY <1>0
  <2>2. bad \in SUBSET Nat
    OBVIOUS
  <2> HIDE DEF bad
  <2>3. PICK k \in bad : \A y \in bad : k <= y
    BY <2>1, <2>2, LeastNumber
  <2>4. k \in Nat /\ k <= DirectorySize /\ ~RoundsDone(dir, va, count, k, loop[k])
    BY <2>3, Zenon DEF bad
  <2>5. k # 0
    BY <1>5, <1>6, <2>4, Zenon
  <2>6. PICK j \in Nat : j = k - 1 /\ j + 1 = k /\ j <= DirectorySize /\ j \notin bad /\ k \in 0..DirectorySize
    BY <1>0, <2>2, <2>3, <2>4, <2>5
  <2>7. RoundsDone(dir, va, count, j, loop[j])
    BY <2>6, Zenon DEF bad
  <2>8. loop[k] = UnmapRound(dir, loop[j])
    BY <1>3, <2>5, <2>6, Zenon DEF Loops
  <2>9. RoundsDone(dir, va, count, j + 1, UnmapRound(dir, loop[j]))
    BY <2>7, RoundRight, Zenon
  <2> QED
    BY <2>4, <2>6, <2>8, <2>9, Zenon
<1>8. PICK w : w = loop[DirectorySize]
  OBVIOUS
<1>9. w.count \in Int
  BY <1>7, <1>8, Zenon DEF RoundsDone
<1>10. ~(w.count > 0)
  <2>1. SUFFICES ASSUME w.count > 0 PROVE FALSE
    OBVIOUS
  <2>2. PICK pos \in Nat : pos = w.pdindex * TableSize + w.ptindex /\ pos + w.count = va + count
    BY <1>7, <1>8, <2>1, Zenon DEF RoundsDone
  <2>3. PICK p \in Nat : p = w.pdindex /\ p >= DirectorySize
    <3>1. w.pdindex = (va \div TableSize) + DirectorySize
      BY <1>7, <1>8, <2>1, Zenon DEF RoundsDone
    <3>2. va \div TableSize \in Nat
      BY TableSizes, QuotientRemainder, Zenon
    <3> QED
      BY <1>0, <3>1, <3>2
  <2>4. PICK t \in Nat : t = w.ptindex
    <3>1. w.ptindex \in 0..(TableSize - 1)
      BY <1>7, <1>8, <2>1, Zenon DEF RoundsDone
    <3> QED
      BY <3>1, TableSizes
  <2>5. PICK a \in Int : a = p * TableSize
    BY ONLY <2>3, TableSizes
  <2>6. PICK b \in Int : b = DirectorySize * TableSize
    BY ONLY TableSizes
  <2>7. a >= b
    BY ONLY <2>3, <2>5, <2>6, TableSizes
  <2>8. pos = a + t /\ va + count <= b
    BY <2>2, <2>3, <2>4, <2>5, <2>6, Zenon
  <2> QED
    BY ONLY <2>1, <2>2, <2>4, <2>7, <2>8, <1>9, a \in Int, b \in Int, va \in Nat, count \in Nat, pos \in Nat, t \in Nat
<1>11. w.count <= 0
  BY <1>9, <1>10
<1>12. w.clears = Reached(dir, va, va + count)
  BY <1>7, <1>8, <1>11, Zenon DEF RoundsDone
<1> QED
  BY <1>2, <1>8, <1>12, Zenon

\* Everything is stated of a directory p, tables t and counts c, so that it can be
\* said of two states at once.
Directory == 0..(DirectorySize - 1)
TableIndices == 0..(TableSize - 1)

Address(p, t, m, va) ==
  IF p[m][va \div TableSize] = NotPresent THEN NotPresent ELSE t[p[m][va \div TableSize]][va % TableSize]

AddressesIn(p, t, m) == {va \in VirtualPages : Address(p, t, m, va) # NotPresent}

\* What may be in a page; one that no table was made of has what its last use left.
Contents == MappedPages \cup {NotPresent, LastUse}

TableTypes(p, t, c) ==
  /\ p = [m \in DOMAIN p |-> p[m]]
  /\ \A m \in DOMAIN p : p[m] \in [Directory -> TableFrames \cup {NotPresent}]
  /\ t \in [TableFrames -> [TableIndices -> Contents]]
  /\ c = [m \in DOMAIN p |-> c[m]]

Unshared(p) ==
  \A m, n \in DOMAIN p : \A d, e \in Directory :
    p[m][d] = p[n][e] => p[m][d] = NotPresent \/ (m = n /\ d = e)

Counted(p, t, c) == \A m \in DOMAIN p : c[m] = Cardinality(AddressesIn(p, t, m))

TablesRight(p, t, c) == TableTypes(p, t, c) /\ Unshared(p) /\ Counted(p, t, c)

LEMMA RightPagesCounted == TablesRight(pgdir, pgtbl, fMappedPageCount) => PagesCounted
<1> SUFFICES ASSUME TablesRight(pgdir, pgtbl, fMappedPageCount), NEW m \in DOMAIN pgdir
             PROVE  /\ fMappedPageCount[m] = Cardinality({va \in VirtualPages : PhysicalAddress(m, va) # NotPresent})
                    /\ \A n \in DOMAIN pgdir, d, e \in 0..(DirectorySize - 1) :
                         pgdir[m][d] = pgdir[n][e] => pgdir[m][d] = NotPresent \/ (m = n /\ d = e)
  BY Zenon DEF PagesCounted
<1>1. fMappedPageCount[m] = Cardinality(AddressesIn(pgdir, pgtbl, m))
  BY Zenon DEF TablesRight, Counted
<1>2. AddressesIn(pgdir, pgtbl, m) = {va \in VirtualPages : PhysicalAddress(m, va) # NotPresent}
  BY Zenon DEF AddressesIn, Address, PhysicalAddress
<1>3. \A n \in DOMAIN pgdir, d, e \in 0..(DirectorySize - 1) :
         pgdir[m][d] = pgdir[n][e] => pgdir[m][d] = NotPresent \/ (m = n /\ d = e)
  BY Zenon DEF TablesRight, Unshared, Directory
<1> QED
  BY <1>1, <1>2, <1>3, Zenon

LEMMA PlaceIn ==
  ASSUME NEW va \in VirtualPages
  PROVE  va \in Nat /\ va \div TableSize \in Directory /\ va % TableSize \in TableIndices
<1>1. PICK b \in Int : b = DirectorySize * TableSize
  BY ONLY TableSizes
<1>2. va \in Nat /\ va < b
  BY <1>1 DEF VirtualPages
<1>3. PICK q \in Nat : q = va \div TableSize
  BY <1>2, TableSizes, QuotientRemainder, Zenon
<1>4. va % TableSize \in 0..(TableSize - 1) /\ va = q * TableSize + (va % TableSize)
  BY <1>2, <1>3, TableSizes, QuotientRemainder
<1>5. q < DirectorySize
  <2>1. SUFFICES ASSUME q >= DirectorySize PROVE FALSE
    BY <1>3, TableSizes
  <2>2. PICK a \in Int : a = q * TableSize
    BY ONLY <1>3, TableSizes
  <2>3. a >= b
    BY ONLY <1>1, <1>3, <2>1, <2>2, TableSizes
  <2>4. va = a + (va % TableSize)
    BY <1>4, <2>2, Zenon
  <2>5. PICK r \in Nat : r = va % TableSize
    BY <1>4, TableSizes
  <2> QED
    BY ONLY <1>2, <2>2, <2>3, <2>4, <2>5, b \in Int
<1> QED
  BY <1>2, <1>3, <1>4, <1>5, TableSizes DEF Directory, TableIndices

LEMMA SamePlace ==
  ASSUME NEW va \in VirtualPages, NEW v \in VirtualPages, va \div TableSize = v \div TableSize, va % TableSize = v % TableSize
  PROVE  va = v
<1>1. va \in Nat /\ v \in Nat
  BY PlaceIn, Zenon
<1>2. va = (va \div TableSize) * TableSize + (va % TableSize) /\ v = (v \div TableSize) * TableSize + (v % TableSize)
  BY <1>1, TableSizes, QuotientRemainder, Zenon
<1> QED
  BY <1>2, Zenon

LEMMA MappedFinite ==
  ASSUME NEW p, NEW t, NEW m
  PROVE  IsFiniteSet(AddressesIn(p, t, m)) /\ Cardinality(AddressesIn(p, t, m)) \in Nat
<1>1. PICK b \in Int : b = DirectorySize * TableSize
  BY ONLY TableSizes
<1>2. IsFiniteSet(0..(b - 1))
  BY <1>1, FS_Interval
<1>3. IsFiniteSet(VirtualPages)
  BY <1>1, <1>2, Zenon DEF VirtualPages
<1>4. AddressesIn(p, t, m) \in SUBSET VirtualPages
  BY DEF AddressesIn
<1>5. IsFiniteSet(AddressesIn(p, t, m))
  BY <1>3, <1>4, FS_Subset, Zenon
<1> QED
  BY <1>5, FS_CardinalityType, Zenon

\* In one map the addresses of S lead to x now, and all others where they led.
Remapped(p, t, p2, t2, m, S, x) ==
  /\ DOMAIN p2 = DOMAIN p
  /\ \A n \in DOMAIN p : \A v \in VirtualPages :
       Address(p2, t2, n, v) = IF n = m /\ v \in S THEN x ELSE Address(p, t, n, v)

\* No table but the one that a page is mapped in changes for anybody.
LEMMA MapPageRight ==
  ASSUME TablesRight(pgdir, pgtbl, fMappedPageCount), NEW m \in DOMAIN pgdir, NEW va \in VirtualPages,
         NEW leaf \in MappedPages, MapPage(m, va, leaf)
  PROVE  /\ TablesRight(pgdir', pgtbl', fMappedPageCount')
         /\ Remapped(pgdir, pgtbl, pgdir', pgtbl', m, {va}, leaf)
<1>1. PICK p : p = pgdir
  OBVIOUS
<1>2. PICK t : t = pgtbl
  OBVIOUS
<1>3. PICK c : c = fMappedPageCount
  OBVIOUS
<1>4. TableTypes(p, t, c) /\ Unshared(p) /\ Counted(p, t, c) /\ m \in DOMAIN p
  BY <1>1, <1>2, <1>3, Zenon DEF TablesRight
<1>5. PICK d \in Directory : d = va \div TableSize
  BY PlaceIn, Zenon
<1>6. PICK i \in TableIndices : i = va % TableSize
  BY PlaceIn, Zenon
<1>7. PICK table \in IF p[m][d] = NotPresent THEN FreeFrames ELSE {p[m][d]} :
        LET new == p[m][d] = NotPresent
            entries == IF new THEN NewTable(table) ELSE t[table]
        IN  /\ pgdir' = [p EXCEPT ![m][d] = table]
            /\ pgtbl' = [t EXCEPT ![table] = [entries EXCEPT ![i] = leaf]]
            /\ fMappedPageCount' = [c EXCEPT ![m] = CountMapped(m, entries[i])]
  BY <1>1, <1>2, <1>3, <1>5, <1>6, Zenon DEF MapPage
<1>8. PICK entries : entries = IF p[m][d] = NotPresent THEN EmptyEntries ELSE t[table]
  OBVIOUS
<1>9. PICK row : row = [p[m] EXCEPT ![d] = table]
  OBVIOUS
<1>10. PICK page : page = [entries EXCEPT ![i] = leaf]
  OBVIOUS
<1>11. PICK p2 : p2 = pgdir' /\ p2 = [p EXCEPT ![m] = row]
  BY <1>7, <1>9, Zenon
<1>12. PICK t2 : t2 = pgtbl' /\ t2 = [t EXCEPT ![table] = page]
  BY <1>7, <1>8, <1>10, Zenon DEF NewTable
<1>13. PICK c2 : c2 = fMappedPageCount' /\ c2 = [c EXCEPT ![m] = c[m] + (IF entries[i] = NotPresent THEN 1 ELSE 0)]
  BY <1>3, <1>7, <1>8, Zenon DEF NewTable, CountMapped
<1>14. \A n \in DOMAIN p : p[n] \in [Directory -> TableFrames \cup {NotPresent}]
  BY <1>4, Zenon DEF TableTypes
<1>15. table \in TableFrames /\ table # NotPresent
  <2>1. CASE p[m][d] = NotPresent
    <3>1. table \in FreeFrames
      BY <1>7, <2>1, Zenon
    <3> QED
      BY <3>1, PageTablesAssumption DEF FreeFrames
  <2>2. CASE p[m][d] # NotPresent
    <3>1. table = p[m][d]
      BY <1>7, <2>2
    <3> QED
      BY <1>4, <1>5, <1>14, <2>2, <3>1
  <2> QED
    BY <2>1, <2>2, Zenon
\* The table is nobody else's.
<1>16. ASSUME NEW n \in DOMAIN p, NEW e \in Directory, p[n][e] = table
       PROVE  n = m /\ e = d
  <2>1. CASE p[m][d] = NotPresent
    <3>1. table \in FreeFrames
      BY <1>7, <2>1, Zenon
    <3> QED
      BY <1>1, <1>16, <3>1 DEF FreeFrames, Directory
  <2>2. CASE p[m][d] # NotPresent
    <3>1. table = p[m][d]
      BY <1>7, <2>2
    <3> QED
      BY ONLY <1>4, <1>5, <1>15, <1>16, <3>1, n \in DOMAIN p, e \in Directory DEF Unshared
  <2> QED
    BY <2>1, <2>2, Zenon
<1>17. /\ p2 = [n \in DOMAIN p |-> IF n = m THEN row ELSE p[n]]
       /\ DOMAIN p2 = DOMAIN p /\ p2[m] = row /\ \A n \in DOMAIN p : n # m => p2[n] = p[n]
  BY <1>4, <1>11, Zenon
<1>18. row \in [Directory -> TableFrames \cup {NotPresent}] /\ row[d] = table /\ \A e \in Directory : e # d => row[e] = p[m][e]
  BY ONLY <1>4, <1>9, <1>14, <1>15, d \in Directory
<1>19. entries \in [TableIndices -> Contents]
  <2>1. EmptyEntries \in [TableIndices -> Contents]
    BY DEF EmptyEntries, TableIndices, Contents
  <2>2. t[table] \in [TableIndices -> Contents]
    BY <1>4, <1>15, Zenon DEF TableTypes
  <2> QED
    BY <1>8, <2>1, <2>2, Zenon
<1>20. page \in [TableIndices -> Contents] /\ page[i] = leaf /\ \A j \in TableIndices : j # i => page[j] = entries[j]
  <2>1. leaf \in Contents
    BY DEF Contents
  <2> QED
    BY ONLY <1>10, <1>19, <2>1, i \in TableIndices
<1>21. t2 \in [TableFrames -> [TableIndices -> Contents]] /\ t2[table] = page /\ \A f \in TableFrames : f # table => t2[f] = t[f]
  <2>1. t \in [TableFrames -> [TableIndices -> Contents]]
    BY <1>4, Zenon DEF TableTypes
  <2>2. PICK P : P = [TableIndices -> Contents]
    OBVIOUS
  <2>3. t \in [TableFrames -> P] /\ page \in P /\ t2 = [t EXCEPT ![table] = page]
    BY <1>12, <1>20, <2>1, <2>2, Zenon
  <2>4. t2 \in [TableFrames -> P] /\ t2[table] = page /\ \A f \in TableFrames : f # table => t2[f] = t[f]
    BY ONLY <1>15, <2>3
  <2> QED
    BY <2>2, <2>4, Zenon
<1>22. ASSUME NEW v \in VirtualPages, v \div TableSize = d
       PROVE  Address(p, t, m, v) = entries[v % TableSize]
  <2>1. v % TableSize \in TableIndices
    BY PlaceIn, Zenon
  <2>2. CASE p[m][d] = NotPresent
    <3>1. EmptyEntries[v % TableSize] = NotPresent
      BY ONLY <2>1 DEF EmptyEntries, TableIndices
    <3> QED
      BY <1>8, <1>22, <2>2, <3>1, Zenon DEF Address
  <2>3. CASE p[m][d] # NotPresent
    <3>1. table = p[m][d]
      BY <1>7, <2>3
    <3> QED
      BY <1>8, <1>22, <2>3, <3>1, Zenon DEF Address
  <2> QED
    BY <2>2, <2>3, Zenon
<1>23. ASSUME NEW n \in DOMAIN p, NEW v \in VirtualPages
       PROVE  Address(p2, t2, n, v) = IF n = m /\ v \in {va} THEN leaf ELSE Address(p, t, n, v)
  <2>1. PICK e \in Directory : e = v \div TableSize
    BY PlaceIn, Zenon
  <2>2. PICK j \in TableIndices : j = v % TableSize
    BY PlaceIn, Zenon
  <2>3. CASE n = m /\ e = d
    <3>1. Address(p2, t2, n, v) = page[j]
      BY <1>15, <1>17, <1>18, <1>21, <2>1, <2>2, <2>3, Zenon DEF Address
    <3>2. CASE j = i
      <4>1. v = va
        BY <1>5, <1>6, <2>1, <2>2, <2>3, <3>2, SamePlace, Zenon
      <4>2. v \in {va}
        BY <4>1
      <4> QED
        BY <1>20, <2>3, <3>1, <3>2, <4>2, Zenon
    <3>3. CASE j # i
      <4>1. v \notin {va}
        BY <1>6, <2>2, <3>3
      <4>2. page[j] = entries[j]
        BY <1>20, <3>3, Zenon
      <4>3. Address(p, t, m, v) = entries[j]
        BY <1>22, <2>1, <2>2, <2>3, Zenon
      <4> QED
        BY <2>3, <3>1, <4>1, <4>2, <4>3, Zenon
    <3> QED
      BY <3>2, <3>3, Zenon
  <2>4. CASE ~(n = m /\ e = d)
    <3>1. p2[n][e] = p[n][e] /\ p[n][e] # table
      BY <1>16, <1>17, <1>18, <2>1, <2>4, Zenon
    <3>2. ~(n = m /\ v \in {va})
      BY <1>5, <2>1, <2>4
    <3>3. p[n][e] # NotPresent => t2[p[n][e]] = t[p[n][e]]
      <4>1. p[n][e] \in TableFrames \cup {NotPresent}
        BY <1>14, <2>1
      <4>2. p[n][e] # NotPresent => p[n][e] \in TableFrames
        BY <4>1
      <4> QED
        BY <1>21, <3>1, <4>2, Zenon
    <3> QED
      BY <2>1, <3>1, <3>2, <3>3, Zenon DEF Address
  <2> QED
    BY <2>3, <2>4, Zenon
<1>24. Remapped(p, t, p2, t2, m, {va}, leaf)
  BY <1>17, <1>23, Zenon DEF Remapped
<1>25. Unshared(p2)
  <2>1. SUFFICES ASSUME NEW x \in DOMAIN p2, NEW n \in DOMAIN p2, NEW e \in Directory, NEW g \in Directory,
                        p2[x][e] = p2[n][g], p2[x][e] # NotPresent
                 PROVE  x = n /\ e = g
    BY DEF Unshared
  <2>0. x \in DOMAIN p /\ n \in DOMAIN p
    BY <1>17, Zenon
  <2>2. \A y \in DOMAIN p, k \in Directory : p2[y][k] = IF y = m /\ k = d THEN table ELSE p[y][k]
    BY <1>17, <1>18, Zenon
  <2>3. CASE p2[x][e] = table
    <3>1. \A y \in DOMAIN p, k \in Directory : p2[y][k] = table => y = m /\ k = d
      <4> SUFFICES ASSUME NEW y \in DOMAIN p, NEW k \in Directory, p2[y][k] = table PROVE y = m /\ k = d
        BY Zenon
      <4>1. p2[y][k] = IF y = m /\ k = d THEN table ELSE p[y][k]
        BY <2>2, Zenon
      <4>2. CASE p[y][k] = table
        BY <1>16, <4>2, Zenon
      <4>3. CASE p[y][k] # table
        BY <4>1, <4>3, Zenon
      <4> QED
        BY <4>2, <4>3, Zenon
    <3>2. x = m /\ e = d
      BY <2>0, <2>3, <3>1, Zenon
    <3>3. n = m /\ g = d
      BY <2>0, <2>1, <2>3, <3>1, Zenon
    <3> QED
      BY <3>2, <3>3, Zenon
  <2>4. CASE p2[x][e] # table
    <3>1. p2[x][e] = p[x][e] /\ p2[n][g] = p[n][g]
      BY <2>0, <2>1, <2>2, <2>4, Zenon
    <3>2. p[x][e] = p[n][g] /\ p[x][e] # NotPresent
      BY <2>1, <3>1, Zenon
    <3> QED
      BY ONLY <1>4, <2>0, <3>2, e \in Directory, g \in Directory DEF Unshared
  <2> QED
    BY <2>3, <2>4, Zenon
<1>26. /\ c2 = [n \in DOMAIN p |-> c2[n]]
       /\ \A n \in DOMAIN p : c2[n] = IF n = m THEN c[m] + (IF entries[i] = NotPresent THEN 1 ELSE 0) ELSE c[n]
  <2>1. c = [n \in DOMAIN p |-> c[n]]
    BY <1>4, Zenon DEF TableTypes
  <2>2. PICK y : y = c[m] + (IF entries[i] = NotPresent THEN 1 ELSE 0)
    OBVIOUS
  <2>3. c2 = [c EXCEPT ![m] = y]
    BY <1>13, <2>2, Zenon
  <2>4. c2 = [n \in DOMAIN p |-> IF n = m THEN y ELSE c[n]]
    BY ONLY <1>4, <2>1, <2>3
  <2> QED
    BY <2>2, <2>4, Zenon
<1>27. Counted(p2, t2, c2)
  <2>1. ASSUME NEW n \in DOMAIN p PROVE c2[n] = Cardinality(AddressesIn(p2, t2, n))
    <3>1. c[n] = Cardinality(AddressesIn(p, t, n))
      BY <1>4, Zenon DEF Counted
    <3>2. CASE n # m
      <4>1. \A v \in VirtualPages : Address(p2, t2, n, v) = Address(p, t, n, v)
        BY <1>23, <3>2, Zenon
      <4>2. AddressesIn(p2, t2, n) = AddressesIn(p, t, n)
        BY <4>1, Zenon DEF AddressesIn
      <4> QED
        BY <1>26, <3>1, <3>2, <4>2, Zenon
    <3>3. CASE n = m
      <4>1. leaf # NotPresent
        BY PageTablesAssumption
      <4>2. \A v \in VirtualPages : Address(p2, t2, n, v) = IF v = va THEN leaf ELSE Address(p, t, n, v)
        <5>1. \A v : v \in {va} <=> v = va
          OBVIOUS
        <5> QED
          BY <1>23, <3>3, <5>1, Zenon
      <4>3. PICK old : old = AddressesIn(p, t, n)
        OBVIOUS
      <4>4. AddressesIn(p2, t2, n) = old \cup {va}
        BY ONLY <4>1, <4>2, <4>3, va \in VirtualPages DEF AddressesIn
      <4>5. entries[i] = Address(p, t, n, va)
        BY <1>5, <1>6, <1>22, <3>3, Zenon
      <4>6. IsFiniteSet(old) /\ Cardinality(old) \in Nat
        BY <4>3, MappedFinite, Zenon
      <4>7. c2[n] = Cardinality(old) + (IF entries[i] = NotPresent THEN 1 ELSE 0)
        BY <1>26, <3>1, <3>3, <4>3, Zenon
      <4>8. CASE entries[i] = NotPresent
        <5>1. va \notin old
          BY <4>3, <4>5, <4>8 DEF AddressesIn
        <5>2. Cardinality(old \cup {va}) = Cardinality(old) + 1
          BY <4>6, <5>1, CountIn, Zenon
        <5> QED
          BY <4>4, <4>7, <4>8, <5>2, Zenon
      <4>9. CASE entries[i] # NotPresent
        <5>1. va \in old
          BY <4>3, <4>5, <4>9 DEF AddressesIn
        <5>2. old \cup {va} = old
          BY <5>1
        <5>3. c2[n] = Cardinality(old)
          BY <4>6, <4>7, <4>9
        <5> QED
          BY <4>4, <5>2, <5>3, Zenon
      <4> QED
        BY <4>8, <4>9, Zenon
    <3> QED
      BY <3>2, <3>3, Zenon
  <2> QED
    BY <1>17, <2>1, Zenon DEF Counted
<1>28. TableTypes(p2, t2, c2)
  <2>1. \A n \in DOMAIN p2 : p2[n] \in [Directory -> TableFrames \cup {NotPresent}]
    BY <1>14, <1>17, <1>18, Zenon
  <2>2. p2 = [n \in DOMAIN p2 |-> p2[n]]
    BY <1>17, Zenon
  <2> QED
    BY <1>17, <1>21, <1>26, <2>1, <2>2, Zenon DEF TableTypes
<1> QED
  BY <1>1, <1>2, <1>11, <1>12, <1>13, <1>24, <1>25, <1>27, <1>28, Zenon DEF TablesRight

\* Unmap clears what the addresses of its range lead to, and nothing else, because
\* an entry belongs to one address of one map.
LEMMA UnmapPagesRight ==
  ASSUME TablesRight(pgdir, pgtbl, fMappedPageCount), NEW m \in DOMAIN pgdir, NEW va \in VirtualPages,
         NEW count \in Nat, UnmapPages(m, va, count)
  PROVE  /\ TablesRight(pgdir', pgtbl', fMappedPageCount')
         /\ Remapped(pgdir, pgtbl, pgdir', pgtbl', m, va..(va + count - 1), NotPresent)
<1>1. PICK p : p = pgdir
  OBVIOUS
<1>2. PICK t : t = pgtbl
  OBVIOUS
<1>3. PICK c : c = fMappedPageCount
  OBVIOUS
<1>4. TableTypes(p, t, c) /\ Unshared(p) /\ Counted(p, t, c) /\ m \in DOMAIN p
  BY <1>1, <1>2, <1>3, Zenon DEF TablesRight
<1>5. va + count <= DirectorySize * TableSize
  BY Zenon DEF UnmapPages
<1>6. PICK R : R = va..(va + count - 1)
  OBVIOUS
<1>0. R = va..((va + count) - 1)
  <2>1. va \in Nat
    BY PlaceIn, Zenon
  <2> QED
    BY ONLY <1>6, <2>1, count \in Nat
<1>7. R \subseteq VirtualPages
  <2>1. PICK b \in Int : b = DirectorySize * TableSize
    BY ONLY TableSizes
  <2>2. va + count <= b /\ VirtualPages = 0..(b - 1) /\ va \in Nat
    BY <1>5, <2>1, PlaceIn, Zenon DEF VirtualPages
  <2> QED
    BY ONLY <1>6, <2>1, <2>2, count \in Nat
<1>8. PICK dir : dir = p[m]
  OBVIOUS
<1>9. PICK E : E = Reached(dir, va, va + count)
  OBVIOUS
<1>10. UnmapEntries(dir, va, count) = E
  <2>1. va \in Nat
    BY PlaceIn, Zenon
  <2> QED
    BY <1>5, <1>9, <2>1, UnmapReaches, Zenon
<1>11. PICK present : present = {e \in E : t[e[1]][e[2]] # NotPresent}
  OBVIOUS
<1>12. PICK p2 : p2 = pgdir' /\ p2 = p
  BY <1>1, Zenon DEF UnmapPages
<1>13. PICK t2 : t2 = pgtbl' /\ t2 = [table \in TableFrames |-> [i \in TableIndices |->
                                         IF <<table, i>> \in present THEN NotPresent ELSE t[table][i]]]
  BY <1>1, <1>2, <1>8, <1>10, <1>11, Zenon DEF UnmapPages, TableIndices
<1>14. PICK c2 : c2 = fMappedPageCount' /\ c2 = [c EXCEPT ![m] = c[m] - Cardinality(present)]
  BY <1>1, <1>2, <1>3, <1>8, <1>10, <1>11, Zenon DEF UnmapPages
<1>15. \A n \in DOMAIN p : p[n] \in [Directory -> TableFrames \cup {NotPresent}]
  BY <1>4, Zenon DEF TableTypes
<1>16. t \in [TableFrames -> [TableIndices -> Contents]]
  BY <1>4, Zenon DEF TableTypes
<1>17. ASSUME NEW v \in R, dir[v \div TableSize] # NotPresent
       PROVE  <<dir[v \div TableSize], v % TableSize>> \in E
  <2>1. v \in {u \in va..((va + count) - 1) : dir[u \div TableSize] # NotPresent}
    BY ONLY <1>0, <1>17, v \in R
  <2>2. <<dir[v \div TableSize], v % TableSize>> \in Reached(dir, va, va + count)
    BY <2>1, Zenon DEF Reached
  <2> QED
    BY <1>9, <2>2, Zenon
<1>18. ASSUME NEW e \in E
       PROVE  \E v \in R : dir[v \div TableSize] # NotPresent /\ e = <<dir[v \div TableSize], v % TableSize>>
  <2>1. e \in Reached(dir, va, va + count)
    BY <1>9, Zenon
  <2>2. PICK v \in {u \in va..((va + count) - 1) : dir[u \div TableSize] # NotPresent} :
          e = <<dir[v \div TableSize], v % TableSize>>
    BY <2>1, Zenon DEF Reached
  <2>3. v \in R /\ dir[v \div TableSize] # NotPresent
    BY ONLY <1>0, <2>2
  <2> QED
    BY <2>2, <2>3, Zenon
\* An entry that is reached is of no other address.
<1>19. ASSUME NEW n \in DOMAIN p, NEW v \in VirtualPages, NEW f, f = p[n][v \div TableSize], f # NotPresent,
              <<f, v % TableSize>> \in E
       PROVE  n = m /\ v \in R
  <2>1. PICK u \in R : dir[u \div TableSize] # NotPresent /\ <<f, v % TableSize>> = <<dir[u \div TableSize], u % TableSize>>
    BY <1>18, <1>19, Zenon
  <2>2. f = dir[u \div TableSize] /\ v % TableSize = u % TableSize
    BY ONLY <2>1
  <2>3. u \in VirtualPages
    BY <1>7, <2>1, Zenon
  <2>4. PICK d \in Directory : d = v \div TableSize
    BY PlaceIn, Zenon
  <2>5. PICK e \in Directory : e = u \div TableSize
    BY <2>3, PlaceIn, Zenon
  <2>6. p[n][d] = p[m][e] /\ p[n][d] # NotPresent
    BY <1>8, <1>19, <2>2, <2>4, <2>5, Zenon
  <2>7. n = m /\ d = e
    BY ONLY <1>4, <2>4, <2>5, <2>6, n \in DOMAIN p DEF Unshared
  <2>8. v = u
    BY <2>2, <2>3, <2>4, <2>5, <2>7, SamePlace, Zenon
  <2> QED
    BY <2>1, <2>7, <2>8, Zenon
<1>20. ASSUME NEW f \in TableFrames, NEW i \in TableIndices
       PROVE  t2[f][i] = IF <<f, i>> \in E THEN NotPresent ELSE t[f][i]
  <2>1. t2[f][i] = IF <<f, i>> \in present THEN NotPresent ELSE t[f][i]
    BY <1>13, Zenon
  <2>2. <<f, i>> \in present <=> <<f, i>> \in E /\ t[f][i] # NotPresent
    BY ONLY <1>11
  <2> QED
    BY <2>1, <2>2, Zenon
<1>21. ASSUME NEW n \in DOMAIN p, NEW v \in VirtualPages
       PROVE  Address(p2, t2, n, v) = IF n = m /\ v \in R THEN NotPresent ELSE Address(p, t, n, v)
  <2>1. PICK f : f = p[n][v \div TableSize]
    OBVIOUS
  <2>2. PICK i \in TableIndices : i = v % TableSize
    BY PlaceIn, Zenon
  <2>3. CASE f = NotPresent
    BY <1>12, <2>1, <2>3, Zenon DEF Address
  <2>4. CASE f # NotPresent
    <3>1. f \in TableFrames
      <4>1. v \div TableSize \in Directory
        BY PlaceIn, Zenon
      <4>2. f \in TableFrames \cup {NotPresent}
        BY <1>15, <2>1, <4>1
      <4> QED
        BY <2>4, <4>2
    <3>2. Address(p2, t2, n, v) = IF <<f, i>> \in E THEN NotPresent ELSE t[f][i]
      BY <1>12, <1>20, <2>1, <2>2, <2>4, <3>1, Zenon DEF Address
    <3>3. Address(p, t, n, v) = t[f][i]
      BY <2>1, <2>2, <2>4, Zenon DEF Address
    <3>4. CASE n = m /\ v \in R
      <4>1. <<f, i>> \in E
        BY <1>8, <1>17, <2>1, <2>2, <2>4, <3>4, Zenon
      <4> QED
        BY <3>2, <3>4, <4>1, Zenon
    <3>5. CASE ~(n = m /\ v \in R)
      <4>1. <<f, i>> \notin E
        BY <1>19, <2>1, <2>2, <2>4, <3>5, Zenon
      <4> QED
        BY <3>2, <3>3, <3>5, <4>1, Zenon
    <3> QED
      BY <3>4, <3>5, Zenon
  <2> QED
    BY <2>3, <2>4, Zenon
<1>22. Remapped(p, t, p2, t2, m, R, NotPresent)
  BY <1>12, <1>21, Zenon DEF Remapped
<1>23. PICK old : old = AddressesIn(p, t, m)
  OBVIOUS
<1>24. IsFiniteSet(old) /\ Cardinality(old) \in Nat
  BY <1>23, MappedFinite, Zenon
<1>25. PICK V : V = old \cap R
  OBVIOUS
<1>26. IsFiniteSet(V)
  <2>1. V \in SUBSET old
    BY <1>25
  <2> QED
    BY <1>24, <2>1, FS_Subset, Zenon
<1>27. Cardinality(present) = Cardinality(V)
  <2>1. PICK g : g = [v \in V |-> <<dir[v \div TableSize], v % TableSize>>]
    OBVIOUS
  <2>2. ASSUME NEW v \in V
        PROVE  /\ v \in R /\ v \in VirtualPages /\ dir[v \div TableSize] # NotPresent
               /\ t[dir[v \div TableSize]][v % TableSize] # NotPresent
    <3>1. v \in R /\ v \in old
      BY <1>25
    <3>2. v \in VirtualPages /\ Address(p, t, m, v) # NotPresent
      BY <1>23, <3>1 DEF AddressesIn
    <3> QED
      BY <1>8, <3>1, <3>2, Zenon DEF Address
  <2>3. ASSUME NEW v \in V PROVE g[v] \in present
    <3>1. PICK e : e = <<dir[v \div TableSize], v % TableSize>>
      OBVIOUS
    <3>2. e \in E
      BY <1>17, <2>2, <3>1, Zenon
    <3>3. e[1] = dir[v \div TableSize] /\ e[2] = v % TableSize
      BY ONLY <3>1
    <3>4. t[e[1]][e[2]] # NotPresent
      BY <2>2, <3>3, Zenon
    <3>5. g[v] = e
      BY <2>1, <3>1, Zenon
    <3> QED
      BY <1>11, <3>2, <3>4, <3>5
  <2>4. g \in [V -> present]
    BY ONLY <2>1, <2>3
  <2>5. ASSUME NEW v \in V, NEW u \in V, g[v] = g[u] PROVE v = u
    <3>1. <<dir[v \div TableSize], v % TableSize>> = <<dir[u \div TableSize], u % TableSize>>
      BY <2>1, <2>5, Zenon
    <3>2. dir[v \div TableSize] = dir[u \div TableSize] /\ v % TableSize = u % TableSize
      BY ONLY <3>1
    <3>3. v \in VirtualPages /\ u \in VirtualPages /\ dir[v \div TableSize] # NotPresent
      BY <2>2, Zenon
    <3>4. PICK d \in Directory : d = v \div TableSize
      BY <3>3, PlaceIn, Zenon
    <3>5. PICK e \in Directory : e = u \div TableSize
      BY <3>3, PlaceIn, Zenon
    <3>6. p[m][d] = p[m][e] /\ p[m][d] # NotPresent
      BY <1>8, <3>2, <3>3, <3>4, <3>5, Zenon
    <3>7. d = e
      BY ONLY <1>4, <3>4, <3>5, <3>6 DEF Unshared
    <3> QED
      BY <3>2, <3>3, <3>4, <3>5, <3>7, SamePlace, Zenon
  <2>6. ASSUME NEW e \in present PROVE \E v \in V : g[v] = e
    <3>1. e \in E /\ t[e[1]][e[2]] # NotPresent
      BY <1>11, <2>6
    <3>2. PICK v \in R : dir[v \div TableSize] # NotPresent /\ e = <<dir[v \div TableSize], v % TableSize>>
      BY <1>18, <3>1, Zenon
    <3>3. e[1] = dir[v \div TableSize] /\ e[2] = v % TableSize
      BY ONLY <3>2
    <3>4. Address(p, t, m, v) # NotPresent
      BY <1>8, <3>1, <3>2, <3>3, Zenon DEF Address
    <3>5. v \in VirtualPages
      BY <1>7, <3>2, Zenon
    <3>6. v \in old
      BY <1>23, <3>4, <3>5 DEF AddressesIn
    <3>7. v \in V
      BY <1>25, <3>2, <3>6
    <3>8. g[v] = e
      BY <2>1, <3>2, <3>7, Zenon
    <3> QED
      BY <3>7, <3>8, Zenon
  <2>7. DOMAIN g = V
    BY <2>1, Zenon
  <2>8. IsInjective(g)
    BY <2>5, <2>7, Zenon DEF IsInjective
  <2>9. g \in Injection(V, present)
    BY ONLY <2>4, <2>8 DEF Injection
  <2>10. g \in Surjection(V, present)
    BY ONLY <2>4, <2>6 DEF Surjection
  <2>11. ExistsBijection(V, present)
    BY ONLY <2>9, <2>10 DEF ExistsBijection, Bijection
  <2> QED
    BY <1>26, <2>11, FS_Bijection, Zenon
<1>28. Cardinality(old \ R) = Cardinality(old) - Cardinality(V)
  BY <1>24, <1>25, FS_Difference, Zenon
<1>29. /\ c2 = [n \in DOMAIN p |-> c2[n]]
       /\ \A n \in DOMAIN p : c2[n] = IF n = m THEN c[m] - Cardinality(present) ELSE c[n]
  <2>1. c = [n \in DOMAIN p |-> c[n]]
    BY <1>4, Zenon DEF TableTypes
  <2>2. PICK y : y = c[m] - Cardinality(present)
    OBVIOUS
  <2>3. c2 = [c EXCEPT ![m] = y]
    BY <1>14, <2>2, Zenon
  <2>4. c2 = [n \in DOMAIN p |-> IF n = m THEN y ELSE c[n]]
    BY ONLY <1>4, <2>1, <2>3
  <2> QED
    BY <2>2, <2>4, Zenon
<1>30. Counted(p2, t2, c2)
  <2>1. ASSUME NEW n \in DOMAIN p PROVE c2[n] = Cardinality(AddressesIn(p2, t2, n))
    <3>1. c[n] = Cardinality(AddressesIn(p, t, n))
      BY <1>4, Zenon DEF Counted
    <3>2. CASE n # m
      <4>1. \A v \in VirtualPages : Address(p2, t2, n, v) = Address(p, t, n, v)
        BY <1>21, <3>2, Zenon
      <4>2. AddressesIn(p2, t2, n) = AddressesIn(p, t, n)
        BY <4>1, Zenon DEF AddressesIn
      <4> QED
        BY <1>29, <3>1, <3>2, <4>2, Zenon
    <3>3. CASE n = m
      <4>1. \A v \in VirtualPages : Address(p2, t2, n, v) = IF v \in R THEN NotPresent ELSE Address(p, t, n, v)
        BY <1>21, <3>3, Zenon
      <4>2. AddressesIn(p2, t2, n) = AddressesIn(p, t, n) \ R
        BY ONLY <4>1 DEF AddressesIn
      <4> QED
        BY <1>23, <1>27, <1>28, <1>29, <3>1, <3>3, <4>2, Zenon
    <3> QED
      BY <3>2, <3>3, Zenon
  <2> QED
    BY <1>12, <2>1, Zenon DEF Counted
<1>31. t2 \in [TableFrames -> [TableIndices -> Contents]]
  <2>1. NotPresent \in Contents
    BY DEF Contents
  <2>2. ASSUME NEW f \in TableFrames
        PROVE  [i \in TableIndices |-> IF <<f, i>> \in present THEN NotPresent ELSE t[f][i]] \in [TableIndices -> Contents]
    BY ONLY <1>16, <2>1, f \in TableFrames
  <2>3. PICK P : P = [TableIndices -> Contents]
    OBVIOUS
  <2>4. \A f \in TableFrames : [i \in TableIndices |-> IF <<f, i>> \in present THEN NotPresent ELSE t[f][i]] \in P
    BY <2>2, <2>3, Zenon
  <2>5. t2 \in [TableFrames -> P]
    BY <1>13, <2>4, Zenon
  <2> QED
    BY <2>3, <2>5, Zenon
<1>32. TableTypes(p2, t2, c2)
  BY <1>4, <1>12, <1>29, <1>31, Zenon DEF TableTypes
<1> QED
  BY <1>1, <1>2, <1>4, <1>6, <1>12, <1>13, <1>14, <1>22, <1>30, <1>32, Zenon DEF TablesRight

\* What AddressMaps sees of directories and tables.
Image(p, t) == [m \in DOMAIN p |-> [va \in VirtualPages |-> Address(p, t, m, va)]]

LEMMA MappingsAre == mappings = Image(pgdir, pgtbl) /\ mappings' = Image(pgdir', pgtbl')
<1>1. mappings = Image(pgdir, pgtbl)
  BY Zenon DEF mappings, Image, Address, PhysicalAddress
<1>2. mappings' = Image(pgdir', pgtbl')
  BY Zenon DEF mappings, Image, Address, PhysicalAddress
<1> QED
  BY <1>1, <1>2, Zenon

\* A map comes, with nothing mapped.
LEMMA NewMapRight ==
  ASSUME TablesRight(pgdir, pgtbl, fMappedPageCount), NEW m, NewMap(m)
  PROVE  /\ TablesRight(pgdir', pgtbl', fMappedPageCount')
         /\ Flat!Create
<1>1. PICK p : p = pgdir
  OBVIOUS
<1>2. PICK t : t = pgtbl /\ t = pgtbl'
  BY Zenon DEF NewMap
<1>3. PICK c : c = fMappedPageCount
  OBVIOUS
<1>4. TableTypes(p, t, c) /\ Unshared(p) /\ Counted(p, t, c)
  BY <1>1, <1>2, <1>3, Zenon DEF TablesRight
<1>5. m \notin DOMAIN p
  BY <1>1, Zenon DEF NewMap
<1>6. PICK row : row = [d \in Directory |-> NotPresent]
  OBVIOUS
<1>7. PICK p2 : p2 = pgdir' /\ p2 = [x \in DOMAIN p \cup {m} |-> IF x = m THEN row ELSE p[x]]
  BY <1>1, <1>6, Zenon DEF NewMap, Directory
<1>8. PICK c2 : c2 = fMappedPageCount' /\ c2 = [x \in DOMAIN p \cup {m} |-> IF x = m THEN 0 ELSE c[x]]
  BY <1>1, <1>3, Zenon DEF NewMap
<1>9. /\ DOMAIN p2 = DOMAIN p \cup {m} /\ p2 = [x \in DOMAIN p2 |-> p2[x]] /\ c2 = [x \in DOMAIN p2 |-> c2[x]]
  BY <1>7, <1>8, Zenon
<1>10. p2[m] = row /\ c2[m] = 0 /\ m \in DOMAIN p2
  <2>1. m \in DOMAIN p \cup {m}
    OBVIOUS
  <2> QED
    BY <1>7, <1>8, <1>9, <2>1, Zenon
<1>11. \A x \in DOMAIN p : p2[x] = p[x] /\ c2[x] = c[x] /\ x # m /\ x \in DOMAIN p2
  <2>1. \A x \in DOMAIN p : x \in DOMAIN p \cup {m} /\ x # m
    BY <1>5
  <2> QED
    BY <1>7, <1>8, <1>9, <2>1, Zenon
<1>12. \A x \in DOMAIN p2 : x # m => x \in DOMAIN p
  BY <1>9
<1>13. row \in [Directory -> TableFrames \cup {NotPresent}] /\ \A d \in Directory : row[d] = NotPresent
  BY ONLY <1>6
<1>14. \A x \in DOMAIN p : \A v : Address(p2, t, x, v) = Address(p, t, x, v)
  BY <1>11, Zenon DEF Address
<1>15. \A v \in VirtualPages : Address(p2, t, m, v) = NotPresent
  BY <1>10, <1>13, PlaceIn, Zenon DEF Address
<1>16. TableTypes(p2, t, c2)
  <2>1. ASSUME NEW x \in DOMAIN p2 PROVE p2[x] \in [Directory -> TableFrames \cup {NotPresent}]
    <3>1. CASE x = m
      BY <1>10, <1>13, <3>1, Zenon
    <3>2. CASE x # m
      BY <1>4, <1>11, <1>12, <3>2, Zenon DEF TableTypes
    <3> QED
      BY <3>1, <3>2, Zenon
  <2> QED
    BY <1>4, <1>9, <2>1, Zenon DEF TableTypes
<1>17. Unshared(p2)
  <2>1. SUFFICES ASSUME NEW x \in DOMAIN p2, NEW n \in DOMAIN p2, NEW e \in Directory, NEW g \in Directory,
                        p2[x][e] = p2[n][g], p2[x][e] # NotPresent
                 PROVE  x = n /\ e = g
    BY DEF Unshared
  <2>2. x # m /\ n # m
    BY <1>10, <1>13, <2>1, Zenon
  <2>3. x \in DOMAIN p /\ n \in DOMAIN p
    BY <1>12, <2>2, Zenon
  <2>4. p[x][e] = p[n][g] /\ p[x][e] # NotPresent
    BY <1>11, <2>1, <2>3, Zenon
  <2> QED
    BY ONLY <1>4, <2>3, <2>4, e \in Directory, g \in Directory DEF Unshared
<1>18. Counted(p2, t, c2)
  <2>1. ASSUME NEW n \in DOMAIN p2 PROVE c2[n] = Cardinality(AddressesIn(p2, t, n))
    <3>1. CASE n = m
      <4>1. AddressesIn(p2, t, n) = {}
        BY ONLY <1>15, <3>1 DEF AddressesIn
      <4> QED
        BY <1>10, <3>1, <4>1, FS_EmptySet, Zenon
    <3>2. CASE n # m
      <4>1. n \in DOMAIN p
        BY <1>12, <3>2, Zenon
      <4>2. AddressesIn(p2, t, n) = AddressesIn(p, t, n)
        BY <1>14, <4>1, Zenon DEF AddressesIn
      <4>3. c[n] = Cardinality(AddressesIn(p, t, n))
        BY <1>4, <4>1, Zenon DEF Counted
      <4> QED
        BY <1>11, <4>1, <4>2, <4>3, Zenon
    <3> QED
      BY <3>1, <3>2, Zenon
  <2> QED
    BY <2>1, Zenon DEF Counted
<1>19. Flat!Create
  <2>1. PICK f : f = mappings /\ f = Image(p, t)
    BY <1>1, <1>2, MappingsAre, Zenon
  <2>2. PICK g : g = mappings' /\ g = Image(p2, t)
    BY <1>2, <1>7, MappingsAre, Zenon
  <2>3. DOMAIN f = DOMAIN p /\ DOMAIN g = DOMAIN p \cup {m}
    BY <1>9, <2>1, <2>2, Zenon DEF Image
  <2>4. g[m] = [va \in VirtualPages |-> NotPresent]
    BY <1>10, <1>15, <2>2, Zenon DEF Image
  <2>5. \A x \in DOMAIN p : g[x] = f[x]
    <3> SUFFICES ASSUME NEW x \in DOMAIN p PROVE g[x] = f[x]
      BY Zenon
    <3>1. g[x] = [va \in VirtualPages |-> Address(p2, t, x, va)]
      BY <1>11, <1>14, <2>2, <2>3, Zenon DEF Image
    <3>2. f[x] = [va \in VirtualPages |-> Address(p, t, x, va)]
      BY <1>11, <1>14, <2>1, <2>3, Zenon DEF Image
    <3>3. \A va \in VirtualPages : Address(p2, t, x, va) = Address(p, t, x, va)
      BY <1>11, <1>14, <2>3, Zenon
    <3> QED
      BY <3>1, <3>2, <3>3, Zenon
  <2>6. g = [x \in DOMAIN g |-> g[x]]
    BY <2>2, Zenon DEF Image
  <2>7. g = [x \in DOMAIN f \cup {m} |-> IF x = m THEN [va \in VirtualPages |-> NotPresent] ELSE f[x]]
    BY ONLY <2>3, <2>4, <2>5, <2>6
  <2>8. m \in DOMAIN g \ DOMAIN f
    BY <1>5, <2>3
  <2> QED
    <3>1. mappings' = [x \in DOMAIN mappings \cup {m} |-> IF x = m THEN Flat!Nothing ELSE mappings[x]]
      BY ONLY <2>1, <2>2, <2>7, Zenon DEF Flat!Nothing
    <3>2. m \in DOMAIN mappings' \ DOMAIN mappings
      BY <2>1, <2>2, <2>8, Zenon
    <3> QED
      BY ONLY <3>1, <3>2, Zenon DEF Flat!Create
<1> QED
  BY <1>2, <1>7, <1>8, <1>16, <1>17, <1>18, <1>19, Zenon DEF TablesRight

\* A map goes, and nothing else changes.
LEMMA DeleteMapRight ==
  ASSUME TablesRight(pgdir, pgtbl, fMappedPageCount), NEW m \in DOMAIN pgdir, DeleteMap(m)
  PROVE  /\ TablesRight(pgdir', pgtbl', fMappedPageCount')
         /\ Flat!Destroy(m)
<1>1. PICK p : p = pgdir
  OBVIOUS
<1>2. PICK t : t = pgtbl /\ t = pgtbl'
  BY Zenon DEF DeleteMap
<1>3. PICK c : c = fMappedPageCount
  OBVIOUS
<1>4. TableTypes(p, t, c) /\ Unshared(p) /\ Counted(p, t, c)
  BY <1>1, <1>2, <1>3, Zenon DEF TablesRight
<1>5. PICK p2 : p2 = pgdir' /\ p2 = [x \in DOMAIN p \ {m} |-> p[x]]
  BY <1>1, Zenon DEF DeleteMap
<1>6. PICK c2 : c2 = fMappedPageCount' /\ c2 = [x \in DOMAIN p \ {m} |-> c[x]]
  BY <1>1, <1>3, Zenon DEF DeleteMap
<1>7. DOMAIN p2 = DOMAIN p \ {m} /\ p2 = [x \in DOMAIN p2 |-> p2[x]] /\ c2 = [x \in DOMAIN p2 |-> c2[x]]
  BY <1>5, <1>6, Zenon
<1>8. \A x \in DOMAIN p2 : p2[x] = p[x] /\ c2[x] = c[x] /\ x \in DOMAIN p
  <2>1. \A x \in DOMAIN p \ {m} : x \in DOMAIN p
    OBVIOUS
  <2> QED
    BY <1>5, <1>6, <1>7, <2>1, Zenon
<1>9. \A x \in DOMAIN p2 : \A v : Address(p2, t, x, v) = Address(p, t, x, v)
  BY <1>8, Zenon DEF Address
<1>10. TableTypes(p2, t, c2)
  BY <1>4, <1>7, <1>8, Zenon DEF TableTypes
<1>11. Unshared(p2)
  <2>1. SUFFICES ASSUME NEW x \in DOMAIN p2, NEW n \in DOMAIN p2, NEW e \in Directory, NEW g \in Directory,
                        p2[x][e] = p2[n][g], p2[x][e] # NotPresent
                 PROVE  x = n /\ e = g
    BY DEF Unshared
  <2>2. x \in DOMAIN p /\ n \in DOMAIN p /\ p[x][e] = p[n][g] /\ p[x][e] # NotPresent
    BY <1>8, <2>1, Zenon
  <2> QED
    BY ONLY <1>4, <2>2, e \in Directory, g \in Directory DEF Unshared
<1>12. Counted(p2, t, c2)
  <2>1. ASSUME NEW n \in DOMAIN p2 PROVE c2[n] = Cardinality(AddressesIn(p2, t, n))
    <3>1. AddressesIn(p2, t, n) = AddressesIn(p, t, n)
      BY <1>9, Zenon DEF AddressesIn
    <3>2. c[n] = Cardinality(AddressesIn(p, t, n))
      BY <1>4, <1>8, Zenon DEF Counted
    <3> QED
      BY <1>8, <3>1, <3>2, Zenon
  <2> QED
    BY <2>1, Zenon DEF Counted
<1>13. Flat!Destroy(m)
  <2>1. PICK f : f = mappings /\ f = Image(p, t)
    BY <1>1, <1>2, MappingsAre, Zenon
  <2>2. PICK g : g = mappings' /\ g = Image(p2, t)
    BY <1>2, <1>5, MappingsAre, Zenon
  <2>3. DOMAIN f = DOMAIN p /\ DOMAIN g = DOMAIN p \ {m}
    BY <1>7, <2>1, <2>2, Zenon DEF Image
  <2>4. \A x \in DOMAIN g : g[x] = f[x]
    <3> SUFFICES ASSUME NEW x \in DOMAIN g PROVE g[x] = f[x]
      BY Zenon
    <3>1. g[x] = [va \in VirtualPages |-> Address(p2, t, x, va)]
      BY <1>7, <1>8, <1>9, <2>2, <2>3, Zenon DEF Image
    <3>2. f[x] = [va \in VirtualPages |-> Address(p, t, x, va)]
      BY <1>7, <1>8, <1>9, <2>1, <2>3, Zenon DEF Image
    <3>3. \A va \in VirtualPages : Address(p2, t, x, va) = Address(p, t, x, va)
      BY <1>7, <1>8, <1>9, <2>3, Zenon
    <3> QED
      BY <3>1, <3>2, <3>3, Zenon
  <2>5. g = [x \in DOMAIN g |-> g[x]]
    BY <2>2, Zenon DEF Image
  <2>6. g = [x \in DOMAIN f \ {m} |-> f[x]]
    BY ONLY <2>3, <2>4, <2>5
  <2> QED
    BY <2>1, <2>2, <2>6, Zenon DEF Flat!Destroy
<1> QED
  BY <1>2, <1>5, <1>6, <1>10, <1>11, <1>12, <1>13, Zenon DEF TablesRight

\* A page gets mapped, or replaced.
LEMMA MapPageFlat ==
  ASSUME NEW m \in DOMAIN pgdir, NEW va \in VirtualPages, NEW leaf \in MappedPages,
         Remapped(pgdir, pgtbl, pgdir', pgtbl', m, {va}, leaf)
  PROVE  m \in DOMAIN mappings' /\ Flat!Map(m, va)
<1>1. PICK p : p = pgdir
  OBVIOUS
<1>2. PICK t : t = pgtbl
  OBVIOUS
<1>3. PICK p2 : p2 = pgdir'
  OBVIOUS
<1>4. PICK t2 : t2 = pgtbl'
  OBVIOUS
<1>5. PICK f : f = mappings /\ f = Image(p, t)
  BY <1>1, <1>2, MappingsAre, Zenon
<1>6. PICK g : g = mappings' /\ g = Image(p2, t2)
  BY <1>3, <1>4, MappingsAre, Zenon
<1>7. /\ DOMAIN p2 = DOMAIN p /\ m \in DOMAIN p
      /\ \A n \in DOMAIN p : \A v \in VirtualPages :
           Address(p2, t2, n, v) = IF n = m /\ v \in {va} THEN leaf ELSE Address(p, t, n, v)
  BY <1>1, <1>2, <1>3, <1>4, Zenon DEF Remapped
<1>8. /\ f = [n \in DOMAIN p |-> f[n]] /\ \A n \in DOMAIN p : f[n] = [v \in VirtualPages |-> Address(p, t, n, v)]
  BY <1>5, Zenon DEF Image
<1>9. /\ g = [n \in DOMAIN p |-> g[n]] /\ \A n \in DOMAIN p : g[n] = [v \in VirtualPages |-> Address(p2, t2, n, v)]
  BY <1>6, <1>7, Zenon DEF Image
<1>10. g[m][va] = leaf
  <2>1. va \in {va}
    OBVIOUS
  <2> QED
    BY <1>7, <1>9, <2>1, Zenon
<1>11. g[m] = [f[m] EXCEPT ![va] = leaf]
  <2>1. \A v \in VirtualPages : Address(p2, t2, m, v) = IF v = va THEN leaf ELSE Address(p, t, m, v)
    <3>1. \A v : v \in {va} <=> v = va
      OBVIOUS
    <3> QED
      BY <1>7, <3>1, Zenon
  <2>2. g[m] = [v \in VirtualPages |-> IF v = va THEN leaf ELSE Address(p, t, m, v)]
    <3>1. g[m] = [v \in VirtualPages |-> Address(p2, t2, m, v)]
      BY <1>7, <1>9, Zenon
    <3> QED
      BY ONLY <2>1, <3>1, Zenon
  <2>3. f[m] = [v \in VirtualPages |-> Address(p, t, m, v)]
    BY <1>7, <1>8, Zenon
  <2> QED
    BY ONLY <2>2, <2>3
<1>12. \A n \in DOMAIN p : n # m => g[n] = f[n]
  <2> SUFFICES ASSUME NEW n \in DOMAIN p, n # m PROVE g[n] = f[n]
    BY Zenon
  <2>1. \A v \in VirtualPages : Address(p2, t2, n, v) = Address(p, t, n, v)
    BY <1>7, Zenon
  <2>2. g[n] = [v \in VirtualPages |-> Address(p2, t2, n, v)]
    BY <1>9, Zenon
  <2>3. f[n] = [v \in VirtualPages |-> Address(p, t, n, v)]
    BY <1>8, Zenon
  <2> QED
    BY ONLY <2>1, <2>2, <2>3, Zenon
<1>13. g = [f EXCEPT ![m] = [f[m] EXCEPT ![va] = leaf]]
  BY ONLY <1>7, <1>8, <1>9, <1>11, <1>12
<1>14. g = [f EXCEPT ![m][va] = leaf]
  BY <1>13, Zenon
<1>15. leaf # NotPresent
  BY PageTablesAssumption
<1>16. m \in DOMAIN g
  BY <1>7, <1>9, Zenon
<1>17. g[m][va] # NotPresent /\ g = [f EXCEPT ![m][va] = g[m][va]]
  BY <1>10, <1>14, <1>15, Zenon
<1> QED
  BY <1>5, <1>6, <1>16, <1>17, Zenon DEF Flat!Map

\* The range gets unmapped.
LEMMA UnmapPagesFlat ==
  ASSUME NEW m \in DOMAIN pgdir, NEW low, NEW high,
         Remapped(pgdir, pgtbl, pgdir', pgtbl', m, low..high, NotPresent)
  PROVE  Flat!Unmap(m, low, high)
<1>1. PICK p : p = pgdir
  OBVIOUS
<1>2. PICK t : t = pgtbl
  OBVIOUS
<1>3. PICK p2 : p2 = pgdir'
  OBVIOUS
<1>4. PICK t2 : t2 = pgtbl'
  OBVIOUS
<1>5. PICK f : f = mappings /\ f = Image(p, t)
  BY <1>1, <1>2, MappingsAre, Zenon
<1>6. PICK g : g = mappings' /\ g = Image(p2, t2)
  BY <1>3, <1>4, MappingsAre, Zenon
<1>7. /\ DOMAIN p2 = DOMAIN p /\ m \in DOMAIN p
      /\ \A n \in DOMAIN p : \A v \in VirtualPages :
           Address(p2, t2, n, v) = IF n = m /\ v \in low..high THEN NotPresent ELSE Address(p, t, n, v)
  BY <1>1, <1>2, <1>3, <1>4, Zenon DEF Remapped
<1>8. /\ f = [n \in DOMAIN p |-> f[n]] /\ \A n \in DOMAIN p : f[n] = [v \in VirtualPages |-> Address(p, t, n, v)]
  BY <1>5, Zenon DEF Image
<1>9. /\ g = [n \in DOMAIN p |-> g[n]] /\ \A n \in DOMAIN p : g[n] = [v \in VirtualPages |-> Address(p2, t2, n, v)]
  BY <1>6, <1>7, Zenon DEF Image
<1>10. PICK y : y = [v \in VirtualPages |-> IF v \in low..high THEN NotPresent ELSE f[m][v]]
  OBVIOUS
<1>11. g[m] = y
  <2>1. \A v \in VirtualPages : Address(p2, t2, m, v) = IF v \in low..high THEN NotPresent ELSE f[m][v]
    BY <1>7, <1>8, Zenon
  <2>2. g[m] = [v \in VirtualPages |-> Address(p2, t2, m, v)]
    BY <1>7, <1>9, Zenon
  <2> QED
    BY ONLY <1>10, <2>1, <2>2, Zenon
<1>12. \A n \in DOMAIN p : n # m => g[n] = f[n]
  <2> SUFFICES ASSUME NEW n \in DOMAIN p, n # m PROVE g[n] = f[n]
    BY Zenon
  <2>1. \A v \in VirtualPages : Address(p2, t2, n, v) = Address(p, t, n, v)
    BY <1>7, Zenon
  <2>2. g[n] = [v \in VirtualPages |-> Address(p2, t2, n, v)]
    BY <1>9, Zenon
  <2>3. f[n] = [v \in VirtualPages |-> Address(p, t, n, v)]
    BY <1>8, Zenon
  <2> QED
    BY ONLY <2>1, <2>2, <2>3, Zenon
<1>13. g = [f EXCEPT ![m] = y]
  BY ONLY <1>7, <1>8, <1>9, <1>11, <1>12
<1> QED
  BY <1>5, <1>6, <1>10, <1>13, Zenon DEF Flat!Unmap

LEMMA TablesRightFirst == TableInit => TablesRight(pgdir, pgtbl, fMappedPageCount)
<1> SUFFICES ASSUME TableInit PROVE TablesRight(pgdir, pgtbl, fMappedPageCount)
  OBVIOUS
<1>1. PICK none : none = << >>
  OBVIOUS
<1>2. DOMAIN none = {} /\ none = [m \in DOMAIN none |-> none[m]]
  BY ONLY <1>1
<1>3. pgdir = none /\ fMappedPageCount = none
  BY <1>1, Zenon DEF TableInit
<1>4. pgtbl \in [TableFrames -> [TableIndices -> Contents]]
  <2>1. PICK x \in Contents : x = LastUse
    BY DEF Contents
  <2>2. pgtbl = [table \in TableFrames |-> [i \in TableIndices |-> x]]
    BY <2>1, Zenon DEF TableInit, TableIndices
  <2> QED
    BY ONLY <2>2, x \in Contents
<1>5. \A m : m \notin DOMAIN none
  BY <1>2
<1> QED
  BY <1>2, <1>3, <1>4, <1>5, Zenon DEF TablesRight, TableTypes, Unshared, Counted

LEMMA TablesRightNext ==
  TablesRight(pgdir, pgtbl, fMappedPageCount) /\ [TableNext]_tableVars
  => TablesRight(pgdir', pgtbl', fMappedPageCount') /\ [Flat!Next]_mappings
<1> SUFFICES ASSUME TablesRight(pgdir, pgtbl, fMappedPageCount), [TableNext]_tableVars
             PROVE  TablesRight(pgdir', pgtbl', fMappedPageCount') /\ (Flat!Next \/ mappings' = mappings)
  BY Zenon
<1>0. DOMAIN mappings = DOMAIN pgdir
  BY Zenon DEF mappings
<1>1. ASSUME NEW m \in Maps, NewMap(m)
      PROVE  TablesRight(pgdir', pgtbl', fMappedPageCount') /\ Flat!Next
  BY <1>1, NewMapRight, Zenon DEF Flat!Next
<1>2. ASSUME NEW m \in DOMAIN pgdir, DeleteMap(m)
      PROVE  TablesRight(pgdir', pgtbl', fMappedPageCount') /\ Flat!Next
  BY <1>0, <1>2, DeleteMapRight, Zenon DEF Flat!Next
<1>3. ASSUME NEW m \in DOMAIN pgdir, NEW va \in VirtualPages, NEW leaf \in MappedPages, MapPage(m, va, leaf)
      PROVE  TablesRight(pgdir', pgtbl', fMappedPageCount') /\ Flat!Next
  <2>1. /\ TablesRight(pgdir', pgtbl', fMappedPageCount')
        /\ Remapped(pgdir, pgtbl, pgdir', pgtbl', m, {va}, leaf)
    BY <1>3, MapPageRight, Zenon
  <2>2. m \in DOMAIN mappings' /\ Flat!Map(m, va)
    BY <2>1, MapPageFlat, Zenon
  <2> QED
    BY <1>0, <2>1, <2>2, Zenon DEF Flat!Next
<1>4. ASSUME NEW m \in DOMAIN pgdir, NEW va \in VirtualPages, NEW count \in 1..(DirectorySize * TableSize),
             UnmapPages(m, va, count)
      PROVE  TablesRight(pgdir', pgtbl', fMappedPageCount') /\ Flat!Next
  <2>1. PICK b \in Int : b = DirectorySize * TableSize
    BY ONLY TableSizes
  <2>2. count \in Nat /\ count >= 1
    BY ONLY <2>1, count \in 1..(DirectorySize * TableSize)
  <2>3. /\ TablesRight(pgdir', pgtbl', fMappedPageCount')
        /\ Remapped(pgdir, pgtbl, pgdir', pgtbl', m, va..(va + count - 1), NotPresent)
    BY <1>4, <2>2, UnmapPagesRight, Zenon
  <2>4. Flat!Unmap(m, va, va + count - 1)
    BY <2>3, UnmapPagesFlat, Zenon
  <2>5. va + count - 1 \in VirtualPages
    <3>1. va + count <= b /\ VirtualPages = 0..(b - 1)
      BY <1>4, <2>1, Zenon DEF UnmapPages, VirtualPages
    <3>2. va \in Nat
      BY PlaceIn, Zenon
    <3> QED
      BY ONLY <2>1, <2>2, <3>1, <3>2
  <2> QED
    BY <1>0, <2>3, <2>4, <2>5, Zenon DEF Flat!Next
<1>5. CASE UNCHANGED tableVars
  <2>1. pgdir' = pgdir /\ pgtbl' = pgtbl /\ fMappedPageCount' = fMappedPageCount
    BY <1>5, Zenon DEF tableVars
  <2>2. mappings' = mappings
    BY <2>1, MappingsAre, Zenon
  <2> QED
    BY <2>1, <2>2, Zenon
<1> QED
  BY <1>1, <1>2, <1>3, <1>4, <1>5, Zenon DEF TableNext

\* Tables are never shared, and CountMappedPages is the number of pages that a map
\* has, for any number of maps and tables of any size: what Map replaces is not
\* counted twice, and Unmap counts what it clears.
THEOREM PageTablesCounted == TableSpec => []PagesCounted
<1> DEFINE Right == TablesRight(pgdir, pgtbl, fMappedPageCount)
<1>1. TableInit => Right
  BY TablesRightFirst, Zenon
<1>2. Right /\ [TableNext]_tableVars => Right'
  BY TablesRightNext, Zenon
<1>3. Right => PagesCounted
  BY RightPagesCounted, Zenon
<1> QED
  BY <1>1, <1>2, <1>3, PTL DEF TableSpec

\* Directories and tables, made when needed from pages with anything in them,
\* implement AddressMaps: Map changes one address of one map, and Unmap's loop over
\* tables that are there and tables that are not unmaps its range and no more.
THEOREM PageTablesImplement == TableSpec => MapsImplement
<1> DEFINE Right == TablesRight(pgdir, pgtbl, fMappedPageCount)
<1>1. TableInit => Right
  BY TablesRightFirst, Zenon
<1>2. Right /\ [TableNext]_tableVars => Right' /\ [Flat!Next]_mappings
  BY TablesRightNext, Zenon
<1>3. TableInit => Flat!Init
  <2> SUFFICES ASSUME TableInit PROVE mappings = << >>
    BY Zenon DEF Flat!Init
  <2>1. pgdir = << >>
    BY Zenon DEF TableInit
  <2>2. DOMAIN pgdir = {}
    BY ONLY <2>1
  <2>3. PICK f : f = mappings
    OBVIOUS
  <2>4. f = [m \in {} |-> [va \in VirtualPages |-> PhysicalAddress(m, va)]]
    BY <2>2, <2>3, Zenon DEF mappings
  <2>5. f = << >>
    BY ONLY <2>4
  <2> QED
    BY <2>3, <2>5, Zenon
<1> QED
  BY <1>1, <1>2, <1>3, PTL DEF TableSpec, MapsImplement, Flat!Spec

-----------------------------------------------------------------------------
(* FrameMap: the bitmap. *)

FramesFrom(f, size) == f..(f + size - 1)

FramesOfKernel == 0..(startBlock - 1)

EntriesIn(m) == {m.m_entries[d] : d \in Tables} \ {0}

LEMMA FrameSizes ==
  /\ m_maxBlocks \in Nat /\ startBlock \in Nat /\ startBlock >= 1 /\ startBlock <= m_maxBlocks
  /\ PMM_BITS_PER_INDEX \in Nat \ {0} /\ PAGES_PER_TABLE \in Nat \ {0}
  /\ 0 \in Frames /\ 0 \in FramesOfKernel /\ FramesOfKernel \subseteq Frames /\ Frames \subseteq Nat
BY FrameAssumption DEF Frames, FramesOfKernel

\* When the bitmap fills its frames, what it and the kernel take is what is never freed.
LEMMA KernelFramesAre == BitmapFillsItsFrames => KernelFrames = FramesOfKernel
<1> SUFFICES ASSUME BitmapFillsItsFrames PROVE KernelFrames = FramesOfKernel
  OBVIOUS
<1>1. PICK a \in Nat, size \in Nat \ {0}, b \in Nat : a = availablePoint /\ size = PMM_BLOCK_SIZE /\ b = startBlock
  BY FrameAssumption, FrameSizes, Zenon
<1>2. b * size = a
  BY <1>1, Multiple, Zenon DEF BitmapFillsItsFrames, startBlock
<1>3. ASSUME NEW f \in Frames PROVE f * PMM_BLOCK_SIZE < availablePoint <=> f < startBlock
  <2>1. PICK x \in Nat : x = f
    BY FrameSizes, Zenon
  <2>2. ASSUME x < b PROVE x * size < a
    <3>1. (x + 1) * size <= b * size
      BY <2>2, <1>1
    <3>2. (x + 1) * size = x * size + size
      OBVIOUS
    <3>3. x * size \in Nat
      OBVIOUS
    <3> QED
      BY <1>1, <1>2, <3>1, <3>2, <3>3
  <2>3. ASSUME ~(x < b) PROVE ~(x * size < a)
    <3>1. b * size <= x * size
      BY <2>3, <1>1
    <3>2. x * size \in Nat
      OBVIOUS
    <3> QED
      BY <1>1, <1>2, <3>1, <3>2
  <2> QED
    BY <1>1, <2>1, <2>2, <2>3, Zenon
<1>4. \A f \in Frames : f \in FramesOfKernel <=> f < startBlock
  BY FrameSizes DEF FramesOfKernel
<1>5. FramesOfKernel \subseteq Frames
  BY FrameSizes, Zenon
<1> QED
  BY <1>3, <1>4, <1>5, Zenon DEF KernelFrames

LEMMA FramesFinite ==
  ASSUME NEW S \in SUBSET Frames
  PROVE  IsFiniteSet(S) /\ Cardinality(S) \in Nat
<1>1. IsFiniteSet(Frames)
  <2>1. PICK b \in Int : b = m_maxBlocks - 1
    BY FrameSizes
  <2>2. IsFiniteSet(0..b)
    BY FS_Interval
  <2> QED
    BY <2>1, <2>2, Zenon DEF Frames
<1>2. IsFiniteSet(S)
  BY <1>1, FS_Subset, Zenon
<1> QED
  BY <1>2, FS_CardinalityType, Zenon

LEMMA LeastFrame ==
  ASSUME NEW S \in SUBSET Nat, S # {}
  PROVE  Min(S) \in S /\ \A y \in S : Min(S) <= y
<1>1. \E x \in S : \A y \in S : x <= y
  BY LeastNumber, Zenon
<1> QED
  BY <1>1, Zenon DEF Min

LEMMA FreeBitsFree == \A m : FreeBits(m) \subseteq Frames \ m.map /\ FreeBits(m) \subseteq Nat
<1> TAKE m
<1> QED
  BY FrameSizes DEF FreeBits

\* How far the frames from f on are free.
Stops(m, f, size, k) == k = size \/ f + k >= m_maxBlocks \/ f + k \in m.map

CountRight(m, f, size, c) ==
  /\ c \in 0..size
  /\ Stops(m, f, size, c)
  /\ \A k \in 0..size : k < c => ~Stops(m, f, size, k)

LEMMA CountFreeRight ==
  ASSUME NEW m, NEW f \in Nat, NEW size \in Nat
  PROVE  CountRight(m, f, size, CountFree(m, f, size))
<1>1. PICK S : S = {k \in 0..size : Stops(m, f, size, k)}
  OBVIOUS
<1>2. CountFree(m, f, size) = Min(S)
  BY <1>1, Zenon DEF CountFree, Stops
<1>3. S \in SUBSET Nat
  BY ONLY <1>1, size \in Nat
<1>4. size \in S
  BY <1>1 DEF Stops
<1>5. Min(S) \in S /\ \A y \in S : Min(S) <= y
  BY <1>3, <1>4, LeastFrame, Zenon
<1>6. PICK c \in S : c = Min(S)
  BY <1>5, Zenon
<1>7. c \in 0..size /\ Stops(m, f, size, c)
  BY <1>1, Zenon
<1>8. \A k \in 0..size : k < c => ~Stops(m, f, size, k)
  <2> SUFFICES ASSUME NEW k \in 0..size, k < c, Stops(m, f, size, k) PROVE FALSE
    BY Zenon
  <2>1. k \in S
    BY <1>1, Zenon
  <2>2. c <= k
    BY <1>5, <1>6, <2>1, Zenon
  <2> QED
    BY ONLY <2>2, k < c, k \in 0..size, <1>7, size \in Nat
<1> QED
  BY <1>2, <1>6, <1>7, <1>8, Zenon DEF CountRight

\* Frames from f on, as many as are wanted, are free.
IsRun(m, f, size) == \A i \in FramesFrom(f, size) : i \in Frames \ m.map

LEMMA RunIsCounted ==
  ASSUME NEW m, NEW f \in Nat, NEW size \in Nat, NEW c, CountRight(m, f, size, c)
  PROVE  IsRun(m, f, size) <=> c = size
<1>1. c \in Nat /\ c <= size
  BY DEF CountRight
<1>2. ASSUME c = size, NEW i \in FramesFrom(f, size) PROVE i \in Frames \ m.map
  <2>1. PICK k \in 0..size : k = i - f /\ k < c /\ i = f + k
    <3>1. i - f \in 0..size /\ i - f < c /\ i = f + (i - f)
      BY <1>2 DEF FramesFrom
    <3> QED
      BY <3>1, Zenon
  <2>2. ~Stops(m, f, size, k)
    BY <2>1, Zenon DEF CountRight
  <2>3. ~(f + k >= m_maxBlocks) /\ f + k \notin m.map
    BY <2>2, Zenon DEF Stops
  <2>4. f + k \in Frames
    BY <2>3, FrameSizes DEF Frames
  <2> QED
    BY <2>1, <2>3, <2>4, Zenon
<1>3. ASSUME IsRun(m, f, size), c # size PROVE FALSE
  <2>1. f + c \in FramesFrom(f, size)
    BY <1>1, <1>3 DEF FramesFrom
  <2>2. f + c \in Frames /\ f + c \notin m.map
    BY <1>3, <2>1 DEF IsRun
  <2>3. f + c < m_maxBlocks
    BY <2>2, FrameSizes DEF Frames
  <2>4. ~(f + c >= m_maxBlocks)
    BY <2>3, <1>1, FrameSizes
  <2> QED
    BY <1>3, <2>2, <2>4, Zenon DEF CountRight, Stops
<1> QED
  BY <1>2, <1>3, Zenon DEF IsRun

\* The first place where as many frames as are wanted are free, or -1.
FirstRun(m, starts, size, s) ==
  LET runs == {f \in starts : IsRun(m, f, size)}
  IN  s = IF runs = {} THEN -1 ELSE Min(runs)

LEMMA SearchIsFirst ==
  ASSUME NEW m, NEW starts \in SUBSET Nat, NEW size \in Nat
  PROVE  FirstRun(m, starts, size, SearchFrames(m, starts, size))
<1>1. PICK ends : ends = {f \in starts : \/ CountFree(m, f, size) = size
                                         \/ f + CountFree(m, f, size) >= m_maxBlocks}
  OBVIOUS
<1>2. PICK runs : runs = {f \in starts : IsRun(m, f, size)}
  OBVIOUS
<1>3. SearchFrames(m, starts, size) =
        IF ends = {} \/ CountFree(m, Min(ends), size) < size THEN -1 ELSE Min(ends)
  BY <1>1, Zenon DEF SearchFrames
<1>4. \A f \in starts : f \in runs <=> CountFree(m, f, size) = size
  <2> TAKE f \in starts
  <2>1. CountRight(m, f, size, CountFree(m, f, size))
    BY CountFreeRight, Zenon
  <2>2. IsRun(m, f, size) <=> CountFree(m, f, size) = size
    BY <2>1, RunIsCounted, Zenon
  <2> QED
    BY <1>2, <2>2, Zenon
<1>5. runs \subseteq ends /\ runs \subseteq starts /\ ends \subseteq starts
  BY <1>1, <1>2, <1>4, Zenon
<1>6. CASE ends = {}
  <2>1. runs = {}
    BY <1>5, <1>6, Zenon
  <2> QED
    BY <1>2, <1>3, <1>6, <2>1, Zenon DEF FirstRun
<1>7. CASE ends # {}
  <2>1. ends \in SUBSET Nat
    BY <1>5, Zenon
  <2>2. PICK e \in ends : e = Min(ends) /\ \A y \in ends : e <= y
    BY <1>7, <2>1, LeastFrame, Zenon
  <2>3. PICK c : c = CountFree(m, e, size)
    OBVIOUS
  <2>4. e \in Nat /\ e \in starts
    BY <1>5, Zenon
  <2>5. CountRight(m, e, size, c)
    BY <2>3, <2>4, CountFreeRight, Zenon
  <2>6. c \in Nat /\ c <= size
    BY <2>5 DEF CountRight
  <2>7. CASE c < size
    <3>1. c # size
      BY <2>6, <2>7
    <3>2. e + c >= m_maxBlocks
      BY <1>1, <2>3, <3>1, Zenon
    <3>3. ASSUME NEW r \in runs PROVE FALSE
      <4>1. r \in Nat /\ r \in starts /\ e <= r
        BY <1>5, <2>2, <1>3, Zenon
      <4>2. IsRun(m, r, size)
        BY <1>2, <3>3, Zenon
      <4>3. r + size - 1 \in FramesFrom(r, size)
        BY <2>6, <2>7, <4>1 DEF FramesFrom
      <4>4. r + size - 1 \in Frames
        BY <4>2, <4>3 DEF IsRun
      <4>5. r + size <= m_maxBlocks
        BY <4>4, <4>1, FrameSizes DEF Frames
      <4> QED
        BY <4>1, <4>5, <3>2, <2>4, <2>6, <2>7, FrameSizes
    <3>4. runs = {}
      BY <3>3, Zenon
    <3> QED
      BY <1>2, <1>3, <2>2, <2>3, <2>7, <3>4, Zenon DEF FirstRun
  <2>8. CASE ~(c < size)
    <3>1. c = size
      BY <2>6, <2>8
    <3>2. e \in runs
      BY <1>4, <2>3, <2>4, <3>1, Zenon
    <3>3. Min(runs) \in runs /\ \A y \in runs : Min(runs) <= y
      <4>1. runs \in SUBSET Nat /\ runs # {}
        BY <1>5, <3>2, Zenon
      <4> QED
        BY <4>1, LeastFrame, Zenon
    <3>4. e <= Min(runs) /\ Min(runs) <= e /\ Min(runs) \in Nat
      BY <1>5, <2>2, <3>2, <3>3, Zenon
    <3>5. e = Min(runs)
      BY <3>4, <2>4
    <3>6. runs # {}
      BY <3>2, Zenon
    <3> QED
      BY <1>2, <1>3, <1>7, <2>2, <2>3, <2>8, <3>5, <3>6, Zenon DEF FirstRun
  <2> QED
    BY <2>7, <2>8, Zenon
<1> QED
  BY <1>6, <1>7, Zenon

\* GetFreeFrame finds the first run of one, GetFreeFrames that of more.
LEMMA FreeFramesFirst ==
  ASSUME NEW m, NEW size \in Nat, size # 0
  PROVE  FirstRun(m, FreeBits(m), size, GetFreeFrames(m, size))
<1>0. FreeBits(m) \in SUBSET Nat /\ FreeBits(m) \subseteq Frames \ m.map
  BY FreeBitsFree, Zenon
<1>1. CASE size = 1
  <2>1. GetFreeFrames(m, size) = IF FreeBits(m) = {} THEN -1 ELSE Min(FreeBits(m))
    BY <1>1 DEF GetFreeFrames, GetFreeFrame
  <2>2. \A f \in FreeBits(m) : IsRun(m, f, size)
    <3> TAKE f \in FreeBits(m)
    <3>1. f \in Nat /\ f \in Frames \ m.map
      BY <1>0, Zenon
    <3>2. \A i \in f..(f + 1 - 1) : i = f
      BY <3>1
    <3> QED
      BY <1>1, <3>1, <3>2, Zenon DEF IsRun, FramesFrom
  <2>3. {f \in FreeBits(m) : IsRun(m, f, size)} = FreeBits(m)
    BY <2>2, Zenon
  <2> QED
    BY <2>1, <2>3, Zenon DEF FirstRun
<1>2. CASE size # 1
  <2>1. GetFreeFrames(m, size) = SearchFrames(m, FreeBits(m), size)
    BY <1>2 DEF GetFreeFrames
  <2> QED
    BY <1>0, <2>1, SearchIsFirst, Zenon
<1> QED
  BY <1>1, <1>2, Zenon

\* AllocBlocks finds the lowest free run that begins in a full word of the bitmap, and
\* gives up only when there is none, whatever frames are in use.
THEOREM FrameMapFindsTheFirstRun == FrameSpec => []FindsTheFirstRun
<1>1. FindsTheFirstRun
  <2> SUFFICES ASSUME NEW size \in 1..m_maxBlocks
               PROVE  LET runs == {f \in FreeBits(mm) : \A i \in f..(f + size - 1) : i \in Frames \ mm.map}
                      IN  GetFreeFrames(mm, size) = IF runs = {} THEN -1 ELSE Min(runs)
    BY Zenon DEF FindsTheFirstRun
  <2>1. size \in Nat /\ size # 0
    BY FrameSizes
  <2>2. FirstRun(mm, FreeBits(mm), size, GetFreeFrames(mm, size))
    BY <2>1, FreeFramesFirst, Zenon
  <2> QED
    BY <2>2, Zenon DEF FirstRun, IsRun, FramesFrom
<1> QED
  BY <1>1, PTL

-----------------------------------------------------------------------------
(* What holds of the memory m when the frames in B are behind pages and those in G
   were given away.                                                              *)

MemoryTypes(m) ==
  /\ m = [map |-> m.map, m_usedBlocks |-> m.m_usedBlocks, m_entries |-> m.m_entries,
          tables |-> m.tables, low |-> m.low]
  /\ m.map \in SUBSET Frames
  /\ m.m_usedBlocks = Cardinality(m.map)
  /\ m.m_entries \in [Tables -> Frames]

\* No table is in two entries of the directory.
OwnTables(m) ==
  \A d, e \in Tables : m.m_entries[d] = m.m_entries[e] => m.m_entries[d] = 0 \/ d = e

\* No frame has two uses.
OneUse(T, B, G) ==
  /\ FramesOfKernel \cap T = {} /\ FramesOfKernel \cap B = {} /\ FramesOfKernel \cap G = {}
  /\ T \cap B = {} /\ T \cap G = {} /\ B \cap G = {}

\* Tables lead to frames that are behind pages, or to devices.
Leads(m, B) ==
  /\ DOMAIN m.tables = EntriesIn(m)
  /\ \A f \in EntriesIn(m) :
       m.tables[f] \in [0..(PAGES_PER_TABLE - 1) -> {0} \cup B \cup DeviceFrames]

MemoryRight(m, B, G) ==
  /\ MemoryTypes(m)
  /\ OwnTables(m)
  /\ m.map = FramesOfKernel \cup EntriesIn(m) \cup B \cup G
  /\ OneUse(EntriesIn(m), B, G)
  /\ Leads(m, B)

\* A page leads nowhere, or to the frame that was put behind it.
Leading(m, beh) == \A page \in Pages : GetPhysicalAddress(m, page) \in {0, beh[page]}

\* w is m with the frames in R taken.
Taken(m, R, w) ==
  /\ MemoryTypes(w)
  /\ w.map = m.map \cup R
  /\ w.m_entries = m.m_entries /\ w.tables = m.tables /\ w.low = m.low

\* w is m with the frames in R free.
Freed(m, R, w) ==
  /\ MemoryTypes(w)
  /\ w.map = m.map \ R
  /\ w.m_entries = m.m_entries /\ w.tables = m.tables /\ w.low = m.low

LEMMA FramesFromSize ==
  ASSUME NEW f \in Nat, NEW size \in Nat
  PROVE  IsFiniteSet(FramesFrom(f, size)) /\ Cardinality(FramesFrom(f, size)) = size
<1>1. PICK b \in Int : b = f + size - 1
  OBVIOUS
<1>2. IsFiniteSet(f..b) /\ Cardinality(f..b) = IF f > b THEN 0 ELSE b - f + 1
  BY FS_Interval
<1>3. Cardinality(f..b) = size
  BY <1>1, <1>2
<1> QED
  BY <1>1, <1>2, <1>3, Zenon DEF FramesFrom

LEMMA TookTakes ==
  ASSUME NEW m, MemoryTypes(m), NEW f \in Frames, NEW size \in Nat,
         FramesFrom(f, size) \subseteq Frames \ m.map
  PROVE  Taken(m, FramesFrom(f, size), Took(m, f, size).m)
<1>0. f \in Nat /\ m.map \in SUBSET Frames /\ m.m_entries \in [Tables -> Frames]
  BY FrameSizes, Zenon DEF MemoryTypes
<1>1. PICK R : R = FramesFrom(f, size)
  OBVIOUS
<1>2. PICK w : w = [map |-> m.map \cup R, m_usedBlocks |-> m.m_usedBlocks + size, m_entries |-> m.m_entries,
                    tables |-> m.tables, low |-> m.low]
  OBVIOUS
<1>3. Took(m, f, size).m = w
  <2>1. Took(m, f, size).m = [m EXCEPT !.map = m.map \cup R, !.m_usedBlocks = m.m_usedBlocks + size]
    BY <1>1, Zenon DEF Took, FramesFrom
  <2>2. m = [map |-> m.map, m_usedBlocks |-> m.m_usedBlocks, m_entries |-> m.m_entries,
             tables |-> m.tables, low |-> m.low]
    BY Zenon DEF MemoryTypes
  <2> QED
    BY ONLY <1>2, <2>1, <2>2
<1>4. w.map = m.map \cup R /\ w.m_entries = m.m_entries /\ w.tables = m.tables /\ w.low = m.low
      /\ w.m_usedBlocks = m.m_usedBlocks + size
  BY <1>2, Zenon
<1>5. w.map \in SUBSET Frames
  BY <1>0, <1>1, <1>4, Zenon
<1>6. w.m_usedBlocks = Cardinality(w.map)
  <2>1. IsFiniteSet(m.map) /\ IsFiniteSet(R) /\ Cardinality(R) = size /\ Cardinality(m.map) \in Nat
    BY <1>0, <1>1, FramesFinite, FramesFromSize, Zenon
  <2>2. m.map \cap R = {}
    BY <1>1, Zenon
  <2>3. Cardinality(m.map \cup R) = Cardinality(m.map) + Cardinality(R) - Cardinality(m.map \cap R)
    BY <2>1, FS_Union, Zenon
  <2>4. Cardinality(m.map \cap R) = 0
    BY <2>2, FS_EmptySet, Zenon
  <2>5. m.m_usedBlocks = Cardinality(m.map)
    BY Zenon DEF MemoryTypes
  <2>6. Cardinality(m.map \cup R) = Cardinality(m.map) + size
    BY ONLY <2>1, <2>3, <2>4, size \in Nat
  <2> QED
    BY <1>4, <2>5, <2>6, Zenon
<1>7. MemoryTypes(w)
  BY <1>0, <1>2, <1>4, <1>5, <1>6, Zenon DEF MemoryTypes
<1> QED
  BY <1>1, <1>3, <1>4, <1>7, Zenon DEF Taken

LEMMA FreeBlocksFrees ==
  ASSUME NEW m, MemoryTypes(m), NEW f \in Nat, NEW size \in Nat, FramesFrom(f, size) \subseteq m.map
  PROVE  Freed(m, FramesFrom(f, size), FreeBlocks(m, f, size))
<1>0. m.map \in SUBSET Frames /\ m.m_entries \in [Tables -> Frames]
  BY Zenon DEF MemoryTypes
<1>1. PICK R : R = FramesFrom(f, size)
  OBVIOUS
<1>2. PICK w : w = [map |-> m.map \ R, m_usedBlocks |-> m.m_usedBlocks - size, m_entries |-> m.m_entries,
                    tables |-> m.tables, low |-> m.low]
  OBVIOUS
<1>3. FreeBlocks(m, f, size) = w
  <2>1. FreeBlocks(m, f, size) = [m EXCEPT !.map = m.map \ R, !.m_usedBlocks = m.m_usedBlocks - size]
    BY <1>1, Zenon DEF FreeBlocks, FramesFrom
  <2>2. m = [map |-> m.map, m_usedBlocks |-> m.m_usedBlocks, m_entries |-> m.m_entries,
             tables |-> m.tables, low |-> m.low]
    BY Zenon DEF MemoryTypes
  <2> QED
    BY ONLY <1>2, <2>1, <2>2
<1>4. w.map = m.map \ R /\ w.m_entries = m.m_entries /\ w.tables = m.tables /\ w.low = m.low
      /\ w.m_usedBlocks = m.m_usedBlocks - size
  BY <1>2, Zenon
<1>5. w.map \in SUBSET Frames
  BY <1>0, <1>4, Zenon
<1>6. w.m_usedBlocks = Cardinality(w.map)
  <2>1. IsFiniteSet(m.map) /\ Cardinality(R) = size /\ Cardinality(m.map) \in Nat
    BY <1>0, <1>1, FramesFinite, FramesFromSize, Zenon
  <2>2. m.map \cap R = R
    BY <1>1, Zenon
  <2>3. Cardinality(m.map \ R) = Cardinality(m.map) - Cardinality(m.map \cap R)
    BY <2>1, FS_Difference, Zenon
  <2>4. m.m_usedBlocks = Cardinality(m.map)
    BY Zenon DEF MemoryTypes
  <2> QED
    BY <1>4, <2>1, <2>2, <2>3, <2>4, Zenon
<1>7. MemoryTypes(w)
  BY <1>0, <1>2, <1>4, <1>5, <1>6, Zenon DEF MemoryTypes
<1> QED
  BY <1>1, <1>3, <1>4, <1>7, Zenon DEF Freed

\* What an allocation returns: frames that were free, or nothing.
AllocatedFrames(m, size, got) ==
  \/ got.frame = 0 /\ got.m = m
  \/ /\ got.frame \in Frames /\ got.frame # 0
     /\ FramesFrom(got.frame, size) \subseteq Frames \ m.map
     /\ Taken(m, FramesFrom(got.frame, size), got.m)

LEMMA TookAllocates ==
  ASSUME NEW m, MemoryTypes(m), 0 \in m.map, NEW size \in Nat \ {0}, NEW f, f \in FreeBits(m), IsRun(m, f, size)
  PROVE  AllocatedFrames(m, size, Took(m, f, size))
<1>1. f \in Frames \ m.map
  BY FreeBitsFree, Zenon
<1>2. f # 0
  BY <1>1, Zenon
<1>3. FramesFrom(f, size) \subseteq Frames \ m.map
  BY Zenon DEF IsRun
<1>4. Taken(m, FramesFrom(f, size), Took(m, f, size).m)
  BY <1>1, <1>3, TookTakes
<1>5. Took(m, f, size).frame = f
  BY Zenon DEF Took
<1> QED
  BY <1>1, <1>2, <1>3, <1>4, <1>5, Zenon DEF AllocatedFrames

LEMMA NoFrameAllocates == ASSUME NEW m, NEW size PROVE AllocatedFrames(m, size, NoFrame(m))
BY Zenon DEF AllocatedFrames, NoFrame

LEMMA FirstRunIs ==
  ASSUME NEW m, NEW starts \in SUBSET Nat, NEW size \in Nat, NEW s, FirstRun(m, starts, size, s), s # -1
  PROVE  s \in starts /\ IsRun(m, s, size)
<1>1. PICK runs : runs = {f \in starts : IsRun(m, f, size)}
  OBVIOUS
<1>2. s = IF runs = {} THEN -1 ELSE Min(runs)
  BY <1>1, Zenon DEF FirstRun
<1>3. runs # {} /\ s = Min(runs)
  BY <1>2, Zenon
<1>4. runs \in SUBSET Nat
  BY <1>1, Zenon
<1>5. s \in runs
  BY <1>3, <1>4, LeastFrame, Zenon
<1> QED
  BY <1>1, <1>5, Zenon

LEMMA AllocBlockRight ==
  ASSUME NEW m, MemoryTypes(m), 0 \in m.map
  PROVE  AllocatedFrames(m, 1, AllocBlock(m))
<1>1. CASE AllocBlock(m) = NoFrame(m)
  BY <1>1, NoFrameAllocates, Zenon
<1>2. CASE AllocBlock(m) # NoFrame(m)
  <2>1. GetFreeFrame(m) # -1 /\ AllocBlock(m) = Took(m, GetFreeFrame(m), 1)
    BY <1>2, Zenon DEF AllocBlock
  <2>2. GetFreeFrames(m, 1) = GetFreeFrame(m)
    BY DEF GetFreeFrames
  <2>3. FirstRun(m, FreeBits(m), 1, GetFreeFrame(m))
    BY <2>2, FreeFramesFirst
  <2>4. GetFreeFrame(m) \in FreeBits(m) /\ IsRun(m, GetFreeFrame(m), 1)
    BY <2>1, <2>3, FirstRunIs, FreeBitsFree, 1 \in Nat
  <2> QED
    BY <2>1, <2>4, TookAllocates, 1 \in Nat \ {0}
<1> QED
  BY <1>1, <1>2, Zenon

LEMMA AllocBlocksRight ==
  ASSUME NEW m, MemoryTypes(m), 0 \in m.map, NEW size \in Nat
  PROVE  AllocatedFrames(m, size, AllocBlocks(m, size))
<1>1. CASE AllocBlocks(m, size) = NoFrame(m)
  BY <1>1, NoFrameAllocates, Zenon
<1>2. CASE AllocBlocks(m, size) # NoFrame(m)
  <2>1. GetFreeFrames(m, size) # -1 /\ AllocBlocks(m, size) = Took(m, GetFreeFrames(m, size), size)
    BY <1>2, Zenon DEF AllocBlocks
  <2>2. size # 0
    BY <2>1 DEF GetFreeFrames
  <2>3. FirstRun(m, FreeBits(m), size, GetFreeFrames(m, size))
    BY <2>2, FreeFramesFirst, Zenon
  <2>4. GetFreeFrames(m, size) \in FreeBits(m) /\ IsRun(m, GetFreeFrames(m, size), size)
    BY <2>1, <2>3, FirstRunIs, FreeBitsFree, Zenon
  <2>5. size \in Nat \ {0}
    BY <2>2, Zenon
  <2> QED
    BY <2>1, <2>4, <2>5, TookAllocates, Zenon
<1> QED
  BY <1>1, <1>2, Zenon

-----------------------------------------------------------------------------
(* Page tables. *)

LEMMA IndicesIn ==
  ASSUME NEW page \in Pages
  PROVE  DirIndex(page) \in Tables /\ TableIndex(page) \in 0..(PAGES_PER_TABLE - 1)
<1>1. page \in Nat
  BY FrameAssumption
<1>2. page % PAGES_PER_TABLE \in 0..(PAGES_PER_TABLE - 1)
  BY <1>1, FrameSizes, Remainder
<1> QED
  BY <1>2, Zenon DEF DirIndex, TableIndex, Tables

LEMMA SameEntry ==
  ASSUME NEW page \in Pages, NEW p \in Pages, DirIndex(page) = DirIndex(p), TableIndex(page) = TableIndex(p)
  PROVE  page = p
<1>1. page \in Nat /\ p \in Nat
  BY FrameAssumption
<1>2. /\ page = (page \div PAGES_PER_TABLE) * PAGES_PER_TABLE + (page % PAGES_PER_TABLE)
      /\ p = (p \div PAGES_PER_TABLE) * PAGES_PER_TABLE + (p % PAGES_PER_TABLE)
  BY <1>1, FrameSizes, QuotientRemainder, Zenon
<1> QED
  BY <1>2, Zenon DEF DirIndex, TableIndex

\* Frames that are taken are behind pages, or somebody's, from now on.
LEMMA TakenBacks ==
  ASSUME NEW m, NEW B, NEW G, MemoryRight(m, B, G), NEW R, R \subseteq Frames \ m.map, NEW w, Taken(m, R, w)
  PROVE  MemoryRight(w, B \cup R, G)
<1>1. EntriesIn(w) = EntriesIn(m)
  BY Zenon DEF Taken, EntriesIn
<1>2. MemoryTypes(w) /\ OwnTables(w)
  BY Zenon DEF MemoryRight, Taken, OwnTables
<1>3. m.map = FramesOfKernel \cup EntriesIn(m) \cup B \cup G /\ w.map = m.map \cup R
  BY Zenon DEF MemoryRight, Taken
<1>4. w.map = FramesOfKernel \cup EntriesIn(w) \cup (B \cup R) \cup G
  BY ONLY <1>1, <1>3
<1>5. OneUse(EntriesIn(w), B \cup R, G)
  <2>1. OneUse(EntriesIn(m), B, G)
    BY Zenon DEF MemoryRight
  <2>2. R \cap m.map = {}
    OBVIOUS
  <2> QED
    BY ONLY <1>1, <1>3, <2>1, <2>2 DEF OneUse
<1>6. Leads(w, B \cup R)
  <2>1. Leads(m, B) /\ w.tables = m.tables
    BY Zenon DEF MemoryRight, Taken
  <2>2. ASSUME NEW f \in EntriesIn(m)
        PROVE  m.tables[f] \in [0..(PAGES_PER_TABLE - 1) -> {0} \cup (B \cup R) \cup DeviceFrames]
    <3>1. m.tables[f] \in [0..(PAGES_PER_TABLE - 1) -> {0} \cup B \cup DeviceFrames]
      BY <2>1, Zenon DEF Leads
    <3> QED
      BY ONLY <3>1
  <2> QED
    BY <1>1, <2>1, <2>2, Zenon DEF Leads
<1> QED
  BY <1>2, <1>4, <1>5, <1>6, Zenon DEF MemoryRight

LEMMA TakenGives ==
  ASSUME NEW m, NEW B, NEW G, MemoryRight(m, B, G), NEW R, R \subseteq Frames \ m.map, NEW w, Taken(m, R, w)
  PROVE  MemoryRight(w, B, G \cup R)
<1>1. EntriesIn(w) = EntriesIn(m)
  BY Zenon DEF Taken, EntriesIn
<1>2. MemoryTypes(w) /\ OwnTables(w)
  BY Zenon DEF MemoryRight, Taken, OwnTables
<1>3. m.map = FramesOfKernel \cup EntriesIn(m) \cup B \cup G /\ w.map = m.map \cup R
  BY Zenon DEF MemoryRight, Taken
<1>4. w.map = FramesOfKernel \cup EntriesIn(w) \cup B \cup (G \cup R)
  BY ONLY <1>1, <1>3
<1>5. OneUse(EntriesIn(w), B, G \cup R)
  <2>1. OneUse(EntriesIn(m), B, G)
    BY Zenon DEF MemoryRight
  <2>2. R \cap m.map = {}
    OBVIOUS
  <2> QED
    BY ONLY <1>1, <1>3, <2>1, <2>2 DEF OneUse
<1>6. Leads(w, B)
  BY <1>1, Zenon DEF MemoryRight, Taken, Leads
<1> QED
  BY <1>2, <1>4, <1>5, <1>6, Zenon DEF MemoryRight

LEMMA FreedReturns ==
  ASSUME NEW m, NEW B, NEW G, NEW R, R \cap G = {}, MemoryRight(m, B, G \cup R), NEW w, Freed(m, R, w)
  PROVE  MemoryRight(w, B, G)
<1>1. EntriesIn(w) = EntriesIn(m)
  BY Zenon DEF Freed, EntriesIn
<1>2. MemoryTypes(w) /\ OwnTables(w)
  BY Zenon DEF MemoryRight, Freed, OwnTables
<1>3. m.map = FramesOfKernel \cup EntriesIn(m) \cup B \cup (G \cup R) /\ w.map = m.map \ R
  BY Zenon DEF MemoryRight, Freed
<1>4. OneUse(EntriesIn(m), B, G \cup R)
  BY Zenon DEF MemoryRight
<1>5. w.map = FramesOfKernel \cup EntriesIn(w) \cup B \cup G
  BY ONLY <1>1, <1>3, <1>4, R \cap G = {} DEF OneUse
<1>6. OneUse(EntriesIn(w), B, G)
  BY ONLY <1>1, <1>4 DEF OneUse
<1>7. Leads(w, B)
  BY <1>1, Zenon DEF MemoryRight, Freed, Leads
<1> QED
  BY <1>2, <1>5, <1>6, <1>7, Zenon DEF MemoryRight

\* w is m with a frame that was free as the table of d.
TableIn(m, d, f, w) ==
  w = [map |-> m.map \cup {f}, m_usedBlocks |-> m.m_usedBlocks + 1,
       m_entries |-> [e \in Tables |-> IF e = d THEN f ELSE m.m_entries[e]],
       tables |-> [g \in DOMAIN m.tables \cup {f} |-> IF g = f THEN EmptyTable ELSE m.tables[g]],
       low |-> m.low]

LEMMA TableInRight ==
  ASSUME NEW m, NEW B, NEW G, MemoryRight(m, B, G), NEW d \in Tables, m.m_entries[d] = 0,
         NEW f \in Frames \ m.map, f # 0, NEW w, TableIn(m, d, f, w)
  PROVE  MemoryRight(w, B, G)
<1>0. /\ w.map = m.map \cup {f} /\ w.m_usedBlocks = m.m_usedBlocks + 1
      /\ w.m_entries = [e \in Tables |-> IF e = d THEN f ELSE m.m_entries[e]]
      /\ w.tables = [g \in DOMAIN m.tables \cup {f} |-> IF g = f THEN EmptyTable ELSE m.tables[g]]
      /\ w = [map |-> w.map, m_usedBlocks |-> w.m_usedBlocks, m_entries |-> w.m_entries,
              tables |-> w.tables, low |-> w.low]
  BY Zenon DEF TableIn
<1>1. /\ MemoryTypes(m) /\ OwnTables(m) /\ OneUse(EntriesIn(m), B, G) /\ Leads(m, B)
      /\ m.map = FramesOfKernel \cup EntriesIn(m) \cup B \cup G
  BY Zenon DEF MemoryRight
<1>2. m.map \in SUBSET Frames /\ m.m_usedBlocks = Cardinality(m.map) /\ m.m_entries \in [Tables -> Frames]
  BY <1>1, Zenon DEF MemoryTypes
<1>3. \A e \in Tables : w.m_entries[e] = IF e = d THEN f ELSE m.m_entries[e]
  BY <1>0, Zenon
<1>4. EntriesIn(w) = EntriesIn(m) \cup {f}
  <2>1. ASSUME NEW x \in EntriesIn(w) PROVE x \in EntriesIn(m) \cup {f}
    BY <2>1, <1>3, Zenon DEF EntriesIn
  <2>2. f \in EntriesIn(w)
    BY <1>3, Zenon DEF EntriesIn
  <2>3. ASSUME NEW x \in EntriesIn(m) PROVE x \in EntriesIn(w)
    <3>1. PICK e \in Tables : x = m.m_entries[e]
      BY Zenon DEF EntriesIn
    <3>2. x # 0
      BY Zenon DEF EntriesIn
    <3>3. e # d
      BY <3>1, <3>2, Zenon
    <3>4. x = w.m_entries[e]
      BY <1>3, <3>1, <3>3, Zenon
    <3> QED
      BY <3>2, <3>4, Zenon DEF EntriesIn
  <2> QED
    BY <2>1, <2>2, <2>3, Zenon
<1>5. MemoryTypes(w)
  <2>1. w.map \in SUBSET Frames
    BY <1>0, <1>2, Zenon
  <2>2. w.m_entries \in [Tables -> Frames]
    <3>1. \A e \in Tables : w.m_entries[e] \in Frames
      BY <1>2, <1>3, Zenon
    <3> QED
      BY <1>0, <3>1, Zenon
  <2>3. IsFiniteSet(m.map) /\ f \notin m.map
    BY <1>2, FramesFinite, Zenon
  <2>4. Cardinality(m.map \cup {f}) = Cardinality(m.map) + 1
    BY <2>3, CountIn, Zenon
  <2>5. w.m_usedBlocks = Cardinality(w.map)
    BY <1>0, <1>2, <2>4, Zenon
  <2> QED
    BY <1>0, <2>1, <2>2, <2>5, Zenon DEF MemoryTypes
<1>6. OwnTables(w)
  <2>1. \A e \in Tables : m.m_entries[e] # f
    <3>1. f \notin EntriesIn(m)
      BY <1>1, Zenon
    <3> QED
      BY <3>1, Zenon DEF EntriesIn
  <2>2. \A a, b \in Tables : m.m_entries[a] = m.m_entries[b] => m.m_entries[a] = 0 \/ a = b
    BY <1>1, Zenon DEF OwnTables
  <2>3. SUFFICES ASSUME NEW a \in Tables, NEW b \in Tables, w.m_entries[a] = w.m_entries[b]
                 PROVE  w.m_entries[a] = 0 \/ a = b
    BY Zenon DEF OwnTables
  <2>4. CASE a = d
    <3>1. w.m_entries[b] = f
      BY <1>3, <2>3, <2>4, Zenon
    <3>2. b = d
      BY <1>3, <2>1, <3>1, Zenon
    <3> QED
      BY <2>4, <3>2, Zenon
  <2>5. CASE a # d
    <3>1. w.m_entries[a] = m.m_entries[a]
      BY <1>3, <2>5, Zenon
    <3>2. b # d
      BY <1>3, <2>1, <2>3, <3>1, Zenon
    <3>3. w.m_entries[b] = m.m_entries[b]
      BY <1>3, <3>2, Zenon
    <3> QED
      BY <2>2, <2>3, <3>1, <3>3, Zenon
  <2> QED
    BY <2>4, <2>5, Zenon
<1>7. w.map = FramesOfKernel \cup EntriesIn(w) \cup B \cup G
  BY ONLY <1>0, <1>1, <1>4
<1>8. OneUse(EntriesIn(w), B, G)
  <2>1. f \notin FramesOfKernel /\ f \notin B /\ f \notin G
    BY <1>1, Zenon
  <2> QED
    BY ONLY <1>1, <1>4, <2>1 DEF OneUse
<1>9. Leads(w, B)
  <2>1. DOMAIN w.tables = EntriesIn(w)
    BY <1>0, <1>1, <1>4, Zenon DEF Leads
  <2>2. EmptyTable \in [0..(PAGES_PER_TABLE - 1) -> {0} \cup B \cup DeviceFrames]
    BY DEF EmptyTable
  <2>3. ASSUME NEW g \in EntriesIn(w)
        PROVE  w.tables[g] \in [0..(PAGES_PER_TABLE - 1) -> {0} \cup B \cup DeviceFrames]
    <3>1. w.tables[g] = IF g = f THEN EmptyTable ELSE m.tables[g]
      BY <1>0, <2>1, Zenon
    <3>2. g # f => m.tables[g] \in [0..(PAGES_PER_TABLE - 1) -> {0} \cup B \cup DeviceFrames]
      BY <1>1, <1>4, Zenon DEF Leads
    <3> QED
      BY <2>2, <3>1, <3>2, Zenon
  <2> QED
    BY <2>1, <2>3, Zenon DEF Leads
<1> QED
  BY <1>5, <1>6, <1>7, <1>8, <1>9, Zenon DEF MemoryRight

\* w is m, or has a new and empty table in its entry d.
Created(m, d, w) ==
  \/ w = m
  \/ m.m_entries[d] = 0 /\ \E f \in Frames \ m.map : f # 0 /\ TableIn(m, d, f, w)

LEMMA CreatePageTableRight ==
  ASSUME NEW m, NEW B, NEW G, MemoryRight(m, B, G), NEW page \in Pages
  PROVE  /\ MemoryRight(CreatePageTable(m, page), B, G)
         /\ Created(m, DirIndex(page), CreatePageTable(m, page))
<1>1. PICK d \in Tables : d = DirIndex(page)
  BY IndicesIn, Zenon
<1>2. PICK got : got = AllocBlock(m)
  OBVIOUS
<1>3. CASE m.m_entries[d] # 0 \/ got.frame = 0
  <2>1. CreatePageTable(m, page) = m
    BY <1>1, <1>2, <1>3, Zenon DEF CreatePageTable
  <2> QED
    BY <2>1, Zenon DEF Created
<1>4. CASE ~(m.m_entries[d] # 0 \/ got.frame = 0)
  <2>1. MemoryTypes(m) /\ m.map = FramesOfKernel \cup EntriesIn(m) \cup B \cup G
    BY Zenon DEF MemoryRight
  <2>2. 0 \in m.map
    BY <2>1, FrameSizes, Zenon
  <2>3. AllocatedFrames(m, 1, got)
    BY <1>2, <2>1, <2>2, AllocBlockRight, Zenon
  <2>4. PICK f : f = got.frame
    OBVIOUS
  <2>5. /\ f \in Frames /\ f # 0 /\ FramesFrom(f, 1) \subseteq Frames \ m.map
        /\ Taken(m, FramesFrom(f, 1), got.m)
    BY <1>4, <2>3, <2>4, Zenon DEF AllocatedFrames
  <2>6. FramesFrom(f, 1) = {f}
    BY <2>5, FrameSizes DEF FramesFrom
  <2>7. f \in Frames \ m.map
    BY <2>5, <2>6, Zenon
  <2>8. got.m.map = m.map \cup {f} /\ got.m.m_entries = m.m_entries /\ got.m.tables = m.tables /\ got.m.low = m.low
    BY <2>5, <2>6, Zenon DEF Taken
  <2>9. got.m.m_usedBlocks = m.m_usedBlocks + 1
    <3>1. got.m.m_usedBlocks = Cardinality(m.map \cup {f}) /\ m.m_usedBlocks = Cardinality(m.map)
      BY <2>1, <2>5, <2>8, Zenon DEF Taken, MemoryTypes
    <3>2. IsFiniteSet(m.map) /\ f \notin m.map
      BY <2>1, <2>7, FramesFinite, Zenon DEF MemoryTypes
    <3>3. Cardinality(m.map \cup {f}) = Cardinality(m.map) + 1
      BY <3>2, CountIn, Zenon
    <3> QED
      BY <3>1, <3>3, Zenon
  <2>10. got.m = [map |-> m.map \cup {f}, m_usedBlocks |-> m.m_usedBlocks + 1, m_entries |-> m.m_entries,
                  tables |-> m.tables, low |-> m.low]
    <3>1. got.m = [map |-> got.m.map, m_usedBlocks |-> got.m.m_usedBlocks, m_entries |-> got.m.m_entries,
                   tables |-> got.m.tables, low |-> got.m.low]
      BY <2>5, Zenon DEF Taken, MemoryTypes
    <3> QED
      BY ONLY <2>8, <2>9, <3>1
  <2>11. m.m_entries \in [Tables -> Frames]
    BY <2>1, Zenon DEF MemoryTypes
  <2>12. PICK w : w = CreatePageTable(m, page)
    OBVIOUS
  <2>13. w = [got.m EXCEPT !.m_entries[d] = f,
                           !.tables = [g \in DOMAIN got.m.tables \cup {f} |-> IF g = f THEN EmptyTable ELSE got.m.tables[g]]]
    BY <1>1, <1>2, <1>4, <2>4, <2>12 DEF CreatePageTable
  <2>14. [m.m_entries EXCEPT ![d] = f] = [e \in Tables |-> IF e = d THEN f ELSE m.m_entries[e]]
    BY <2>11
  <2>15. PICK ts : ts = [g \in DOMAIN m.tables \cup {f} |-> IF g = f THEN EmptyTable ELSE m.tables[g]]
    OBVIOUS
  <2>16. PICK es : es = [e \in Tables |-> IF e = d THEN f ELSE m.m_entries[e]]
    OBVIOUS
  <2>17. w = [got.m EXCEPT !.m_entries = es, !.tables = ts]
    <3>1. [g \in DOMAIN got.m.tables \cup {f} |-> IF g = f THEN EmptyTable ELSE got.m.tables[g]] = ts
      BY <2>8, <2>15, Zenon
    <3>2. [got.m.m_entries EXCEPT ![d] = f] = es
      BY <2>8, <2>14, <2>16, Zenon
    <3> QED
      BY ONLY <2>10, <2>13, <3>1, <3>2
  <2>18. w = [map |-> m.map \cup {f}, m_usedBlocks |-> m.m_usedBlocks + 1, m_entries |-> es, tables |-> ts, low |-> m.low]
    <3>1. PICK a, b : a = m.map \cup {f} /\ b = m.m_usedBlocks + 1
      OBVIOUS
    <3>2. PICK v, en, ta, l : /\ v = got.m /\ l = m.low
                              /\ v = [map |-> a, m_usedBlocks |-> b, m_entries |-> en, tables |-> ta, low |-> l]
      BY <2>10, <3>1, Zenon
    <3>3. w = [v EXCEPT !.m_entries = es, !.tables = ts]
      BY <2>17, <3>2, Zenon
    <3>4. v = [map |-> a, m_usedBlocks |-> b, m_entries |-> en, tables |-> ta, low |-> l]
      BY <3>2, Zenon
    <3>5. w = [map |-> a, m_usedBlocks |-> b, m_entries |-> es, tables |-> ts, low |-> l]
      BY ONLY <3>3, <3>4
    <3> QED
      BY <3>1, <3>2, <3>5, Zenon
  <2>19. TableIn(m, d, f, w)
    BY <2>15, <2>16, <2>18, Zenon DEF TableIn
  <2>20. m.m_entries[d] = 0
    BY <1>4, Zenon
  <2>21. MemoryRight(w, B, G)
    BY <2>5, <2>7, <2>19, <2>20, TableInRight, Zenon
  <2>22. Created(m, d, w)
    BY <2>5, <2>7, <2>19, <2>20, Zenon DEF Created
  <2> QED
    BY <1>1, <2>12, <2>21, <2>22, Zenon
<1> QED
  BY <1>3, <1>4, Zenon

\* A page leads to a frame that is behind pages or to a device, or, when there was no
\* frame for its table, the entry is lost.
LEMMA MapPhysicalRight ==
  ASSUME NEW m, NEW B, NEW G, MemoryRight(m, B, G), NEW page \in Pages, NEW frame \in B \cup DeviceFrames
  PROVE  MemoryRight(MapPhysicalAddressToVirtualAddresss(m, page, frame), B, G)
<1>1. PICK c : c = CreatePageTable(m, page)
  OBVIOUS
<1>2. MemoryRight(c, B, G)
  BY <1>1, CreatePageTableRight, Zenon
<1>3. PICK d \in Tables : d = DirIndex(page)
  BY IndicesIn, Zenon
<1>4. PICK i \in 0..(PAGES_PER_TABLE - 1) : i = TableIndex(page)
  BY IndicesIn, Zenon
<1>5. PICK table : table = c.m_entries[d]
  OBVIOUS
<1>6. PICK w : w = MapPhysicalAddressToVirtualAddresss(m, page, frame)
  OBVIOUS
<1>7. w = IF table = 0 THEN [c EXCEPT !.low = c.low \cup {i}] ELSE [c EXCEPT !.tables[table][i] = frame]
  BY <1>1, <1>3, <1>4, <1>5, <1>6 DEF MapPhysicalAddressToVirtualAddresss
<1>8. /\ MemoryTypes(c) /\ OwnTables(c) /\ OneUse(EntriesIn(c), B, G) /\ Leads(c, B)
      /\ c.map = FramesOfKernel \cup EntriesIn(c) \cup B \cup G
  BY <1>2, Zenon DEF MemoryRight
<1>9. c = [map |-> c.map, m_usedBlocks |-> c.m_usedBlocks, m_entries |-> c.m_entries, tables |-> c.tables, low |-> c.low]
  BY <1>8, Zenon DEF MemoryTypes
<1>10. PICK ts : ts = IF table = 0 THEN c.tables ELSE [c.tables EXCEPT ![table][i] = frame]
  OBVIOUS
<1>11. PICK l : l = IF table = 0 THEN c.low \cup {i} ELSE c.low
  OBVIOUS
<1>12. w = [map |-> c.map, m_usedBlocks |-> c.m_usedBlocks, m_entries |-> c.m_entries, tables |-> ts, low |-> l]
  BY ONLY <1>7, <1>9, <1>10, <1>11
<1>13. w.map = c.map /\ w.m_usedBlocks = c.m_usedBlocks /\ w.m_entries = c.m_entries /\ w.tables = ts
       /\ w = [map |-> w.map, m_usedBlocks |-> w.m_usedBlocks, m_entries |-> w.m_entries, tables |-> w.tables, low |-> w.low]
  BY <1>12, Zenon
<1>14. EntriesIn(w) = EntriesIn(c)
  BY <1>13, Zenon DEF EntriesIn
<1>15. MemoryTypes(w) /\ OwnTables(w)
  BY <1>8, <1>13, Zenon DEF MemoryTypes, OwnTables
<1>16. Leads(w, B)
  <2>1. CASE table = 0
    BY <1>8, <1>10, <1>13, <1>14, <2>1, Zenon DEF Leads
  <2>2. CASE table # 0
    <3>1. table \in EntriesIn(c)
      BY <1>5, <2>2, Zenon DEF EntriesIn
    <3>2. PICK row : row = c.tables[table]
      OBVIOUS
    <3>3. row \in [0..(PAGES_PER_TABLE - 1) -> {0} \cup B \cup DeviceFrames]
      BY <1>8, <3>1, <3>2, Zenon DEF Leads
    <3>4. [row EXCEPT ![i] = frame] \in [0..(PAGES_PER_TABLE - 1) -> {0} \cup B \cup DeviceFrames]
      BY ONLY <3>3, i \in 0..(PAGES_PER_TABLE - 1), frame \in B \cup DeviceFrames
    <3>5. ts = [c.tables EXCEPT ![table] = [row EXCEPT ![i] = frame]]
      BY <1>10, <2>2, <3>2
    <3>6. DOMAIN ts = EntriesIn(c)
      BY <1>8, <3>5 DEF Leads
    <3>7. ASSUME NEW f \in EntriesIn(c)
          PROVE  ts[f] \in [0..(PAGES_PER_TABLE - 1) -> {0} \cup B \cup DeviceFrames]
      <4>1. c.tables[f] \in [0..(PAGES_PER_TABLE - 1) -> {0} \cup B \cup DeviceFrames] /\ f \in DOMAIN c.tables
        BY <1>8, Zenon DEF Leads
      <4>2. ts[f] = IF f = table THEN [row EXCEPT ![i] = frame] ELSE c.tables[f]
        BY ONLY <3>5, <4>1
      <4> QED
        BY <3>4, <4>1, <4>2, Zenon
    <3> QED
      BY <1>13, <1>14, <3>6, <3>7, Zenon DEF Leads
  <2> QED
    BY <2>1, <2>2, Zenon
<1>17. MemoryRight(w, B, G)
  BY <1>8, <1>13, <1>14, <1>15, <1>16, Zenon DEF MemoryRight
<1> QED
  BY <1>6, <1>17, Zenon

\* A new table leads nowhere.
LEMMA CreatePageTableLeads ==
  ASSUME NEW m, NEW B, NEW G, MemoryRight(m, B, G), NEW page \in Pages, NEW beh, Leading(m, beh)
  PROVE  Leading(CreatePageTable(m, page), beh)
<1>1. PICK w : w = CreatePageTable(m, page)
  OBVIOUS
<1>2. PICK d : d = DirIndex(page)
  OBVIOUS
<1>3. Created(m, d, w)
  BY <1>1, <1>2, CreatePageTableRight, Zenon
<1>4. CASE w = m
  BY <1>1, <1>4, Zenon
<1>5. CASE w # m
  <2>1. PICK f \in Frames \ m.map : f # 0 /\ TableIn(m, d, f, w)
    BY <1>3, <1>5, Zenon DEF Created
  <2>2. /\ w.m_entries = [e \in Tables |-> IF e = d THEN f ELSE m.m_entries[e]]
        /\ w.tables = [g \in DOMAIN m.tables \cup {f} |-> IF g = f THEN EmptyTable ELSE m.tables[g]]
    BY <2>1, Zenon DEF TableIn
  <2>3. ASSUME NEW p \in Pages PROVE GetPhysicalAddress(w, p) \in {0, beh[p]}
    <3>1. PICK e \in Tables, i \in 0..(PAGES_PER_TABLE - 1) : e = DirIndex(p) /\ i = TableIndex(p)
      BY IndicesIn, Zenon
    <3>2. PICK t : t = w.m_entries[e]
      OBVIOUS
    <3>3. GetPhysicalAddress(w, p) = IF t = 0 THEN 0 ELSE w.tables[t][i]
      BY <3>1, <3>2, Zenon DEF GetPhysicalAddress
    <3>4. t = IF e = d THEN f ELSE m.m_entries[e]
      BY <2>2, <3>2, Zenon
    <3>5. CASE t = 0
      BY <3>3, <3>5, Zenon
    <3>6. CASE t # 0 /\ e = d
      <4>1. t = f
        BY <3>4, <3>6, Zenon
      <4>2. w.tables[t] = EmptyTable
        BY <2>2, <4>1, Zenon
      <4>3. EmptyTable[i] = 0
        BY Zenon DEF EmptyTable
      <4> QED
        BY <3>3, <3>6, <4>2, <4>3, Zenon
    <3>7. CASE t # 0 /\ e # d
      <4>1. t = m.m_entries[e]
        BY <3>4, <3>7, Zenon
      <4>2. t \in EntriesIn(m)
        BY <3>7, <4>1, Zenon DEF EntriesIn
      <4>3. t \in m.map /\ t \in DOMAIN m.tables
        BY <4>2, Zenon DEF MemoryRight, Leads
      <4>4. t # f
        BY <4>3, Zenon
      <4>5. w.tables[t] = m.tables[t]
        BY <2>2, <4>3, <4>4, Zenon
      <4>6. GetPhysicalAddress(m, p) = m.tables[t][i]
        BY <3>1, <3>7, <4>1, Zenon DEF GetPhysicalAddress
      <4>7. GetPhysicalAddress(w, p) = GetPhysicalAddress(m, p)
        BY <3>3, <3>7, <4>5, <4>6, Zenon
      <4> QED
        BY <4>7, Zenon DEF Leading
    <3> QED
      BY <3>5, <3>6, <3>7, Zenon
  <2>4. Leading(w, beh)
    BY <2>3, Zenon DEF Leading
  <2> QED
    BY <1>1, <2>4, Zenon
<1> QED
  BY <1>4, <1>5, Zenon

\* new is old with frame behind page.
PutBehind(new, old, page, frame) == \A p \in Pages : new[p] = IF p = page THEN frame ELSE old[p]

\* The page that is mapped leads to its frame, or nowhere if there is no table for it,
\* and the others to where they led.
LEMMA MapPhysicalLeads ==
  ASSUME NEW m, NEW B, NEW G, MemoryRight(m, B, G), NEW page \in Pages, NEW frame,
         NEW old, Leading(m, old), NEW new, PutBehind(new, old, page, frame)
  PROVE  Leading(MapPhysicalAddressToVirtualAddresss(m, page, frame), new)
<1>1. PICK c : c = CreatePageTable(m, page)
  OBVIOUS
<1>2. MemoryRight(c, B, G) /\ Leading(c, old)
  BY <1>1, CreatePageTableRight, CreatePageTableLeads, Zenon
<1>3. PICK d \in Tables, i \in 0..(PAGES_PER_TABLE - 1) : d = DirIndex(page) /\ i = TableIndex(page)
  BY IndicesIn, Zenon
<1>4. PICK table : table = c.m_entries[d]
  OBVIOUS
<1>5. PICK w : w = MapPhysicalAddressToVirtualAddresss(m, page, frame)
  OBVIOUS
<1>6. w = IF table = 0 THEN [c EXCEPT !.low = c.low \cup {i}] ELSE [c EXCEPT !.tables[table][i] = frame]
  BY <1>1, <1>3, <1>4, <1>5 DEF MapPhysicalAddressToVirtualAddresss
<1>7. MemoryTypes(c) /\ OwnTables(c) /\ DOMAIN c.tables = EntriesIn(c)
  BY <1>2, Zenon DEF MemoryRight, Leads
<1>8. c = [map |-> c.map, m_usedBlocks |-> c.m_usedBlocks, m_entries |-> c.m_entries, tables |-> c.tables, low |-> c.low]
  BY <1>7, Zenon DEF MemoryTypes
<1>9. PICK ts : ts = IF table = 0 THEN c.tables ELSE [c.tables EXCEPT ![table][i] = frame]
  OBVIOUS
<1>10. w.m_entries = c.m_entries /\ w.tables = ts
  <2>1. PICK l : l = IF table = 0 THEN c.low \cup {i} ELSE c.low
    OBVIOUS
  <2>2. w = [map |-> c.map, m_usedBlocks |-> c.m_usedBlocks, m_entries |-> c.m_entries, tables |-> ts, low |-> l]
    BY ONLY <1>6, <1>8, <1>9, <2>1
  <2> QED
    BY <2>2, Zenon
<1>0. \A p \in Pages : new[p] = IF p = page THEN frame ELSE old[p]
  BY Zenon DEF PutBehind
<1>11. ASSUME NEW p \in Pages PROVE GetPhysicalAddress(w, p) \in {0, new[p]}
  <2>1. PICK e \in Tables, j \in 0..(PAGES_PER_TABLE - 1) : e = DirIndex(p) /\ j = TableIndex(p)
    BY IndicesIn, Zenon
  <2>2. PICK t : t = c.m_entries[e]
    OBVIOUS
  <2>3. GetPhysicalAddress(w, p) = IF t = 0 THEN 0 ELSE ts[t][j]
    BY <1>10, <2>1, <2>2, Zenon DEF GetPhysicalAddress
  <2>4. GetPhysicalAddress(c, p) = IF t = 0 THEN 0 ELSE c.tables[t][j]
    BY <2>1, <2>2, Zenon DEF GetPhysicalAddress
  <2>5. CASE t = 0
    BY <2>3, <2>5, Zenon
  <2>6. ASSUME t # 0, ts[t][j] = c.tables[t][j], p # page PROVE GetPhysicalAddress(w, p) \in {0, new[p]}
    <3>1. GetPhysicalAddress(w, p) = GetPhysicalAddress(c, p) /\ new[p] = old[p]
      BY <1>0, <2>3, <2>4, <2>6, Zenon
    <3> QED
      BY <1>2, <3>1, Zenon DEF Leading
  <2>7. CASE t # 0 /\ t = table
    <3>1. t \in DOMAIN c.tables
      BY <1>7, <2>2, <2>7, Zenon DEF EntriesIn
    <3>2. PICK row : row = c.tables[t]
      OBVIOUS
    <3>3. ts[t] = [row EXCEPT ![i] = frame]
      BY ONLY <1>9, <2>7, <3>1, <3>2
    <3>4. e = d
      BY <1>4, <1>7, <2>2, <2>7, Zenon DEF OwnTables
    <3>5. CASE p = page
      <4>1. j = i
        BY <1>3, <2>1, <3>5, Zenon
      <4>2. j \in DOMAIN row
        <5>1. row \in [0..(PAGES_PER_TABLE - 1) -> {0} \cup B \cup DeviceFrames]
          BY <1>2, <1>7, <3>1, <3>2, Zenon DEF MemoryRight, Leads
        <5> QED
          BY <5>1, Zenon
      <4>3. ts[t][j] = frame
        BY ONLY <3>3, <4>1, <4>2
      <4> QED
        BY <1>0, <2>3, <2>7, <3>5, <4>3, Zenon
    <3>6. CASE p # page
      <4>1. j # i
        BY <1>3, <2>1, <3>4, <3>6, SameEntry, Zenon
      <4>2. ts[t][j] = row[j]
        <5>1. j \in DOMAIN row
          <6>1. row \in [0..(PAGES_PER_TABLE - 1) -> {0} \cup B \cup DeviceFrames]
            BY <1>2, <1>7, <3>1, <3>2, Zenon DEF MemoryRight, Leads
          <6> QED
            BY <6>1, Zenon
        <5> QED
          BY ONLY <3>3, <4>1, <5>1
      <4> QED
        BY <2>6, <2>7, <3>2, <3>6, <4>2, Zenon
    <3> QED
      BY <3>5, <3>6, Zenon
  <2>8. CASE t # 0 /\ t # table
    <3>1. t \in DOMAIN c.tables
      BY <1>7, <2>2, <2>8, Zenon DEF EntriesIn
    <3>2. ts[t] = c.tables[t]
      BY ONLY <1>9, <2>8, <3>1
    <3>3. p # page
      BY <1>3, <1>4, <2>1, <2>2, <2>8, Zenon
    <3> QED
      BY <2>6, <2>8, <3>2, <3>3, Zenon
  <2> QED
    BY <2>5, <2>7, <2>8, Zenon
<1>12. Leading(w, new)
  BY <1>11, Zenon DEF Leading
<1> QED
  BY <1>5, <1>12, Zenon

\* w is m without the table in its entry d.
TableOut(m, d, w) ==
  \/ m.m_entries[d] = 0 /\ w = m
  \/ /\ m.m_entries[d] # 0
     /\ w.m_entries = [e \in Tables |-> IF e = d THEN 0 ELSE m.m_entries[e]]
     /\ w.tables = [f \in DOMAIN m.tables \ {m.m_entries[d]} |-> m.tables[f]]

\* A table that goes leaves its frame free, and with it all pages mapped there.
LEMMA UnmapTableRight ==
  ASSUME NEW m, NEW B, NEW G, MemoryRight(m, B, G), NEW page \in Pages
  PROVE  /\ MemoryRight(UnmapPageTable(m, page), B, G)
         /\ TableOut(m, DirIndex(page), UnmapPageTable(m, page))
<1>1. PICK d \in Tables : d = DirIndex(page)
  BY IndicesIn, Zenon
<1>2. PICK table : table = m.m_entries[d]
  OBVIOUS
<1>3. CASE table = 0
  <2>1. UnmapPageTable(m, page) = m
    BY <1>1, <1>2, <1>3, Zenon DEF UnmapPageTable
  <2> QED
    BY <1>1, <1>2, <1>3, <2>1, Zenon DEF TableOut
<1>4. CASE table # 0
  <2>1. /\ MemoryTypes(m) /\ OwnTables(m) /\ OneUse(EntriesIn(m), B, G) /\ Leads(m, B)
        /\ m.map = FramesOfKernel \cup EntriesIn(m) \cup B \cup G
    BY Zenon DEF MemoryRight
  <2>2. m.m_entries \in [Tables -> Frames]
    BY <2>1, Zenon DEF MemoryTypes
  <2>3. table \in EntriesIn(m) /\ table \in Frames /\ table \in Nat
    BY <1>2, <1>4, <2>2, FrameSizes, Zenon DEF EntriesIn
  <2>4. FramesFrom(table, 1) = {table}
    BY <2>3 DEF FramesFrom
  <2>5. PICK v : v = FreeBlocks(m, table, 1)
    OBVIOUS
  <2>6. Freed(m, {table}, v)
    <3>1. FramesFrom(table, 1) \subseteq m.map
      BY <2>1, <2>3, <2>4, Zenon
    <3> QED
      BY <2>1, <2>3, <2>4, <2>5, <3>1, FreeBlocksFrees, 1 \in Nat
  <2>7. /\ MemoryTypes(v) /\ v.map = m.map \ {table}
        /\ v.m_entries = m.m_entries /\ v.tables = m.tables /\ v.low = m.low
    BY <2>6, Zenon DEF Freed
  <2>8. v = [map |-> v.map, m_usedBlocks |-> v.m_usedBlocks, m_entries |-> m.m_entries, tables |-> m.tables, low |-> m.low]
    BY <2>7, Zenon DEF MemoryTypes
  <2>9. PICK w : w = UnmapPageTable(m, page)
    OBVIOUS
  <2>10. w = [v EXCEPT !.m_entries[d] = 0, !.tables = [f \in DOMAIN v.tables \ {table} |-> v.tables[f]]]
    BY <1>1, <1>2, <1>4, <2>5, <2>9 DEF UnmapPageTable
  <2>11. PICK es : es = [e \in Tables |-> IF e = d THEN 0 ELSE m.m_entries[e]]
    OBVIOUS
  <2>12. PICK ts : ts = [f \in DOMAIN m.tables \ {table} |-> m.tables[f]]
    OBVIOUS
  <2>13. [v.m_entries EXCEPT ![d] = 0] = es
    <3>1. [m.m_entries EXCEPT ![d] = 0] = es
      BY <2>2, <2>11
    <3> QED
      BY <2>7, <3>1, Zenon
  <2>14. [f \in DOMAIN v.tables \ {table} |-> v.tables[f]] = ts
    BY <2>7, <2>12, Zenon
  <2>15. w = [map |-> v.map, m_usedBlocks |-> v.m_usedBlocks, m_entries |-> es, tables |-> ts, low |-> m.low]
    <3>1. PICK a, b, en, ta, l : v = [map |-> a, m_usedBlocks |-> b, m_entries |-> en, tables |-> ta, low |-> l]
      BY <2>8, Zenon
    <3>2. v.map = a /\ v.m_usedBlocks = b /\ v.m_entries = en /\ v.tables = ta /\ v.low = l
      BY <3>1, Zenon
    <3>3. [en EXCEPT ![d] = 0] = es
      BY <2>13, <3>2, Zenon
    <3>4. w = [v EXCEPT !.m_entries = es, !.tables = ts]
      BY ONLY <2>10, <2>14, <3>1, <3>2, <3>3
    <3>5. w = [map |-> a, m_usedBlocks |-> b, m_entries |-> es, tables |-> ts, low |-> l]
      BY ONLY <3>1, <3>4
    <3> QED
      BY <2>7, <3>2, <3>5, Zenon
  <2>16. /\ w.map = v.map /\ w.m_usedBlocks = v.m_usedBlocks /\ w.m_entries = es /\ w.tables = ts
         /\ w = [map |-> w.map, m_usedBlocks |-> w.m_usedBlocks, m_entries |-> w.m_entries, tables |-> w.tables, low |-> w.low]
    BY <2>15, Zenon
  <2>17. \A e \in Tables : w.m_entries[e] = IF e = d THEN 0 ELSE m.m_entries[e]
    BY <2>11, <2>16, Zenon
  <2>18. EntriesIn(w) = EntriesIn(m) \ {table}
    <3>1. ASSUME NEW x \in EntriesIn(w) PROVE x \in EntriesIn(m) \ {table}
      <4>1. PICK e \in Tables : x = w.m_entries[e] /\ x # 0
        BY <3>1, Zenon DEF EntriesIn
      <4>2. e # d /\ x = m.m_entries[e]
        BY <2>17, <4>1, Zenon
      <4>3. x # table
        BY <1>2, <2>1, <4>1, <4>2, Zenon DEF OwnTables
      <4> QED
        BY <4>1, <4>2, <4>3, Zenon DEF EntriesIn
    <3>2. ASSUME NEW x \in EntriesIn(m) \ {table} PROVE x \in EntriesIn(w)
      <4>1. PICK e \in Tables : x = m.m_entries[e] /\ x # 0
        BY <3>2, Zenon DEF EntriesIn
      <4>2. e # d
        BY <1>2, <4>1, Zenon
      <4>3. x = w.m_entries[e]
        BY <2>17, <4>1, <4>2, Zenon
      <4> QED
        BY <4>1, <4>3, Zenon DEF EntriesIn
    <3> QED
      BY <3>1, <3>2, Zenon
  <2>19. MemoryTypes(w)
    <3>1. w.m_entries \in [Tables -> Frames]
      <4>1. \A e \in Tables : w.m_entries[e] \in Frames
        BY <2>2, <2>17, FrameSizes, Zenon
      <4> QED
        BY <2>11, <2>16, <4>1, Zenon
    <3> QED
      BY <2>7, <2>16, <3>1, Zenon DEF MemoryTypes
  <2>20. OwnTables(w)
    <3>1. SUFFICES ASSUME NEW a \in Tables, NEW b \in Tables, w.m_entries[a] = w.m_entries[b], w.m_entries[a] # 0
                   PROVE  a = b
      BY Zenon DEF OwnTables
    <3>2. a # d /\ b # d
      BY <2>17, <3>1, Zenon
    <3>3. m.m_entries[a] = m.m_entries[b] /\ m.m_entries[a] # 0
      BY <2>17, <3>1, <3>2, Zenon
    <3> QED
      BY <2>1, <3>3, Zenon DEF OwnTables
  <2>21. w.map = FramesOfKernel \cup EntriesIn(w) \cup B \cup G
    BY ONLY <2>1, <2>3, <2>7, <2>16, <2>18 DEF OneUse
  <2>22. OneUse(EntriesIn(w), B, G)
    BY ONLY <2>1, <2>18 DEF OneUse
  <2>23. Leads(w, B)
    <3>1. DOMAIN w.tables = EntriesIn(w)
      BY <2>1, <2>12, <2>16, <2>18, Zenon DEF Leads
    <3>2. ASSUME NEW f \in EntriesIn(w) PROVE w.tables[f] = m.tables[f] /\ f \in EntriesIn(m)
      <4>1. f \in EntriesIn(m) \ {table}
        BY <2>18, Zenon
      <4>2. f \in DOMAIN m.tables \ {table}
        BY <2>1, <4>1, Zenon DEF Leads
      <4> QED
        BY <2>12, <2>16, <4>1, <4>2, Zenon
    <3> QED
      BY <2>1, <3>1, <3>2, Zenon DEF Leads
  <2>24. MemoryRight(w, B, G)
    BY <2>19, <2>20, <2>21, <2>22, <2>23, Zenon DEF MemoryRight
  <2>25. TableOut(m, d, w)
    BY <1>2, <1>4, <2>11, <2>12, <2>16, Zenon DEF TableOut
  <2> QED
    BY <1>1, <2>9, <2>24, <2>25, Zenon
<1> QED
  BY <1>3, <1>4, Zenon

\* The page that is unmapped leads nowhere, and the others to where they led, or nowhere
\* if they had the same table.
LEMMA UnmapTableLeads ==
  ASSUME NEW m, NEW B, NEW G, MemoryRight(m, B, G), NEW page \in Pages,
         NEW old, Leading(m, old), NEW new, PutBehind(new, old, page, 0)
  PROVE  Leading(UnmapPageTable(m, page), new)
<1>1. PICK w : w = UnmapPageTable(m, page)
  OBVIOUS
<1>2. PICK d \in Tables : d = DirIndex(page)
  BY IndicesIn, Zenon
<1>3. TableOut(m, d, w)
  BY <1>1, <1>2, UnmapTableRight, Zenon
<1>4. PICK table : table = m.m_entries[d]
  OBVIOUS
<1>5. OwnTables(m) /\ DOMAIN m.tables = EntriesIn(m)
  BY Zenon DEF MemoryRight, Leads
<1>0. \A p \in Pages : new[p] = IF p = page THEN 0 ELSE old[p]
  BY Zenon DEF PutBehind
<1>6. ASSUME NEW p \in Pages PROVE GetPhysicalAddress(w, p) \in {0, new[p]}
  <2>1. PICK e, j : e \in Tables /\ e = DirIndex(p) /\ j = TableIndex(p)
    BY IndicesIn, Zenon
  <2>2. PICK t : t = m.m_entries[e]
    OBVIOUS
  <2>3. GetPhysicalAddress(m, p) = IF t = 0 THEN 0 ELSE m.tables[t][j]
    BY <2>1, <2>2, Zenon DEF GetPhysicalAddress
  <2>4. CASE e = d
    <3>1. w.m_entries[e] = 0
      BY <1>3, <2>4, Zenon DEF TableOut
    <3>2. GetPhysicalAddress(w, p) = 0
      BY <2>1, <3>1, Zenon DEF GetPhysicalAddress
    <3> QED
      BY <3>2, Zenon
  <2>5. CASE e # d
    <3>1. p # page
      BY <1>2, <2>1, <2>5, Zenon
    <3>2. GetPhysicalAddress(w, p) = GetPhysicalAddress(m, p)
      <4>1. CASE w = m
        BY <4>1, Zenon
      <4>2. CASE w # m
        <5>1. /\ table # 0
              /\ w.m_entries = [a \in Tables |-> IF a = d THEN 0 ELSE m.m_entries[a]]
              /\ w.tables = [f \in DOMAIN m.tables \ {table} |-> m.tables[f]]
          BY <1>3, <1>4, <4>2, Zenon DEF TableOut
        <5>2. w.m_entries[e] = t
          BY <2>1, <2>2, <2>5, <5>1, Zenon
        <5>3. GetPhysicalAddress(w, p) = IF t = 0 THEN 0 ELSE w.tables[t][j]
          BY <2>1, <5>2, Zenon DEF GetPhysicalAddress
        <5>4. CASE t = 0
          BY <2>3, <5>3, <5>4, Zenon
        <5>5. CASE t # 0
          <6>1. t # table
            BY <1>4, <1>5, <2>1, <2>2, <2>5, <5>5, Zenon DEF OwnTables
          <6>2. t \in DOMAIN m.tables \ {table}
            BY <1>5, <2>1, <2>2, <5>5, <6>1, Zenon DEF EntriesIn
          <6>3. w.tables[t] = m.tables[t]
            BY <5>1, <6>2, Zenon
          <6> QED
            BY <2>3, <5>3, <5>5, <6>3, Zenon
        <5> QED
          BY <5>4, <5>5, Zenon
      <4> QED
        BY <4>1, <4>2, Zenon
    <3>3. new[p] = old[p]
      BY <1>0, <3>1, Zenon
    <3> QED
      BY <3>2, <3>3, Zenon DEF Leading
  <2> QED
    BY <2>4, <2>5, Zenon
<1>7. Leading(w, new)
  BY <1>6, Zenon DEF Leading
<1> QED
  BY <1>1, <1>7, Zenon

\* The pages that MapAddress and UnmapAddress go through, one after the other: to map
\* or to unmap them.
PageTurn(kind, m, page, frame) ==
  IF kind = "map" THEN MapPhysicalAddressToVirtualAddresss(m, page, frame) ELSE UnmapPageTable(m, page)

PageLoop(f, kind, m, page, frame, count) ==
  f = [i \in 0..count |-> IF i = 0 THEN m ELSE PageTurn(kind, f[i - 1], page + (i - 1), frame + (i - 1))]

\* The turns exist: the first number of turns for which they did not would be one more
\* than a number for which they do.
LEMMA PageLoopsExist ==
  ASSUME NEW kind, NEW m, NEW page, NEW frame, NEW len \in Nat
  PROVE  \E f : PageLoop(f, kind, m, page, frame, len)
<1> DEFINE bad == {i \in Nat : ~ \E f : PageLoop(f, kind, m, page, frame, i)}
<1> SUFFICES ASSUME len \in bad PROVE FALSE
  BY Zenon
<1>1. bad # {}
  BY Zenon
<1>2. bad \in SUBSET Nat
  OBVIOUS
<1> HIDE DEF bad
<1>3. PICK i \in bad : \A y \in bad : i <= y
  BY <1>1, <1>2, LeastNumber
<1>4. i \in Nat /\ ~ \E f : PageLoop(f, kind, m, page, frame, i)
  BY <1>3, Zenon DEF bad
<1>5. i # 0
  <2> DEFINE f == [n \in 0..0 |-> m]
  <2>1. PageLoop(f, kind, m, page, frame, 0)
    <3>1. \A n \in 0..0 : n = 0
      OBVIOUS
    <3> QED
      BY <3>1, Zenon DEF PageLoop
  <2> QED
    BY <2>1, <1>4, Zenon
<1>6. i - 1 \in Nat /\ i - 1 \notin bad
  BY <1>2, <1>3, <1>4, <1>5
<1>7. PICK g : PageLoop(g, kind, m, page, frame, i - 1)
  BY <1>6, Zenon DEF bad
<1> DEFINE last == PageTurn(kind, g[i - 1], page + (i - 1), frame + (i - 1))
           f == [n \in 0..i |-> IF n = i THEN last ELSE g[n]]
           h == [n \in 0..i |-> IF n = 0 THEN m ELSE PageTurn(kind, f[n - 1], page + (n - 1), frame + (n - 1))]
<1>8. \A n \in 0..i : f[n] = h[n]
  <2> TAKE n \in 0..i
  <2>1. CASE n = 0
    <3>1. 0 # i /\ 0 \in 0..i /\ 0 \in 0..(i - 1)
      BY <1>4, <1>5
    <3>2. g[0] = m
      BY <1>7, <3>1, Zenon DEF PageLoop
    <3> QED
      BY <2>1, <3>1, <3>2, Zenon
  <2>2. CASE n = i
    <3>1. i # 0 /\ i \in 0..i /\ i - 1 \in 0..i /\ i - 1 # i
      BY <1>4, <1>5
    <3>2. f[i - 1] = g[i - 1]
      BY <3>1, Zenon
    <3> QED
      BY <2>2, <3>1, <3>2, Zenon
  <2>3. CASE n # 0 /\ n # i
    <3>1. n - 1 \in 0..i /\ n - 1 # i /\ n \in 0..(i - 1) /\ n \in 0..i
      BY <2>3, <1>4
    <3>2. f[n - 1] = g[n - 1] /\ f[n] = g[n]
      BY <2>3, <3>1, Zenon
    <3>3. g[n] = PageTurn(kind, g[n - 1], page + (n - 1), frame + (n - 1))
      BY <1>7, <2>3, <3>1, Zenon DEF PageLoop
    <3> QED
      BY <2>3, <3>2, <3>3, Zenon
  <2> QED
    BY <2>1, <2>2, <2>3, Zenon
<1>9. f = h
  BY <1>8, Zenon
<1>10. PageLoop(f, kind, m, page, frame, i)
  BY <1>9, Zenon DEF PageLoop
<1> QED
  BY <1>4, <1>10, Zenon

LEMMA PutNone ==
  ASSUME NEW old, NEW page \in Nat, NEW frame \in Nat, NEW p \in Pages
  PROVE  LastPut(old, page, 0, frame)[p] = old[p]
<1>1. p \notin page..(page + 0 - 1)
  OBVIOUS
<1>2. PICK a, b : a = LastPut(old, page, 0, frame)[p] /\ b = old[p]
  OBVIOUS
<1>3. a = IF p \notin page..(page + 0 - 1) THEN b ELSE IF frame = 0 THEN 0 ELSE frame + (p - page)
  BY <1>2 DEF LastPut
<1>4. a = b
  BY <1>1, <1>3
<1> QED
  BY <1>2, <1>4, Zenon

LEMMA PutOne ==
  ASSUME NEW old, NEW page \in Nat, NEW frame \in Nat, NEW k \in Nat
  PROVE  PutBehind(LastPut(old, page, k + 1, frame), LastPut(old, page, k, frame),
                   page + k, IF frame = 0 THEN 0 ELSE frame + k)
<1>1. PICK new, was : new = LastPut(old, page, k + 1, frame) /\ was = LastPut(old, page, k, frame)
  OBVIOUS
<1>2. ASSUME NEW p \in Pages
      PROVE  new[p] = IF p = page + k THEN (IF frame = 0 THEN 0 ELSE frame + k) ELSE was[p]
  <2>1. p \in Nat
    BY FrameAssumption
  <2>2. p \in page..(page + (k + 1) - 1) <=> p = page + k \/ p \in page..(page + k - 1)
    BY <2>1
  <2>3. p = page + k => p - page = k /\ p \notin page..(page + k - 1)
    BY <2>1
  <2>4. PICK a, b : a = new[p] /\ b = was[p]
    OBVIOUS
  <2>5. a = IF p \notin page..(page + (k + 1) - 1) THEN old[p] ELSE IF frame = 0 THEN 0 ELSE frame + (p - page)
    BY <1>1, <2>4 DEF LastPut
  <2>6. b = IF p \notin page..(page + k - 1) THEN old[p] ELSE IF frame = 0 THEN 0 ELSE frame + (p - page)
    BY <1>1, <2>4 DEF LastPut
  <2>7. a = IF p = page + k THEN (IF frame = 0 THEN 0 ELSE frame + k) ELSE b
    BY ONLY <2>2, <2>3, <2>5, <2>6
  <2> QED
    BY <2>4, <2>7, Zenon
<1>3. PutBehind(new, was, page + k, IF frame = 0 THEN 0 ELSE frame + k)
  BY <1>2, Zenon DEF PutBehind
<1> QED
  BY <1>1, <1>3, Zenon

\* The memory is right after i turns, and leads where they put the pages.
RightAfter(m, B, G, old, page, i, frame) ==
  MemoryRight(m, B, G) /\ Leading(m, LastPut(old, page, i, frame))

\* No turn goes wrong: there would be a first one, and it begins with a right memory.
LEMMA PageLoopRight ==
  ASSUME NEW m, NEW B, NEW G, MemoryRight(m, B, G), NEW kind, NEW page \in Nat, NEW frame \in Nat, NEW count \in Nat,
         page..(page + count - 1) \subseteq Pages,
         kind = "map" => frame # 0 /\ frame..(frame + count - 1) \subseteq B,
         kind # "map" => frame = 0,
         NEW old, Leading(m, old),
         NEW f, PageLoop(f, kind, m, page, frame, count)
  PROVE  RightAfter(f[count], B, G, old, page, count, frame)
<1> DEFINE bad == {i \in 0..count : ~RightAfter(f[i], B, G, old, page, i, frame)}
<1>0. count \in 0..count
  OBVIOUS
<1> SUFFICES ASSUME bad # {} PROVE FALSE
  BY <1>0, Zenon
<1>1. bad \in SUBSET Nat
  OBVIOUS
<1>2. PICK i \in bad : \A y \in bad : i <= y
  <2> HIDE DEF bad
  <2> QED
    BY <1>1, LeastNumber, Zenon
<1>3. i \in 0..count /\ ~RightAfter(f[i], B, G, old, page, i, frame)
  BY Zenon
<1>4. i # 0
  <2>1. 0 \in 0..count
    OBVIOUS
  <2>2. f[0] = m
    BY <2>1, Zenon DEF PageLoop
  <2>3. \A p \in Pages : LastPut(old, page, 0, frame)[p] = old[p]
    BY PutNone, Zenon
  <2>4. Leading(m, LastPut(old, page, 0, frame))
    BY <2>3, Zenon DEF Leading
  <2>5. RightAfter(m, B, G, old, page, 0, frame)
    BY <2>4, Zenon DEF RightAfter
  <2> QED
    BY <1>3, <2>2, <2>5, Zenon
<1>5. PICK k \in 0..count : k = i - 1 /\ k < i /\ i = k + 1
  <2>1. i - 1 \in 0..count /\ i - 1 < i /\ i = (i - 1) + 1
    BY <1>3, <1>4
  <2> QED
    BY <2>1, Zenon
<1>6. RightAfter(f[k], B, G, old, page, k, frame)
  <2>1. ~(i <= k)
    BY ONLY <1>3, <1>5, count \in Nat
  <2>2. k \notin bad
    BY <1>2, <2>1, Zenon
  <2> QED
    BY <2>2, Zenon
<1>7. f[i] = PageTurn(kind, f[k], page + k, frame + k)
  BY <1>3, <1>4, <1>5, Zenon DEF PageLoop
<1>8. page + k \in page..(page + count - 1) /\ frame + k \in frame..(frame + count - 1)
  BY ONLY <1>3, <1>5, page \in Nat, frame \in Nat, count \in Nat
<1>9. page + k \in Pages
  BY <1>8, Zenon
<1>10. PICK was, is : was = LastPut(old, page, k, frame) /\ is = LastPut(old, page, i, frame)
  OBVIOUS
<1>11. MemoryRight(f[k], B, G) /\ Leading(f[k], was)
  BY <1>6, <1>10, Zenon DEF RightAfter
<1>12. PutBehind(is, was, page + k, IF frame = 0 THEN 0 ELSE frame + k)
  <2>1. k \in Nat
    BY <1>5
  <2>2. PutBehind(LastPut(old, page, k + 1, frame), LastPut(old, page, k, frame),
                  page + k, IF frame = 0 THEN 0 ELSE frame + k)
    BY <2>1, PutOne, Zenon
  <2> QED
    BY <1>5, <1>10, <2>2, Zenon
<1>13. ASSUME MemoryRight(f[i], B, G), Leading(f[i], is) PROVE FALSE
  <2>1. RightAfter(f[i], B, G, old, page, i, frame)
    BY <1>10, <1>13, Zenon DEF RightAfter
  <2> QED
    BY <1>3, <2>1, Zenon
<1>14. CASE kind = "map"
  <2>1. frame + k \in B /\ frame # 0
    BY <1>8, <1>14, Zenon
  <2>2. MemoryRight(MapPhysicalAddressToVirtualAddresss(f[k], page + k, frame + k), B, G)
    BY <1>9, <1>11, <2>1, MapPhysicalRight, Zenon
  <2>3. PutBehind(is, was, page + k, frame + k)
    BY <1>12, <2>1, Zenon
  <2>4. Leading(MapPhysicalAddressToVirtualAddresss(f[k], page + k, frame + k), is)
    BY <1>9, <1>11, <2>3, MapPhysicalLeads, Zenon
  <2> QED
    BY <1>7, <1>13, <1>14, <2>2, <2>4, Zenon DEF PageTurn
<1>15. CASE kind # "map"
  <2>1. MemoryRight(UnmapPageTable(f[k], page + k), B, G)
    BY <1>9, <1>11, UnmapTableRight, Zenon
  <2>2. PutBehind(is, was, page + k, 0)
    BY <1>12, <1>15, Zenon
  <2>3. Leading(UnmapPageTable(f[k], page + k), is)
    BY <1>9, <1>11, <2>2, UnmapTableLeads, Zenon
  <2> QED
    BY <1>7, <1>13, <1>15, <2>1, <2>3, Zenon DEF PageTurn
<1> QED
  BY <1>14, <1>15, Zenon

LEMMA MapRangeRight ==
  ASSUME NEW m, NEW B, NEW G, MemoryRight(m, B, G), NEW page \in Nat, NEW frame \in Nat, NEW count \in Nat,
         page..(page + count - 1) \subseteq Pages, frame # 0, frame..(frame + count - 1) \subseteq B,
         NEW old, Leading(m, old)
  PROVE  RightAfter(MapRange(m, page, frame, count), B, G, old, page, count, frame)
<1> DEFINE loop == CHOOSE f : f = [i \in 0..count |->
                     IF i = 0 THEN m
                     ELSE MapPhysicalAddressToVirtualAddresss(f[i - 1], page + (i - 1), frame + (i - 1))]
<1>1. MapRange(m, page, frame, count) = loop[count]
  BY Zenon DEF MapRange
<1>2. PageLoop(loop, "map", m, page, frame, count)
  <2>1. PICK f : PageLoop(f, "map", m, page, frame, count)
    BY PageLoopsExist, Zenon
  <2>2. f = [i \in 0..count |->
              IF i = 0 THEN m
              ELSE MapPhysicalAddressToVirtualAddresss(f[i - 1], page + (i - 1), frame + (i - 1))]
    BY <2>1, Zenon DEF PageLoop, PageTurn
  <2>3. loop = [i \in 0..count |->
                 IF i = 0 THEN m
                 ELSE MapPhysicalAddressToVirtualAddresss(loop[i - 1], page + (i - 1), frame + (i - 1))]
    BY <2>2, Zenon
  <2> HIDE DEF loop
  <2> QED
    BY <2>3, Zenon DEF PageLoop, PageTurn
<1> HIDE DEF loop
<1>3. RightAfter(loop[count], B, G, old, page, count, frame)
  <2>1. /\ "map" = "map" => frame # 0 /\ frame..(frame + count - 1) \subseteq B
        /\ "map" # "map" => frame = 0
    OBVIOUS
  <2> QED
    BY <1>2, <2>1, PageLoopRight, Zenon
<1> QED
  BY <1>1, <1>3, Zenon

LEMMA UnmapRangeRight ==
  ASSUME NEW m, NEW B, NEW G, MemoryRight(m, B, G), NEW page \in Nat, NEW count \in Nat,
         page..(page + count - 1) \subseteq Pages, NEW old, Leading(m, old)
  PROVE  RightAfter(UnmapRange(m, page, count), B, G, old, page, count, 0)
<1> DEFINE loop == CHOOSE f : f = [i \in 0..count |->
                     IF i = 0 THEN m ELSE UnmapPageTable(f[i - 1], page + (i - 1))]
<1>1. UnmapRange(m, page, count) = loop[count]
  BY Zenon DEF UnmapRange
<1>0. "unmap" # "map" /\ 0 \in Nat
  OBVIOUS
<1>2. PageLoop(loop, "unmap", m, page, 0, count)
  <2>1. PICK f : PageLoop(f, "unmap", m, page, 0, count)
    BY PageLoopsExist, Zenon
  <2>2. f = [i \in 0..count |-> IF i = 0 THEN m ELSE UnmapPageTable(f[i - 1], page + (i - 1))]
    BY <1>0, <2>1, Zenon DEF PageLoop, PageTurn
  <2>3. loop = [i \in 0..count |-> IF i = 0 THEN m ELSE UnmapPageTable(loop[i - 1], page + (i - 1))]
    BY <2>2, Zenon
  <2> HIDE DEF loop
  <2> QED
    BY <1>0, <2>3, Zenon DEF PageLoop, PageTurn
<1> HIDE DEF loop
<1>3. RightAfter(loop[count], B, G, old, page, count, 0)
  BY <1>0, <1>2, PageLoopRight, Zenon
<1> QED
  BY <1>1, <1>3, Zenon

-----------------------------------------------------------------------------
(* The invariant. *)

GivenIn(g) == UNION {FramesFrom(b[1], b[2]) : b \in g}

\* No frame was given away twice.
BlocksApart(g) ==
  /\ \A b \in g : b[1] \in Nat /\ b[2] \in Nat
  /\ \A a, b \in g : a = b \/ FramesFrom(a[1], a[2]) \cap FramesFrom(b[1], b[2]) = {}

\* What is behind a page is a device's, or behind no other page.
BehindAlone(beh, B) ==
  /\ \A page \in Pages : beh[page] \in {0} \cup B \cup DeviceFrames
  /\ \A page, p \in Pages : beh[page] \in B /\ beh[p] = beh[page] => p = page

FramesRight ==
  /\ MemoryRight(mm, backing, GivenIn(given)) /\ BlocksApart(given)
  /\ Leading(mm, behind) /\ BehindAlone(behind, backing)

LEMMA SameLeads ==
  ASSUME NEW m, NEW w, w.m_entries = m.m_entries, w.tables = m.tables, NEW beh, Leading(m, beh)
  PROVE  Leading(w, beh)
<1>1. \A page \in Pages : GetPhysicalAddress(w, page) = GetPhysicalAddress(m, page)
  BY Zenon DEF GetPhysicalAddress
<1> QED
  BY <1>1, Zenon DEF Leading

LEMMA BackingFrames ==
  ASSUME NEW m, NEW B, NEW G, MemoryRight(m, B, G)
  PROVE  B \subseteq m.map /\ 0 \notin B /\ B \cap DeviceFrames = {}
<1>1. m.map = FramesOfKernel \cup EntriesIn(m) \cup B \cup G /\ m.map \in SUBSET Frames
      /\ FramesOfKernel \cap B = {}
  BY Zenon DEF MemoryRight, MemoryTypes, OneUse
<1>2. Frames \cap DeviceFrames = {}
  BY FrameAssumption DEF Frames
<1>3. 0 \in FramesOfKernel
  BY FrameSizes, Zenon
<1> QED
  BY <1>1, <1>2, <1>3, Zenon

\* A page that is unmapped, or gets a device's frame, takes none from another.
LEMMA OwnKept ==
  ASSUME NEW old, NEW new, NEW B, BehindAlone(old, B),
         \A p \in Pages : new[p] = old[p] \/ (new[p] \in {0} \cup DeviceFrames /\ new[p] \notin B)
  PROVE  BehindAlone(new, B)
<1>1. \A page \in Pages : new[page] \in {0} \cup B \cup DeviceFrames
  BY Zenon DEF BehindAlone
<1>2. ASSUME NEW page \in Pages, NEW p \in Pages, new[page] \in B, new[p] = new[page] PROVE p = page
  <2>1. new[page] = old[page] /\ new[p] = old[p]
    BY <1>2, Zenon
  <2> QED
    BY <1>2, <2>1, Zenon DEF BehindAlone
<1> QED
  BY <1>1, <1>2, Zenon DEF BehindAlone

\* Pages that get frames that were free get one each.
LEMMA OwnGrows ==
  ASSUME NEW old, NEW B, BehindAlone(old, B), NEW page \in Nat, NEW f \in Nat, f # 0, NEW count \in Nat,
         NEW R, R = FramesFrom(f, count), R \cap B = {}, R \cap DeviceFrames = {}
  PROVE  BehindAlone(LastPut(old, page, count, f), B \cup R)
<1>1. PICK new : new = LastPut(old, page, count, f)
  OBVIOUS
<1>2. 0 \notin R
  BY DEF FramesFrom
<1>3. ASSUME NEW p \in Pages, p \notin page..(page + count - 1) PROVE new[p] = old[p] /\ new[p] \notin R
  <2>1. new[p] = old[p]
    BY <1>1, <1>3, Zenon DEF LastPut
  <2>2. old[p] \in {0} \cup B \cup DeviceFrames
    BY Zenon DEF BehindAlone
  <2> QED
    BY <1>2, <2>1, <2>2, Zenon
<1>4. ASSUME NEW p \in Pages, p \in page..(page + count - 1) PROVE new[p] = f + (p - page) /\ new[p] \in R
  <2>1. new[p] = f + (p - page)
    BY <1>1, <1>4, Zenon DEF LastPut
  <2>2. f + (p - page) \in R
    BY <1>4 DEF FramesFrom
  <2> QED
    BY <2>1, <2>2, Zenon
<1>5. \A p \in Pages : new[p] \in {0} \cup (B \cup R) \cup DeviceFrames
  <2> TAKE p \in Pages
  <2>1. CASE p \in page..(page + count - 1)
    BY <1>4, <2>1, Zenon
  <2>2. CASE p \notin page..(page + count - 1)
    <3>1. new[p] = old[p]
      BY <1>3, <2>2, Zenon
    <3> QED
      BY <3>1, Zenon DEF BehindAlone
  <2> QED
    BY <2>1, <2>2, Zenon
<1>6. ASSUME NEW q \in Pages, NEW p \in Pages, new[q] \in B \cup R, new[p] = new[q] PROVE p = q
  <2>1. CASE q \in page..(page + count - 1)
    <3>1. p \in page..(page + count - 1)
      BY <1>3, <1>4, <1>6, <2>1, Zenon
    <3>2. f + (p - page) = f + (q - page)
      BY <1>4, <1>6, <2>1, <3>1, Zenon
    <3>3. p \in Int /\ q \in Int
      BY <2>1, <3>1
    <3> QED
      BY <3>2, <3>3
  <2>2. CASE q \notin page..(page + count - 1)
    <3>1. p \notin page..(page + count - 1)
      BY <1>3, <1>4, <1>6, <2>2, Zenon
    <3>2. new[q] = old[q] /\ new[p] = old[p] /\ old[q] \in B
      BY <1>3, <1>6, <2>2, <3>1, Zenon
    <3> QED
      BY <1>6, <3>2, Zenon DEF BehindAlone
  <2> QED
    BY <2>1, <2>2, Zenon
<1>7. BehindAlone(new, B \cup R)
  BY <1>5, <1>6, Zenon DEF BehindAlone
<1> QED
  BY <1>1, <1>7, Zenon

LEMMA FramesRightFirst == FrameInit => FramesRight
<1> SUFFICES ASSUME FrameInit PROVE FramesRight
  BY Zenon
<1>1. PICK m : m = mm
  OBVIOUS
<1>2. m = [map |-> 0..(startBlock - 1), m_usedBlocks |-> startBlock,
           m_entries |-> [d \in Tables |-> 0], tables |-> << >>, low |-> {}]
  BY <1>1, Zenon DEF FrameInit
<1>3. /\ m.map = FramesOfKernel /\ m.m_usedBlocks = startBlock /\ m.m_entries = [d \in Tables |-> 0]
      /\ m.tables = << >>
      /\ m = [map |-> m.map, m_usedBlocks |-> m.m_usedBlocks, m_entries |-> m.m_entries, tables |-> m.tables, low |-> m.low]
  BY <1>2, Zenon DEF FramesOfKernel
<1>4. EntriesIn(m) = {}
  BY <1>3, Zenon DEF EntriesIn
<1>5. MemoryTypes(m)
  <2>1. Cardinality(m.map) = startBlock
    <3>1. PICK b \in Int : b = startBlock - 1
      BY FrameSizes
    <3>2. Cardinality(0..b) = IF 0 > b THEN 0 ELSE b - 0 + 1
      BY FS_Interval
    <3>3. Cardinality(0..b) = startBlock
      BY <3>1, <3>2, FrameSizes
    <3> QED
      BY <1>3, <3>1, <3>3, Zenon DEF FramesOfKernel
  <2>2. m.m_entries \in [Tables -> Frames]
    BY <1>3, FrameSizes
  <2>3. m.map \in SUBSET Frames
    BY <1>3, FrameSizes, Zenon
  <2> QED
    BY <1>3, <2>1, <2>2, <2>3, Zenon DEF MemoryTypes
<1>6. OwnTables(m)
  BY <1>3, Zenon DEF OwnTables
<1>7. given = {} /\ backing = {}
  BY Zenon DEF FrameInit
<1>8. GivenIn(given) = {}
  BY <1>7, Zenon DEF GivenIn
<1>9. m.map = FramesOfKernel \cup EntriesIn(m) \cup backing \cup GivenIn(given)
  BY <1>3, <1>4, <1>7, <1>8, Zenon
<1>10. OneUse(EntriesIn(m), backing, GivenIn(given))
  BY <1>4, <1>7, <1>8, Zenon DEF OneUse
<1>11. Leads(m, backing)
  <2>1. DOMAIN m.tables = {}
    BY <1>3
  <2> QED
    BY <1>4, <2>1, Zenon DEF Leads
<1>12. BlocksApart(given)
  BY <1>7, Zenon DEF BlocksApart
<1>13. \A p \in Pages : behind[p] = 0
  BY Zenon DEF FrameInit
<1>14. BehindAlone(behind, backing)
  BY <1>7, <1>13, Zenon DEF BehindAlone
<1>15. Leading(m, behind)
  <2>1. \A page \in Pages : GetPhysicalAddress(m, page) = 0
    BY <1>3, IndicesIn, Zenon DEF GetPhysicalAddress
  <2> QED
    BY <2>1, Zenon DEF Leading
<1> QED
  BY <1>1, <1>5, <1>6, <1>9, <1>10, <1>11, <1>12, <1>14, <1>15, Zenon DEF MemoryRight, FramesRight

LEMMA AllocateRight ==
  ASSUME FramesRight, NEW size \in BlockCounts, Allocate(size)
  PROVE  FramesRight'
<1>0. size \in Nat
  BY FrameAssumption
<1>1. PICK m, B, g, beh : m = mm /\ B = backing /\ g = given /\ beh = behind
  OBVIOUS
<1>2. MemoryRight(m, B, GivenIn(g)) /\ BlocksApart(g) /\ Leading(m, beh) /\ BehindAlone(beh, B)
  BY <1>1, Zenon DEF FramesRight
<1>3. MemoryTypes(m) /\ m.map = FramesOfKernel \cup EntriesIn(m) \cup B \cup GivenIn(g)
  BY <1>2, Zenon DEF MemoryRight
<1>4. 0 \in m.map
  BY <1>3, FrameSizes, Zenon
<1>5. PICK got : got = IF size = 1 THEN AllocBlock(m) ELSE AllocBlocks(m, size)
  OBVIOUS
<1>6. /\ mm' = got.m /\ backing' = B /\ behind' = beh
      /\ given' = IF got.frame = 0 THEN g ELSE g \cup {<<got.frame, size>>}
  BY <1>1, <1>5, Zenon DEF Allocate
<1>7. AllocatedFrames(m, size, got)
  <2>1. CASE size = 1
    BY <1>3, <1>4, <1>5, <2>1, AllocBlockRight, Zenon
  <2>2. CASE size # 1
    BY <1>0, <1>3, <1>4, <1>5, <2>2, AllocBlocksRight, Zenon
  <2> QED
    BY <2>1, <2>2, Zenon
<1>8. CASE got.frame = 0
  <2>1. got.m = m
    BY <1>7, <1>8, Zenon DEF AllocatedFrames
  <2>2. MemoryRight(mm', backing', GivenIn(given')) /\ BlocksApart(given') /\ Leading(mm', behind') /\ BehindAlone(behind', backing')
    BY <1>2, <1>6, <1>8, <2>1, Zenon
  <2> QED
    BY <2>2, Zenon DEF FramesRight
<1>9. CASE got.frame # 0
  <2>1. PICK f : f = got.frame
    OBVIOUS
  <2>2. PICK R : R = FramesFrom(f, size)
    OBVIOUS
  <2>3. f \in Frames /\ R \subseteq Frames \ m.map /\ Taken(m, R, got.m)
    BY <1>7, <1>9, <2>1, <2>2, Zenon DEF AllocatedFrames
  <2>4. MemoryRight(got.m, B, GivenIn(g) \cup R) /\ Leading(got.m, beh)
    BY <1>2, <2>3, TakenGives, SameLeads, Zenon DEF Taken
  <2>5. PICK b : b = <<f, size>>
    OBVIOUS
  <2>6. b[1] = f /\ b[2] = size /\ f \in Nat
    BY <2>3, <2>5, FrameSizes
  <2>7. given' = g \cup {b}
    BY <1>6, <1>9, <2>1, <2>5, Zenon
  <2>8. GivenIn(g \cup {b}) = GivenIn(g) \cup R
    <3>1. R = FramesFrom(b[1], b[2])
      BY <2>2, <2>6, Zenon
    <3> QED
      BY ONLY <3>1 DEF GivenIn
  <2>9. BlocksApart(g \cup {b})
    <3>1. \A a \in g : FramesFrom(a[1], a[2]) \cap R = {}
      <4> SUFFICES ASSUME NEW a \in g, NEW x \in FramesFrom(a[1], a[2]) PROVE x \notin R
        BY Zenon
      <4>1. x \in GivenIn(g)
        BY Zenon DEF GivenIn
      <4>2. x \in m.map
        BY <1>3, <4>1, Zenon
      <4> QED
        BY <2>3, <4>2, Zenon
    <3>2. R = FramesFrom(b[1], b[2])
      BY <2>2, <2>6, Zenon
    <3>3. \A a \in g : FramesFrom(a[1], a[2]) \cap FramesFrom(b[1], b[2]) = {}
      BY <3>1, <3>2, Zenon
    <3>4. \A a \in g : FramesFrom(b[1], b[2]) \cap FramesFrom(a[1], a[2]) = {}
      BY <3>3, Zenon
    <3> QED
      BY <1>0, <1>2, <2>6, <3>3, <3>4, Zenon DEF BlocksApart
  <2>10. MemoryRight(mm', backing', GivenIn(given')) /\ BlocksApart(given') /\ Leading(mm', behind') /\ BehindAlone(behind', backing')
    BY <1>2, <1>6, <2>4, <2>7, <2>8, <2>9, Zenon
  <2> QED
    BY <2>10, Zenon DEF FramesRight
<1> QED
  BY <1>8, <1>9, Zenon

LEMMA ReleaseRight ==
  ASSUME FramesRight, NEW block \in given, Release(block)
  PROVE  FramesRight'
<1>1. PICK m, B, g, beh : m = mm /\ B = backing /\ g = given /\ beh = behind
  OBVIOUS
<1>2. MemoryRight(m, B, GivenIn(g)) /\ BlocksApart(g) /\ Leading(m, beh) /\ BehindAlone(beh, B) /\ block \in g
  BY <1>1, Zenon DEF FramesRight
<1>3. PICK f \in Nat, size \in Nat : f = block[1] /\ size = block[2]
  BY <1>2, Zenon DEF BlocksApart
<1>4. PICK R : R = FramesFrom(f, size)
  OBVIOUS
<1>5. PICK h : h = g \ {block}
  OBVIOUS
<1>6. mm' = FreeBlocks(m, f, size) /\ given' = h /\ backing' = B /\ behind' = beh
  BY <1>1, <1>3, <1>5, Zenon DEF Release
<1>7. GivenIn(g) = GivenIn(h) \cup R
  <2>1. g = h \cup {block}
    BY <1>2, <1>5, Zenon
  <2>2. R = FramesFrom(block[1], block[2])
    BY <1>3, <1>4, Zenon
  <2> QED
    BY ONLY <2>1, <2>2 DEF GivenIn
<1>8. R \cap GivenIn(h) = {}
  <2> SUFFICES ASSUME NEW x \in R, x \in GivenIn(h) PROVE FALSE
    BY Zenon
  <2>1. PICK b \in h : x \in FramesFrom(b[1], b[2])
    BY Zenon DEF GivenIn
  <2>2. b \in g /\ b # block
    BY <1>5, <2>1, Zenon
  <2>3. FramesFrom(b[1], b[2]) \cap FramesFrom(block[1], block[2]) = {}
    BY <1>2, <2>2, Zenon DEF BlocksApart
  <2> QED
    BY <1>3, <1>4, <2>1, <2>3, Zenon
<1>9. MemoryRight(m, B, GivenIn(h) \cup R)
  BY <1>2, <1>7, Zenon
<1>10. Freed(m, R, FreeBlocks(m, f, size))
  <2>1. MemoryTypes(m) /\ R \subseteq m.map
    BY <1>9, Zenon DEF MemoryRight
  <2> QED
    BY <1>4, <2>1, FreeBlocksFrees, Zenon
<1>11. MemoryRight(FreeBlocks(m, f, size), B, GivenIn(h))
  BY <1>8, <1>9, <1>10, FreedReturns, Zenon
<1>12. BlocksApart(h)
  BY <1>2, <1>5, Zenon DEF BlocksApart
<1>13. Leading(FreeBlocks(m, f, size), beh)
  BY <1>2, <1>10, SameLeads, Zenon DEF Freed
<1>14. MemoryRight(mm', backing', GivenIn(given')) /\ BlocksApart(given') /\ Leading(mm', behind') /\ BehindAlone(behind', backing')
  BY <1>2, <1>6, <1>11, <1>12, <1>13, Zenon
<1> QED
  BY <1>14, Zenon DEF FramesRight

LEMMA MapAddressRight ==
  ASSUME FramesRight, NEW page \in Pages, NEW count \in BlockCounts, MapAddress(page, count)
  PROVE  FramesRight'
<1>0. count \in Nat /\ page \in Nat
  BY FrameAssumption
<1>1. PICK m, B, g, beh : m = mm /\ B = backing /\ g = given /\ beh = behind
  OBVIOUS
<1>2. MemoryRight(m, B, GivenIn(g)) /\ BlocksApart(g) /\ Leading(m, beh) /\ BehindAlone(beh, B)
  BY <1>1, Zenon DEF FramesRight
<1>3. MemoryTypes(m) /\ m.map = FramesOfKernel \cup EntriesIn(m) \cup B \cup GivenIn(g)
  BY <1>2, Zenon DEF MemoryRight
<1>4. 0 \in m.map
  BY <1>3, FrameSizes, Zenon
<1>5. PICK got : got = AllocBlocks(m, count)
  OBVIOUS
<1>6. /\ page..(page + count - 1) \subseteq Pages
      /\ \/ mm' = m /\ given' = g /\ backing' = B /\ behind' = beh
         \/ /\ got.frame # 0
            /\ mm' = MapRange(got.m, page, got.frame, count)
            /\ backing' = B \cup got.frame..(got.frame + count - 1)
            /\ behind' = LastPut(beh, page, count, got.frame)
            /\ given' = g
  BY <1>1, <1>5, Zenon DEF MapAddress, frameVars
<1>7. AllocatedFrames(m, count, got)
  BY <1>0, <1>3, <1>4, <1>5, AllocBlocksRight, Zenon
<1>8. CASE mm' = m /\ given' = g /\ backing' = B /\ behind' = beh
  <2>1. MemoryRight(mm', backing', GivenIn(given')) /\ BlocksApart(given') /\ Leading(mm', behind') /\ BehindAlone(behind', backing')
    BY <1>2, <1>8, Zenon
  <2> QED
    BY <2>1, Zenon DEF FramesRight
<1>9. CASE /\ got.frame # 0
           /\ mm' = MapRange(got.m, page, got.frame, count)
           /\ backing' = B \cup got.frame..(got.frame + count - 1)
           /\ behind' = LastPut(beh, page, count, got.frame)
           /\ given' = g
  <2>1. PICK f : f = got.frame
    OBVIOUS
  <2>2. PICK R : R = FramesFrom(f, count)
    OBVIOUS
  <2>3. f \in Frames /\ R \subseteq Frames \ m.map /\ Taken(m, R, got.m)
    BY <1>7, <1>9, <2>1, <2>2, Zenon DEF AllocatedFrames
  <2>4. MemoryRight(got.m, B \cup R, GivenIn(g)) /\ Leading(got.m, beh)
    BY <1>2, <2>3, TakenBacks, SameLeads, Zenon DEF Taken
  <2>5. f \in Nat /\ R = f..(f + count - 1)
    BY <2>2, <2>3, FrameSizes, Zenon DEF FramesFrom
  <2>6. f..(f + count - 1) \subseteq B \cup R
    BY <2>5, Zenon
  <2>7. RightAfter(MapRange(got.m, page, f, count), B \cup R, GivenIn(g), beh, page, count, f)
    <3>1. f # 0
      BY <1>9, <2>1, Zenon
    <3> QED
      BY <1>0, <1>6, <2>4, <2>5, <2>6, <3>1, MapRangeRight, Zenon
  <2>8. backing' = B \cup R
    BY <1>9, <2>1, <2>5, Zenon
  <2>9. BehindAlone(LastPut(beh, page, count, f), B \cup R)
    <3>1. R \cap B = {}
      BY <1>2, <2>3, BackingFrames, Zenon
    <3>2. R \cap DeviceFrames = {}
      <4>1. Frames \cap DeviceFrames = {}
        BY FrameAssumption DEF Frames
      <4> QED
        BY <2>3, <4>1, Zenon
    <3>3. f # 0
      BY <1>9, <2>1, Zenon
    <3> QED
      BY <1>0, <1>2, <2>2, <2>5, <3>1, <3>2, <3>3, OwnGrows, Zenon
  <2>10. behind' = LastPut(beh, page, count, f)
    BY <1>9, <2>1, Zenon
  <2>11. MemoryRight(mm', backing', GivenIn(given')) /\ BlocksApart(given') /\ Leading(mm', behind') /\ BehindAlone(behind', backing')
    BY <1>2, <1>9, <2>1, <2>7, <2>8, <2>9, <2>10, Zenon DEF RightAfter
  <2> QED
    BY <2>11, Zenon DEF FramesRight
<1> QED
  BY <1>6, <1>8, <1>9, Zenon

LEMMA FramesRightNext == FramesRight /\ [FrameNext]_frameVars => FramesRight'
<1> SUFFICES ASSUME FramesRight, [FrameNext]_frameVars PROVE FramesRight'
  BY Zenon
<1>1. PICK m, B, g, beh : m = mm /\ B = backing /\ g = given /\ beh = behind
  OBVIOUS
<1>2. MemoryRight(m, B, GivenIn(g)) /\ BlocksApart(g) /\ Leading(m, beh) /\ BehindAlone(beh, B)
  BY <1>1, Zenon DEF FramesRight
<1>3. ASSUME NEW size \in BlockCounts, Allocate(size) PROVE FramesRight'
  BY <1>3, AllocateRight, Zenon
<1>4. ASSUME NEW block \in given, Release(block) PROVE FramesRight'
  BY <1>4, ReleaseRight, Zenon
<1>5. ASSUME NEW page \in Pages, NEW count \in BlockCounts, MapAddress(page, count) PROVE FramesRight'
  BY <1>5, MapAddressRight, Zenon
<1>6. ASSUME NEW page \in Pages, NEW count \in BlockCounts, UnmapAddress(page, count) PROVE FramesRight'
  <2>0. count \in Nat /\ page \in Nat
    BY FrameAssumption
  <2>1. /\ page..(page + count - 1) \subseteq Pages
        /\ mm' = UnmapRange(m, page, count) /\ given' = g /\ backing' = B
        /\ behind' = LastPut(beh, page, count, 0)
    BY <1>1, <1>6, Zenon DEF UnmapAddress
  <2>2. RightAfter(UnmapRange(m, page, count), B, GivenIn(g), beh, page, count, 0)
    BY <1>2, <2>0, <2>1, UnmapRangeRight, Zenon
  <2>3. BehindAlone(LastPut(beh, page, count, 0), B)
    <3>1. PICK new : new = LastPut(beh, page, count, 0)
      OBVIOUS
    <3>2. \A p \in Pages : new[p] = beh[p] \/ new[p] = 0
      BY <3>1, Zenon DEF LastPut
    <3>3. 0 \notin B
      BY <1>2, BackingFrames, Zenon
    <3>4. \A p \in Pages : new[p] = beh[p] \/ (new[p] \in {0} \cup DeviceFrames /\ new[p] \notin B)
      BY <3>2, <3>3, Zenon
    <3>5. BehindAlone(new, B)
      BY <1>2, <3>4, OwnKept, Zenon
    <3> QED
      BY <3>1, <3>5, Zenon
  <2>4. MemoryRight(mm', backing', GivenIn(given')) /\ BlocksApart(given') /\ Leading(mm', behind') /\ BehindAlone(behind', backing')
    BY <1>2, <2>1, <2>2, <2>3, Zenon DEF RightAfter
  <2> QED
    BY <2>4, Zenon DEF FramesRight
<1>7. ASSUME NEW page \in Pages, NEW frame \in DeviceFrames, MapDMAAddress(page, frame) PROVE FramesRight'
  <2>1. PICK new : new = LastPut(beh, page, 1, frame)
    OBVIOUS
  <2>2. /\ mm' = MapPhysicalAddressToVirtualAddresss(m, page, frame) /\ given' = g /\ backing' = B
        /\ behind' = new
    BY <1>1, <1>7, <2>1, Zenon DEF MapDMAAddress
  <2>3. frame \in B \cup DeviceFrames
    BY Zenon
  <2>4. MemoryRight(MapPhysicalAddressToVirtualAddresss(m, page, frame), B, GivenIn(g))
    BY <1>2, <2>3, MapPhysicalRight, Zenon
  <2>5. \A p \in Pages : new[p] = IF p = page THEN frame ELSE beh[p]
    <3> TAKE p \in Pages
    <3>1. p \in Nat /\ page \in Nat /\ frame \in Nat /\ frame # 0
      <4>1. frame \in Nat /\ frame >= m_maxBlocks
        BY FrameAssumption
      <4> QED
        BY <4>1, FrameAssumption, FrameSizes
    <3>2. p \in page..(page + 1 - 1) <=> p = page
      BY <3>1
    <3>3. p = page => frame + (p - page) = frame
      BY <3>1
    <3>4. new[p] = IF p \notin page..(page + 1 - 1) THEN beh[p] ELSE IF frame = 0 THEN 0 ELSE frame + (p - page)
      BY <2>1, Zenon DEF LastPut
    <3> QED
      BY <3>1, <3>2, <3>3, <3>4, Zenon
  <2>6. PutBehind(new, beh, page, frame)
    BY <2>5, Zenon DEF PutBehind
  <2>7. Leading(MapPhysicalAddressToVirtualAddresss(m, page, frame), new)
    BY <1>2, <2>6, MapPhysicalLeads, Zenon
  <2>8. BehindAlone(new, B)
    <3>1. frame \notin B
      BY <1>2, BackingFrames, Zenon
    <3>2. \A p \in Pages : new[p] = beh[p] \/ (new[p] \in {0} \cup DeviceFrames /\ new[p] \notin B)
      BY <2>5, <3>1, Zenon
    <3> QED
      BY <1>2, <3>2, OwnKept, Zenon
  <2>9. MemoryRight(mm', backing', GivenIn(given')) /\ BlocksApart(given') /\ Leading(mm', behind') /\ BehindAlone(behind', backing')
    BY <1>2, <2>2, <2>4, <2>7, <2>8, Zenon
  <2> QED
    BY <2>9, Zenon DEF FramesRight
<1>8. CASE UNCHANGED frameVars
  <2>1. mm' = m /\ given' = g /\ backing' = B /\ behind' = beh
    BY <1>1, <1>8, Zenon DEF frameVars
  <2>2. MemoryRight(mm', backing', GivenIn(given')) /\ BlocksApart(given') /\ Leading(mm', behind') /\ BehindAlone(behind', backing')
    BY <1>2, <2>1, Zenon
  <2> QED
    BY <2>2, Zenon DEF FramesRight
<1> QED
  BY <1>3, <1>4, <1>5, <1>6, <1>7, <1>8, Zenon DEF FrameNext

\* As many tables are in the directory as there are frames that are tables.
LEMMA TablesCounted ==
  ASSUME NEW m, MemoryTypes(m), OwnTables(m)
  PROVE  Cardinality({d \in Tables : m.m_entries[d] # 0}) = Cardinality(EntriesIn(m))
<1>1. PICK D : D = {d \in Tables : m.m_entries[d] # 0}
  OBVIOUS
<1>2. m.m_entries \in [Tables -> Frames]
  BY Zenon DEF MemoryTypes
<1>3. EntriesIn(m) \in SUBSET Frames
  BY <1>2, Zenon DEF EntriesIn
<1>4. IsFiniteSet(EntriesIn(m))
  BY <1>3, FramesFinite, Zenon
<1>5. PICK f : f = [x \in EntriesIn(m) |-> CHOOSE d \in D : m.m_entries[d] = x]
  OBVIOUS
<1>6. ASSUME NEW x \in EntriesIn(m) PROVE f[x] \in D /\ m.m_entries[f[x]] = x
  <2>1. PICK d \in Tables : x = m.m_entries[d] /\ x # 0
    BY <1>6, Zenon DEF EntriesIn
  <2>2. d \in D
    BY <1>1, <2>1, Zenon
  <2>3. f[x] = CHOOSE e \in D : m.m_entries[e] = x
    BY <1>5, Zenon
  <2> QED
    BY <2>1, <2>2, <2>3, Zenon
<1>7. ASSUME NEW d \in D PROVE m.m_entries[d] \in EntriesIn(m) /\ f[m.m_entries[d]] = d
  <2>1. d \in Tables /\ m.m_entries[d] # 0
    BY <1>1, <1>7, Zenon
  <2>2. m.m_entries[d] \in EntriesIn(m)
    BY <2>1, Zenon DEF EntriesIn
  <2>3. f[m.m_entries[d]] \in D /\ m.m_entries[f[m.m_entries[d]]] = m.m_entries[d]
    BY <1>6, <2>2, Zenon
  <2>4. f[m.m_entries[d]] \in Tables
    BY <1>1, <2>3, Zenon
  <2>5. f[m.m_entries[d]] = d
    BY <2>1, <2>3, <2>4, Zenon DEF OwnTables
  <2> QED
    BY <2>2, <2>5, Zenon
<1>8. f \in Bijection(EntriesIn(m), D)
  <2>1. f \in [EntriesIn(m) -> D]
    BY <1>6, <1>5, Zenon
  <2>2. \A x, y \in EntriesIn(m) : f[x] = f[y] => x = y
    BY <1>6, Zenon
  <2>3. \A d \in D : \E x \in EntriesIn(m) : f[x] = d
    BY <1>7, Zenon
  <2> QED
    BY <2>1, <2>2, <2>3, Zenon DEF Bijection, Injection, Surjection, IsInjective
<1>9. ExistsBijection(EntriesIn(m), D)
  BY <1>8, Zenon DEF ExistsBijection
<1>10. Cardinality(D) = Cardinality(EntriesIn(m))
  BY <1>4, <1>9, FS_Bijection, Zenon
<1> QED
  BY <1>1, <1>10, Zenon

LEMMA ApartCounts ==
  ASSUME NEW S \in SUBSET Frames, NEW T \in SUBSET Frames, S \cap T = {}
  PROVE  Cardinality(S \cup T) = Cardinality(S) + Cardinality(T)
<1>1. IsFiniteSet(S) /\ IsFiniteSet(T) /\ Cardinality(S) \in Nat /\ Cardinality(T) \in Nat
  BY FramesFinite, Zenon
<1>2. Cardinality(S \cup T) = Cardinality(S) + Cardinality(T) - Cardinality(S \cap T)
  BY <1>1, FS_Union, Zenon
<1>3. Cardinality(S \cap T) = 0
  BY FS_EmptySet, Zenon
<1> QED
  BY ONLY <1>1, <1>2, <1>3

LEMMA RightFramesAccounted == BitmapFillsItsFrames /\ FramesRight => FramesAccounted
<1> SUFFICES ASSUME BitmapFillsItsFrames, FramesRight PROVE FramesAccounted
  BY Zenon
<1>1. PICK m, B, G : m = mm /\ B = backing /\ G = GivenIn(given)
  OBVIOUS
<1>2. MemoryRight(m, B, G)
  BY <1>1, Zenon DEF FramesRight
<1>3. /\ MemoryTypes(m) /\ OwnTables(m) /\ OneUse(EntriesIn(m), B, G) /\ Leads(m, B)
      /\ m.map = FramesOfKernel \cup EntriesIn(m) \cup B \cup G
  BY <1>2, Zenon DEF MemoryRight
<1>4. InUse = EntriesIn(m)
  BY <1>1, Zenon DEF InUse, EntriesIn
<1>5. GivenFrames = G
  BY <1>1, Zenon DEF GivenFrames, GivenIn, FramesFrom
<1>6. mm.map = KernelFrames \cup InUse \cup backing \cup GivenFrames /\ KernelFrames = FramesOfKernel
  BY <1>1, <1>3, <1>4, <1>5, KernelFramesAre, Zenon
<1>7. m.map \in SUBSET Frames /\ m.m_usedBlocks = Cardinality(m.map)
  BY <1>3, Zenon DEF MemoryTypes
<1>8. Cardinality(m.map) = Cardinality(FramesOfKernel) + Cardinality(EntriesIn(m)) + Cardinality(B) + Cardinality(G)
  <2>1. PICK K, T : K = FramesOfKernel /\ T = EntriesIn(m)
    OBVIOUS
  <2>2. K \in SUBSET Frames /\ T \in SUBSET Frames /\ B \in SUBSET Frames /\ G \in SUBSET Frames
    BY <1>3, <1>7, <2>1, Zenon
  <2>3. K \cap T = {} /\ (K \cup T) \cap B = {} /\ (K \cup T \cup B) \cap G = {}
    <3>1. OneUse(T, B, G) /\ K = FramesOfKernel
      BY <1>3, <2>1, Zenon
    <3> QED
      BY ONLY <3>1 DEF OneUse
  <2>4. Cardinality(K \cup T) = Cardinality(K) + Cardinality(T)
    BY <2>2, <2>3, ApartCounts, Zenon
  <2>5. Cardinality((K \cup T) \cup B) = Cardinality(K \cup T) + Cardinality(B)
    <3>1. K \cup T \in SUBSET Frames
      BY <2>2, Zenon
    <3> QED
      BY <2>2, <2>3, <3>1, ApartCounts, Zenon
  <2>6. Cardinality((K \cup T \cup B) \cup G) = Cardinality(K \cup T \cup B) + Cardinality(G)
    <3>1. K \cup T \cup B \in SUBSET Frames
      BY <2>2, Zenon
    <3> QED
      BY <2>2, <2>3, <3>1, ApartCounts, Zenon
  <2>7. m.map = (K \cup T \cup B) \cup G
    BY <1>3, <2>1, Zenon
  <2> QED
    BY <2>1, <2>4, <2>5, <2>6, <2>7, Zenon
<1>9. Cardinality({d \in Tables : m.m_entries[d] # 0}) = Cardinality(EntriesIn(m))
  BY <1>3, TablesCounted, Zenon
<1>10. DOMAIN mm.tables = InUse
  BY <1>1, <1>3, <1>4, Zenon DEF Leads
<1>11. /\ \A page \in Pages : GetPhysicalAddress(mm, page) \in {0, behind[page]}
       /\ \A page \in Pages : behind[page] \in {0} \cup backing \cup DeviceFrames
       /\ \A page \in Pages : behind[page] \in backing => \A p \in Pages \ {page} : behind[p] # behind[page]
  BY Zenon DEF FramesRight, Leading, BehindAlone
<1>12. mm.m_usedBlocks = Cardinality(mm.map)
  BY <1>1, <1>7, Zenon
<1>13. Cardinality(mm.map) = Cardinality(KernelFrames) + Cardinality({d \in Tables : mm.m_entries[d] # 0})
                             + Cardinality(backing) + Cardinality(GivenFrames)
  BY <1>1, <1>5, <1>6, <1>8, <1>9, Zenon
<1> QED
  BY <1>6, <1>10, <1>11, <1>12, <1>13, Zenon DEF FramesAccounted

\* If the bitmap fills its frames, every frame has one use, and its bit is set exactly
\* while it has one; m_usedBlocks is their number, and a page leads nowhere or to the frame
\* that was last put behind it, and is behind no other, after any sequence of allocations,
\* frees, maps and unmaps.  If it does not, SetMemoryAvailable gives the frame of its last
\* words away (run frames_bitmap).
THEOREM FrameMapAccounted == BitmapFillsItsFrames => (FrameSpec => []FramesAccounted)
<1> SUFFICES ASSUME BitmapFillsItsFrames PROVE FrameSpec => []FramesAccounted
  OBVIOUS
<1>1. FrameInit => FramesRight
  BY FramesRightFirst, Zenon
<1>2. FramesRight /\ [FrameNext]_frameVars => FramesRight'
  BY FramesRightNext, Zenon
<1>3. FramesRight => FramesAccounted
  BY RightFramesAccounted, Zenon
<1> QED
  BY <1>1, <1>2, <1>3, PTL DEF FrameSpec

=============================================================================
