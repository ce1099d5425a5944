------------------------------- MODULE RWLock -------------------------------
(***************************************************************************)
(* The reader/writer lock of the kernel (SkyCore/Mutex.cpp, class RWLock), *)
(* that AddressSpace and HandleTable are guarded with.                     *)
(*                                                                         *)
(* fCount counts the readers inside, or on their way in, minus kMaxReaders *)
(* while a writer has announced itself.  AtomicAdd, Semaphore::Wait,       *)
(* Semaphore::Release, Mutex::Lock and Mutex::Unlock run with interrupts   *)
(* off (or are one locked instruction), so each is one step; a thread can  *)
(* be preempted between any two of them, and every such point is a value   *)
(* of pc.  A thread blocked on one of the two semaphores is a value of pc  *)
(* too: which of several blocked readers a release takes first is left     *)
(* open.  The mutex hands itself to the first thread of its queue.         *)
(***************************************************************************)
EXTENDS Integers, Sequences, FiniteSets

CONSTANTS Threads,      \* the threads that use the lock
          kMaxReaders   \* what a writer takes off fCount (0x50000000)

\* fCount stays negative while a writer is announced only if there can never
\* be kMaxReaders threads.
ASSUME RWLockAssumption ==
  /\ IsFiniteSet(Threads)
  /\ kMaxReaders \in Nat
  /\ Cardinality(Threads) < kMaxReaders

VARIABLES fCount,       \* RWLock::fCount
          fReadSem,     \* Semaphore::fCount of fReadSem
          fWriteSem,    \* Semaphore::fCount of fWriteSem
          writeLock,    \* Synchronization::fSignalled of fWriteLock
          lockQueue,    \* Synchronization::fTags of fWriteLock
          pc,           \* where each thread is
          todo          \* the local readerCount / waitingReaders of a writer

vars == <<fCount, fReadSem, fWriteSem, writeLock, lockQueue, pc, todo>>

Places == {"out", "readWait", "readBlocked", "reading", "wakeWriter",
           "lockBlocked", "announce", "drain", "drainBlocked", "writing",
           "releaseReaders", "releaseLock"}

At(p) == {t \in Threads : pc[t] = p}

Init ==
  /\ fCount = 0
  /\ fReadSem = 0
  /\ fWriteSem = 0
  /\ writeLock = TRUE
  /\ lockQueue = << >>
  /\ pc = [t \in Threads |-> "out"]
  /\ todo = [t \in Threads |-> 0]

-----------------------------------------------------------------------------
(* Readers. *)

\* Mutant: LockRead does not look at what its AtomicAdd returned.
LockReadUnchecked(t) ==
  /\ pc[t] = "out"
  /\ fCount' = fCount + 1
  /\ pc' = [pc EXCEPT ![t] = "reading"]
  /\ UNCHANGED <<fReadSem, fWriteSem, writeLock, lockQueue, todo>>

\* LockRead up to its AtomicAdd.
LockRead(t) ==
  /\ pc[t] = "out"
  /\ fCount' = fCount + 1
  /\ pc' = [pc EXCEPT ![t] = IF fCount < 0 THEN "readWait" ELSE "reading"]
  /\ UNCHANGED <<fReadSem, fWriteSem, writeLock, lockQueue, todo>>

\* Mutant: the reader gives up when there is no token for it.
LockReadWaitGivesUp(t) ==
  /\ pc[t] = "readWait"
  /\ IF fReadSem > 0
       THEN /\ fReadSem' = fReadSem - 1
            /\ pc' = [pc EXCEPT ![t] = "reading"]
            /\ UNCHANGED fCount
       ELSE /\ fCount' = fCount - 1
            /\ pc' = [pc EXCEPT ![t] = "out"]
            /\ UNCHANGED fReadSem
  /\ UNCHANGED <<fWriteSem, writeLock, lockQueue, todo>>

\* fReadSem.Wait() of LockRead: Semaphore::ThreadWoken, or join the queue.
LockReadWait(t) ==
  /\ pc[t] = "readWait"
  /\ IF fReadSem > 0
       THEN /\ fReadSem' = fReadSem - 1
            /\ pc' = [pc EXCEPT ![t] = "reading"]
       ELSE /\ pc' = [pc EXCEPT ![t] = "readBlocked"]
            /\ UNCHANGED fReadSem
  /\ UNCHANGED <<fCount, fWriteSem, writeLock, lockQueue, todo>>

\* UnlockRead up to its AtomicAdd.
UnlockRead(t) ==
  /\ pc[t] = "reading"
  /\ fCount' = fCount - 1
  /\ pc' = [pc EXCEPT ![t] = IF fCount < 0 THEN "wakeWriter" ELSE "out"]
  /\ UNCHANGED <<fReadSem, fWriteSem, writeLock, lockQueue, todo>>

\* fWriteSem.Release() of UnlockRead.  Release signals only when the count
\* was 0; a signal gives the token to the blocked writer, if there is one.
UnlockReadRelease(t) ==
  /\ pc[t] = "wakeWriter"
  /\ \/ /\ fWriteSem = 0
        /\ \E w \in At("drainBlocked") :
             pc' = [pc EXCEPT ![t] = "out", ![w] = "drain"]
        /\ UNCHANGED fWriteSem
     \/ /\ fWriteSem # 0 \/ At("drainBlocked") = {}
        /\ fWriteSem' = fWriteSem + 1
        /\ pc' = [pc EXCEPT ![t] = "out"]
  /\ UNCHANGED <<fCount, fReadSem, writeLock, lockQueue, todo>>

-----------------------------------------------------------------------------
(* Writers. *)

\* fWriteLock.Lock() of LockWrite.
LockWrite(t) ==
  /\ pc[t] = "out"
  /\ IF writeLock
       THEN /\ writeLock' = FALSE
            /\ pc' = [pc EXCEPT ![t] = "announce"]
            /\ UNCHANGED lockQueue
       ELSE /\ lockQueue' = Append(lockQueue, t)
            /\ pc' = [pc EXCEPT ![t] = "lockBlocked"]
            /\ UNCHANGED writeLock
  /\ UNCHANGED <<fCount, fReadSem, fWriteSem, todo>>

\* The AtomicAdd of LockWrite: turn new readers away, learn how many are in.
LockWriteAnnounce(t) ==
  /\ pc[t] = "announce"
  /\ fCount' = fCount - kMaxReaders
  /\ todo' = [todo EXCEPT ![t] = fCount]
  /\ pc' = [pc EXCEPT ![t] = "drain"]
  /\ UNCHANGED <<fReadSem, fWriteSem, writeLock, lockQueue>>

\* Mutant: the loop of LockWrite runs one time too few.
LockWriteDrainShort(t) ==
  /\ pc[t] = "drain"
  /\ IF todo[t] > 1
       THEN /\ todo' = [todo EXCEPT ![t] = todo[t] - 1]
            /\ IF fWriteSem > 0
                 THEN /\ fWriteSem' = fWriteSem - 1
                      /\ UNCHANGED pc
                 ELSE /\ pc' = [pc EXCEPT ![t] = "drainBlocked"]
                      /\ UNCHANGED fWriteSem
       ELSE /\ pc' = [pc EXCEPT ![t] = "writing"]
            /\ UNCHANGED <<fWriteSem, todo>>
  /\ UNCHANGED <<fCount, fReadSem, writeLock, lockQueue>>

\* One test of the loop of LockWrite and the fWriteSem.Wait() of its body.
LockWriteDrain(t) ==
  /\ pc[t] = "drain"
  /\ IF todo[t] > 0
       THEN /\ todo' = [todo EXCEPT ![t] = todo[t] - 1]
            /\ IF fWriteSem > 0
                 THEN /\ fWriteSem' = fWriteSem - 1
                      /\ UNCHANGED pc
                 ELSE /\ pc' = [pc EXCEPT ![t] = "drainBlocked"]
                      /\ UNCHANGED fWriteSem
       ELSE /\ pc' = [pc EXCEPT ![t] = "writing"]
            /\ UNCHANGED <<fWriteSem, todo>>
  /\ UNCHANGED <<fCount, fReadSem, writeLock, lockQueue>>

\* The AtomicAdd of UnlockWrite: readers may enter again.
UnlockWrite(t) ==
  /\ pc[t] = "writing"
  /\ fCount' = fCount + kMaxReaders
  /\ todo' = [todo EXCEPT ![t] = fCount + kMaxReaders]
  /\ pc' = [pc EXCEPT ![t] = IF fCount + kMaxReaders > 0
                               THEN "releaseReaders" ELSE "releaseLock"]
  /\ UNCHANGED <<fReadSem, fWriteSem, writeLock, lockQueue>>

\* Mutant: UnlockWrite counts the readers that wait, and releases one.
UnlockWriteReleaseOne(t) ==
  /\ pc[t] = "releaseReaders"
  /\ \/ /\ fReadSem = 0
        /\ \E u \in At("readBlocked") :
             pc' = [pc EXCEPT ![t] = "releaseLock", ![u] = "reading"]
        /\ UNCHANGED fReadSem
     \/ /\ fReadSem # 0 \/ At("readBlocked") = {}
        /\ fReadSem' = fReadSem + 1
        /\ pc' = [pc EXCEPT ![t] = "releaseLock"]
  /\ todo' = [todo EXCEPT ![t] = 0]
  /\ UNCHANGED <<fCount, fWriteSem, writeLock, lockQueue>>

\* fReadSem.Release(waitingReaders) of UnlockWrite.
UnlockWriteRelease(t) ==
  /\ pc[t] = "releaseReaders"
  /\ \/ /\ fReadSem = 0
        /\ \E W \in SUBSET At("readBlocked") :
             /\ \/ W = At("readBlocked") /\ Cardinality(W) <= todo[t]
                \/ Cardinality(W) = todo[t]
             /\ fReadSem' = todo[t] - Cardinality(W)
             /\ pc' = [u \in Threads |->
                         IF u = t THEN "releaseLock"
                         ELSE IF u \in W THEN "reading" ELSE pc[u]]
     \/ /\ fReadSem # 0
        /\ fReadSem' = fReadSem + todo[t]
        /\ pc' = [pc EXCEPT ![t] = "releaseLock"]
  /\ todo' = [todo EXCEPT ![t] = 0]
  /\ UNCHANGED <<fCount, fWriteSem, writeLock, lockQueue>>

\* fWriteLock.Unlock() of UnlockWrite: Signal finds the next writer waiting,
\* and Mutex::ThreadWoken unsignals the mutex again, or leaves it signalled.
UnlockWriteLock(t) ==
  /\ pc[t] = "releaseLock"
  /\ IF lockQueue = << >>
       THEN /\ writeLock' = TRUE
            /\ pc' = [pc EXCEPT ![t] = "out"]
            /\ UNCHANGED lockQueue
       ELSE /\ lockQueue' = Tail(lockQueue)
            /\ pc' = [pc EXCEPT ![t] = "out", ![Head(lockQueue)] = "announce"]
            /\ UNCHANGED writeLock
  /\ UNCHANGED <<fCount, fReadSem, fWriteSem, todo>>

-----------------------------------------------------------------------------
\* What a thread that has entered LockRead, LockWrite or an unlock does next.
Continue(t) ==
  \/ LockReadWait(t)
  \/ UnlockRead(t)
  \/ UnlockReadRelease(t)
  \/ LockWriteAnnounce(t)
  \/ LockWriteDrain(t)
  \/ UnlockWrite(t)
  \/ UnlockWriteRelease(t)
  \/ UnlockWriteLock(t)

Next == \E t \in Threads : LockRead(t) \/ LockWrite(t) \/ Continue(t)

Spec == Init /\ [][Next]_vars

\* The scheduler runs every runnable thread again, and a thread that has the
\* lock unlocks it; nothing makes a thread ask for it.
FairSpec == Spec /\ \A t \in Threads : WF_vars(Continue(t))

-----------------------------------------------------------------------------
(* Properties. *)

TypeOK ==
  /\ fCount \in Int
  /\ fReadSem \in Nat
  /\ fWriteSem \in Nat
  /\ writeLock \in BOOLEAN
  /\ lockQueue \in Seq(Threads)
  /\ pc \in [Threads -> Places]
  /\ todo \in [Threads -> Int]

HolderPlaces ==
  {"announce", "drain", "drainBlocked", "writing", "releaseReaders", "releaseLock"}

AnnouncedPlaces == {"drain", "drainBlocked", "writing"}

Announced == \E t \in Threads : pc[t] \in AnnouncedPlaces

\* How many threads are at p.
N(p) == Cardinality(At(p))

\* A thread that writes is alone: no reader and no other writer is inside
\* between LockWrite and UnlockWrite, however the atomic steps of LockRead,
\* UnlockRead, LockWrite and UnlockWrite interleave.
Exclusion ==
  \A t \in Threads : pc[t] = "writing" =>
    \A u \in Threads \ {t} : pc[u] \notin {"reading", "writing"}

\* fWriteLock is held by one writer at most, is unsignalled while it is held,
\* and its queue holds, once each, writers that block on it.
WriteLockHeld ==
  /\ \A t, u \in Threads :
       pc[t] \in HolderPlaces /\ pc[u] \in HolderPlaces => t = u
  /\ writeLock => \A t \in Threads : pc[t] \notin HolderPlaces
  /\ \A i \in 1..Len(lockQueue) : pc[lockQueue[i]] = "lockBlocked"
  /\ \A i, j \in 1..Len(lockQueue) : lockQueue[i] = lockQueue[j] => i = j

\* fCount is the number of readers inside or on their way in, less kMaxReaders
\* while a writer has announced itself.
CountsReaders ==
  fCount = N("readWait") + N("readBlocked") + N("reading")
             - (IF Announced THEN kMaxReaders ELSE 0)

\* No token of fReadSem is lost or made up: without an announced writer there
\* is one, granted or about to be granted by UnlockWrite, for every reader
\* that was turned away.  A reader blocks only when there is no token.
ReadTokens ==
  /\ N("readBlocked") > 0 => fReadSem = 0
  /\ ~Announced /\ (\A t \in Threads : pc[t] # "releaseReaders") =>
       N("readWait") + N("readBlocked") = fReadSem
  /\ \A t \in Threads : pc[t] = "releaseReaders" =>
       N("readWait") + N("readBlocked") = fReadSem + todo[t]
  /\ Announced => fReadSem <= N("readWait") + N("readBlocked")

\* The readers an announced writer has to wait for: each of them is reading,
\* has a token of fReadSem waiting for it, is on its way to release fWriteSem,
\* or has done so.
Owed == N("reading") + fReadSem + N("wakeWriter") + fWriteSem

\* An announced writer waits for exactly the readers that were let in before
\* it, and without one no token of fWriteSem is left over.
WriteTokens ==
  /\ ~Announced => N("wakeWriter") = 0 /\ fWriteSem = 0
  /\ \A t \in Threads :
       /\ pc[t] = "drain" => todo[t] = Owed
       /\ pc[t] = "drainBlocked" =>
            todo[t] >= 0 /\ todo[t] + 1 = Owed /\ fWriteSem = 0
       /\ pc[t] = "writing" => Owed = 0

\* The whole account: the mutex, the counter and the tokens of both semaphores
\* agree with where the threads are, at every point where a thread can be
\* preempted.  It is inductive, see RWLockProofs.
IInv == /\ TypeOK
        /\ WriteLockHeld
        /\ CountsReaders
        /\ ReadTokens
        /\ WriteTokens

\* Everybody who called LockWrite or was turned away by LockRead gets in.  A
\* writer does although readers keep coming: they wait behind its announcement,
\* and the mutex serves writers in order.  A reader does although writers keep
\* coming, even when another reader takes the token meant for it.
EverybodyGetsIn ==
  \A t \in Threads :
    /\ pc[t] = "lockBlocked" \/ pc[t] = "announce" ~> pc[t] = "writing"
    /\ pc[t] = "readWait" ~> pc[t] = "reading"

\* What the lock promises, see ReadersWriters.
holds == [t \in Threads |-> IF pc[t] = "reading" THEN "read"
                            ELSE IF pc[t] = "writing" THEN "write" ELSE "none"]

Abstract == INSTANCE ReadersWriters

\* The lock implements ReadersWriters.
Implements == Abstract!Spec

=============================================================================
