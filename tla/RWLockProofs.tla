---------------------------- MODULE RWLockProofs ----------------------------
(***************************************************************************)
(* RWLock excludes writers from readers and from each other, and           *)
(* implements ReadersWriters, for every finite set of threads smaller than *)
(* kMaxReaders.                                                            *)
(*                                                                         *)
(* Exclusion is not inductive: that a writer may enter depends on the      *)
(* tokens of the two semaphores having been counted right since the        *)
(* previous writer left.  IInv adds that account.  The proof follows the   *)
(* number of threads at each of the four places the account is about.      *)
(***************************************************************************)
EXTENDS RWLock, FiniteSetTheorems, TLAPS

-----------------------------------------------------------------------------
(* Counting threads. *)

Cnt(f, p) == Cardinality({t \in Threads : f[t] = p})

\* The threads at one place are finitely many.
LEMMA CntNat ==
  ASSUME NEW f, NEW p
  PROVE  /\ IsFiniteSet({t \in Threads : f[t] = p})
         /\ Cnt(f, p) \in Nat
<1>1. IsFiniteSet({t \in Threads : f[t] = p})
  BY RWLockAssumption, FS_Subset
<1> QED
  BY <1>1, FS_CardinalityType DEF Cnt

\* The sizes of disjoint sets add up.
LEMMA DisjointUnion ==
  ASSUME NEW S, IsFiniteSet(S), NEW T, IsFiniteSet(T), S \cap T = {}
  PROVE  /\ IsFiniteSet(S \cup T)
         /\ Cardinality(S \cup T) = Cardinality(S) + Cardinality(T)
<1>1. Cardinality(S) \in Nat /\ Cardinality(T) \in Nat /\ Cardinality({}) = 0
  BY FS_CardinalityType, FS_EmptySet
<1>2. /\ IsFiniteSet(S \cup T)
      /\ Cardinality(S \cup T) = Cardinality(S) + Cardinality(T) - Cardinality(S \cap T)
  BY FS_Union
<1>3. Cardinality(S \cap T) = 0
  BY <1>1, Zenon
<1> QED
  BY <1>1, <1>2, <1>3

\* The readers are fewer than kMaxReaders.
LEMMA FewReaders ==
  ASSUME NEW f
  PROVE  Cnt(f, "readWait") + Cnt(f, "readBlocked") + Cnt(f, "reading") < kMaxReaders
<1> DEFINE S(r) == {u \in Threads : f[u] = r}
<1>1. IsFiniteSet(S("readWait")) /\ IsFiniteSet(S("readBlocked")) /\ IsFiniteSet(S("reading"))
  BY CntNat
<1>2. /\ S("readWait") \cap S("readBlocked") = {}
      /\ (S("readWait") \cup S("readBlocked")) \cap S("reading") = {}
      /\ (S("readWait") \cup S("readBlocked")) \cup S("reading") \in SUBSET Threads
  OBVIOUS
<1>3. Cardinality(Threads) \in Nat /\ Cardinality(Threads) < kMaxReaders /\ kMaxReaders \in Nat
  BY RWLockAssumption, FS_CardinalityType
<1>4. /\ Cardinality(S("readWait")) \in Nat
      /\ Cardinality(S("readBlocked")) \in Nat
      /\ Cardinality(S("reading")) \in Nat
  BY CntNat DEF Cnt
<1> HIDE DEF S
<1>5. /\ IsFiniteSet(S("readWait") \cup S("readBlocked"))
      /\ Cardinality(S("readWait") \cup S("readBlocked"))
           = Cardinality(S("readWait")) + Cardinality(S("readBlocked"))
  BY <1>1, <1>2, DisjointUnion
<1>6. Cardinality((S("readWait") \cup S("readBlocked")) \cup S("reading"))
        = Cardinality(S("readWait") \cup S("readBlocked")) + Cardinality(S("reading"))
  BY <1>1, <1>2, <1>5, DisjointUnion
<1>7. Cardinality((S("readWait") \cup S("readBlocked")) \cup S("reading")) <= Cardinality(Threads)
  BY <1>2, RWLockAssumption, FS_Subset
<1>8. Cardinality(S("readWait")) + Cardinality(S("readBlocked")) + Cardinality(S("reading"))
        < kMaxReaders
  BY <1>3, <1>4, <1>5, <1>6, <1>7
<1> QED
  BY <1>8 DEF Cnt, S

-----------------------------------------------------------------------------
(* Consequences of the invariant that the steps use. *)

\* fCount is negative exactly while a writer has announced itself.
LEMMA Sign ==
  ASSUME IInv
  PROVE  /\ \A p : N(p) \in Nat
         /\ fCount < 0 <=> Announced
         /\ fCount + kMaxReaders >= 0
         /\ kMaxReaders \in Nat
         /\ Announced => \A t \in Threads : pc[t] # "releaseReaders"
<1>1. \A p : N(p) \in Nat
  BY CntNat DEF N, At, Cnt
<1>2. N("readWait") + N("readBlocked") + N("reading") < kMaxReaders
  BY FewReaders DEF N, At, Cnt
<1>3. Announced => \A t \in Threads : pc[t] # "releaseReaders"
  BY DEF IInv, WriteLockHeld, Announced, AnnouncedPlaces, HolderPlaces
<1> QED
  BY <1>1, <1>2, <1>3, RWLockAssumption DEF IInv, TypeOK, CountsReaders

\* So are the threads at one place in the current state.
LEMMA AtFinite ==
  ASSUME NEW p
  PROVE  IsFiniteSet(At(p))
BY CntNat DEF At

\* What a step that moves the one thread t from p to q does to the counts,
\* and to nobody else.
LEMMA MoveN ==
  ASSUME IInv, NEW t \in Threads, NEW p, NEW q \in Places, p # q, pc[t] = p,
         pc' = [pc EXCEPT ![t] = q]
  PROVE  /\ N(q)' = N(q) + 1
         /\ N(p)' = N(p) - 1
         /\ \A r : r # q /\ r # p => N(r)' = N(r)
         /\ \A r : N(r) \in Nat
         /\ pc'[t] = q
         /\ \A u \in Threads : u # t => pc'[u] = pc[u]
         /\ pc' \in [Threads -> Places]
<1>1. pc \in [Threads -> Places]
  BY DEF IInv, TypeOK
<1>2. \A r : IsFiniteSet(At(r)) /\ Cardinality(At(r)) \in Nat
  BY CntNat DEF At, Cnt
<1>3. At(q)' = At(q) \cup {t} /\ t \notin At(q)
  BY <1>1 DEF At
<1>4. At(p)' = At(p) \ {t} /\ t \in At(p)
  BY <1>1 DEF At
<1>5. ASSUME NEW r, r # q, r # p PROVE At(r)' = At(r)
  BY <1>1, <1>5 DEF At
<1>6. Cardinality(At(q)') = Cardinality(At(q)) + 1
  BY <1>2, <1>3, FS_AddElement
<1>7. Cardinality(At(p)') = Cardinality(At(p)) - 1
  BY <1>2, <1>4, FS_RemoveElement, ZenonT(60)
<1> QED
  BY <1>1, <1>2, <1>5, <1>6, <1>7 DEF N

-----------------------------------------------------------------------------
(* Steps of readers. *)

\* A thread that moves between places of readers leaves fWriteLock alone.
LEMMA ReaderMove ==
  ASSUME IInv, NEW t \in Threads,
         pc[t] \notin HolderPlaces \cup {"lockBlocked"},
         pc'[t] \notin HolderPlaces \cup {"lockBlocked"},
         \A u \in Threads : u # t => pc'[u] = pc[u],
         UNCHANGED <<writeLock, lockQueue>>
  PROVE  WriteLockHeld' /\ (Announced' <=> Announced)
<1>1. WriteLockHeld'
  BY DEF IInv, TypeOK, WriteLockHeld
<1>2. Announced' <=> Announced
  BY DEF Announced, AnnouncedPlaces, HolderPlaces
<1> QED
  BY <1>1, <1>2

LEMMA LockReadStep ==
  ASSUME IInv, NEW t \in Threads, LockRead(t)
  PROVE  IInv'
<1> USE DEF LockRead, Places
<1>1. CASE fCount < 0
  <2>1. pc[t] = "out" /\ pc' = [pc EXCEPT ![t] = "readWait"]
    BY <1>1
  <2>2. /\ pc'[t] = "readWait"
        /\ \A u \in Threads : u # t => pc'[u] = pc[u]
        /\ pc' \in [Threads -> Places]
        /\ N("readWait")' = N("readWait") + 1
        /\ N("readBlocked")' = N("readBlocked")
        /\ N("reading")' = N("reading")
        /\ N("wakeWriter")' = N("wakeWriter")
    BY <2>1, MoveN
  <2>3. WriteLockHeld' /\ (Announced' <=> Announced)
    BY <2>1, <2>2, ReaderMove DEF HolderPlaces
  <2>4. TypeOK'
    BY <1>1, <2>2, Sign DEF IInv, TypeOK
  <2>5. CountsReaders'
    BY SMTT(30), <1>1, <2>2, <2>3, Sign DEF IInv, TypeOK, CountsReaders
  <2>6. ReadTokens'
    BY <1>1, <2>1, <2>2, <2>3, Sign DEF IInv, TypeOK, ReadTokens
  <2>7. Announced => Owed' = Owed
    BY <1>1, <2>2, Sign DEF IInv, TypeOK, Owed
  <2>8. WriteTokens'
    BY <1>1, <2>1, <2>2, <2>3, <2>7, Sign DEF IInv, TypeOK, WriteTokens, Announced, AnnouncedPlaces
  <2> QED
    BY <2>3, <2>4, <2>5, <2>6, <2>8 DEF IInv
<1>2. CASE ~(fCount < 0)
  <2>1. pc[t] = "out" /\ pc' = [pc EXCEPT ![t] = "reading"]
    BY <1>2
  <2>2. /\ pc'[t] = "reading"
        /\ \A u \in Threads : u # t => pc'[u] = pc[u]
        /\ pc' \in [Threads -> Places]
        /\ N("readWait")' = N("readWait")
        /\ N("readBlocked")' = N("readBlocked")
        /\ N("reading")' = N("reading") + 1
        /\ N("wakeWriter")' = N("wakeWriter")
    BY <2>1, MoveN
  <2>3. WriteLockHeld' /\ (Announced' <=> Announced)
    BY <2>1, <2>2, ReaderMove DEF HolderPlaces
  <2>4. TypeOK'
    BY <1>2, <2>2, Sign DEF IInv, TypeOK
  <2>5. CountsReaders'
    BY <1>2, <2>2, <2>3, Sign DEF IInv, TypeOK, CountsReaders
  <2>6. ReadTokens'
    BY <1>2, <2>1, <2>2, <2>3, Sign DEF IInv, TypeOK, ReadTokens
  <2>7. Announced => Owed' = Owed
    BY <1>2, <2>2, Sign DEF IInv, TypeOK, Owed
  <2>8. WriteTokens'
    BY <1>2, <2>1, <2>2, <2>3, <2>7, Sign DEF IInv, TypeOK, WriteTokens, Announced, AnnouncedPlaces
  <2> QED
    BY <2>3, <2>4, <2>5, <2>6, <2>8 DEF IInv
<1> QED
  BY <1>1, <1>2

LEMMA LockReadWaitStep ==
  ASSUME IInv, NEW t \in Threads, LockReadWait(t)
  PROVE  IInv'
<1> USE DEF LockReadWait, Places
<1>1. CASE fReadSem > 0
  <2>1. pc[t] = "readWait" /\ pc' = [pc EXCEPT ![t] = "reading"]
    BY <1>1
  <2>2. /\ pc'[t] = "reading"
        /\ \A u \in Threads : u # t => pc'[u] = pc[u]
        /\ pc' \in [Threads -> Places]
        /\ N("readWait")' = N("readWait") - 1
        /\ N("readBlocked")' = N("readBlocked")
        /\ N("reading")' = N("reading") + 1
        /\ N("wakeWriter")' = N("wakeWriter")
    BY <2>1, MoveN
  <2>3. WriteLockHeld' /\ (Announced' <=> Announced)
    BY <2>1, <2>2, ReaderMove DEF HolderPlaces
  <2>4. TypeOK'
    BY <1>1, <2>2, Sign DEF IInv, TypeOK
  <2>5. CountsReaders'
    <3>1. N("readWait") \in Nat /\ N("readBlocked") \in Nat /\ N("reading") \in Nat
      BY Sign
    <3>2. fCount' = fCount
      OBVIOUS
    <3>3. CASE Announced
      BY <2>2, <2>3, <3>1, <3>2, <3>3, Sign DEF IInv, CountsReaders
    <3>4. CASE ~Announced
      BY <2>2, <2>3, <3>1, <3>2, <3>4, Sign DEF IInv, CountsReaders
    <3> QED
      BY <3>3, <3>4
  <2>6. ReadTokens'
    <3>1. N("readBlocked") \in Nat /\ N("readWait") \in Nat /\ fReadSem \in Nat
      BY Sign DEF IInv, TypeOK
    <3>2. fReadSem' = fReadSem - 1 /\ todo' = todo
      BY <1>1
    <3>3. N("readBlocked") = 0
      BY <1>1, <3>1 DEF IInv, ReadTokens
    <3>4. \A u \in Threads : pc'[u] = "releaseReaders" <=> pc[u] = "releaseReaders"
      BY <2>1, <2>2
    <3>5. /\ ~Announced /\ (\A u \in Threads : pc[u] # "releaseReaders") =>
               N("readWait") + N("readBlocked") = fReadSem
          /\ \A u \in Threads : pc[u] = "releaseReaders" =>
               N("readWait") + N("readBlocked") = fReadSem + todo[u]
          /\ Announced => fReadSem <= N("readWait") + N("readBlocked")
      BY DEF IInv, ReadTokens
    <3>6. \A u \in Threads : todo[u] \in Int
      BY DEF IInv, TypeOK
    <3> HIDE DEF LockReadWait
    <3>7. N("readBlocked")' = 0 /\ N("readWait")' = N("readWait") - 1
      BY <2>2, <3>3
    <3>8. /\ ~Announced' /\ (\A u \in Threads : pc'[u] # "releaseReaders") =>
               N("readWait")' + N("readBlocked")' = fReadSem'
          /\ Announced' => fReadSem' <= N("readWait")' + N("readBlocked")'
      BY <2>3, <3>1, <3>2, <3>3, <3>4, <3>5, <3>7
    <3>9. \A u \in Threads : pc'[u] = "releaseReaders" =>
            N("readWait")' + N("readBlocked")' = fReadSem' + todo'[u]
      BY <3>1, <3>2, <3>3, <3>4, <3>5, <3>6, <3>7
    <3> QED
      BY <3>7, <3>8, <3>9 DEF ReadTokens
  <2>7. Announced => Owed' = Owed
    BY <1>1, <2>2, Sign DEF IInv, TypeOK, Owed
  <2>8. WriteTokens'
    BY <1>1, <2>1, <2>2, <2>3, <2>7, Sign DEF IInv, TypeOK, WriteTokens, Announced, AnnouncedPlaces
  <2> QED
    BY <2>3, <2>4, <2>5, <2>6, <2>8 DEF IInv
<1>2. CASE ~(fReadSem > 0)
  <2>1. pc[t] = "readWait" /\ pc' = [pc EXCEPT ![t] = "readBlocked"]
    BY <1>2
  <2>2. /\ pc'[t] = "readBlocked"
        /\ \A u \in Threads : u # t => pc'[u] = pc[u]
        /\ pc' \in [Threads -> Places]
        /\ N("readWait")' = N("readWait") - 1
        /\ N("readBlocked")' = N("readBlocked") + 1
        /\ N("reading")' = N("reading")
        /\ N("wakeWriter")' = N("wakeWriter")
    BY <2>1, MoveN
  <2>3. WriteLockHeld' /\ (Announced' <=> Announced)
    BY <2>1, <2>2, ReaderMove DEF HolderPlaces
  <2>4. TypeOK'
    BY <1>2, <2>2, Sign DEF IInv, TypeOK
  <2>5. CountsReaders'
    <3>1. N("readWait") \in Nat /\ N("readBlocked") \in Nat /\ N("reading") \in Nat
      BY Sign
    <3>2. fCount' = fCount
      OBVIOUS
    <3>3. CASE Announced
      BY <2>2, <2>3, <3>1, <3>2, <3>3, Sign DEF IInv, CountsReaders
    <3>4. CASE ~Announced
      BY <2>2, <2>3, <3>1, <3>2, <3>4, Sign DEF IInv, CountsReaders
    <3> QED
      BY <3>3, <3>4
  <2>9. fReadSem = 0 /\ UNCHANGED <<fReadSem, todo>>
    BY <1>2 DEF IInv, TypeOK
  <2>10. /\ N("readWait")' + N("readBlocked")' = N("readWait") + N("readBlocked")
         /\ N("readWait") + N("readBlocked") \in Nat
    BY <2>2, Sign
  <2>6. ReadTokens'
    BY <2>1, <2>2, <2>3, <2>9, <2>10 DEF IInv, ReadTokens
  <2>7. Announced => Owed' = Owed
    BY <1>2, <2>2, Sign DEF IInv, TypeOK, Owed
  <2>8. WriteTokens'
    BY <1>2, <2>1, <2>2, <2>3, <2>7, Sign DEF IInv, TypeOK, WriteTokens, Announced, AnnouncedPlaces
  <2> QED
    BY <2>3, <2>4, <2>5, <2>6, <2>8 DEF IInv
<1> QED
  BY <1>1, <1>2

LEMMA UnlockReadStep ==
  ASSUME IInv, NEW t \in Threads, UnlockRead(t)
  PROVE  IInv'
<1> USE DEF UnlockRead, Places
<1>1. CASE fCount < 0
  <2>1. pc[t] = "reading" /\ pc' = [pc EXCEPT ![t] = "wakeWriter"]
    BY <1>1
  <2>2. /\ pc'[t] = "wakeWriter"
        /\ \A u \in Threads : u # t => pc'[u] = pc[u]
        /\ pc' \in [Threads -> Places]
        /\ N("readWait")' = N("readWait")
        /\ N("readBlocked")' = N("readBlocked")
        /\ N("reading")' = N("reading") - 1
        /\ N("wakeWriter")' = N("wakeWriter") + 1
    BY <2>1, MoveN
  <2>3. WriteLockHeld' /\ (Announced' <=> Announced)
    BY <2>1, <2>2, ReaderMove DEF HolderPlaces
  <2>4. TypeOK'
    BY <1>1, <2>2, Sign DEF IInv, TypeOK
  <2>5. CountsReaders'
    BY <1>1, <2>2, <2>3, Sign DEF IInv, TypeOK, CountsReaders
  <2>6. ReadTokens'
    BY <1>1, <2>1, <2>2, <2>3, Sign DEF IInv, TypeOK, ReadTokens
  <2>7. Announced => Owed' = Owed
    BY <1>1, <2>2, Sign DEF IInv, TypeOK, Owed
  <2>8. WriteTokens'
    BY <1>1, <2>1, <2>2, <2>3, <2>7, Sign DEF IInv, TypeOK, WriteTokens, Announced, AnnouncedPlaces
  <2> QED
    BY <2>3, <2>4, <2>5, <2>6, <2>8 DEF IInv
<1>2. CASE ~(fCount < 0)
  <2>1. pc[t] = "reading" /\ pc' = [pc EXCEPT ![t] = "out"]
    BY <1>2
  <2>2. /\ pc'[t] = "out"
        /\ \A u \in Threads : u # t => pc'[u] = pc[u]
        /\ pc' \in [Threads -> Places]
        /\ N("readWait")' = N("readWait")
        /\ N("readBlocked")' = N("readBlocked")
        /\ N("reading")' = N("reading") - 1
        /\ N("wakeWriter")' = N("wakeWriter")
    BY <2>1, MoveN
  <2>3. WriteLockHeld' /\ (Announced' <=> Announced)
    BY <2>1, <2>2, ReaderMove DEF HolderPlaces
  <2>4. TypeOK'
    BY <1>2, <2>2, Sign DEF IInv, TypeOK
  <2>5. CountsReaders'
    BY <1>2, <2>2, <2>3, Sign DEF IInv, TypeOK, CountsReaders
  <2>6. ReadTokens'
    BY <1>2, <2>1, <2>2, <2>3, Sign DEF IInv, TypeOK, ReadTokens
  <2>7. Announced => Owed' = Owed
    BY <1>2, <2>2, Sign DEF IInv, TypeOK, Owed
  <2>8. WriteTokens'
    BY <1>2, <2>1, <2>2, <2>3, <2>7, Sign DEF IInv, TypeOK, WriteTokens, Announced, AnnouncedPlaces
  <2> QED
    BY <2>3, <2>4, <2>5, <2>6, <2>8 DEF IInv
<1> QED
  BY <1>1, <1>2

LEMMA UnlockReadReleaseStep ==
  ASSUME IInv, NEW t \in Threads, UnlockReadRelease(t)
  PROVE  IInv'
<1> USE DEF UnlockReadRelease, Places
<1>1. ASSUME fWriteSem = 0, NEW w \in At("drainBlocked"),
             pc' = [pc EXCEPT ![t] = "out", ![w] = "drain"], UNCHANGED fWriteSem
      PROVE  IInv'
  <2>1. /\ w \in Threads /\ w # t /\ pc[w] = "drainBlocked" /\ pc[t] = "wakeWriter"
        /\ pc'[t] = "out" /\ pc'[w] = "drain"
        /\ \A u \in Threads : u # t /\ u # w => pc'[u] = pc[u]
        /\ pc' \in [Threads -> Places]
    BY <1>1 DEF IInv, TypeOK, At
  <2>2. /\ At("readWait")' = At("readWait")
        /\ At("readBlocked")' = At("readBlocked")
        /\ At("reading")' = At("reading")
        /\ At("wakeWriter")' = At("wakeWriter") \ {t} /\ t \in At("wakeWriter")
    BY <2>1 DEF At
  <2>3. IsFiniteSet(At("wakeWriter"))
    BY AtFinite
  <2>4. /\ N("readWait")' = N("readWait")
        /\ N("readBlocked")' = N("readBlocked")
        /\ N("reading")' = N("reading")
        /\ N("wakeWriter")' = N("wakeWriter") - 1
    BY <2>2, <2>3, FS_RemoveElement DEF N
  <2>5. Announced /\ Announced' /\ \A u \in Threads : pc'[u] # "releaseReaders"
    BY <2>1, Sign DEF Announced, AnnouncedPlaces
  <2>6. TypeOK'
    BY <2>1, <1>1 DEF IInv, TypeOK
  <2>7. WriteLockHeld'
    <3>1. \A i \in 1..Len(lockQueue) : lockQueue[i] \in Threads /\ pc[lockQueue[i]] = "lockBlocked"
      BY DEF IInv, TypeOK, WriteLockHeld
    <3>2. \A i \in 1..Len(lockQueue) : pc'[lockQueue[i]] = "lockBlocked"
      BY <2>1, <3>1
    <3>3. \A u \in Threads : pc'[u] \in HolderPlaces => pc[u] \in HolderPlaces
      BY <2>1 DEF HolderPlaces
    <3> QED
      BY <3>2, <3>3 DEF IInv, WriteLockHeld
  <2>8. CountsReaders'
    BY <2>4, <2>5 DEF IInv, CountsReaders
  <2>9. ReadTokens'
    BY <2>4, <2>5 DEF IInv, ReadTokens
  <2>10. Owed' = Owed - 1 /\ todo[w] + 1 = Owed
    BY SMTT(40), <1>1, <2>1, <2>4, Sign DEF IInv, TypeOK, Owed, WriteTokens
  <2>11. \A u \in Threads : u # w => pc'[u] \notin AnnouncedPlaces
    BY <2>1 DEF IInv, WriteLockHeld, HolderPlaces, AnnouncedPlaces
  <2>12. WriteTokens'
    BY <1>1, <2>1, <2>5, <2>10, <2>11, Sign DEF IInv, TypeOK, WriteTokens, AnnouncedPlaces, Owed
  <2> QED
    BY <2>6, <2>7, <2>8, <2>9, <2>12 DEF IInv
<1>2. ASSUME fWriteSem # 0 \/ At("drainBlocked") = {}, fWriteSem' = fWriteSem + 1,
             pc' = [pc EXCEPT ![t] = "out"]
      PROVE  IInv'
  <2>1. pc[t] = "wakeWriter" /\ pc' = [pc EXCEPT ![t] = "out"]
    BY <1>2
  <2>2. /\ pc'[t] = "out"
        /\ \A u \in Threads : u # t => pc'[u] = pc[u]
        /\ pc' \in [Threads -> Places]
        /\ N("readWait")' = N("readWait")
        /\ N("readBlocked")' = N("readBlocked")
        /\ N("reading")' = N("reading")
        /\ N("wakeWriter")' = N("wakeWriter") - 1
    BY <2>1, MoveN
  <2>3. WriteLockHeld' /\ (Announced' <=> Announced)
    BY <2>1, <2>2, ReaderMove DEF HolderPlaces
  <2>4. N("wakeWriter") # 0
    <3>1. t \in At("wakeWriter")
      BY <2>1 DEF At
    <3>2. IsFiniteSet(At("wakeWriter")) /\ At("wakeWriter") # {}
      BY <3>1, CntNat DEF At
    <3> QED
      BY <3>2, FS_EmptySet DEF N
  <2>5. Announced
    BY <2>4 DEF IInv, WriteTokens
  <2>6. TypeOK'
    BY <1>2, <2>2 DEF IInv, TypeOK
  <2>7. CountsReaders'
    BY <2>2, <2>3 DEF IInv, CountsReaders
  <2>8. ReadTokens'
    BY <2>1, <2>2, <2>3, <2>5, Sign DEF IInv, ReadTokens
  <2>9. Owed' = Owed
    BY SMTT(40), <1>2, <2>2, Sign DEF IInv, TypeOK, Owed
  <2>10. \A u \in Threads : pc[u] # "drainBlocked"
    BY <1>2 DEF At, IInv, WriteTokens
  <2>11. WriteTokens'
    BY <1>2, <2>1, <2>2, <2>3, <2>5, <2>9, <2>10 DEF IInv, WriteTokens
  <2> QED
    BY <2>3, <2>6, <2>7, <2>8, <2>11 DEF IInv
<1> QED
  BY <1>1, <1>2

-----------------------------------------------------------------------------
(* Steps of writers. *)

\* A step of the holder of fWriteLock that keeps it.
LEMMA HolderMove ==
  ASSUME IInv, NEW t \in Threads,
         pc[t] \in HolderPlaces, pc'[t] \in HolderPlaces,
         \A u \in Threads : u # t => pc'[u] = pc[u],
         UNCHANGED <<writeLock, lockQueue>>
  PROVE  /\ WriteLockHeld'
         /\ Announced <=> pc[t] \in AnnouncedPlaces
         /\ Announced' <=> pc'[t] \in AnnouncedPlaces
         /\ \A u \in Threads : u # t => pc[u] \notin HolderPlaces /\ pc'[u] \notin HolderPlaces
<1>1. \A u \in Threads : u # t => pc[u] \notin HolderPlaces /\ pc'[u] \notin HolderPlaces
  BY DEF IInv, WriteLockHeld
<1>2. /\ Announced <=> pc[t] \in AnnouncedPlaces
      /\ Announced' <=> pc'[t] \in AnnouncedPlaces
  BY <1>1 DEF Announced, AnnouncedPlaces, HolderPlaces
<1>3. \A i \in 1..Len(lockQueue) : lockQueue[i] \in Threads /\ pc[lockQueue[i]] = "lockBlocked"
  BY DEF IInv, TypeOK, WriteLockHeld
<1>4. "lockBlocked" \notin HolderPlaces
  BY DEF HolderPlaces
<1>5. \A i \in 1..Len(lockQueue) : pc'[lockQueue[i]] = "lockBlocked"
  BY <1>3, <1>4
<1>6. WriteLockHeld'
  BY <1>1, <1>5 DEF IInv, WriteLockHeld
<1> QED
  BY <1>1, <1>2, <1>6

LEMMA LockWriteStep ==
  ASSUME IInv, NEW t \in Threads, LockWrite(t)
  PROVE  IInv'
<1> USE DEF LockWrite, Places
<1>1. ASSUME NEW q \in {"announce", "lockBlocked"}, pc' = [pc EXCEPT ![t] = q]
      PROVE  TypeOK' /\ CountsReaders' /\ ReadTokens' /\ WriteTokens'
  <2>1. pc[t] = "out" /\ q \in Places /\ q # "out"
    BY <1>1
  <2>2. /\ pc'[t] = q
        /\ \A u \in Threads : u # t => pc'[u] = pc[u]
        /\ pc' \in [Threads -> Places]
        /\ N("readWait")' = N("readWait")
        /\ N("readBlocked")' = N("readBlocked")
        /\ N("reading")' = N("reading")
        /\ N("wakeWriter")' = N("wakeWriter")
    BY <1>1, <2>1, MoveN
  <2>3. Announced' <=> Announced
    BY <1>1, <2>1, <2>2 DEF Announced, AnnouncedPlaces
  <2>4. TypeOK'
    <3>1. lockQueue' \in Seq(Threads)
      <4>1. lockQueue \in Seq(Threads)
        BY DEF IInv, TypeOK
      <4>2. CASE writeLock
        BY <4>1, <4>2
      <4>3. CASE ~writeLock
        BY <4>1, <4>3
      <4> QED
        BY <4>2, <4>3
    <3>2. writeLock' \in BOOLEAN
      BY DEF IInv, TypeOK
    <3> QED
      BY <2>2, <3>1, <3>2 DEF IInv, TypeOK
  <2>5. CountsReaders'
    BY <2>2, <2>3 DEF IInv, CountsReaders
  <2>6. ReadTokens'
    BY <2>1, <2>2, <2>3 DEF IInv, ReadTokens
  <2>7. Owed' = Owed
    BY <2>2 DEF Owed
  <2>8. WriteTokens'
    BY <2>1, <2>2, <2>3, <2>7 DEF IInv, WriteTokens
  <2> QED
    BY <2>4, <2>5, <2>6, <2>8
<1>2. CASE writeLock
  <2>1. pc[t] = "out" /\ pc' = [pc EXCEPT ![t] = "announce"]
    BY <1>2
  <2>2. /\ pc'[t] = "announce"
        /\ \A u \in Threads : u # t => pc'[u] = pc[u]
    BY <2>1 DEF IInv, TypeOK
  <2>3. \A i \in 1..Len(lockQueue) : lockQueue[i] \in Threads /\ pc[lockQueue[i]] = "lockBlocked"
    BY DEF IInv, TypeOK, WriteLockHeld
  <2>4. \A i \in 1..Len(lockQueue) : pc'[lockQueue[i]] = "lockBlocked"
    BY <2>1, <2>2, <2>3
  <2>5. WriteLockHeld'
    BY <1>2, <2>2, <2>4 DEF IInv, WriteLockHeld
  <2> QED
    BY <1>1, <2>1, <2>5 DEF IInv
<1>3. CASE ~writeLock
  <2>1. /\ pc[t] = "out" /\ pc' = [pc EXCEPT ![t] = "lockBlocked"]
        /\ lockQueue' = Append(lockQueue, t) /\ writeLock' = writeLock
    BY <1>3
  <2>2. /\ pc'[t] = "lockBlocked"
        /\ \A u \in Threads : u # t => pc'[u] = pc[u]
    BY <2>1 DEF IInv, TypeOK
  <2>3. \A i \in 1..Len(lockQueue) : lockQueue[i] \in Threads /\ pc[lockQueue[i]] = "lockBlocked"
    BY DEF IInv, TypeOK, WriteLockHeld
  <2>4. /\ Len(lockQueue') = Len(lockQueue) + 1 /\ Len(lockQueue) \in Nat
        /\ lockQueue'[Len(lockQueue) + 1] = t
        /\ \A i \in 1..Len(lockQueue) : lockQueue'[i] = lockQueue[i]
    BY <2>1 DEF IInv, TypeOK
  <2>5. \A i \in 1..Len(lockQueue') : pc'[lockQueue'[i]] = "lockBlocked"
    BY <2>1, <2>2, <2>3, <2>4
  <2>6. \A i, j \in 1..Len(lockQueue') : lockQueue'[i] = lockQueue'[j] => i = j
    BY <2>1, <2>3, <2>4 DEF IInv, WriteLockHeld
  <2>7. \A u \in Threads : pc'[u] \in HolderPlaces => pc[u] \in HolderPlaces
    BY <2>1, <2>2 DEF HolderPlaces
  <2>8. WriteLockHeld'
    BY <2>1, <2>5, <2>6, <2>7 DEF IInv, WriteLockHeld
  <2> QED
    BY <1>1, <2>1, <2>8 DEF IInv
<1> QED
  BY <1>2, <1>3

LEMMA LockWriteAnnounceStep ==
  ASSUME IInv, NEW t \in Threads, LockWriteAnnounce(t)
  PROVE  IInv'
<1> USE DEF LockWriteAnnounce, Places
<1>1. pc[t] = "announce" /\ pc' = [pc EXCEPT ![t] = "drain"]
  OBVIOUS
<1>2. /\ pc'[t] = "drain"
      /\ \A u \in Threads : u # t => pc'[u] = pc[u]
      /\ pc' \in [Threads -> Places]
      /\ N("readWait")' = N("readWait")
      /\ N("readBlocked")' = N("readBlocked")
      /\ N("reading")' = N("reading")
      /\ N("wakeWriter")' = N("wakeWriter")
  BY <1>1, MoveN
<1>3. /\ WriteLockHeld' /\ ~Announced /\ Announced'
      /\ \A u \in Threads : u # t => pc'[u] \notin HolderPlaces /\ pc[u] \notin HolderPlaces
  BY <1>1, <1>2, HolderMove DEF HolderPlaces, AnnouncedPlaces
<1>4. \A u \in Threads : pc[u] # "releaseReaders"
  BY <1>1, <1>3 DEF HolderPlaces
<1>5. TypeOK'
  BY <1>2, Sign DEF IInv, TypeOK
<1>6. /\ fCount = N("readWait") + N("readBlocked") + N("reading")
      /\ fReadSem = N("readWait") + N("readBlocked")
      /\ fWriteSem = 0 /\ N("wakeWriter") = 0
  BY <1>3, <1>4, Sign DEF IInv, CountsReaders, ReadTokens, WriteTokens
<1>7. CountsReaders'
  BY <1>2, <1>3, <1>6, Sign DEF CountsReaders
<1>8. ReadTokens'
  <2>1. N("readWait")' + N("readBlocked")' = fReadSem /\ fReadSem \in Nat /\ N("readBlocked") \in Nat
    BY <1>2, <1>6, Sign DEF IInv, TypeOK
  <2>2. N("readBlocked")' > 0 => fReadSem = 0
    BY <1>2 DEF IInv, ReadTokens
  <2>3. \A u \in Threads : pc'[u] # "releaseReaders"
    BY <1>2, <1>4
  <2> QED
    BY <1>3, <2>1, <2>2, <2>3 DEF ReadTokens
<1>9. todo'[t] = Owed'
  <2>1. todo'[t] = fCount
    BY DEF IInv, TypeOK
  <2>2. Owed' = N("reading") + fReadSem + N("wakeWriter") + fWriteSem
    BY <1>2 DEF Owed
  <2> QED
    BY <1>6, <2>1, <2>2, Sign
<1>10. WriteTokens'
  BY <1>2, <1>3, <1>9 DEF WriteTokens, HolderPlaces
<1> QED
  BY <1>3, <1>5, <1>7, <1>8, <1>10 DEF IInv

LEMMA LockWriteDrainStep ==
  ASSUME IInv, NEW t \in Threads, LockWriteDrain(t)
  PROVE  IInv'
<1> USE DEF LockWriteDrain, Places
<1>1. CASE todo[t] > 0 /\ fWriteSem > 0
  <2>1. pc[t] = "drain" /\ pc' = pc
    BY <1>1
  <2>2. /\ pc'[t] = "drain"
        /\ \A u \in Threads : u # t => pc'[u] = pc[u]
        /\ pc' \in [Threads -> Places]
        /\ N("readWait")' = N("readWait")
        /\ N("readBlocked")' = N("readBlocked")
        /\ N("reading")' = N("reading")
        /\ N("wakeWriter")' = N("wakeWriter")
    BY <2>1 DEF IInv, TypeOK, N, At
  <2>3. /\ WriteLockHeld' /\ Announced /\ Announced'
        /\ \A u \in Threads : u # t => pc'[u] \notin HolderPlaces
    BY <2>1, <2>2, HolderMove DEF HolderPlaces, AnnouncedPlaces
  <2>4. TypeOK'
    BY <1>1, <2>2 DEF IInv, TypeOK
  <2>5. CountsReaders'
    BY <2>2, <2>3 DEF IInv, CountsReaders
  <2>6. ReadTokens'
    BY <2>2, <2>3 DEF IInv, ReadTokens, HolderPlaces
  <2>7. todo[t] = Owed /\ N("reading") \in Nat /\ N("wakeWriter") \in Nat
    BY <2>1, Sign DEF IInv, WriteTokens
  <2>8. WriteTokens'
    BY <1>1, <2>1, <2>2, <2>3, <2>7 DEF IInv, TypeOK, WriteTokens, HolderPlaces, Owed
  <2> QED
    BY <2>3, <2>4, <2>5, <2>6, <2>8 DEF IInv
<1>2. CASE todo[t] > 0 /\ ~(fWriteSem > 0)
  <2>1. pc[t] = "drain" /\ pc' = [pc EXCEPT ![t] = "drainBlocked"]
    BY <1>2
  <2>2. /\ pc'[t] = "drainBlocked"
        /\ \A u \in Threads : u # t => pc'[u] = pc[u]
        /\ pc' \in [Threads -> Places]
        /\ N("readWait")' = N("readWait")
        /\ N("readBlocked")' = N("readBlocked")
        /\ N("reading")' = N("reading")
        /\ N("wakeWriter")' = N("wakeWriter")
    BY <2>1, MoveN
  <2>3. /\ WriteLockHeld' /\ Announced /\ Announced'
        /\ \A u \in Threads : u # t => pc'[u] \notin HolderPlaces
    BY <2>1, <2>2, HolderMove DEF HolderPlaces, AnnouncedPlaces
  <2>4. TypeOK'
    BY <1>2, <2>2 DEF IInv, TypeOK
  <2>5. CountsReaders'
    BY <2>2, <2>3 DEF IInv, CountsReaders
  <2>6. ReadTokens'
    BY <2>2, <2>3 DEF IInv, ReadTokens, HolderPlaces
  <2>7. todo[t] = Owed /\ N("reading") \in Nat /\ N("wakeWriter") \in Nat
    BY <2>1, Sign DEF IInv, WriteTokens
  <2>8. WriteTokens'
    BY <1>2, <2>1, <2>2, <2>3, <2>7 DEF IInv, TypeOK, WriteTokens, HolderPlaces, Owed
  <2> QED
    BY <2>3, <2>4, <2>5, <2>6, <2>8 DEF IInv
<1>3. CASE ~(todo[t] > 0)
  <2>1. pc[t] = "drain" /\ pc' = [pc EXCEPT ![t] = "writing"]
    BY <1>3
  <2>2. /\ pc'[t] = "writing"
        /\ \A u \in Threads : u # t => pc'[u] = pc[u]
        /\ pc' \in [Threads -> Places]
        /\ N("readWait")' = N("readWait")
        /\ N("readBlocked")' = N("readBlocked")
        /\ N("reading")' = N("reading")
        /\ N("wakeWriter")' = N("wakeWriter")
    BY <2>1, MoveN
  <2>3. /\ WriteLockHeld' /\ Announced /\ Announced'
        /\ \A u \in Threads : u # t => pc'[u] \notin HolderPlaces
    BY <2>1, <2>2, HolderMove DEF HolderPlaces, AnnouncedPlaces
  <2>4. TypeOK'
    BY <1>3, <2>2 DEF IInv, TypeOK
  <2>5. CountsReaders'
    BY <2>2, <2>3 DEF IInv, CountsReaders
  <2>6. ReadTokens'
    BY <2>2, <2>3 DEF IInv, ReadTokens, HolderPlaces
  <2>7. todo[t] = Owed /\ N("reading") \in Nat /\ N("wakeWriter") \in Nat
    BY <2>1, Sign DEF IInv, WriteTokens
  <2>8. WriteTokens'
    BY <1>3, <2>1, <2>2, <2>3, <2>7 DEF IInv, TypeOK, WriteTokens, HolderPlaces, Owed
  <2> QED
    BY <2>3, <2>4, <2>5, <2>6, <2>8 DEF IInv
<1> QED
  BY <1>1, <1>2, <1>3

LEMMA UnlockWriteStep ==
  ASSUME IInv, NEW t \in Threads, UnlockWrite(t)
  PROVE  IInv'
<1> USE DEF UnlockWrite, Places
<1>1. CASE fCount + kMaxReaders > 0
  <2>1. pc[t] = "writing" /\ pc' = [pc EXCEPT ![t] = "releaseReaders"]
    BY <1>1
  <2>2. /\ pc'[t] = "releaseReaders"
        /\ \A u \in Threads : u # t => pc'[u] = pc[u]
        /\ pc' \in [Threads -> Places]
        /\ N("readWait")' = N("readWait")
        /\ N("readBlocked")' = N("readBlocked")
        /\ N("reading")' = N("reading")
        /\ N("wakeWriter")' = N("wakeWriter")
    BY <2>1, MoveN
  <2>3. /\ WriteLockHeld' /\ Announced /\ ~Announced'
        /\ \A u \in Threads : u # t => pc'[u] \notin HolderPlaces
    BY <2>1, <2>2, HolderMove DEF HolderPlaces, AnnouncedPlaces
  <2>4. /\ N("reading") = 0 /\ fReadSem = 0 /\ N("wakeWriter") = 0 /\ fWriteSem = 0
        /\ fCount + kMaxReaders = N("readWait") + N("readBlocked")
        /\ N("readWait") \in Nat /\ N("readBlocked") \in Nat
    <3>1. Owed = 0
      BY <2>1 DEF IInv, WriteTokens
    <3>2. N("reading") = 0 /\ fReadSem = 0 /\ N("wakeWriter") = 0 /\ fWriteSem = 0
      BY <3>1, Sign DEF Owed, IInv, TypeOK
    <3> QED
      BY <2>3, <3>2, Sign DEF IInv, TypeOK, CountsReaders
  <2>5. TypeOK'
    BY <2>2, Sign DEF IInv, TypeOK
  <2>6. CountsReaders'
    BY <2>2, <2>3, <2>4 DEF CountsReaders
  <2>7. todo'[t] = N("readWait") + N("readBlocked")
    BY <2>4 DEF IInv, TypeOK
  <2>8. ReadTokens'
    BY <1>1, <2>2, <2>3, <2>4, <2>7 DEF ReadTokens, HolderPlaces
  <2>9. WriteTokens'
    BY <2>2, <2>3, <2>4 DEF WriteTokens, HolderPlaces
  <2> QED
    BY <2>3, <2>5, <2>6, <2>8, <2>9 DEF IInv
<1>2. CASE ~(fCount + kMaxReaders > 0)
  <2>1. pc[t] = "writing" /\ pc' = [pc EXCEPT ![t] = "releaseLock"]
    BY <1>2
  <2>2. /\ pc'[t] = "releaseLock"
        /\ \A u \in Threads : u # t => pc'[u] = pc[u]
        /\ pc' \in [Threads -> Places]
        /\ N("readWait")' = N("readWait")
        /\ N("readBlocked")' = N("readBlocked")
        /\ N("reading")' = N("reading")
        /\ N("wakeWriter")' = N("wakeWriter")
    BY <2>1, MoveN
  <2>3. /\ WriteLockHeld' /\ Announced /\ ~Announced'
        /\ \A u \in Threads : u # t => pc'[u] \notin HolderPlaces
    BY <2>1, <2>2, HolderMove DEF HolderPlaces, AnnouncedPlaces
  <2>4. /\ N("reading") = 0 /\ fReadSem = 0 /\ N("wakeWriter") = 0 /\ fWriteSem = 0
        /\ fCount + kMaxReaders = N("readWait") + N("readBlocked")
        /\ N("readWait") \in Nat /\ N("readBlocked") \in Nat
    <3>1. Owed = 0
      BY <2>1 DEF IInv, WriteTokens
    <3>2. N("reading") = 0 /\ fReadSem = 0 /\ N("wakeWriter") = 0 /\ fWriteSem = 0
      BY <3>1, Sign DEF Owed, IInv, TypeOK
    <3> QED
      BY <2>3, <3>2, Sign DEF IInv, TypeOK, CountsReaders
  <2>5. TypeOK'
    BY <2>2, Sign DEF IInv, TypeOK
  <2>6. CountsReaders'
    BY <2>2, <2>3, <2>4 DEF CountsReaders
  <2>7. todo'[t] = N("readWait") + N("readBlocked")
    BY <2>4 DEF IInv, TypeOK
  <2>8. ReadTokens'
    BY <1>2, <2>2, <2>3, <2>4, <2>7 DEF ReadTokens, HolderPlaces
  <2>9. WriteTokens'
    BY <2>2, <2>3, <2>4 DEF WriteTokens, HolderPlaces
  <2> QED
    BY <2>3, <2>5, <2>6, <2>8, <2>9 DEF IInv
<1> QED
  BY <1>1, <1>2

LEMMA UnlockWriteLockStep ==
  ASSUME IInv, NEW t \in Threads, UnlockWriteLock(t)
  PROVE  IInv'
<1> USE DEF UnlockWriteLock, Places
<1>1. /\ pc[t] = "releaseLock"
      /\ \A u \in Threads : u # t => pc[u] \notin HolderPlaces
      /\ ~Announced
  BY DEF IInv, WriteLockHeld, HolderPlaces, Announced, AnnouncedPlaces
<1>2. \A i \in 1..Len(lockQueue) : lockQueue[i] \in Threads /\ pc[lockQueue[i]] = "lockBlocked"
  BY DEF IInv, TypeOK, WriteLockHeld
<1>3. ASSUME /\ pc' \in [Threads -> Places] /\ pc'[t] = "out"
             /\ \A u \in Threads : u # t =>
                  \/ pc'[u] = pc[u]
                  \/ pc[u] = "lockBlocked" /\ pc'[u] = "announce"
      PROVE  CountsReaders' /\ ReadTokens' /\ WriteTokens'
  <2>1. /\ At("readWait")' = At("readWait")
        /\ At("readBlocked")' = At("readBlocked")
        /\ At("reading")' = At("reading")
        /\ At("wakeWriter")' = At("wakeWriter")
    BY <1>1, <1>3 DEF At
  <2>2. /\ N("readWait")' = N("readWait")
        /\ N("readBlocked")' = N("readBlocked")
        /\ N("reading")' = N("reading")
        /\ N("wakeWriter")' = N("wakeWriter")
    BY <2>1 DEF N
  <2>3. \A u \in Threads : /\ pc'[u] \notin AnnouncedPlaces \cup {"releaseReaders"}
                           /\ pc[u] # "releaseReaders"
    BY <1>1, <1>3 DEF HolderPlaces, AnnouncedPlaces
  <2>4. ~Announced'
    BY <2>3 DEF Announced
  <2>5. CountsReaders'
    BY <1>1, <2>2, <2>4 DEF IInv, CountsReaders
  <2>6. ReadTokens'
    BY <1>1, <2>2, <2>3, <2>4 DEF IInv, ReadTokens
  <2>7. WriteTokens'
    BY <1>1, <2>2, <2>3, <2>4 DEF IInv, WriteTokens, AnnouncedPlaces
  <2> QED
    BY <2>5, <2>6, <2>7
<1>4. CASE lockQueue = << >>
  <2>1. /\ pc' = [pc EXCEPT ![t] = "out"] /\ writeLock' = TRUE /\ lockQueue' = lockQueue
    BY <1>4
  <2>2. /\ pc' \in [Threads -> Places] /\ pc'[t] = "out"
        /\ \A u \in Threads : u # t => pc'[u] = pc[u]
    BY <2>1 DEF IInv, TypeOK
  <2>3. TypeOK'
    BY <2>1, <2>2 DEF IInv, TypeOK
  <2>4. \A u \in Threads : pc'[u] \notin HolderPlaces
    BY <1>1, <2>2 DEF HolderPlaces
  <2>5. WriteLockHeld'
    BY <1>4, <2>1, <2>4 DEF WriteLockHeld
  <2> QED
    BY <1>3, <2>2, <2>3, <2>5 DEF IInv
<1>5. CASE lockQueue # << >>
  <2> DEFINE h == Head(lockQueue)
  <2>1. /\ pc' = [pc EXCEPT ![t] = "out", ![h] = "announce"]
        /\ lockQueue' = Tail(lockQueue) /\ writeLock' = writeLock
    BY <1>5
  <2>2. /\ Len(lockQueue) \in Nat /\ Len(lockQueue) > 0 /\ h = lockQueue[1]
        /\ Len(lockQueue') = Len(lockQueue) - 1
        /\ \A i \in 1..Len(lockQueue') : lockQueue'[i] = lockQueue[i + 1]
        /\ lockQueue' \in Seq(Threads)
    BY <1>5, <2>1 DEF IInv, TypeOK
  <2>3. h \in Threads /\ pc[h] = "lockBlocked" /\ h # t
    BY <1>1, <1>2, <2>2
  <2>4. /\ pc' \in [Threads -> Places] /\ pc'[t] = "out" /\ pc'[h] = "announce"
        /\ \A u \in Threads : u # t /\ u # h => pc'[u] = pc[u]
    BY <2>1, <2>3 DEF IInv, TypeOK
  <2>5. TypeOK'
    BY <2>1, <2>2, <2>4 DEF IInv, TypeOK
  <2>6. \A u \in Threads : u # h => pc'[u] \notin HolderPlaces
    BY <1>1, <2>4 DEF HolderPlaces
  <2>7. ~writeLock
    BY <1>1 DEF IInv, WriteLockHeld, HolderPlaces
  <2>8. ASSUME NEW i \in 1..Len(lockQueue')
        PROVE  lockQueue'[i] = lockQueue[i + 1] /\ i + 1 \in 1..Len(lockQueue) /\ i + 1 # 1
    BY <2>2
  <2>9. \A i \in 1..Len(lockQueue') : lockQueue'[i] # h /\ pc'[lockQueue'[i]] = "lockBlocked"
    <3> SUFFICES ASSUME NEW i \in 1..Len(lockQueue')
                 PROVE  lockQueue'[i] # h /\ pc'[lockQueue'[i]] = "lockBlocked"
      OBVIOUS
    <3>1. lockQueue[i + 1] # lockQueue[1]
      BY <2>2, <2>8 DEF IInv, WriteLockHeld
    <3>2. lockQueue[i + 1] \in Threads /\ pc[lockQueue[i + 1]] = "lockBlocked"
      BY <1>2, <2>8
    <3> QED
      BY <1>1, <2>2, <2>4, <2>8, <3>1, <3>2
  <2>10. \A i, j \in 1..Len(lockQueue') : lockQueue'[i] = lockQueue'[j] => i = j
    <3> SUFFICES ASSUME NEW i \in 1..Len(lockQueue'), NEW j \in 1..Len(lockQueue'),
                        lockQueue'[i] = lockQueue'[j]
                 PROVE  i = j
      OBVIOUS
    <3>1. i + 1 = j + 1
      BY <2>8 DEF IInv, WriteLockHeld
    <3> QED
      BY <3>1, <2>2
  <2>11. WriteLockHeld'
    BY <2>1, <2>6, <2>7, <2>9, <2>10 DEF WriteLockHeld
  <2> QED
    BY <1>3, <2>3, <2>4, <2>5, <2>11 DEF IInv
<1> QED
  BY <1>4, <1>5

LEMMA UnlockWriteReleaseStep ==
  ASSUME IInv, NEW t \in Threads, UnlockWriteRelease(t)
  PROVE  IInv'
<1> USE DEF UnlockWriteRelease, Places
<1>1. /\ pc[t] = "releaseReaders" /\ todo' = [todo EXCEPT ![t] = 0]
      /\ N("readWait") + N("readBlocked") = fReadSem + todo[t]
      /\ \A u \in Threads : u # t => pc[u] \notin HolderPlaces
      /\ ~Announced
      /\ N("wakeWriter") = 0 /\ fWriteSem = 0
      /\ todo[t] \in Int /\ fReadSem \in Nat
      /\ fCount = N("readWait") + N("readBlocked") + N("reading")
  <2>1. /\ pc[t] = "releaseReaders"
        /\ \A u \in Threads : u # t => pc[u] \notin HolderPlaces
    BY DEF IInv, WriteLockHeld, HolderPlaces
  <2>2. ~Announced
    BY <2>1 DEF HolderPlaces, Announced, AnnouncedPlaces
  <2> QED
    BY <2>1, <2>2, Sign DEF IInv, TypeOK, ReadTokens, WriteTokens, CountsReaders
\* All that is left to show is how the released tokens are accounted for.
<1>2. ASSUME NEW k \in Nat,
             /\ pc' \in [Threads -> Places] /\ pc'[t] = "releaseLock"
             /\ \A u \in Threads : u # t =>
                  \/ pc'[u] = pc[u]
                  \/ pc[u] = "readBlocked" /\ pc'[u] = "reading"
             /\ N("readBlocked")' = N("readBlocked") - k
             /\ N("reading")' = N("reading") + k
             /\ fReadSem' = fReadSem + todo[t] - k /\ fReadSem' \in Nat
             /\ N("readBlocked")' > 0 => fReadSem' = 0
      PROVE  IInv'
  <2>1. /\ At("readWait")' = At("readWait")
        /\ At("wakeWriter")' = At("wakeWriter")
    BY <1>1, <1>2 DEF At
  <2>2. N("readWait")' = N("readWait") /\ N("wakeWriter")' = N("wakeWriter")
    BY <2>1 DEF N
  <2>3. WriteLockHeld'
    <3>1. \A i \in 1..Len(lockQueue) : lockQueue[i] \in Threads /\ pc[lockQueue[i]] = "lockBlocked"
      BY DEF IInv, TypeOK, WriteLockHeld
    <3>2. \A i \in 1..Len(lockQueue) : pc'[lockQueue[i]] = "lockBlocked"
      BY <1>1, <1>2, <3>1
    <3>3. \A u \in Threads : u # t => pc'[u] \notin HolderPlaces
      BY <1>1, <1>2 DEF HolderPlaces
    <3>4. ~writeLock
      BY <1>1 DEF IInv, WriteLockHeld, HolderPlaces
    <3> QED
      BY <3>2, <3>3, <3>4 DEF IInv, WriteLockHeld
  <2>4. \A u \in Threads : pc'[u] \notin AnnouncedPlaces \cup {"releaseReaders"}
    BY <1>1, <1>2 DEF HolderPlaces, AnnouncedPlaces
  <2>5. ~Announced'
    BY <2>4 DEF Announced
  <2>6. TypeOK'
    BY <1>1, <1>2 DEF IInv, TypeOK
  <2>7. CountsReaders'
    BY <1>1, <1>2, <2>2, <2>5, Sign DEF CountsReaders
  <2>8. ReadTokens'
    BY <1>1, <1>2, <2>2, <2>4, <2>5, Sign DEF ReadTokens
  <2>9. WriteTokens'
    BY <1>1, <2>2, <2>4, <2>5 DEF WriteTokens, AnnouncedPlaces
  <2> QED
    BY <2>3, <2>6, <2>7, <2>8, <2>9 DEF IInv
<1>3. ASSUME fReadSem = 0, NEW W \in SUBSET At("readBlocked"),
             \/ W = At("readBlocked") /\ Cardinality(W) <= todo[t]
             \/ Cardinality(W) = todo[t],
             fReadSem' = todo[t] - Cardinality(W),
             pc' = [u \in Threads |-> IF u = t THEN "releaseLock"
                                      ELSE IF u \in W THEN "reading" ELSE pc[u]]
      PROVE  IInv'
  <2>1. IsFiniteSet(At("readBlocked")) /\ IsFiniteSet(At("reading"))
    BY AtFinite
  <2>2. IsFiniteSet(W) /\ Cardinality(W) \in Nat
    BY <2>1, FS_Subset, FS_CardinalityType
  <2>3. /\ At("readBlocked")' = At("readBlocked") \ W
        /\ At("readBlocked") \cap W = W
        /\ At("reading")' = At("reading") \cup W
        /\ At("reading") \cap W = {}
        /\ \A u \in W : u \in Threads /\ u # t /\ pc[u] = "readBlocked"
    BY <1>1, <1>3 DEF At, IInv, TypeOK
  <2>4. N("readBlocked")' = N("readBlocked") - Cardinality(W)
    <3>1. Cardinality(At("readBlocked") \ W)
            = Cardinality(At("readBlocked")) - Cardinality(At("readBlocked") \cap W)
      BY <2>1, FS_Difference
    <3> QED
      BY <2>3, <3>1, Zenon DEF N
  <2>5. N("reading")' = N("reading") + Cardinality(W)
    <3>1. Cardinality(At("reading") \cup W) = Cardinality(At("reading")) + Cardinality(W)
      BY <2>1, <2>2, <2>3, DisjointUnion
    <3> QED
      BY <2>3, <3>1, Zenon DEF N
  <2>6. fReadSem' = fReadSem + todo[t] - Cardinality(W) /\ fReadSem' \in Nat
    BY <1>1, <1>3, <2>2
  <2>7. N("readBlocked")' > 0 => fReadSem' = 0
    <3>1. CASE W = At("readBlocked")
      BY <2>2, <2>4, <3>1 DEF N
    <3>2. CASE Cardinality(W) = todo[t]
      BY <1>1, <1>3, <3>2
    <3> QED
      BY <1>3, <3>1, <3>2
  <2>8. /\ pc' \in [Threads -> Places] /\ pc'[t] = "releaseLock"
        /\ \A u \in Threads : u # t =>
             \/ pc'[u] = pc[u]
             \/ pc[u] = "readBlocked" /\ pc'[u] = "reading"
    BY <1>3, <2>3 DEF IInv, TypeOK
  <2> QED
    BY <1>2, <2>2, <2>4, <2>5, <2>6, <2>7, <2>8
<1>4. ASSUME fReadSem # 0, fReadSem' = fReadSem + todo[t],
             pc' = [pc EXCEPT ![t] = "releaseLock"]
      PROVE  IInv'
  <2>1. /\ pc'[t] = "releaseLock"
        /\ \A u \in Threads : u # t => pc'[u] = pc[u]
        /\ pc' \in [Threads -> Places]
        /\ N("readBlocked")' = N("readBlocked")
        /\ N("reading")' = N("reading")
        /\ N("readBlocked") \in Nat /\ N("reading") \in Nat /\ N("readWait") \in Nat
    BY <1>1, <1>4, MoveN, ZenonT(60)
  <2>2. N("readBlocked") = 0
    BY <1>4, <2>1 DEF IInv, ReadTokens
  <2>3. fReadSem' \in Nat
    BY <1>1, <1>4, <2>1, <2>2
  <2>4. /\ N("readBlocked")' = N("readBlocked") - 0
        /\ N("reading")' = N("reading") + 0
        /\ fReadSem' = fReadSem + todo[t] - 0
        /\ ~(N("readBlocked")' > 0)
    BY <1>1, <1>4, <2>1, <2>2
  <2> QED
    BY <1>2, 0 \in Nat, <2>1, <2>3, <2>4
<1> QED
  BY <1>3, <1>4

-----------------------------------------------------------------------------
(* The theorems. *)

\* The account of IInv holds when the lock is constructed.
LEMMA InitIInv == Init => IInv
<1> SUFFICES ASSUME Init PROVE IInv
  OBVIOUS
<1>1. \A p : p # "out" => At(p) = {}
  BY DEF Init, At
<1>2. \A p : p # "out" => N(p) = 0
  BY <1>1, FS_EmptySet DEF N
<1>3. \A u \in Threads : pc[u] = "out"
  BY DEF Init
<1>4. TypeOK
  BY DEF Init, TypeOK, Places
<1>5. ~Announced
  BY <1>3 DEF Announced, AnnouncedPlaces
<1>6. WriteLockHeld
  BY <1>3 DEF Init, WriteLockHeld, HolderPlaces
<1>7. CountsReaders
  BY <1>2, <1>5 DEF Init, CountsReaders
<1>8. ReadTokens
  BY <1>2, <1>3, <1>5 DEF Init, ReadTokens
<1>9. WriteTokens
  BY <1>2, <1>3, <1>5 DEF Init, WriteTokens
<1> QED
  BY <1>4, <1>6, <1>7, <1>8, <1>9 DEF IInv

\* Every step keeps it.
LEMMA NextIInv == IInv /\ [Next]_vars => IInv'
<1> SUFFICES ASSUME IInv, [Next]_vars PROVE IInv'
  OBVIOUS
<1>1. CASE UNCHANGED vars
  BY <1>1 DEF vars, IInv, TypeOK, WriteLockHeld, CountsReaders, ReadTokens, WriteTokens,
              Owed, Announced, N, At
<1>2. ASSUME NEW t \in Threads, LockRead(t) \/ LockWrite(t) \/ Continue(t)
      PROVE  IInv'
  BY <1>2, LockReadStep, LockReadWaitStep, UnlockReadStep, UnlockReadReleaseStep,
     LockWriteStep, LockWriteAnnounceStep, LockWriteDrainStep, UnlockWriteStep,
     UnlockWriteReleaseStep, UnlockWriteLockStep DEF Continue
<1> QED
  BY <1>1, <1>2 DEF Next

\* The type invariant and the token account hold in every reachable state.
THEOREM RWLockInvariant == Spec => []IInv
  BY InitIInv, NextIInv, PTL DEF Spec

\* In IInv, no reader is owed a token while a writer writes.
LEMMA IInvExcludes == IInv => Exclusion
<1> SUFFICES ASSUME IInv, NEW t \in Threads, pc[t] = "writing",
                    NEW u \in Threads \ {t}
             PROVE  pc[u] \notin {"reading", "writing"}
  BY DEF Exclusion
<1>1. pc[u] # "writing"
  BY DEF IInv, WriteLockHeld, HolderPlaces
<1>2. N("reading") = 0
  BY Sign DEF IInv, TypeOK, WriteTokens, Owed
<1>3. IsFiniteSet(At("reading"))
  BY AtFinite
<1>4. At("reading") = {}
  BY <1>2, <1>3, FS_EmptySet DEF N
<1> QED
  BY <1>1, <1>4 DEF At

\* A writer excludes readers and other writers: LockWrite returns only when
\* every reader let in before it has called UnlockRead.
THEOREM RWLockExclusion == Spec => []Exclusion
  BY RWLockInvariant, IInvExcludes, PTL

-----------------------------------------------------------------------------
(* The lock implements ReadersWriters.                                      *)

Held(p) == IF p = "reading" THEN "read" ELSE IF p = "writing" THEN "write" ELSE "none"

\* A step at which only t moves, between places that are the same to callers.
LEMMA QuietStep ==
  ASSUME pc \in [Threads -> Places], NEW t \in Threads, NEW p, pc' = [pc EXCEPT ![t] = p],
         Held(p) = Held(pc[t])
  PROVE  holds' = holds
  BY DEF holds, Held

\* Readers that come in, while nobody writes before and after.
LEMMA ReadersStep ==
  ASSUME NEW R \in SUBSET Threads, pc \in [Threads -> Places], pc' \in [Threads -> Places],
         \A u \in R : Held(pc[u]) = "none" /\ Held(pc'[u]) = "read",
         \A u \in Threads \ R : Held(pc'[u]) = Held(pc[u]),
         Exclusion', R # {}
  PROVE  Abstract!AdmitReaders(R)
<1>1. \A u \in Threads : Held(pc[u]) # "write"
  <2> SUFFICES ASSUME NEW u \in Threads, Held(pc[u]) = "write" PROVE FALSE
    OBVIOUS
  <2>1. u \notin R /\ pc'[u] = "writing"
    BY DEF Held
  <2>2. PICK r \in R : pc'[r] = "reading"
    BY DEF Held
  <2> QED
    BY <2>1, <2>2 DEF Exclusion
<1>2. R \subseteq Abstract!Holding("none") /\ Abstract!Holding("write") = {}
  BY <1>1 DEF Abstract!Holding, holds, Held
<1>3. holds' = [u \in Threads |-> IF u \in R THEN "read" ELSE holds[u]]
  BY DEF holds, Held
<1> QED
  BY <1>2, <1>3 DEF Abstract!AdmitReaders

\* A reader that comes in alone.
LEMMA ReaderStep ==
  ASSUME pc \in [Threads -> Places], pc' \in [Threads -> Places], NEW t \in Threads,
         pc' = [pc EXCEPT ![t] = "reading"], Held(pc[t]) = "none", Exclusion'
  PROVE  Abstract!Next
<1>1. Abstract!AdmitReaders({t})
  BY ReadersStep DEF Held
<1> QED
  BY <1>1 DEF Abstract!Next

\* Whoever holds the lock and goes on holds it no longer.
LEMMA LeaveStep ==
  ASSUME pc \in [Threads -> Places], NEW t \in Threads, NEW p, pc' = [pc EXCEPT ![t] = p],
         Held(pc[t]) # "none", Held(p) = "none"
  PROVE  Abstract!Next
<1>1. holds' = [holds EXCEPT ![t] = "none"] /\ holds[t] # "none"
  BY DEF holds, Held
<1> QED
  BY <1>1 DEF Abstract!Next, Abstract!Leave

\* A writer comes in when it is the only one inside afterwards.
LEMMA WriterStep ==
  ASSUME pc \in [Threads -> Places], NEW t \in Threads, pc' = [pc EXCEPT ![t] = "writing"],
         Held(pc[t]) = "none", Exclusion'
  PROVE  Abstract!Next
<1>1. \A u \in Threads : holds[u] = "none"
  BY DEF holds, Held, Exclusion
<1>2. holds' = [holds EXCEPT ![t] = "write"]
  BY DEF holds, Held
<1> QED
  BY <1>1, <1>2 DEF Abstract!Next, Abstract!AdmitWriter

\* Two threads move, and neither comes in.
LEMMA QuietPair ==
  ASSUME pc \in [Threads -> Places], NEW t \in Threads, NEW u \in Threads, NEW p, NEW q,
         pc' = [pc EXCEPT ![t] = p, ![u] = q],
         Held(p) = "none", Held(q) = "none", Held(pc[t]) = "none", Held(pc[u]) = "none"
  PROVE  holds' = holds
  BY DEF holds, Held

\* Every step of the lock is a step of ReadersWriters, or none.
LEMMA NextImplements ==
  IInv /\ IInv' /\ [Next]_vars => [Abstract!Next]_holds
<1> SUFFICES ASSUME IInv, IInv', [Next]_vars PROVE [Abstract!Next]_holds
  OBVIOUS
<1>1. pc \in [Threads -> Places] /\ pc' \in [Threads -> Places] /\ Exclusion'
  <2>1. Exclusion'
    BY IInvExcludes, PTL
  <2> QED
    BY <2>1 DEF IInv, TypeOK
<1> USE <1>1
<1>2. ASSUME NEW t \in Threads, LockRead(t) PROVE Abstract!Next \/ holds' = holds
  BY <1>2, ReaderStep, QuietStep DEF LockRead, Held
<1>3. ASSUME NEW t \in Threads, LockReadWait(t) PROVE Abstract!Next \/ holds' = holds
  BY <1>3, ReaderStep, QuietStep DEF LockReadWait, Held
<1>4. ASSUME NEW t \in Threads, UnlockRead(t) PROVE Abstract!Next \/ holds' = holds
  BY <1>4, LeaveStep DEF UnlockRead, Held
<1>5. ASSUME NEW t \in Threads, UnlockReadRelease(t) PROVE Abstract!Next \/ holds' = holds
  <2>1. CASE pc' = [pc EXCEPT ![t] = "out"]
    BY <1>5, <2>1, QuietStep DEF UnlockReadRelease, Held
  <2>2. ASSUME NEW w \in At("drainBlocked"), pc' = [pc EXCEPT ![t] = "out", ![w] = "drain"]
        PROVE  holds' = holds
    BY <1>5, <2>2, QuietPair DEF UnlockReadRelease, Held, At
  <2> QED
    BY <1>5, <2>1, <2>2 DEF UnlockReadRelease
<1>6. ASSUME NEW t \in Threads, LockWrite(t) PROVE Abstract!Next \/ holds' = holds
  BY <1>6, QuietStep DEF LockWrite, Held
<1>7. ASSUME NEW t \in Threads, LockWriteAnnounce(t) PROVE Abstract!Next \/ holds' = holds
  BY <1>7, QuietStep DEF LockWriteAnnounce, Held
<1>8. ASSUME NEW t \in Threads, LockWriteDrain(t) PROVE Abstract!Next \/ holds' = holds
  <2>1. CASE UNCHANGED pc
    BY <2>1 DEF holds
  <2>2. CASE pc' = [pc EXCEPT ![t] = "drainBlocked"]
    BY <1>8, <2>2, QuietStep DEF LockWriteDrain, Held
  <2>3. CASE pc' = [pc EXCEPT ![t] = "writing"]
    BY <1>8, <2>3, WriterStep DEF LockWriteDrain, Held
  <2> QED
    BY <1>8, <2>1, <2>2, <2>3 DEF LockWriteDrain
<1>9. ASSUME NEW t \in Threads, UnlockWrite(t) PROVE Abstract!Next \/ holds' = holds
  BY <1>9, LeaveStep DEF UnlockWrite, Held
<1>10. ASSUME NEW t \in Threads, UnlockWriteRelease(t) PROVE Abstract!Next \/ holds' = holds
  <2>1. CASE pc' = [pc EXCEPT ![t] = "releaseLock"]
    BY <1>10, <2>1, QuietStep DEF UnlockWriteRelease, Held
  <2>2. ASSUME NEW W \in SUBSET At("readBlocked"),
               pc' = [u \in Threads |-> IF u = t THEN "releaseLock"
                                        ELSE IF u \in W THEN "reading" ELSE pc[u]]
        PROVE  Abstract!Next \/ holds' = holds
    <3>1. W \subseteq Threads /\ t \notin W /\ pc[t] = "releaseReaders"
      BY <1>10 DEF UnlockWriteRelease, At
    <3>2. \A u \in W : Held(pc[u]) = "none" /\ Held(pc'[u]) = "read"
      BY <2>2, <3>1 DEF Held, At
    <3>3. \A u \in Threads \ W : Held(pc'[u]) = Held(pc[u])
      BY <2>2, <3>1 DEF Held
    <3>4. CASE W = {}
      BY <3>3, <3>4 DEF holds, Held
    <3>5. CASE W # {}
      BY <3>1, <3>2, <3>3, <3>5, ReadersStep DEF Abstract!Next
    <3> QED
      BY <3>4, <3>5
  <2> QED
    BY <1>10, <2>1, <2>2 DEF UnlockWriteRelease
<1>11. ASSUME NEW t \in Threads, UnlockWriteLock(t) PROVE Abstract!Next \/ holds' = holds
  <2>1. CASE pc' = [pc EXCEPT ![t] = "out"]
    BY <1>11, <2>1, QuietStep DEF UnlockWriteLock, Held
  <2>2. CASE lockQueue # << >>
    <3>1. Head(lockQueue) \in Threads /\ pc[Head(lockQueue)] = "lockBlocked"
      BY <2>2 DEF IInv, TypeOK, WriteLockHeld
    <3> QED
      BY <1>11, <2>2, <3>1, QuietPair DEF UnlockWriteLock, Held
  <2> QED
    BY <1>11, <2>1, <2>2 DEF UnlockWriteLock
<1>12. CASE UNCHANGED vars
  BY <1>12 DEF vars, holds
<1> QED
  BY <1>2, <1>3, <1>4, <1>5, <1>6, <1>7, <1>8, <1>9, <1>10, <1>11, <1>12 DEF Next, Continue

\* LockRead and LockWrite give the lock to callers only as ReadersWriters does,
\* however the steps of the two semaphores and the mutex interleave.
THEOREM RWLockImplements == Spec => Implements
<1>1. Init => Abstract!Init
  BY DEF Init, Abstract!Init, holds
<1> QED
  BY <1>1, RWLockInvariant, NextImplements, PTL DEF Spec, Implements, Abstract!Spec

=============================================================================
