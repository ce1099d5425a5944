------------------------- MODULE HandleTableProofs --------------------------
(***************************************************************************)
(* RefCounts, FreeHandlesFound and Implements of HandleTable, for tables   *)
(* of any size and any number of threads and resources, when threads close *)
(* only their own handles (handles_shared shows what happens otherwise).   *)
(*                                                                         *)
(* The argument is one of ownership: an open handle belongs to the thread  *)
(* that opened it, from Open until its Close, so that Close never meets a  *)
(* handle that is free, and the list of the free handles stays a list.     *)
(***************************************************************************)
EXTENDS HandleTable, Counting, TLAPS

\* A sub table: its list has every free handle once.
SubOK(sub) ==
  /\ Cardinality(Free(sub)) = sub.fFreeHandles
  /\ \E list \in [1..sub.fFreeHandles -> Level2] :
       /\ IsFreeList(sub, list) /\ Free(sub) = {list[n] : n \in 1..sub.fFreeHandles}
       /\ \A n, m \in 1..sub.fFreeHandles : list[n] = list[m] => n = m

SubsOK == \A l1 \in Level1 : fMainTable[l1] # Absent => SubOK(fMainTable[l1])

\* Sub tables are made in order, and what is below the hint is full.
HintOK ==
  /\ \A l1, l0 \in Level1 : l0 < l1 /\ fMainTable[l1] # Absent => fMainTable[l0] # Absent
  /\ \A l1 \in Level1 : l1 < fFreeHint => fMainTable[l1] # Absent /\ ~HasFree(l1)
  /\ crash = "table is full" => \A l1 \in Level1 : fMainTable[l1] # Absent /\ ~HasFree(l1)

\* The handle that an identifier names.
Slot(id) == <<Level1Index(id), Level2Index(id)>>

IsOpen(h) == fMainTable[h[1]] # Absent /\ fMainTable[h[1]].fDatum[h[2]] \in Resources

\* The handles that belong to a thread.
Opening(t) == IF th[t].pc = "opened" THEN {Slot(th[t].id)} ELSE {}
Owned(t) == {Slot(id) : id \in mine[t]} \cup Opening(t)

OwnersOK ==
  /\ \A t \in Threads : \A h \in Owned(t) : IsOpen(h)
  /\ \A t, u \in Threads : t # u => Owned(t) \cap Owned(u) = {}
  /\ \A t \in Threads : th[t].pc = "opened" => \A id \in mine[t] : Slot(id) # Slot(th[t].id)
  /\ \A t \in Threads : \A id \in mine[t] :
       fMainTable[Level1Index(id)].fSerialNumber[Level2Index(id)] = Serial(id)

\* What a thread holds between the steps of a system call.
ThreadOK(t) ==
  /\ th[t].pc = "idle" => th[t] = Idle
  /\ th[t].pc \in {"using", "closing", "closed"} <=> th[t].resource \in Resources
  /\ th[t].pc = "closed" <=> th[t].taken \in Resources
  /\ th[t].pc # "closed" => th[t].taken = Nothing
  /\ th[t].pc = "closed" => th[t].taken = th[t].resource
  /\ th[t].pc = "closing" =>
       /\ th[t].id \in mine[t]
       /\ fMainTable[Level1Index(th[t].id)].fDatum[Level2Index(th[t].id)] = th[t].resource

Users(r) == {t \in Threads : th[t].resource = r}
Takers(r) == {t \in Threads : th[t].taken = r}

RefsOK ==
  crash = "no" => \A r \in Resources :
    fRefCount[r] = Cardinality(Held(r)) + Cardinality(Users(r)) + Cardinality(Takers(r))

IInv ==
  /\ TypeOK
  /\ crash # "released what is no resource"
  /\ SubsOK
  /\ HintOK
  /\ OwnersOK
  /\ \A t \in Threads : ThreadOK(t)
  /\ RefsOK

-----------------------------------------------------------------------------
(* Identifiers. *)

LEMMA Sizes ==
  /\ kLevel1Size \in Nat \ {0} /\ kLevel2Size = kLevel1Size /\ kSerialNumberCount \in Nat \ {0}
  /\ Level1 = 0..(kLevel1Size - 1) /\ Level2 = 0..(kLevel1Size - 1)
  BY HandleTableAssumption DEF Level1, Level2

\* A number in base k.
LEMMA Digits ==
  ASSUME NEW k \in Nat \ {0}, NEW serial \in Nat, NEW l1 \in 0..(k - 1), NEW l2 \in 0..(k - 1),
         NEW id \in Int, id = (serial * k + l1) * k + l2
  PROVE  /\ (id \div k) \div k = serial /\ (id \div k) % k = l1 /\ id % k = l2
         /\ id \div (k * k) = serial
<1>4. l1 \in 0..(k - 1) /\ l2 \in 0..(k - 1) /\ serial \in Nat
  OBVIOUS
<1>q. PICK q \in Int : q = serial * k + l1
  <2>1. serial * k + l1 \in Int
    BY <1>4
  <2> QED
    BY <2>1
<1>5. id \div k = q /\ id % k = l2
  <2>1. id = q * k + l2
    BY <1>q
  <2> QED
    BY <1>4, <2>1, DivMod
<1>6. q \div k = serial /\ q % k = l1
  <2>1. serial \in Int /\ l1 \in 0..(k - 1) /\ q = serial * k + l1
    BY <1>4, <1>q
  <2> QED
    BY ONLY k \in Nat \ {0}, q \in Int, <2>1, DivMod
<1>7. id \div (k * k) = serial
  <2>1. PICK m \in Nat \ {0} : m = k * k
    BY <1>4
  <2>2. l1 * k <= (k - 1) * k
    BY <1>4
  <2>3. (k - 1) * k = m - k
    BY <2>1
  <2>4. l1 * k \in Nat
    BY <1>4
  <2>5. PICK rest \in 0..(m - 1) : rest = l1 * k + l2
    <3>1. l1 * k + l2 \in 0..(m - 1)
      BY <1>4, <2>1, <2>2, <2>3, <2>4
    <3> QED
      BY <3>1
  <2>6. id = serial * m + rest
    <3>1. (serial * k + l1) * k = serial * (k * k) + l1 * k
      BY <1>4
    <3> QED
      BY <1>4, <2>1, <2>4, <2>5, <3>1
  <2>7. id \div m = serial
    <3>1. serial \in Int
      BY <1>4
    <3> QED
      BY ONLY m \in Nat \ {0}, id \in Int, rest \in 0..(m - 1), <2>6, <3>1, DivMod
  <2> QED
    BY <2>1, <2>7
<1> QED
  BY <1>5, <1>6, <1>7

\* An identifier is below the number of identifiers, and has its parts.
LEMMA IdParts ==
  ASSUME NEW serial \in 0..(kSerialNumberCount - 1), NEW l1 \in Level1, NEW l2 \in Level2
  PROVE  /\ IdOf(serial, l1, l2) \in Ids
         /\ Level1Index(IdOf(serial, l1, l2)) = l1
         /\ Level2Index(IdOf(serial, l1, l2)) = l2
         /\ Serial(IdOf(serial, l1, l2)) = serial
<1>1. PICK k \in Nat \ {0} : k = kLevel1Size /\ k = kLevel2Size
  BY Sizes
<1>2. PICK id \in Int : id = (serial * k + l1) * k + l2
  BY <1>1, Sizes
<1>3. IdOf(serial, l1, l2) = id
  BY <1>1, <1>2 DEF IdOf
<1>4. l1 \in 0..(k - 1) /\ l2 \in 0..(k - 1) /\ serial \in Nat
  BY <1>1, Sizes
<1>5. /\ (id \div k) \div k = serial /\ (id \div k) % k = l1 /\ id % k = l2
      /\ id \div (k * k) = serial
  <2>1. PICK s \in Nat, m1 \in 0..(k - 1), m2 \in 0..(k - 1) : s = serial /\ m1 = l1 /\ m2 = l2
    BY <1>4
  <2>2. id = (s * k + m1) * k + m2
    BY <1>2, <2>1
  <2>3. /\ (id \div k) \div k = s /\ (id \div k) % k = m1 /\ id % k = m2
        /\ id \div (k * k) = s
    BY ONLY k \in Nat \ {0}, id \in Int, s \in Nat, m1 \in 0..(k - 1), m2 \in 0..(k - 1), <2>2, Digits
  <2> QED
    BY <2>1, <2>3
<1>8. id \in Ids
  <2>1. 0 <= id
    <3>1. serial * k \in Nat
      BY <1>1, <1>4
    <3>2. (serial * k + l1) * k \in Nat
      BY <1>1, <1>4, <3>1
    <3> QED
      BY <1>2, <1>4, <3>2
  <2>2. id < kSerialNumberCount * k * k
    <3>1. PICK n \in Nat : n = kSerialNumberCount /\ serial + 1 <= n
      BY <1>4, Sizes
    <3>2. serial * k + l1 < serial * k + k
      BY <1>1, <1>4
    <3>3. serial * k + k = (serial + 1) * k
      BY <1>1, <1>4
    <3>4. (serial + 1) * k <= n * k
      BY <1>1, <1>4, <3>1
    <3>5. serial * k + l1 + 1 <= n * k
      <4>1. serial * k \in Nat /\ n * k \in Nat
        BY <1>1, <1>4, <3>1
      <4> QED
        BY <1>1, <1>4, <3>2, <3>3, <3>4, <4>1
    <3>6. (serial * k + l1 + 1) * k <= n * k * k
      <4>1. PICK x \in Nat, y \in Nat : x = serial * k + l1 + 1 /\ y = n * k
        <5>1. serial * k + l1 + 1 \in Nat /\ n * k \in Nat
          BY <1>1, <1>4, <3>1
        <5> QED
          BY <5>1
      <4>2. x * k <= y * k
        BY <1>1, <3>5, <4>1
      <4> QED
        BY <4>1, <4>2
    <3>7. (serial * k + l1 + 1) * k = (serial * k + l1) * k + k
      BY <1>1, <1>4
    <3>8. (serial * k + l1) * k \in Int /\ n * k * k \in Int
      BY <1>1, <1>4, <3>1
    <3> QED
      BY <1>1, <1>2, <1>4, <3>1, <3>6, <3>7, <3>8
  <2>3. kSerialNumberCount * k * k \in Int
    BY <1>1, Sizes
  <2>4. Ids = 0..(kSerialNumberCount * k * k - 1)
    BY <1>1 DEF Ids
  <2> QED
    BY <2>1, <2>2, <2>3, <2>4
<1>9. Level1Index(id) = l1 /\ Level2Index(id) = l2
  BY <1>1, <1>5 DEF Level1Index, Level2Index
<1>10. Serial(id) = serial
  BY <1>1, <1>5 DEF Serial
<1> QED
  BY <1>3, <1>8, <1>9, <1>10

\* An identifier is determined by its parts.
LEMMA PartsOfId ==
  ASSUME NEW id \in Ids
  PROVE  /\ Level1Index(id) \in Level1 /\ Level2Index(id) \in Level2
         /\ Serial(id) \in 0..(kSerialNumberCount - 1)
         /\ IdOf(Serial(id), Level1Index(id), Level2Index(id)) = id
<1>1. PICK k \in Nat \ {0} : k = kLevel1Size /\ k = kLevel2Size
  BY Sizes
<1>2. PICK n \in Nat : n = kSerialNumberCount
  BY Sizes
<1>3. id \in Nat /\ id < n * k * k
  <2>1. Ids = 0..(n * k * k - 1)
    BY <1>1, <1>2 DEF Ids
  <2>2. n * k * k \in Int
    OBVIOUS
  <2> QED
    BY <2>1, <2>2
<1>4. PICK a \in Nat, l2 \in 0..(k - 1) : a = id \div k /\ l2 = id % k /\ id = a * k + l2
  BY ONLY k \in Nat \ {0}, <1>3, QuotientRemainder
<1>5. PICK b \in Nat, l1 \in 0..(k - 1) : b = a \div k /\ l1 = a % k /\ a = b * k + l1
  BY ONLY k \in Nat \ {0}, a \in Nat, QuotientRemainder
<1>6. id = (b * k + l1) * k + l2
  BY <1>4, <1>5
<1>7. id \div (k * k) = b
  BY ONLY k \in Nat \ {0}, <1>3, <1>6, b \in Nat, l1 \in 0..(k - 1), l2 \in 0..(k - 1), Digits
<1>8. b < n
  <2>1. SUFFICES ASSUME n <= b
                 PROVE  FALSE
    OBVIOUS
  <2>2. n * k <= b * k /\ n * k \in Nat /\ b * k \in Nat
    BY <2>1
  <2>3. n * k <= b * k + l1 /\ b * k + l1 \in Nat
    BY <2>2
  <2>4. n * k * k <= (b * k + l1) * k
    <3>1. PICK x \in Nat, y \in Nat : x = n * k /\ y = b * k + l1
      BY <2>2, <2>3
    <3>2. x * k <= y * k
      BY <2>3, <3>1
    <3> QED
      BY <3>1, <3>2
  <2>5. (b * k + l1) * k \in Int /\ n * k * k \in Int
    BY <2>2, <2>3
  <2> QED
    BY <1>3, <1>6, <2>4, <2>5
<1>9. Level1Index(id) = l1 /\ Level2Index(id) = l2
  BY <1>1, <1>4, <1>5 DEF Level1Index, Level2Index
<1>10. Serial(id) = b
  BY <1>1, <1>7 DEF Serial
<1>11. IdOf(b, l1, l2) = id
  BY <1>1, <1>6 DEF IdOf
<1>12. b \in 0..(kSerialNumberCount - 1) /\ l1 \in Level1 /\ l2 \in Level2
  BY <1>1, <1>2, <1>8, Sizes
<1> QED
  BY <1>9, <1>10, <1>11, <1>12

-----------------------------------------------------------------------------
(* Sub tables and their lists. *)

LEMMA FreeFinite ==
  ASSUME NEW sub \in SubTables
  PROVE  /\ IsFiniteSet(Free(sub)) /\ Cardinality(Free(sub)) \in Nat
         /\ IsFiniteSet(Level2) /\ Cardinality(Level2) = kLevel2Size
         /\ Cardinality(Free(sub)) <= kLevel2Size
<1>1. IsFiniteSet(Level2) /\ Cardinality(Level2) = kLevel2Size
  <2>1. PICK k \in Nat \ {0} : k = kLevel2Size /\ Level2 = 0..(k - 1)
    BY Sizes
  <2>2. IsFiniteSet(0..(k - 1)) /\ Cardinality(0..(k - 1)) = k
    BY FS_Interval
  <2> QED
    BY <2>1, <2>2
<1>2. Free(sub) \subseteq Level2
  BY DEF Free
<1> QED
  BY <1>1, <1>2, FS_Subset, FS_CardinalityType

LEMMA FreeIs ==
  ASSUME NEW sub \in SubTables, NEW l2 \in Level2
  PROVE  /\ sub.fDatum[l2] \in Level2 \cup Resources
         /\ l2 \in Free(sub) <=> sub.fDatum[l2] \in Level2
         /\ l2 \notin Free(sub) <=> sub.fDatum[l2] \in Resources
  BY HandleTableAssumption DEF SubTables, Free, IsFree

LEMMA NewSubOK ==
  /\ SubTable \in SubTables /\ SubOK(SubTable) /\ Free(SubTable) = Level2
  /\ SubTable.fFreeHandles > 0
  /\ \A l2 \in Level2 : SubTable.fDatum[l2] \in Level2 /\ SubTable.fSerialNumber[l2] = 0
<1>1. PICK k \in Nat \ {0} : k = kLevel2Size /\ Level2 = 0..(k - 1)
  BY Sizes
<1>2. PICK sub : sub = SubTable
  OBVIOUS
<1>3. /\ sub.fFreeHandles = k /\ sub.fFirstFree = k - 1
      /\ sub.fSerialNumber = [l2 \in Level2 |-> 0]
      /\ sub.fDatum = [l2 \in Level2 |-> IF l2 = 0 THEN 0 ELSE l2 - 1]
  BY <1>1, <1>2 DEF SubTable
<1>4. \A l2 \in Level2 : sub.fDatum[l2] \in Level2 /\ sub.fSerialNumber[l2] = 0
  BY <1>1, <1>3
<1>5. sub \in SubTables
  <2>1. /\ [l2 \in Level2 |-> 0] \in [Level2 -> 0..kSerialNumberCount - 1]
        /\ [l2 \in Level2 |-> IF l2 = 0 THEN 0 ELSE l2 - 1] \in [Level2 -> Level2 \cup Resources]
    BY <1>1, Sizes
  <2>2. kLevel2Size \in 0..kLevel2Size /\ kLevel2Size - 1 \in Level2
    BY <1>1
  <2> QED
    BY <1>2, <2>1, <2>2 DEF SubTables, SubTable
<1>6. Free(sub) = Level2
  BY <1>4 DEF Free, IsFree
<1>7. Cardinality(Free(sub)) = sub.fFreeHandles
  BY <1>1, <1>3, <1>5, <1>6, FreeFinite
<1>8. SubOK(sub)
  <2>1. PICK list : list = [n \in 1..k |-> k - n]
    OBVIOUS
  <2>2. list \in [1..sub.fFreeHandles -> Level2]
    BY <1>1, <1>3, <2>1
  <2>3. IsFreeList(sub, list)
    <3>1. list[1] = sub.fFirstFree
      BY <1>1, <1>3, <2>1
    <3>2. ASSUME NEW n \in 2..k
          PROVE  list[n] = sub.fDatum[list[n - 1]]
      <4>1. list[n] = k - n /\ list[n - 1] = k - n + 1
        BY <1>1, <2>1
      <4>2. k - n + 1 \in Level2 /\ k - n + 1 # 0
        BY <1>1
      <4>3. sub.fDatum[k - n + 1] = k - n + 1 - 1
        BY <1>3, <4>2
      <4> QED
        BY <1>1, <4>1, <4>3
    <3> QED
      BY <1>3, <3>1, <3>2 DEF IsFreeList
  <2>4. Level2 = {list[n] : n \in 1..sub.fFreeHandles}
    <3>1. ASSUME NEW l2 \in Level2
          PROVE  \E n \in 1..k : list[n] = l2
      <4>1. k - l2 \in 1..k /\ k - (k - l2) = l2
        BY <1>1
      <4> QED
        BY <2>1, <4>1
    <3> QED
      BY <1>3, <2>2, <3>1
  <2>5. \A n, m \in 1..sub.fFreeHandles : list[n] = list[m] => n = m
    BY <1>1, <1>3, <2>1
  <2> QED
    BY <1>6, <1>7, <2>2, <2>3, <2>4, <2>5 DEF SubOK
<1> QED
  BY <1>1, <1>2, <1>3, <1>4, <1>5, <1>6, <1>8

\* Open takes the first handle of the list ...
Taken(sub, r) == [sub EXCEPT !.fFreeHandles = @ - 1,
                             !.fFirstFree = sub.fDatum[sub.fFirstFree],
                             !.fDatum[sub.fFirstFree] = r]

LEMMA TakeOK ==
  ASSUME NEW sub \in SubTables, SubOK(sub), sub.fFreeHandles > 0, NEW r \in Resources,
         NEW new, new = Taken(sub, r)
  PROVE  /\ new \in SubTables /\ SubOK(new)
         /\ sub.fFirstFree \in Level2 /\ sub.fDatum[sub.fFirstFree] \in Level2
         /\ new.fSerialNumber = sub.fSerialNumber
         /\ new.fDatum[sub.fFirstFree] = r
         /\ \A l2 \in Level2 : l2 # sub.fFirstFree => new.fDatum[l2] = sub.fDatum[l2]
<1> DEFINE l2 == sub.fFirstFree
           N == sub.fFreeHandles
<1>1. PICK list \in [1..N -> Level2] :
        /\ IsFreeList(sub, list) /\ Free(sub) = {list[n] : n \in 1..N}
        /\ \A n, m \in 1..N : list[n] = list[m] => n = m
  BY DEF SubOK
<1>2. N \in Nat /\ N >= 1 /\ N <= kLevel2Size /\ l2 \in Level2 /\ l2 = list[1]
  BY <1>1, Sizes DEF SubTables, IsFreeList
<1>3. l2 \in Free(sub)
  BY <1>1, <1>2
<1>4. sub.fDatum[l2] \in Level2
  BY <1>2, <1>3, FreeIs
<1>5. /\ new.fFreeHandles = N - 1 /\ new.fFirstFree = sub.fDatum[l2]
      /\ new.fSerialNumber = sub.fSerialNumber
      /\ new.fDatum = [sub.fDatum EXCEPT ![l2] = r]
  BY DEF SubTables, Taken
<1>6. /\ new.fDatum \in [Level2 -> Level2 \cup Resources]
      /\ new.fDatum[l2] = r
      /\ \A x \in Level2 : x # l2 => new.fDatum[x] = sub.fDatum[x]
  BY <1>2, <1>5 DEF SubTables
<1>7. new \in SubTables
  <2>1. new.fFreeHandles \in 0..kLevel2Size
    BY <1>2, <1>5, Sizes
  <2>2. new = [fFreeHandles |-> N - 1, fFirstFree |-> sub.fDatum[l2],
               fSerialNumber |-> sub.fSerialNumber, fDatum |-> [sub.fDatum EXCEPT ![l2] = r]]
    BY DEF SubTables, Taken
  <2> QED
    BY <1>4, <1>5, <1>6, <2>1, <2>2 DEF SubTables
<1>8. Free(new) = Free(sub) \ {l2}
  <2>1. \A x \in Level2 : x \in Free(new) <=> x \in Free(sub) /\ x # l2
    BY <1>6, <1>7, FreeIs
  <2> QED
    BY <2>1 DEF Free
<1>9. Cardinality(Free(new)) = N - 1
  BY <1>3, <1>8, FreeFinite, CountOut DEF SubOK
<1>10. PICK tail : tail = [n \in 1..(N - 1) |-> list[n + 1]]
  OBVIOUS
<1>11. \A n \in 1..(N - 1) : n + 1 \in 1..N /\ tail[n] = list[n + 1] /\ tail[n] # l2
  BY <1>1, <1>2, <1>10
<1>12. tail \in [1..(N - 1) -> Level2]
  BY <1>1, <1>10, <1>11
<1>13. IsFreeList(new, tail)
  <2>1. ASSUME N - 1 > 0
        PROVE  tail[1] = new.fFirstFree
    <3>1. tail[1] = list[2] /\ 2 \in 2..N
      BY <1>2, <1>11, <2>1
    <3>2. list[2] = sub.fDatum[list[2 - 1]]
      BY <1>1, <3>1 DEF IsFreeList
    <3> QED
      BY <1>2, <1>5, <3>1, <3>2
  <2>2. ASSUME NEW n \in 2..(N - 1)
        PROVE  tail[n] = new.fDatum[tail[n - 1]]
    <3>1. n \in 1..(N - 1) /\ n - 1 \in 1..(N - 1) /\ n + 1 \in 2..N /\ n - 1 + 1 = n /\ n + 1 - 1 = n
      BY <1>2
    <3>2. tail[n] = list[n + 1] /\ tail[n - 1] = list[n] /\ tail[n - 1] # l2
      BY <1>11, <3>1
    <3>3. list[n + 1] = sub.fDatum[list[n]]
      BY <1>1, <3>1 DEF IsFreeList
    <3>4. new.fDatum[tail[n - 1]] = sub.fDatum[tail[n - 1]]
      BY <1>6, <1>12, <3>1, <3>2
    <3> QED
      BY <3>2, <3>3, <3>4
  <2> QED
    BY <1>5, <2>1, <2>2 DEF IsFreeList
<1>14. Free(new) = {tail[n] : n \in 1..(N - 1)}
  <2>1. \A x \in Free(new) : \E n \in 1..(N - 1) : x = tail[n]
    <3> SUFFICES ASSUME NEW x \in Free(new)
                 PROVE  \E n \in 1..(N - 1) : x = tail[n]
      OBVIOUS
    <3>1. PICK m \in 1..N : x = list[m] /\ m # 1
      BY <1>1, <1>2, <1>8
    <3>2. m - 1 \in 1..(N - 1) /\ m - 1 + 1 = m
      BY <1>2, <3>1
    <3> QED
      BY <1>11, <3>1, <3>2
  <2>2. \A n \in 1..(N - 1) : tail[n] \in Free(new)
    BY <1>1, <1>8, <1>11
  <2> QED
    BY <2>1, <2>2
<1>15. \A n, m \in 1..(N - 1) : tail[n] = tail[m] => n = m
  <2> SUFFICES ASSUME NEW n \in 1..(N - 1), NEW m \in 1..(N - 1), tail[n] = tail[m]
               PROVE  n = m
    OBVIOUS
  <2>1. n + 1 = m + 1
    BY <1>1, <1>11
  <2> QED
    BY <2>1
<1>16. SubOK(new)
  <2>1. PICK M : M = N - 1 /\ M = new.fFreeHandles
    BY <1>5
  <2>2. /\ tail \in [1..M -> Level2] /\ Free(new) = {tail[n] : n \in 1..M}
        /\ \A n, m \in 1..M : tail[n] = tail[m] => n = m
        /\ Cardinality(Free(new)) = M
    BY <1>9, <1>12, <1>14, <1>15, <2>1
  <2> HIDE DEF l2, N
  <2>3. /\ tail \in [1..new.fFreeHandles -> Level2]
        /\ Free(new) = {tail[n] : n \in 1..new.fFreeHandles}
        /\ \A n, m \in 1..new.fFreeHandles : tail[n] = tail[m] => n = m
        /\ Cardinality(Free(new)) = new.fFreeHandles
    BY <2>1, <2>2
  <2> QED
    BY <1>13, <2>3, Zenon DEF SubOK
<1> QED
  BY <1>2, <1>4, <1>5, <1>6, <1>7, <1>16

\* ... and Close makes an open handle the first.
Given(sub, l2) == [sub EXCEPT !.fFreeHandles = @ + 1,
                              !.fSerialNumber[l2] = (@ + 1) % kSerialNumberCount,
                              !.fDatum[l2] = sub.fFirstFree,
                              !.fFirstFree = l2]

LEMMA GiveOK ==
  ASSUME NEW sub \in SubTables, SubOK(sub), NEW l2 \in Level2, sub.fDatum[l2] \in Resources,
         NEW new, new = Given(sub, l2)
  PROVE  /\ new \in SubTables /\ SubOK(new)
         /\ new.fDatum[l2] \in Level2
         /\ \A x \in Level2 : x # l2 => /\ new.fDatum[x] = sub.fDatum[x]
                                        /\ new.fSerialNumber[x] = sub.fSerialNumber[x]
<1> DEFINE N == sub.fFreeHandles
<1>1. PICK list \in [1..N -> Level2] :
        /\ IsFreeList(sub, list) /\ Free(sub) = {list[n] : n \in 1..N}
        /\ \A n, m \in 1..N : list[n] = list[m] => n = m
  BY DEF SubOK
<1>2. N \in Nat /\ sub.fFirstFree \in Level2 /\ Cardinality(Free(sub)) = N
  BY Sizes DEF SubTables, SubOK
<1>3. l2 \notin Free(sub)
  BY FreeIs
<1>s. PICK serial : serial = [sub.fSerialNumber EXCEPT ![l2] = (@ + 1) % kSerialNumberCount]
  OBVIOUS
<1>4. serial \in [Level2 -> 0..kSerialNumberCount - 1]
  <2>1. sub.fSerialNumber \in [Level2 -> 0..kSerialNumberCount - 1]
    BY DEF SubTables
  <2>2. PICK x \in Int : x = sub.fSerialNumber[l2] + 1
    BY <2>1, Sizes
  <2>3. x % kSerialNumberCount \in 0..(kSerialNumberCount - 1)
    BY Sizes, Remainder
  <2>4. PICK y \in 0..(kSerialNumberCount - 1) : y = (sub.fSerialNumber[l2] + 1) % kSerialNumberCount
    BY <2>2, <2>3
  <2>5. serial = [sub.fSerialNumber EXCEPT ![l2] = y]
    BY <1>s, <2>4
  <2> QED
    BY <2>1, <2>5
<1>5. new = [fFreeHandles |-> N + 1, fFirstFree |-> l2, fSerialNumber |-> serial,
             fDatum |-> [sub.fDatum EXCEPT ![l2] = sub.fFirstFree]]
  BY <1>s DEF SubTables, Given
<1>6. /\ new.fFreeHandles = N + 1 /\ new.fFirstFree = l2 /\ new.fSerialNumber = serial
      /\ new.fDatum = [sub.fDatum EXCEPT ![l2] = sub.fFirstFree]
  BY ONLY <1>5
<1>7. sub.fDatum \in [Level2 -> Level2 \cup Resources]
  BY DEF SubTables
<1>8. /\ new.fDatum \in [Level2 -> Level2 \cup Resources]
      /\ new.fDatum[l2] = sub.fFirstFree
      /\ \A x \in Level2 : x # l2 => new.fDatum[x] = sub.fDatum[x]
  BY <1>2, <1>6, <1>7
<1>9. \A x \in Level2 : x # l2 => new.fSerialNumber[x] = sub.fSerialNumber[x]
  <2>1. sub.fSerialNumber \in [Level2 -> 0..kSerialNumberCount - 1]
    BY DEF SubTables
  <2> QED
    BY <1>6, <1>s, <2>1
<1>10. N + 1 \in 0..kLevel2Size
  <2>1. Free(sub) \subseteq Level2 \ {l2}
    BY <1>3 DEF Free
  <2>2. /\ IsFiniteSet(Level2 \ {l2}) /\ Cardinality(Level2 \ {l2}) = kLevel2Size - 1
    BY FreeFinite, CountOut
  <2>3. N <= kLevel2Size - 1
    BY <1>2, <2>1, <2>2, FS_Subset
  <2> QED
    BY <1>2, <2>3, Sizes
<1>11. new \in SubTables
  BY <1>4, <1>5, <1>6, <1>8, <1>10 DEF SubTables
<1>12. Free(new) = Free(sub) \cup {l2}
  <2>1. \A x \in Level2 : x \in Free(new) <=> x \in Free(sub) \/ x = l2
    BY <1>2, <1>8, <1>11, FreeIs
  <2> QED
    BY <2>1 DEF Free
<1>13. Cardinality(Free(new)) = N + 1
  BY <1>2, <1>3, <1>12, FreeFinite, CountIn
<1>14. PICK longer : longer = [n \in 1..(N + 1) |-> IF n = 1 THEN l2 ELSE list[n - 1]]
  OBVIOUS
<1>15. \A n \in 1..N : n + 1 \in 1..(N + 1) /\ longer[n + 1] = list[n] /\ list[n] # l2
  BY <1>1, <1>2, <1>3, <1>14
<1>16. \A n \in 1..(N + 1) : n # 1 => n - 1 \in 1..N /\ longer[n] = list[n - 1]
  BY <1>2, <1>14
<1>17. longer[1] = l2 /\ 1 \in 1..(N + 1)
  BY <1>2, <1>14
<1>18. longer \in [1..(N + 1) -> Level2]
  BY <1>1, <1>14, <1>16
<1>19. ASSUME NEW n \in 2..(N + 1)
       PROVE  longer[n] = new.fDatum[longer[n - 1]]
  <2>1. CASE n = 2
    <3>1. 1 \in 1..N /\ N > 0
      BY <1>2, <2>1
    <3>2. longer[2] = list[1] /\ list[1] = sub.fFirstFree
      BY <1>1, <1>15, <3>1 DEF IsFreeList
    <3>3. n - 1 = 1
      BY <2>1
    <3> QED
      BY <1>8, <1>17, <2>1, <3>2, <3>3
  <2>2. CASE n # 2
    <3>1. n - 1 \in 2..N /\ n - 1 \in 1..(N + 1) /\ n - 1 # 1 /\ n - 1 - 1 \in 1..N /\ n \in 1..(N + 1) /\ n # 1
      BY <1>2, <2>2
    <3>2. longer[n] = list[n - 1] /\ longer[n - 1] = list[n - 1 - 1] /\ list[n - 1 - 1] # l2
      BY <1>15, <1>16, <3>1
    <3>3. list[n - 1] = sub.fDatum[list[n - 1 - 1]]
      BY <1>1, <3>1 DEF IsFreeList
    <3>4. new.fDatum[list[n - 1 - 1]] = sub.fDatum[list[n - 1 - 1]]
      BY <1>1, <1>8, <3>1, <3>2
    <3> QED
      BY <3>2, <3>3, <3>4
  <2> QED
    BY <2>1, <2>2
<1>20. Free(new) = {longer[n] : n \in 1..(N + 1)}
  <2>1. \A x \in Free(new) : \E n \in 1..(N + 1) : x = longer[n]
    BY <1>1, <1>12, <1>15, <1>17
  <2>2. \A n \in 1..(N + 1) : longer[n] \in Free(new)
    BY <1>1, <1>12, <1>16, <1>17
  <2> QED
    BY <2>1, <2>2
<1>21. \A n, m \in 1..(N + 1) : longer[n] = longer[m] => n = m
  <2> SUFFICES ASSUME NEW n \in 1..(N + 1), NEW m \in 1..(N + 1), longer[n] = longer[m]
               PROVE  n = m
    OBVIOUS
  <2>1. CASE n # 1 /\ m # 1
    <3>1. n - 1 = m - 1
      BY <1>1, <1>16, <2>1
    <3> QED
      BY <3>1
  <2>2. CASE n = 1 /\ m # 1
    BY <1>15, <1>16, <1>17, <2>2
  <2>3. CASE n # 1 /\ m = 1
    BY <1>15, <1>16, <1>17, <2>3
  <2> QED
    BY <2>1, <2>2, <2>3
<1>22. SubOK(new)
  <2>1. PICK M : M = N + 1 /\ M = new.fFreeHandles
    BY <1>6
  <2>2. /\ longer \in [1..M -> Level2] /\ Free(new) = {longer[n] : n \in 1..M}
        /\ \A n, m \in 1..M : longer[n] = longer[m] => n = m
        /\ \A n \in 2..M : longer[n] = new.fDatum[longer[n - 1]]
        /\ Cardinality(Free(new)) = M
    BY <1>13, <1>18, <1>19, <1>20, <1>21, <2>1
  <2> HIDE DEF N
  <2>3. /\ longer \in [1..new.fFreeHandles -> Level2]
        /\ Free(new) = {longer[n] : n \in 1..new.fFreeHandles}
        /\ \A n, m \in 1..new.fFreeHandles : longer[n] = longer[m] => n = m
        /\ Cardinality(Free(new)) = new.fFreeHandles
    BY <2>1, <2>2
  <2>4. IsFreeList(new, longer)
    BY <1>6, <1>17, <2>1, <2>2 DEF IsFreeList
  <2> QED
    BY <2>3, <2>4, Zenon DEF SubOK
<1> QED
  BY <1>2, <1>8, <1>9, <1>11, <1>22

-----------------------------------------------------------------------------
(* A step of one thread. *)

ThreadType ==
  [pc : {"idle", "opened", "using", "closing", "closed"}, id : Ids,
   resource : Resources \cup {Nothing}, taken : Resources \cup Level2 \cup {Nothing}]

LEMMA IdleIs ==
  /\ Idle \in ThreadType
  /\ Idle.pc = "idle" /\ Idle.resource = Nothing /\ Idle.taken = Nothing
<1>1. 0 \in Ids
  <2>1. 0 \in 0..(kSerialNumberCount - 1) /\ 0 \in Level1 /\ 0 \in Level2
    BY Sizes
  <2>2. IdOf(0, 0, 0) \in Ids
    BY <2>1, IdParts
  <2>3. IdOf(0, 0, 0) = 0
    BY Sizes DEF IdOf
  <2> QED
    BY <2>2, <2>3
<1> QED
  BY <1>1 DEF Idle, ThreadType

LEMMA TypeParts ==
  ASSUME TypeOK
  PROVE  /\ fMainTable \in [Level1 -> {Absent} \cup SubTables]
         /\ \A l1 \in Level1 : fMainTable[l1] # Absent => fMainTable[l1] \in SubTables
         /\ fFreeHint \in Level1 /\ fRefCount \in [Resources -> Nat]
         /\ th \in [Threads -> ThreadType] /\ mine \in [Threads -> SUBSET Ids]
         /\ crash \in {"no", "table is full", "released what is no resource"}
  BY DEF TypeOK, ThreadType

LEMMA OneThread ==
  ASSUME TypeOK, NEW t \in Threads, NEW g \in ThreadType, th' = [th EXCEPT ![t] = g]
  PROVE  /\ th' \in [Threads -> ThreadType] /\ th'[t] = g
         /\ \A u \in Threads : u # t => th'[u] = th[u]
  BY TypeParts

\* The threads that use a resource or are about to release it, after the step.
LEMMA Counted ==
  ASSUME TypeOK, NEW t \in Threads, NEW g \in ThreadType, th' = [th EXCEPT ![t] = g],
         NEW r
  PROVE  /\ IsFiniteSet(Users(r)) /\ IsFiniteSet(Takers(r))
         /\ Cardinality(Users(r)) \in Nat /\ Cardinality(Takers(r)) \in Nat
         /\ th[t].resource = r => Cardinality(Users(r)) > 0
         /\ th[t].taken = r => Cardinality(Takers(r)) > 0
         /\ Cardinality(Users(r))' = Cardinality(Users(r))
              + (IF g.resource = r THEN 1 ELSE 0) - (IF th[t].resource = r THEN 1 ELSE 0)
         /\ Cardinality(Takers(r))' = Cardinality(Takers(r))
              + (IF g.taken = r THEN 1 ELSE 0) - (IF th[t].taken = r THEN 1 ELSE 0)
<1>1. /\ th'[t] = g
      /\ \A u \in Threads : u # t => th'[u] = th[u]
  BY OneThread
<1>2. IsFiniteSet(Threads)
  BY HandleTableAssumption
<1>3. PICK U, V, T, W : U = Users(r) /\ V = Users(r)' /\ T = Takers(r) /\ W = Takers(r)'
  OBVIOUS
<1>4. U \subseteq Threads /\ T \subseteq Threads
  BY <1>3 DEF Users, Takers
<1>5. IsFiniteSet(U) /\ IsFiniteSet(T) /\ Cardinality(U) \in Nat /\ Cardinality(T) \in Nat
  BY <1>2, <1>4, FS_Subset, FS_CardinalityType
<1>6. /\ t \in U <=> th[t].resource = r
      /\ V = IF g.resource = r THEN U \cup {t} ELSE U \ {t}
  BY <1>1, <1>3 DEF Users
<1>7. /\ t \in T <=> th[t].taken = r
      /\ W = IF g.taken = r THEN T \cup {t} ELSE T \ {t}
  BY <1>1, <1>3 DEF Takers
<1>8. ASSUME NEW S, IsFiniteSet(S), Cardinality(S) \in Nat
      PROVE  /\ t \in S => Cardinality(S) > 0 /\ S \cup {t} = S /\ Cardinality(S \ {t}) = Cardinality(S) - 1
             /\ t \notin S => S \ {t} = S /\ Cardinality(S \cup {t}) = Cardinality(S) + 1
  BY <1>8, CountIn, CountOut
<1>a. ASSUME NEW S, IsFiniteSet(S), Cardinality(S) \in Nat, NEW R, NEW was, NEW is,
             t \in S <=> was = r, R = IF is = r THEN S \cup {t} ELSE S \ {t}
      PROVE  /\ was = r => Cardinality(S) > 0
             /\ Cardinality(R) = Cardinality(S) + (IF is = r THEN 1 ELSE 0) - (IF was = r THEN 1 ELSE 0)
  <2>1. CASE was = r
    <3>1. t \in S /\ Cardinality(S) > 0 /\ S \cup {t} = S /\ Cardinality(S \ {t}) = Cardinality(S) - 1
      BY <1>8, <1>a, <2>1
    <3>2. Cardinality(R) = IF is = r THEN Cardinality(S) ELSE Cardinality(S) - 1
      BY <1>a, <3>1
    <3> QED
      BY <1>a, <2>1, <3>1, <3>2
  <2>2. CASE was # r
    <3>1. t \notin S /\ S \ {t} = S /\ Cardinality(S \cup {t}) = Cardinality(S) + 1
      BY <1>8, <1>a, <2>2
    <3>2. Cardinality(R) = IF is = r THEN Cardinality(S) + 1 ELSE Cardinality(S)
      BY <1>a, <3>1
    <3> QED
      BY <1>a, <2>2, <3>1, <3>2
  <2> QED
    BY <2>1, <2>2
<1>9. /\ th[t].resource = r => Cardinality(U) > 0
      /\ Cardinality(V) = Cardinality(U)
           + (IF g.resource = r THEN 1 ELSE 0) - (IF th[t].resource = r THEN 1 ELSE 0)
  BY <1>5, <1>6, <1>a, ZenonT(60)
<1>10. /\ th[t].taken = r => Cardinality(T) > 0
       /\ Cardinality(W) = Cardinality(T)
            + (IF g.taken = r THEN 1 ELSE 0) - (IF th[t].taken = r THEN 1 ELSE 0)
  BY <1>5, <1>7, <1>a, ZenonT(60)
<1> QED
  BY <1>3, <1>5, <1>9, <1>10

LEMMA HeldFinite ==
  ASSUME NEW r
  PROVE  IsFiniteSet(Held(r)) /\ Cardinality(Held(r)) \in Nat
<1>1. IsFiniteSet(Level1) /\ IsFiniteSet(Level2)
  <2>1. PICK k \in Nat \ {0} : Level1 = 0..(k - 1) /\ Level2 = 0..(k - 1)
    BY Sizes
  <2>2. IsFiniteSet(0..(k - 1))
    BY FS_Interval
  <2> QED
    BY <2>1, <2>2
<1>2. IsFiniteSet(Level1 \X Level2)
  BY <1>1, FS_Product
<1>3. Held(r) \subseteq Level1 \X Level2
  BY DEF Held
<1> QED
  BY <1>2, <1>3, FS_Subset, FS_CardinalityType

\* The table and its owners do not see a step that changes neither.
LEMMA SameTable ==
  ASSUME IInv, UNCHANGED <<fMainTable, fFreeHint>>, crash' = crash
  PROVE  /\ SubsOK' /\ HintOK'
         /\ \A r : Held(r)' = Held(r)
         /\ \A h : IsOpen(h)' <=> IsOpen(h)
<1>1. SubsOK'
  BY DEF IInv, SubsOK
<1>2. HintOK'
  BY DEF IInv, HintOK, HasFree
<1>3. \A r : Held(r)' = Held(r)
  BY DEF Held
<1>4. \A h : IsOpen(h)' <=> IsOpen(h)
  BY DEF IsOpen
<1> QED
  BY <1>1, <1>2, <1>3, <1>4

\* Nor do they see one that neither opens nor closes.
LEMMA SameOwners ==
  ASSUME IInv, UNCHANGED <<fMainTable, fFreeHint, mine>>, crash' = crash,
         NEW t \in Threads, NEW g \in ThreadType, th' = [th EXCEPT ![t] = g],
         th[t].pc # "opened", g.pc # "opened"
  PROVE  /\ OwnersOK'
         /\ \A u \in Threads : u # t => ThreadOK(u)'
<1>1. /\ th'[t] = g
      /\ \A u \in Threads : u # t => th'[u] = th[u]
  BY OneThread DEF IInv
<1>2. \A u \in Threads : Owned(u)' = Owned(u)
  <2> SUFFICES ASSUME NEW u \in Threads
               PROVE  Owned(u)' = Owned(u)
    OBVIOUS
  <2>1. Opening(u)' = Opening(u)
    BY <1>1 DEF Opening, Slot, Level1Index, Level2Index
  <2> QED
    BY <2>1 DEF Owned, Slot, Level1Index, Level2Index
<1>3. \A h : IsOpen(h)' <=> IsOpen(h)
  BY SameTable
<1>4. OwnersOK'
  <2>1. /\ \A u \in Threads : \A h \in Owned(u)' : IsOpen(h)'
        /\ \A u, v \in Threads : u # v => Owned(u)' \cap Owned(v)' = {}
    BY <1>2, <1>3 DEF IInv, OwnersOK
  <2>2. \A u \in Threads : th'[u].pc = "opened" => \A id \in mine'[u] : Slot(id) # Slot(th'[u].id)
    BY <1>1 DEF IInv, OwnersOK
  <2>3. \A u \in Threads : \A id \in mine'[u] :
          fMainTable'[Level1Index(id)].fSerialNumber[Level2Index(id)] = Serial(id)
    BY DEF IInv, OwnersOK
  <2> QED
    BY <2>1, <2>2, <2>3 DEF OwnersOK, Slot, Level1Index, Level2Index, Serial
<1>5. \A u \in Threads : u # t => ThreadOK(u)'
  <2> SUFFICES ASSUME NEW u \in Threads, u # t
               PROVE  ThreadOK(u)'
    OBVIOUS
  <2>1. ThreadOK(u) /\ th'[u] = th[u]
    BY <1>1 DEF IInv
  <2> QED
    BY <2>1 DEF ThreadOK, Level1Index, Level2Index
<1> QED
  BY <1>4, <1>5

LEMMA NothingIsNone ==
  Nothing \notin Resources /\ Resources \cap Level2 = {} /\ Nothing \notin Level2
  BY HandleTableAssumption

\* What GetResource finds is open.
LEMMA LookupFinds ==
  ASSUME TypeOK, NEW id \in Ids, NEW matchType, Lookup(id, matchType) # Nothing
  PROVE  /\ fMainTable[Level1Index(id)] # Absent
         /\ Lookup(id, matchType) = fMainTable[Level1Index(id)].fDatum[Level2Index(id)]
         /\ Lookup(id, matchType) \in Resources
         /\ fMainTable[Level1Index(id)].fSerialNumber[Level2Index(id)] = Serial(id)
<1>1. /\ fMainTable[Level1Index(id)] # Absent
      /\ Lookup(id, matchType) = fMainTable[Level1Index(id)].fDatum[Level2Index(id)]
      /\ fMainTable[Level1Index(id)].fSerialNumber[Level2Index(id)] = Serial(id)
      /\ ~IsFree(fMainTable[Level1Index(id)].fDatum[Level2Index(id)])
  BY DEF Lookup
<1>2. Level1Index(id) \in Level1 /\ Level2Index(id) \in Level2
  BY PartsOfId
<1>3. fMainTable[Level1Index(id)] \in SubTables
  BY <1>1, <1>2, TypeParts
<1>4. fMainTable[Level1Index(id)].fDatum[Level2Index(id)] \in Level2 \cup Resources
  BY <1>2, <1>3 DEF SubTables
<1> QED
  BY <1>1, <1>4 DEF IsFree

LEMMA GetResourceOK ==
  ASSUME IInv, NEW t \in Threads, NEW id \in Ids, NEW matchType,
         NEW next, next = "using" \/ (next = "closing" /\ id \in mine[t]),
         GetResource(t, id, matchType, next)
  PROVE  IInv'
<1>1. TypeOK /\ ThreadOK(t)
  BY DEF IInv
<1>2. PICK r : r = Lookup(id, matchType)
  OBVIOUS
<1>3. /\ crash = "no" /\ th[t].pc = "idle" /\ r # Nothing
      /\ fRefCount' = [fRefCount EXCEPT ![r] = @ + 1]
      /\ UNCHANGED <<fMainTable, fFreeHint, mine, crash>>
      /\ th' = [th EXCEPT ![t] = [pc |-> next, id |-> id, resource |-> r, taken |-> Nothing]]
  BY <1>2 DEF GetResource
<1>4. /\ r \in Resources
      /\ r = fMainTable[Level1Index(id)].fDatum[Level2Index(id)]
  BY <1>1, <1>2, <1>3, LookupFinds
<1>5. PICK g : g = [pc |-> next, id |-> id, resource |-> r, taken |-> Nothing]
  OBVIOUS
<1>6. th' = [th EXCEPT ![t] = g]
  BY <1>3, <1>5
<1>7. /\ g \in ThreadType /\ g.pc = next /\ g.id = id /\ g.resource = r /\ g.taken = Nothing
  <2>1. next \in {"idle", "opened", "using", "closing", "closed"}
    OBVIOUS
  <2> QED
    BY <1>4, <1>5, <2>1 DEF ThreadType
<1>8. /\ th' \in [Threads -> ThreadType] /\ th'[t] = g
      /\ \A u \in Threads : u # t => th'[u] = th[u]
  BY <1>1, <1>6, <1>7, OneThread
<1>9. fRefCount' \in [Resources -> Nat]
  BY <1>1, <1>3, <1>4, TypeParts
<1>10. TypeOK'
  BY <1>1, <1>3, <1>8, <1>9 DEF TypeOK, ThreadType
<1>11. SubsOK' /\ HintOK' /\ \A x : Held(x)' = Held(x)
  BY <1>3, SameTable
<1>12. OwnersOK' /\ \A u \in Threads : u # t => ThreadOK(u)'
  BY <1>3, <1>6, <1>7, SameOwners
<1>13. ThreadOK(t)'
  BY <1>3, <1>4, <1>7, <1>8, NothingIsNone DEF ThreadOK, Level1Index, Level2Index
<1>14. RefsOK'
  <2> SUFFICES ASSUME NEW x \in Resources
               PROVE  fRefCount'[x] = Cardinality(Held(x))' + Cardinality(Users(x))' + Cardinality(Takers(x))'
    BY DEF RefsOK
  <2>1. fRefCount[x] = Cardinality(Held(x)) + Cardinality(Users(x)) + Cardinality(Takers(x))
    BY <1>3 DEF IInv, RefsOK
  <2>2. th[t].resource = Nothing /\ th[t].taken = Nothing
    BY <1>1, <1>3, IdleIs DEF ThreadOK
  <2>3. /\ Cardinality(Users(x)) \in Nat /\ Cardinality(Takers(x)) \in Nat
        /\ Cardinality(Users(x))' = Cardinality(Users(x)) + (IF r = x THEN 1 ELSE 0)
        /\ Cardinality(Takers(x))' = Cardinality(Takers(x))
    <3>1. /\ Cardinality(Users(x)) \in Nat /\ Cardinality(Takers(x)) \in Nat
          /\ th[t].resource = x => Cardinality(Users(x)) > 0
          /\ th[t].taken = x => Cardinality(Takers(x)) > 0
          /\ Cardinality(Users(x))' = Cardinality(Users(x))
               + (IF g.resource = x THEN 1 ELSE 0) - (IF th[t].resource = x THEN 1 ELSE 0)
          /\ Cardinality(Takers(x))' = Cardinality(Takers(x))
               + (IF g.taken = x THEN 1 ELSE 0) - (IF th[t].taken = x THEN 1 ELSE 0)
      BY <1>1, <1>6, <1>7, Counted, ZenonT(60)
    <3>2. Nothing # x
      BY NothingIsNone
    <3> QED
      BY <1>7, <2>2, <3>1, <3>2
  <2>4. Cardinality(Held(x))' = Cardinality(Held(x)) /\ Cardinality(Held(x)) \in Nat
    BY <1>11, HeldFinite
  <2>5. fRefCount'[x] = fRefCount[x] + (IF r = x THEN 1 ELSE 0)
    BY <1>1, <1>3, <1>4, TypeParts
  <2> QED
    BY <2>1, <2>3, <2>4, <2>5
<1> QED
  BY <1>3, <1>10, <1>11, <1>12, <1>13, <1>14 DEF IInv

LEMMA ReleaseOK ==
  ASSUME IInv, NEW t \in Threads, Release(t)
  PROVE  IInv'
<1>1. TypeOK /\ ThreadOK(t)
  BY DEF IInv
<1>2. PICK r : r = th[t].resource
  OBVIOUS
<1>3. /\ crash = "no" /\ th[t].pc = "using"
      /\ fRefCount' = [fRefCount EXCEPT ![r] = @ - 1]
      /\ UNCHANGED <<fMainTable, fFreeHint, mine, crash>>
      /\ th' = [th EXCEPT ![t] = Idle]
  BY <1>2 DEF Release
<1>4. r \in Resources /\ th[t].taken = Nothing
  BY <1>1, <1>2, <1>3 DEF ThreadOK
<1>h. PICK g : g = Idle
  OBVIOUS
<1>g. /\ g \in ThreadType /\ g.pc = "idle" /\ g.resource = Nothing /\ g.taken = Nothing
  BY <1>h, IdleIs
<1>i. th' = [th EXCEPT ![t] = g]
  BY <1>3, <1>h
<1>5. /\ th' \in [Threads -> ThreadType] /\ th'[t] = Idle
      /\ \A u \in Threads : u # t => th'[u] = th[u]
  BY <1>1, <1>3, IdleIs, OneThread
<1>6. SubsOK' /\ HintOK' /\ \A x : Held(x)' = Held(x)
  BY <1>3, SameTable
<1>7. OwnersOK' /\ \A u \in Threads : u # t => ThreadOK(u)'
  BY <1>3, IdleIs, SameOwners
<1>8. ThreadOK(t)'
  BY <1>5, IdleIs, NothingIsNone DEF ThreadOK
<1>9. ASSUME NEW x \in Resources
      PROVE  /\ fRefCount'[x] = Cardinality(Held(x))' + Cardinality(Users(x))' + Cardinality(Takers(x))'
             /\ fRefCount'[x] \in Nat
  <2>1. fRefCount[x] = Cardinality(Held(x)) + Cardinality(Users(x)) + Cardinality(Takers(x))
    BY <1>3 DEF IInv, RefsOK
  <2>2. /\ Cardinality(Users(x)) \in Nat /\ Cardinality(Takers(x)) \in Nat
        /\ (r = x => Cardinality(Users(x)) > 0)
        /\ Cardinality(Users(x))' = Cardinality(Users(x)) - (IF r = x THEN 1 ELSE 0)
        /\ Cardinality(Takers(x))' = Cardinality(Takers(x))
    <3>1. /\ Cardinality(Users(x)) \in Nat /\ Cardinality(Takers(x)) \in Nat
          /\ th[t].resource = x => Cardinality(Users(x)) > 0
          /\ th[t].taken = x => Cardinality(Takers(x)) > 0
          /\ Cardinality(Users(x))' = Cardinality(Users(x))
               + (IF g.resource = x THEN 1 ELSE 0) - (IF th[t].resource = x THEN 1 ELSE 0)
          /\ Cardinality(Takers(x))' = Cardinality(Takers(x))
               + (IF g.taken = x THEN 1 ELSE 0) - (IF th[t].taken = x THEN 1 ELSE 0)
      BY <1>1, <1>g, <1>i, Counted, ZenonT(60)
    <3>2. Nothing # x
      BY NothingIsNone
    <3> QED
      BY <1>2, <1>4, <1>g, <3>1, <3>2
  <2>3. Cardinality(Held(x))' = Cardinality(Held(x)) /\ Cardinality(Held(x)) \in Nat
    BY <1>6, HeldFinite
  <2>4. fRefCount'[x] = fRefCount[x] - (IF r = x THEN 1 ELSE 0)
    BY <1>1, <1>3, <1>4, TypeParts
  <2> QED
    BY <2>1, <2>2, <2>3, <2>4
<1>10. fRefCount' \in [Resources -> Nat]
  BY <1>1, <1>3, <1>9, TypeParts
<1>11. TypeOK'
  BY <1>1, <1>3, <1>5, <1>10 DEF TypeOK, ThreadType
<1>12. RefsOK'
  BY <1>9 DEF RefsOK
<1> QED
  BY <1>3, <1>6, <1>7, <1>8, <1>11, <1>12 DEF IInv

LEMMA CloseReleaseOK ==
  ASSUME IInv, NEW t \in Threads, CloseRelease(t)
  PROVE  IInv'
<1>1. TypeOK /\ ThreadOK(t)
  BY DEF IInv
<1>2. PICK r : r = th[t].taken
  OBVIOUS
<1>3. crash = "no" /\ th[t].pc = "closed" /\ r \in Resources /\ th[t].resource \in Resources
  BY <1>1, <1>2 DEF CloseRelease, ThreadOK
<1>4. /\ fRefCount' = [fRefCount EXCEPT ![r] = @ - 1]
      /\ UNCHANGED <<fMainTable, fFreeHint, mine, crash>>
      /\ th' = [th EXCEPT ![t].pc = "using", ![t].taken = Nothing]
  BY <1>2, <1>3 DEF CloseRelease
<1>5. PICK g : g = [th[t] EXCEPT !.pc = "using", !.taken = Nothing]
  OBVIOUS
<1>6. th' = [th EXCEPT ![t] = g]
  BY <1>1, <1>4, <1>5, TypeParts
<1>7. /\ g \in ThreadType /\ g.pc = "using" /\ g.id = th[t].id /\ g.resource = th[t].resource
      /\ g.taken = Nothing
  <2>1. th[t] \in ThreadType
    BY <1>1, TypeParts
  <2> QED
    BY <1>5, <2>1 DEF ThreadType
<1>8. /\ th' \in [Threads -> ThreadType] /\ th'[t] = g
      /\ \A u \in Threads : u # t => th'[u] = th[u]
  BY <1>1, <1>6, <1>7, OneThread
<1>9. SubsOK' /\ HintOK' /\ \A x : Held(x)' = Held(x)
  BY <1>4, SameTable
<1>10. OwnersOK' /\ \A u \in Threads : u # t => ThreadOK(u)'
  BY <1>3, <1>4, <1>6, <1>7, SameOwners
<1>11. ThreadOK(t)'
  BY <1>3, <1>7, <1>8, NothingIsNone DEF ThreadOK
<1>12. ASSUME NEW x \in Resources
       PROVE  /\ fRefCount'[x] = Cardinality(Held(x))' + Cardinality(Users(x))' + Cardinality(Takers(x))'
              /\ fRefCount'[x] \in Nat
  <2>1. fRefCount[x] = Cardinality(Held(x)) + Cardinality(Users(x)) + Cardinality(Takers(x))
    BY <1>3 DEF IInv, RefsOK
  <2>2. /\ Cardinality(Users(x)) \in Nat /\ Cardinality(Takers(x)) \in Nat
        /\ (r = x => Cardinality(Takers(x)) > 0)
        /\ Cardinality(Users(x))' = Cardinality(Users(x))
        /\ Cardinality(Takers(x))' = Cardinality(Takers(x)) - (IF r = x THEN 1 ELSE 0)
    <3>1. /\ Cardinality(Users(x)) \in Nat /\ Cardinality(Takers(x)) \in Nat
          /\ th[t].resource = x => Cardinality(Users(x)) > 0
          /\ th[t].taken = x => Cardinality(Takers(x)) > 0
          /\ Cardinality(Users(x))' = Cardinality(Users(x))
               + (IF g.resource = x THEN 1 ELSE 0) - (IF th[t].resource = x THEN 1 ELSE 0)
          /\ Cardinality(Takers(x))' = Cardinality(Takers(x))
               + (IF g.taken = x THEN 1 ELSE 0) - (IF th[t].taken = x THEN 1 ELSE 0)
      BY <1>1, <1>6, <1>7, Counted, ZenonT(60)
    <3>2. Nothing # x
      BY NothingIsNone
    <3> QED
      BY <1>2, <1>7, <3>1, <3>2
  <2>3. Cardinality(Held(x))' = Cardinality(Held(x)) /\ Cardinality(Held(x)) \in Nat
    BY <1>9, HeldFinite
  <2>4. fRefCount'[x] = fRefCount[x] - (IF r = x THEN 1 ELSE 0)
    BY <1>1, <1>3, <1>4, TypeParts
  <2> QED
    BY <2>1, <2>2, <2>3, <2>4
<1>13. fRefCount' \in [Resources -> Nat]
  BY <1>1, <1>4, <1>12, TypeParts
<1>14. TypeOK'
  BY <1>1, <1>4, <1>8, <1>13 DEF TypeOK, ThreadType
<1>15. RefsOK'
  BY <1>12 DEF RefsOK
<1> QED
  BY <1>3, <1>4, <1>9, <1>10, <1>11, <1>14, <1>15 DEF IInv

\* What one handle of one sub table says of the whole table.
SubAt(l1) == IF fMainTable[l1] = Absent THEN SubTable ELSE fMainTable[l1]

OneHandleNew(l1, l2, new) ==
  /\ new \in SubTables
  /\ \A x \in Level2 : x # l2 => new.fDatum[x] = SubAt(l1).fDatum[x]
  /\ fMainTable' = [fMainTable EXCEPT ![l1] = new]

LEMMA OneHandle ==
  ASSUME TypeOK, NEW l1 \in Level1, NEW l2 \in Level2, NEW new, OneHandleNew(l1, l2, new)
  PROVE  /\ fMainTable' \in [Level1 -> {Absent} \cup SubTables]
         /\ fMainTable'[l1] = new /\ new # Absent
         /\ \A m1 \in Level1 : m1 # l1 => fMainTable'[m1] = fMainTable[m1]
         /\ \A m1 \in Level1, m2 \in Level2 :
              /\ m1 # l1 \/ m2 # l2
              /\ fMainTable[m1] # Absent /\ fMainTable[m1].fDatum[m2] \in Resources
              => fMainTable'[m1] # Absent /\ fMainTable'[m1].fDatum[m2] = fMainTable[m1].fDatum[m2]
         /\ \A r \in Resources : new.fDatum[l2] = r => Held(r)' = Held(r) \cup {<<l1, l2>>}
         /\ \A r \in Resources : new.fDatum[l2] # r => Held(r)' = Held(r) \ {<<l1, l2>>}
<1>1. /\ fMainTable' \in [Level1 -> {Absent} \cup SubTables]
      /\ fMainTable'[l1] = new /\ new # Absent
      /\ \A m1 \in Level1 : m1 # l1 => fMainTable'[m1] = fMainTable[m1]
  BY TypeParts, HandleTableAssumption DEF OneHandleNew
<1>2. \A m1 \in Level1, m2 \in Level2 :
        /\ m1 # l1 \/ m2 # l2
        /\ fMainTable[m1] # Absent /\ fMainTable[m1].fDatum[m2] \in Resources
        => fMainTable'[m1] # Absent /\ fMainTable'[m1].fDatum[m2] = fMainTable[m1].fDatum[m2]
  BY <1>1 DEF OneHandleNew, SubAt
<1>3. ASSUME NEW r \in Resources, NEW m1 \in Level1, NEW m2 \in Level2, m1 # l1 \/ m2 # l2
      PROVE  <<m1, m2>> \in Held(r)' <=> <<m1, m2>> \in Held(r)
  <2>1. /\ <<m1, m2>> \in Held(r)' <=> fMainTable'[m1] # Absent /\ fMainTable'[m1].fDatum[m2] = r
        /\ <<m1, m2>> \in Held(r) <=> fMainTable[m1] # Absent /\ fMainTable[m1].fDatum[m2] = r
    BY DEF Held
  <2>2. CASE m1 # l1
    BY <1>1, <2>1, <2>2
  <2>3. CASE m1 = l1 /\ fMainTable[l1] # Absent
    BY <1>1, <1>3, <2>1, <2>3 DEF OneHandleNew, SubAt
  <2>4. CASE m1 = l1 /\ fMainTable[l1] = Absent
    <3>1. fMainTable'[m1].fDatum[m2] \in Level2
      BY <1>1, <1>3, <2>4, NewSubOK DEF OneHandleNew, SubAt
    <3>2. r \notin Level2
      BY NothingIsNone
    <3> QED
      BY <2>1, <2>4, <3>1, <3>2
  <2> QED
    BY <2>2, <2>3, <2>4
<1>4. ASSUME NEW r \in Resources
      PROVE  /\ new.fDatum[l2] = r => Held(r)' = Held(r) \cup {<<l1, l2>>}
             /\ new.fDatum[l2] # r => Held(r)' = Held(r) \ {<<l1, l2>>}
  <2>1. <<l1, l2>> \in Held(r)' <=> new.fDatum[l2] = r
    BY <1>1 DEF Held
  <2>2. Held(r) \subseteq Level1 \X Level2 /\ Held(r)' \subseteq Level1 \X Level2
    BY DEF Held
  <2>3. \A h \in Level1 \X Level2 : h # <<l1, l2>> => (h \in Held(r)' <=> h \in Held(r))
    <3> SUFFICES ASSUME NEW h \in Level1 \X Level2, h # <<l1, l2>>
                 PROVE  h \in Held(r)' <=> h \in Held(r)
      OBVIOUS
    <3>1. PICK m1 \in Level1, m2 \in Level2 : h = <<m1, m2>>
      OBVIOUS
    <3>2. m1 # l1 \/ m2 # l2
      BY <3>1
    <3> QED
      BY <1>3, <3>1, <3>2
  <2>4. <<l1, l2>> \in Level1 \X Level2
    OBVIOUS
  <2> QED
    BY <2>1, <2>2, <2>3, <2>4
<1> QED
  BY <1>1, <1>2, <1>4

\* Every handle that belongs to a thread has its place in the table.
LEMMA OwnedParts ==
  ASSUME IInv, NEW t \in Threads
  PROVE  /\ \A id \in mine[t] :
              /\ id \in Ids /\ Level1Index(id) \in Level1 /\ Level2Index(id) \in Level2
              /\ fMainTable[Level1Index(id)] \in SubTables
              /\ fMainTable[Level1Index(id)].fDatum[Level2Index(id)] \in Resources
              /\ fMainTable[Level1Index(id)].fSerialNumber[Level2Index(id)] = Serial(id)
              /\ fMainTable[Level1Index(id)] # Absent
         /\ \A u \in Threads : u # t => \A id \in mine[t], other \in mine[u] : Slot(id) # Slot(other)
         /\ \A id, other \in mine[t] : Slot(id) = Slot(other) => id = other
         /\ th[t].pc = "opened" => \A u \in Threads : \A id \in mine[u] : Slot(id) # Slot(th[t].id)
<1>1. TypeOK /\ OwnersOK
  BY DEF IInv
<1>2. \A u \in Threads : \A id \in mine[u] :
        id \in Ids /\ Level1Index(id) \in Level1 /\ Level2Index(id) \in Level2
  BY <1>1, TypeParts, PartsOfId
<1>3. \A u \in Threads : \A id \in mine[u] : Slot(id) \in Owned(u)
  BY DEF Owned
<1>4. \A id \in mine[t] : IsOpen(Slot(id))
  BY <1>1, <1>3 DEF OwnersOK
<1>5. \A id \in mine[t] :
        /\ fMainTable[Level1Index(id)].fDatum[Level2Index(id)] \in Resources
        /\ fMainTable[Level1Index(id)] # Absent
  BY <1>4 DEF IsOpen, Slot
<1>6. \A id \in mine[t] : fMainTable[Level1Index(id)] \in SubTables
  BY <1>1, <1>2, <1>5, TypeParts
<1>7. \A id \in mine[t] : fMainTable[Level1Index(id)].fSerialNumber[Level2Index(id)] = Serial(id)
  BY <1>1 DEF OwnersOK
<1>8. \A u \in Threads : u # t => \A id \in mine[t], other \in mine[u] : Slot(id) # Slot(other)
  BY <1>1, <1>3 DEF OwnersOK
<1>9. \A id, other \in mine[t] : Slot(id) = Slot(other) => id = other
  <2> SUFFICES ASSUME NEW id \in mine[t], NEW other \in mine[t], Slot(id) = Slot(other)
               PROVE  id = other
    OBVIOUS
  <2>1. Level1Index(id) = Level1Index(other) /\ Level2Index(id) = Level2Index(other)
    BY DEF Slot
  <2>2. Serial(id) = Serial(other)
    BY <1>7, <2>1
  <2>3. /\ IdOf(Serial(id), Level1Index(id), Level2Index(id)) = id
        /\ IdOf(Serial(other), Level1Index(other), Level2Index(other)) = other
    BY <1>2, PartsOfId
  <2> QED
    BY <2>1, <2>2, <2>3
<1>10. ASSUME th[t].pc = "opened", NEW u \in Threads, NEW id \in mine[u]
       PROVE  Slot(id) # Slot(th[t].id)
  <2>1. CASE u = t
    BY <1>1, <1>10, <2>1 DEF OwnersOK
  <2>2. CASE u # t
    <3>1. Slot(th[t].id) \in Owned(t)
      BY <1>10 DEF Owned, Opening
    <3> QED
      BY <1>1, <1>3, <2>2, <3>1 DEF OwnersOK
  <2> QED
    BY <2>1, <2>2
<1> QED
  BY <1>2, <1>5, <1>6, <1>7, <1>8, <1>9, <1>10

\* The handle that a thread is opening has its place in the table too.
LEMMA OpenedParts ==
  ASSUME IInv, NEW t \in Threads, th[t].pc = "opened"
  PROVE  /\ Level1Index(th[t].id) \in Level1 /\ Level2Index(th[t].id) \in Level2
         /\ fMainTable[Level1Index(th[t].id)] \in SubTables
         /\ fMainTable[Level1Index(th[t].id)].fDatum[Level2Index(th[t].id)] \in Resources
         /\ fMainTable[Level1Index(th[t].id)] # Absent
<1>1. TypeOK /\ OwnersOK
  BY DEF IInv
<1>2. th[t].id \in Ids
  BY <1>1, TypeParts DEF ThreadType
<1>3. Level1Index(th[t].id) \in Level1 /\ Level2Index(th[t].id) \in Level2
  BY <1>2, PartsOfId
<1>4. Slot(th[t].id) \in Owned(t)
  BY DEF Owned, Opening
<1>5. IsOpen(Slot(th[t].id))
  BY <1>1, <1>4 DEF OwnersOK
<1>6. /\ fMainTable[Level1Index(th[t].id)].fDatum[Level2Index(th[t].id)] \in Resources
      /\ fMainTable[Level1Index(th[t].id)] # Absent
  BY <1>5 DEF IsOpen, Slot
<1>7. fMainTable[Level1Index(th[t].id)] \in SubTables
  BY <1>1, <1>3, <1>6, TypeParts
<1> QED
  BY <1>3, <1>6, <1>7

\* The sub table in which Open finds a handle is the first with a free one.
LEMMA CandidatesOK ==
  ASSUME IInv, crash = "no"
  PROVE  /\ Candidates # {} =>
              /\ Least(Candidates) \in Level1
              /\ fMainTable[Least(Candidates)] = Absent \/ HasFree(Least(Candidates))
              /\ \A m1 \in Level1 : m1 < Least(Candidates) => fMainTable[m1] # Absent /\ ~HasFree(m1)
         /\ Candidates = {} => \A m1 \in Level1 : fMainTable[m1] # Absent /\ ~HasFree(m1)
<1>1. TypeOK /\ HintOK
  BY DEF IInv
<1>2. PICK from, free : /\ from = {l1 \in Level1 : l1 >= fFreeHint}
                        /\ free = {l1 \in from : HasFree(l1)}
  OBVIOUS
<1>3. Candidates = IF free # {} THEN free ELSE {l1 \in from : fMainTable[l1] = Absent}
  BY <1>2 DEF Candidates
<1>4. Level1 \subseteq Nat /\ fFreeHint \in Nat
  BY <1>1, TypeParts, Sizes
<1>5. \A m1 \in Level1 : m1 \notin from => fMainTable[m1] # Absent /\ ~HasFree(m1)
  BY <1>1, <1>2, <1>4 DEF HintOK
<1>6. ASSUME Candidates = {}, NEW m1 \in Level1
      PROVE  fMainTable[m1] # Absent /\ ~HasFree(m1)
  BY <1>2, <1>3, <1>5, <1>6
<1>7. ASSUME Candidates # {}
      PROVE  /\ Least(Candidates) \in Level1
             /\ fMainTable[Least(Candidates)] = Absent \/ HasFree(Least(Candidates))
             /\ \A m1 \in Level1 : m1 < Least(Candidates) => fMainTable[m1] # Absent /\ ~HasFree(m1)
  <2>1. PICK C : C = Candidates
    OBVIOUS
  <2>2. C \subseteq Nat /\ C # {} /\ C \subseteq Level1
    BY <1>2, <1>3, <1>4, <1>7, <2>1
  <2>3. PICK least \in C : \A y \in C : least <= y
    BY <2>2, LeastNumber
  <2>4. Least(C) \in C /\ \A y \in C : Least(C) <= y
    BY <2>3 DEF Least
  <2>5. PICK l1 : l1 = Least(Candidates)
    OBVIOUS
  <2>6. l1 \in C /\ l1 \in Level1 /\ l1 \in Nat /\ \A y \in C : l1 <= y
    BY <1>4, <2>1, <2>2, <2>4, <2>5
  <2>7. fMainTable[l1] = Absent \/ HasFree(l1)
    BY <1>2, <1>3, <2>1, <2>6
  <2>8. ASSUME NEW m1 \in Level1, m1 < l1
        PROVE  fMainTable[m1] # Absent /\ ~HasFree(m1)
    <3>1. m1 \notin C
      BY <1>4, <2>6, <2>8
    <3>2. CASE m1 \notin from
      BY <1>5, <3>2
    <3>3. CASE m1 \in from /\ free = {}
      BY <1>2, <1>3, <2>1, <3>1, <3>3
    <3>4. CASE m1 \in from /\ free # {}
      <4>1. ~HasFree(m1)
        BY <1>2, <1>3, <2>1, <3>1, <3>4
      <4>2. HasFree(l1)
        BY <1>2, <1>3, <2>1, <2>6, <3>4
      <4>3. fMainTable[l1] # Absent
        BY <4>2 DEF HasFree
      <4>4. fMainTable[m1] # Absent
        BY <1>1, <2>6, <2>8, <4>3 DEF HintOK
      <4> QED
        BY <4>1, <4>4
    <3> QED
      BY <3>2, <3>3, <3>4
  <2> QED
    BY <2>5, <2>6, <2>7, <2>8
<1> QED
  BY <1>6, <1>7, Zenon

\* The map after a step that adds one identifier, or removes one.
LEMMA MapOpens ==
  ASSUME NEW id \in Ids, NEW r \in Resources,
         Lookup(id, OBJ_ANY) = Nothing, Lookup(id, OBJ_ANY)' = r,
         \A x \in Ids : x # id => Lookup(x, OBJ_ANY)' = Lookup(x, OBJ_ANY)
  PROVE  Map!Open(id, r)
<1>1. id \notin OpenIds /\ OpenIds' = OpenIds \cup {id}
  BY NothingIsNone DEF OpenIds
<1>2. \A x \in OpenIds : x \in Ids /\ x # id
  BY <1>1 DEF OpenIds
<1> QED
  BY <1>1, <1>2 DEF Map!Open

LEMMA MapCloses ==
  ASSUME NEW id \in Ids,
         Lookup(id, OBJ_ANY) # Nothing, Lookup(id, OBJ_ANY)' = Nothing,
         \A x \in Ids : x # id => Lookup(x, OBJ_ANY)' = Lookup(x, OBJ_ANY)
  PROVE  Map!Close(id)
<1>1. id \in OpenIds /\ OpenIds' = OpenIds \ {id}
  BY DEF OpenIds
<1>2. \A x \in OpenIds : x \in Ids
  BY DEF OpenIds
<1> QED
  BY <1>1, <1>2 DEF Map!Close

\* The map is a function of the table.
LEMMA MapStays ==
  ASSUME UNCHANGED fMainTable
  PROVE  UNCHANGED [id \in OpenIds |-> Lookup(id, OBJ_ANY)]
<1>1. \A id \in Ids : Lookup(id, OBJ_ANY)' = Lookup(id, OBJ_ANY)
  BY DEF Lookup, Level1Index, Level2Index, Serial
<1>2. OpenIds' = OpenIds
  BY <1>1 DEF OpenIds
<1> QED
  BY <1>1, <1>2 DEF OpenIds

\* An identifier stands for the resource in its handle, if its serial number is
\* the one of the handle.
Datum(l1, l2, serial) ==
  IF /\ fMainTable[l1] # Absent
     /\ fMainTable[l1].fSerialNumber[l2] = serial
     /\ fMainTable[l1].fDatum[l2] \in Resources
    THEN fMainTable[l1].fDatum[l2] ELSE Nothing

LookupIsDatum ==
  \A id \in Ids : Lookup(id, OBJ_ANY) = Datum(Level1Index(id), Level2Index(id), Serial(id))

LEMMA LookupIs == TypeOK => LookupIsDatum
<1> SUFFICES ASSUME TypeOK, NEW id \in Ids, NEW l1, NEW l2,
                    l1 = Level1Index(id), l2 = Level2Index(id)
             PROVE  Lookup(id, OBJ_ANY) = Datum(l1, l2, Serial(id))
  BY DEF LookupIsDatum
<1>l. l1 \in Level1 /\ l2 \in Level2
  BY PartsOfId
<1>1. CASE fMainTable[l1] = Absent
  BY <1>1 DEF Lookup, Datum
<1>2. CASE fMainTable[l1] # Absent
  <2>1. fMainTable[l1].fDatum[l2] \in Level2 \cup Resources
    <3>1. fMainTable[l1] \in SubTables
      BY <1>l, <1>2, TypeParts
    <3> QED
      BY <1>l, <3>1 DEF SubTables
  <2>2. ~IsFree(fMainTable[l1].fDatum[l2]) <=> fMainTable[l1].fDatum[l2] \in Resources
    BY <2>1, NothingIsNone DEF IsFree
  <2> QED
    BY <1>2, <2>2 DEF Lookup, Datum
<1> QED
  BY <1>1, <1>2

\* The identifiers of the other handles stand for what they did.
LEMMA OtherLookups ==
  ASSUME TypeOK, TypeOK', NEW l1 \in Level1, NEW l2 \in Level2, NEW new,
         OneHandleNew(l1, l2, new),
         \A x \in Level2 : x # l2 => new.fSerialNumber[x] = SubAt(l1).fSerialNumber[x],
         NEW id \in Ids
  PROVE  /\ Slot(id) # <<l1, l2>> => Lookup(id, OBJ_ANY)' = Lookup(id, OBJ_ANY)
         /\ Slot(id) = <<l1, l2>> =>
              Lookup(id, OBJ_ANY)' = IF new.fSerialNumber[l2] = Serial(id) /\ new.fDatum[l2] \in Resources
                                       THEN new.fDatum[l2] ELSE Nothing
<1>1. /\ fMainTable'[l1] = new /\ new # Absent
      /\ \A m1 \in Level1 : m1 # l1 => fMainTable'[m1] = fMainTable[m1]
  BY OneHandle
<1>2. PICK m1 \in Level1, m2 \in Level2, serial \in 0..(kSerialNumberCount - 1) :
        m1 = Level1Index(id) /\ m2 = Level2Index(id) /\ serial = Serial(id)
  BY PartsOfId
<1>3. Lookup(id, OBJ_ANY) = Datum(m1, m2, serial)
  BY <1>2, LookupIs DEF LookupIsDatum
<1>4. Lookup(id, OBJ_ANY)' =
        IF /\ fMainTable'[m1] # Absent
           /\ fMainTable'[m1].fSerialNumber[m2] = serial
           /\ fMainTable'[m1].fDatum[m2] \in Resources
          THEN fMainTable'[m1].fDatum[m2] ELSE Nothing
  <2>1. TypeOK' => LookupIsDatum'
    BY LookupIs, PTL
  <2> QED
    BY <1>2, <2>1 DEF LookupIsDatum, Datum, Level1Index, Level2Index, Serial
<1>5. ASSUME Slot(id) # <<l1, l2>>
      PROVE  Lookup(id, OBJ_ANY)' = Lookup(id, OBJ_ANY)
  <2>1. m1 # l1 \/ m2 # l2
    BY <1>2, <1>5 DEF Slot
  <2>2. CASE m1 # l1
    BY <1>1, <1>3, <1>4, <2>2 DEF Datum
  <2>3. CASE m1 = l1 /\ fMainTable[l1] # Absent
    <3>1. new.fDatum[m2] = fMainTable[l1].fDatum[m2] /\ new.fSerialNumber[m2] = fMainTable[l1].fSerialNumber[m2]
      BY <2>1, <2>3 DEF OneHandleNew, SubAt
    <3> QED
      BY <1>1, <1>3, <1>4, <2>3, <3>1 DEF Datum
  <2>4. CASE m1 = l1 /\ fMainTable[l1] = Absent
    <3>1. new.fDatum[m2] \notin Resources
      BY <2>1, <2>4, NewSubOK, NothingIsNone DEF OneHandleNew, SubAt
    <3> QED
      BY <1>1, <1>3, <1>4, <2>4, <3>1 DEF Datum
  <2> QED
    BY <2>2, <2>3, <2>4
<1>6. ASSUME Slot(id) = <<l1, l2>>
      PROVE  Lookup(id, OBJ_ANY)' = IF new.fSerialNumber[l2] = Serial(id) /\ new.fDatum[l2] \in Resources
                                       THEN new.fDatum[l2] ELSE Nothing
  <2>1. m1 = l1 /\ m2 = l2
    BY <1>2, <1>6 DEF Slot
  <2> QED
    BY <1>1, <1>2, <1>4, <2>1
<1> QED
  BY <1>5, <1>6

-----------------------------------------------------------------------------
(* The steps that change the table or its owners. *)

\* The table is full: the kernel stops.
LEMMA OpenFullOK ==
  ASSUME IInv, NEW t \in Threads, NEW r \in Resources, Open(t, r), Candidates = {}
  PROVE  IInv'
<1>1. TypeOK /\ crash = "no"
  BY DEF IInv, Open
<1>2. /\ fRefCount' = [fRefCount EXCEPT ![r] = @ + 1]
      /\ crash' = "table is full" /\ UNCHANGED <<fMainTable, fFreeHint, th, mine>>
  BY DEF Open
<1>3. fRefCount' \in [Resources -> Nat]
  <2>1. fRefCount \in [Resources -> Nat]
    BY <1>1, TypeParts, Zenon
  <2>2. fRefCount' = [fRefCount EXCEPT ![r] = fRefCount[r] + 1]
    BY <1>2
  <2>3. fRefCount[r] + 1 \in Nat
    BY <2>1
  <2> QED
    BY <2>1, <2>2, <2>3
<1>4. TypeOK'
  BY <1>1, <1>2, <1>3 DEF TypeOK
<1>5. SubsOK'
  BY <1>2 DEF IInv, SubsOK
<1>6. HintOK'
  <2>1. \A m1 \in Level1 : fMainTable[m1] # Absent /\ ~HasFree(m1)
    BY <1>1, CandidatesOK
  <2> QED
    BY <1>2, <2>1 DEF IInv, HintOK, HasFree
<1>7. OwnersOK'
  BY <1>2 DEF IInv, OwnersOK, Owned, Opening, IsOpen, Slot, Level1Index, Level2Index, Serial
<1>8. \A u \in Threads : ThreadOK(u)'
  BY <1>2 DEF IInv, ThreadOK, Level1Index, Level2Index
<1>9. RefsOK'
  BY <1>2 DEF RefsOK
<1> QED
  BY <1>2, <1>4, <1>5, <1>6, <1>7, <1>8, <1>9 DEF IInv

LEMMA OpenRoomOK ==
  ASSUME IInv, NEW t \in Threads, NEW r \in Resources, Open(t, r), Candidates # {}
  PROVE  IInv' /\ \E id \in Ids : Map!Open(id, r)
<1>1. TypeOK /\ ThreadOK(t) /\ SubsOK /\ HintOK /\ OwnersOK /\ crash = "no"
  BY DEF IInv, Open
<1>2. PICK l1 : l1 = Least(Candidates)
  OBVIOUS
<1>s. PICK sub : sub = SubAt(l1)
  OBVIOUS
<1>3. sub = IF fMainTable[l1] = Absent THEN SubTable ELSE fMainTable[l1]
  BY <1>s DEF SubAt
<1>4. PICK l2 : l2 = sub.fFirstFree
  OBVIOUS
<1>5. PICK new : new = Taken(sub, r)
  OBVIOUS
<1>6. /\ th[t].pc = "idle"
      /\ fRefCount' = [fRefCount EXCEPT ![r] = @ + 1]
      /\ fFreeHint' = l1
      /\ fMainTable' = [fMainTable EXCEPT ![l1] = new]
      /\ th' = [th EXCEPT ![t].pc = "opened", ![t].id = IdOf(0, l1, l2)]
      /\ crash' = crash /\ mine' = mine
  BY <1>2, <1>3, <1>4, <1>5 DEF Open, Taken
<1>7. /\ l1 \in Level1
      /\ fMainTable[l1] = Absent \/ HasFree(l1)
      /\ \A m1 \in Level1 : m1 < l1 => fMainTable[m1] # Absent /\ ~HasFree(m1)
  BY <1>1, <1>2, CandidatesOK
<1>8. sub \in SubTables /\ SubOK(sub) /\ sub.fFreeHandles > 0
  <2>1. CASE fMainTable[l1] = Absent
    BY <1>3, <2>1, NewSubOK
  <2>2. CASE fMainTable[l1] # Absent
    BY <1>1, <1>3, <1>7, <2>2, TypeParts DEF SubsOK, HasFree
  <2> QED
    BY <2>1, <2>2
<1>9. /\ new \in SubTables /\ SubOK(new)
      /\ l2 \in Level2 /\ sub.fDatum[l2] \in Level2
      /\ new.fSerialNumber = sub.fSerialNumber
      /\ new.fDatum[l2] = r
      /\ \A x \in Level2 : x # l2 => new.fDatum[x] = sub.fDatum[x]
  <2>1. /\ new \in SubTables /\ SubOK(new)
        /\ sub.fFirstFree \in Level2 /\ sub.fDatum[sub.fFirstFree] \in Level2
        /\ new.fSerialNumber = sub.fSerialNumber
        /\ new.fDatum[sub.fFirstFree] = r
        /\ \A x \in Level2 : x # sub.fFirstFree => new.fDatum[x] = sub.fDatum[x]
    BY ONLY r \in Resources, <1>5, <1>8, TakeOK
  <2> QED
    BY <1>4, <2>1, Zenon
<1>10. /\ fMainTable' \in [Level1 -> {Absent} \cup SubTables]
       /\ fMainTable'[l1] = new /\ new # Absent
       /\ \A m1 \in Level1 : m1 # l1 => fMainTable'[m1] = fMainTable[m1]
       /\ \A m1 \in Level1, m2 \in Level2 :
            /\ m1 # l1 \/ m2 # l2
            /\ fMainTable[m1] # Absent /\ fMainTable[m1].fDatum[m2] \in Resources
            => fMainTable'[m1] # Absent /\ fMainTable'[m1].fDatum[m2] = fMainTable[m1].fDatum[m2]
       /\ \A x \in Resources : new.fDatum[l2] = x => Held(x)' = Held(x) \cup {<<l1, l2>>}
       /\ \A x \in Resources : new.fDatum[l2] # x => Held(x)' = Held(x) \ {<<l1, l2>>}
  <2>1. TypeOK /\ l1 \in Level1 /\ l2 \in Level2
    BY <1>1, <1>7, <1>9
  <2>2. OneHandleNew(l1, l2, new)
    BY <1>s, <1>6, <1>9 DEF OneHandleNew
  <2> QED
    BY ONLY <2>1, <2>2, OneHandle, SMTT(40)
\* The handle that Open found belonged to nobody.
<1>11. ~(fMainTable[l1] # Absent /\ fMainTable[l1].fDatum[l2] \in Resources)
  <2>1. sub.fDatum[l2] \notin Resources
    BY <1>9, NothingIsNone
  <2> QED
    BY <1>3, <2>1
<1>12. PICK id \in Ids : /\ id = IdOf(0, l1, l2) /\ Level1Index(id) = l1 /\ Level2Index(id) = l2
  <2>1. 0 \in 0..(kSerialNumberCount - 1)
    BY Sizes
  <2> QED
    BY <1>7, <1>9, <2>1, IdParts
<1>13. PICK g : g = [th[t] EXCEPT !.pc = "opened", !.id = id]
  OBVIOUS
<1>14. th' = [th EXCEPT ![t] = g]
  BY <1>1, <1>6, <1>12, <1>13, TypeParts
<1>15. th[t].resource = Nothing /\ th[t].taken = Nothing
  BY <1>1, <1>6, IdleIs DEF ThreadOK
<1>16. /\ g \in ThreadType /\ g.pc = "opened" /\ g.id = id /\ g.resource = Nothing /\ g.taken = Nothing
  <2>1. th[t] \in ThreadType
    BY <1>1, TypeParts
  <2> QED
    BY <1>12, <1>13, <1>15, <2>1 DEF ThreadType
<1>17. /\ th' \in [Threads -> ThreadType] /\ th'[t] = g
       /\ \A u \in Threads : u # t => th'[u] = th[u]
  BY <1>1, <1>14, <1>16, OneThread
<1>18. TypeOK'
  <2>1. fRefCount' \in [Resources -> Nat]
    BY <1>1, <1>6, TypeParts
  <2> QED
    BY <1>1, <1>6, <1>7, <1>10, <1>17, <2>1 DEF TypeOK, ThreadType
<1>19. SubsOK'
  <2> SUFFICES ASSUME NEW m1 \in Level1, fMainTable'[m1] # Absent
               PROVE  SubOK(fMainTable'[m1])
    BY DEF SubsOK, SubOK, Free, IsFreeList, IsFree
  <2> QED
    BY <1>1, <1>9, <1>10 DEF SubsOK
<1>20. HintOK'
  <2>1. Level1 \subseteq Int
    BY Sizes
  <2>2. \A m1, m0 \in Level1 : m0 < m1 /\ fMainTable'[m1] # Absent => fMainTable'[m0] # Absent
    BY <1>1, <1>7, <1>10 DEF HintOK
  <2>3. \A m1 \in Level1 : m1 < l1 => fMainTable'[m1] # Absent /\ ~HasFree(m1)'
    BY <1>7, <1>10, <2>1 DEF HasFree
  <2> QED
    BY <1>1, <1>6, <2>2, <2>3 DEF HintOK
<1>21. OwnersOK'
  <2>1. Owned(t)' = Owned(t) \cup {<<l1, l2>>}
    <3>1. Opening(t) = {} /\ Opening(t)' = {<<l1, l2>>}
      BY <1>6, <1>12, <1>16, <1>17 DEF Opening, Slot, Level1Index, Level2Index
    <3> QED
      BY <1>6, <3>1 DEF Owned, Slot, Level1Index, Level2Index
  <2>2. ASSUME NEW u \in Threads, u # t
        PROVE  Owned(u)' = Owned(u)
    <3>1. Opening(u)' = Opening(u)
      BY <1>17, <2>2 DEF Opening, Slot, Level1Index, Level2Index
    <3> QED
      BY <1>6, <3>1 DEF Owned, Slot, Level1Index, Level2Index
  <2>3. ASSUME NEW u \in Threads, NEW h \in Owned(u)
        PROVE  h # <<l1, l2>> /\ IsOpen(h)'
    <3>1. IsOpen(h)
      BY <1>1, <2>3 DEF OwnersOK
    <3>2. h # <<l1, l2>>
      BY <1>11, <3>1 DEF IsOpen
    <3>3. PICK m1 \in Level1, m2 \in Level2 : h = <<m1, m2>>
      <4>1. CASE h \in Opening(u)
        <5>1. th[u].pc = "opened" /\ h = Slot(th[u].id)
          BY <4>1 DEF Opening
        <5> QED
          BY <5>1, OpenedParts DEF Slot
      <4>2. CASE h \notin Opening(u)
        BY <2>3, <4>2, OwnedParts DEF Owned, Slot
      <4> QED
        BY <4>1, <4>2
    <3>4. m1 # l1 \/ m2 # l2
      BY <3>2, <3>3
    <3>5. fMainTable[m1] # Absent /\ fMainTable[m1].fDatum[m2] \in Resources
      BY <3>1, <3>3 DEF IsOpen
    <3>6. fMainTable'[m1] # Absent /\ fMainTable'[m1].fDatum[m2] = fMainTable[m1].fDatum[m2]
      BY <1>10, <3>4, <3>5
    <3> QED
      BY <3>2, <3>3, <3>5, <3>6 DEF IsOpen
  <2>4. IsOpen(<<l1, l2>>)'
    BY <1>9, <1>10 DEF IsOpen
  <2>5. \A u \in Threads : \A h \in Owned(u)' : IsOpen(h)'
    BY <2>1, <2>2, <2>3, <2>4
  <2>6. \A u, v \in Threads : u # v => Owned(u)' \cap Owned(v)' = {}
    <3>1. \A u, v \in Threads : u # v => Owned(u) \cap Owned(v) = {}
      BY <1>1 DEF OwnersOK
    <3> QED
      BY <2>1, <2>2, <2>3, <3>1
  <2>7. \A u \in Threads : th'[u].pc = "opened" => \A x \in mine'[u] : Slot(x) # Slot(th'[u].id)
    <3>1. \A x \in mine[t] : Slot(x) # <<l1, l2>>
      BY <2>3 DEF Owned
    <3>2. Slot(id) = <<l1, l2>>
      BY <1>12 DEF Slot
    <3>3. \A u \in Threads : u # t /\ th[u].pc = "opened" => \A x \in mine[u] : Slot(x) # Slot(th[u].id)
      BY <1>1 DEF OwnersOK
    <3> QED
      BY <1>6, <1>16, <1>17, <3>1, <3>2, <3>3
  <2>8. ASSUME NEW u \in Threads, NEW x \in mine[u]
        PROVE  fMainTable'[Level1Index(x)].fSerialNumber[Level2Index(x)] = Serial(x)
    <3>1. /\ fMainTable[Level1Index(x)].fSerialNumber[Level2Index(x)] = Serial(x)
          /\ fMainTable[Level1Index(x)] # Absent /\ Level1Index(x) \in Level1
      BY <2>8, OwnedParts
    <3>2. CASE Level1Index(x) = l1
      BY <1>3, <1>9, <1>10, <3>1, <3>2
    <3>3. CASE Level1Index(x) # l1
      BY <1>10, <3>1, <3>3
    <3> QED
      BY <3>2, <3>3
  <2> QED
    BY <1>6, <2>5, <2>6, <2>7, <2>8 DEF OwnersOK, Slot, Level1Index, Level2Index, Serial
<1>22. \A u \in Threads : ThreadOK(u)'
  <2>1. ThreadOK(t)'
    BY <1>16, <1>17, NothingIsNone DEF ThreadOK
  <2>2. ASSUME NEW u \in Threads, u # t
        PROVE  ThreadOK(u)'
    <3>1. ThreadOK(u) /\ th'[u] = th[u]
      BY <1>17, <2>2 DEF IInv
    <3>2. ASSUME th[u].pc = "closing"
          PROVE  fMainTable'[Level1Index(th[u].id)].fDatum[Level2Index(th[u].id)] = th[u].resource
      <4>1. th[u].id \in mine[u]
        BY <3>1, <3>2 DEF ThreadOK
      <4>2. PICK m1 \in Level1, m2 \in Level2 : m1 = Level1Index(th[u].id) /\ m2 = Level2Index(th[u].id)
        BY <4>1, OwnedParts
      <4>3. fMainTable[m1] # Absent /\ fMainTable[m1].fDatum[m2] \in Resources
        BY <4>1, <4>2, OwnedParts
      <4>4. m1 # l1 \/ m2 # l2
        BY <1>11, <4>3
      <4>5. fMainTable'[m1].fDatum[m2] = fMainTable[m1].fDatum[m2]
        BY <1>10, <4>3, <4>4
      <4> QED
        BY <3>1, <3>2, <4>2, <4>5 DEF ThreadOK
    <3> QED
      BY <1>6, <3>1, <3>2 DEF ThreadOK, Level1Index, Level2Index
  <2> QED
    BY <2>1, <2>2
<1>23. RefsOK'
  <2> SUFFICES ASSUME NEW x \in Resources
               PROVE  fRefCount'[x] = Cardinality(Held(x))' + Cardinality(Users(x))' + Cardinality(Takers(x))'
    BY DEF RefsOK
  <2>1. fRefCount[x] = Cardinality(Held(x)) + Cardinality(Users(x)) + Cardinality(Takers(x))
    BY <1>1 DEF IInv, RefsOK
  <2>2. /\ Cardinality(Users(x)) \in Nat /\ Cardinality(Takers(x)) \in Nat
        /\ Cardinality(Users(x))' = Cardinality(Users(x))
        /\ Cardinality(Takers(x))' = Cardinality(Takers(x))
    <3>1. /\ Cardinality(Users(x)) \in Nat /\ Cardinality(Takers(x)) \in Nat
          /\ th[t].resource = x => Cardinality(Users(x)) > 0
          /\ th[t].taken = x => Cardinality(Takers(x)) > 0
          /\ Cardinality(Users(x))' = Cardinality(Users(x))
               + (IF g.resource = x THEN 1 ELSE 0) - (IF th[t].resource = x THEN 1 ELSE 0)
          /\ Cardinality(Takers(x))' = Cardinality(Takers(x))
               + (IF g.taken = x THEN 1 ELSE 0) - (IF th[t].taken = x THEN 1 ELSE 0)
      BY <1>1, <1>14, <1>16, Counted, ZenonT(60)
    <3>2. Nothing # x
      BY NothingIsNone
    <3> QED
      BY <1>15, <1>16, <3>1, <3>2
  <2>3. Cardinality(Held(x)) \in Nat /\ Cardinality(Held(x))' = Cardinality(Held(x)) + (IF r = x THEN 1 ELSE 0)
    <3>1. IsFiniteSet(Held(x)) /\ Cardinality(Held(x)) \in Nat
      BY HeldFinite
    <3>2. <<l1, l2>> \notin Held(x)
      BY <1>11 DEF Held
    <3>3. PICK H : H = Held(x)'
      OBVIOUS
    <3>4. CASE r = x
      <4>1. H = Held(x) \cup {<<l1, l2>>}
        BY <1>9, <1>10, <3>3, <3>4
      <4>2. Cardinality(H) = Cardinality(Held(x)) + 1
        BY <3>1, <3>2, <4>1, CountIn
      <4> QED
        BY <3>1, <3>3, <3>4, <4>2
    <3>5. CASE r # x
      <4>1. H = Held(x) \ {<<l1, l2>>}
        BY <1>9, <1>10, <3>3, <3>5
      <4>2. H = Held(x)
        BY <3>2, <4>1
      <4> QED
        BY <3>1, <3>3, <3>5, <4>2
    <3> QED
      BY <3>4, <3>5
  <2>4. fRefCount'[x] = fRefCount[x] + (IF r = x THEN 1 ELSE 0)
    BY <1>1, <1>6, TypeParts
  <2> QED
    BY <2>1, <2>2, <2>3, <2>4
<1>24. IInv'
  BY <1>1, <1>6, <1>18, <1>19, <1>20, <1>21, <1>22, <1>23 DEF IInv
<1>25. \E i \in Ids : Map!Open(i, r)
  <2>1. PICK serial \in 0..(kSerialNumberCount - 1) : serial = new.fSerialNumber[l2]
    BY <1>9 DEF SubTables
  <2>2. PICK i \in Ids : /\ i = IdOf(serial, l1, l2)
                         /\ Level1Index(i) = l1 /\ Level2Index(i) = l2 /\ Serial(i) = serial
    BY <1>7, <1>9, IdParts
  <2>3. OneHandleNew(l1, l2, new)
    BY <1>s, <1>6, <1>9 DEF OneHandleNew
  <2>4. \A x \in Level2 : x # l2 => new.fSerialNumber[x] = SubAt(l1).fSerialNumber[x]
    BY <1>s, <1>9
  <2>5. ASSUME NEW x \in Ids, x # i
        PROVE  Lookup(x, OBJ_ANY)' = Lookup(x, OBJ_ANY)
    <3>1. CASE Slot(x) # <<l1, l2>>
      BY <1>1, <1>7, <1>9, <1>18, <2>3, <2>4, <3>1, OtherLookups
    <3>2. CASE Slot(x) = <<l1, l2>>
      <4>1. Level1Index(x) = l1 /\ Level2Index(x) = l2
        BY <3>2 DEF Slot
      <4>2. Serial(x) # serial
        BY <2>2, <2>5, <4>1, PartsOfId
      <4>3. Lookup(x, OBJ_ANY)' = Nothing
        BY <1>1, <1>7, <1>9, <1>18, <2>1, <2>3, <2>4, <3>2, <4>2, OtherLookups
      <4>4. Lookup(x, OBJ_ANY) = Nothing
        BY <1>1, <1>11, <4>1, LookupIs DEF LookupIsDatum, Datum
      <4> QED
        BY <4>3, <4>4
    <3> QED
      BY <3>1, <3>2
  <2>6. Lookup(i, OBJ_ANY) = Nothing
    BY <1>1, <1>11, <2>2, LookupIs DEF LookupIsDatum, Datum
  <2>7. Lookup(i, OBJ_ANY)' = r
    <3>1. Slot(i) = <<l1, l2>>
      BY <2>2 DEF Slot
    <3> QED
      BY <1>1, <1>7, <1>9, <1>18, <2>1, <2>2, <2>3, <2>4, <3>1, OtherLookups
  <2>8. Map!Open(i, r)
    BY <2>5, <2>6, <2>7, MapOpens
  <2> QED
    BY <2>8
<1> QED
  BY <1>24, <1>25

\* The handle that a thread was opening is now one of its own.
LEMMA OpenReturnsOK ==
  ASSUME IInv, NEW t \in Threads, OpenReturns(t)
  PROVE  IInv'
<1>1. TypeOK /\ ThreadOK(t) /\ OwnersOK /\ th[t].pc = "opened" /\ crash = "no"
  BY DEF IInv, OpenReturns
<1>t. TypeOK
  BY <1>1
<1>2. PICK l1, l2, serial : /\ l1 = Level1Index(th[t].id) /\ l2 = Level2Index(th[t].id)
                            /\ serial = fMainTable[l1].fSerialNumber[l2]
  OBVIOUS
<1>3. PICK new : new = IdOf(serial, l1, l2)
  OBVIOUS
<1>4. /\ UNCHANGED <<fMainTable, fFreeHint, fRefCount, crash>>
      /\ mine' = [mine EXCEPT ![t] = mine[t] \cup {new}]
      /\ th' = [th EXCEPT ![t] = Idle]
  BY <1>2, <1>3 DEF OpenReturns
<1>5. /\ l1 \in Level1 /\ l2 \in Level2 /\ serial \in 0..(kSerialNumberCount - 1)
  <2>1. l1 \in Level1 /\ l2 \in Level2 /\ fMainTable[l1] \in SubTables
    BY <1>1, <1>2, OpenedParts
  <2> QED
    BY <1>2, <2>1 DEF SubTables
<1>6. /\ new \in Ids /\ Level1Index(new) = l1 /\ Level2Index(new) = l2 /\ Serial(new) = serial
  BY <1>3, <1>5, IdParts
<1>7. Slot(new) = Slot(th[t].id)
  BY <1>2, <1>6 DEF Slot
<1>8. PICK g : g = Idle
  OBVIOUS
<1>9. g \in ThreadType /\ g.pc = "idle" /\ g.resource = Nothing /\ g.taken = Nothing
  BY <1>8, IdleIs
<1>10. th' = [th EXCEPT ![t] = g]
  BY <1>4, <1>8
<1>11. /\ th' \in [Threads -> ThreadType] /\ th'[t] = g
       /\ \A u \in Threads : u # t => th'[u] = th[u]
  BY <1>1, <1>9, <1>10, OneThread
<1>12. /\ mine' \in [Threads -> SUBSET Ids] /\ mine'[t] = mine[t] \cup {new}
       /\ \A u \in Threads : u # t => mine'[u] = mine[u]
  <2>1. mine \in [Threads -> SUBSET Ids]
    BY <1>1, TypeParts
  <2> QED
    BY <1>4, <1>6, <2>1
<1>13. TypeOK'
  BY <1>1, <1>4, <1>11, <1>12 DEF TypeOK, ThreadType
<1>14. SubsOK' /\ HintOK' /\ (\A x : Held(x)' = Held(x)) /\ \A h : IsOpen(h)' <=> IsOpen(h)
  BY <1>4, SameTable
<1>15. OwnersOK'
  <2>1. ASSUME NEW u \in Threads
        PROVE  Owned(u)' = Owned(u)
    <3>1. CASE u = t
      <4>1. Opening(t) = {Slot(new)} /\ Opening(t)' = {}
        BY <1>1, <1>7, <1>9, <1>11 DEF Opening
      <4> QED
        BY <1>12, <3>1, <4>1 DEF Owned, Slot, Level1Index, Level2Index
    <3>2. CASE u # t
      <4>1. Opening(u)' = Opening(u)
        BY <1>11, <3>2 DEF Opening, Slot, Level1Index, Level2Index
      <4> QED
        BY <1>12, <3>2, <4>1 DEF Owned, Slot, Level1Index, Level2Index
    <3> QED
      BY <3>1, <3>2
  <2>2. /\ \A u \in Threads : \A h \in Owned(u)' : IsOpen(h)'
        /\ \A u, v \in Threads : u # v => Owned(u)' \cap Owned(v)' = {}
    BY <1>1, <1>14, <2>1 DEF OwnersOK
  <2>3. \A u \in Threads : th'[u].pc = "opened" => \A x \in mine'[u] : Slot(x) # Slot(th'[u].id)
    BY <1>1, <1>9, <1>11, <1>12 DEF OwnersOK
  <2>4. \A u \in Threads : \A x \in mine'[u] :
          fMainTable'[Level1Index(x)].fSerialNumber[Level2Index(x)] = Serial(x)
    <3>1. fMainTable'[Level1Index(new)].fSerialNumber[Level2Index(new)] = Serial(new)
      BY <1>2, <1>4, <1>6
    <3>2. \A u \in Threads : \A x \in mine[u] :
            fMainTable'[Level1Index(x)].fSerialNumber[Level2Index(x)] = Serial(x)
      BY <1>1, <1>4 DEF OwnersOK
    <3> QED
      BY <1>12, <3>1, <3>2
  <2> QED
    BY <2>2, <2>3, <2>4 DEF OwnersOK, Slot, Level1Index, Level2Index, Serial
<1>16. \A u \in Threads : ThreadOK(u)'
  <2>1. ThreadOK(t)'
    BY <1>8, <1>9, <1>11, NothingIsNone DEF ThreadOK, Idle
  <2>2. \A u \in Threads : u # t => ThreadOK(u)'
    BY <1>4, <1>11, <1>12 DEF IInv, ThreadOK, Level1Index, Level2Index
  <2> QED
    BY <2>1, <2>2
<1>17. RefsOK'
  <2> SUFFICES ASSUME NEW x \in Resources
               PROVE  fRefCount'[x] = Cardinality(Held(x))' + Cardinality(Users(x))' + Cardinality(Takers(x))'
    BY DEF RefsOK
  <2>1. fRefCount[x] = Cardinality(Held(x)) + Cardinality(Users(x)) + Cardinality(Takers(x))
    BY <1>1 DEF IInv, RefsOK
  <2>2. /\ Cardinality(Users(x))' = Cardinality(Users(x))
        /\ Cardinality(Takers(x))' = Cardinality(Takers(x))
    <3>1. /\ Cardinality(Users(x)) \in Nat /\ Cardinality(Takers(x)) \in Nat
          /\ th[t].resource = x => Cardinality(Users(x)) > 0
          /\ th[t].taken = x => Cardinality(Takers(x)) > 0
          /\ Cardinality(Users(x))' = Cardinality(Users(x))
               + (IF g.resource = x THEN 1 ELSE 0) - (IF th[t].resource = x THEN 1 ELSE 0)
          /\ Cardinality(Takers(x))' = Cardinality(Takers(x))
               + (IF g.taken = x THEN 1 ELSE 0) - (IF th[t].taken = x THEN 1 ELSE 0)
      BY <1>t, <1>9, <1>10, Counted, ZenonT(60)
    <3>2. Nothing # x
      BY NothingIsNone
    <3>3. th[t].resource # x /\ th[t].taken # x
      BY <1>1, NothingIsNone DEF ThreadOK
    <3> QED
      BY <1>9, <3>1, <3>2, <3>3
  <2>3. Cardinality(Held(x))' = Cardinality(Held(x))
    BY <1>14
  <2> QED
    BY <1>4, <2>1, <2>2, <2>3
<1> QED
  BY <1>1, <1>4, <1>13, <1>14, <1>15, <1>16, <1>17 DEF IInv

\* Close frees a handle that was open and that is nobody else's.
LEMMA CloseOK ==
  ASSUME IInv, NEW t \in Threads, Close(t)
  PROVE  IInv' /\ th[t].id \in Ids /\ Map!Close(th[t].id)
<1>t. TypeOK
  BY DEF IInv
<1>1. ThreadOK(t) /\ SubsOK /\ HintOK /\ OwnersOK /\ th[t].pc = "closing" /\ crash = "no"
  BY DEF IInv, Close
<1>2. PICK id, l1, l2 : id = th[t].id /\ l1 = Level1Index(id) /\ l2 = Level2Index(id)
  OBVIOUS
<1>3. PICK sub : sub = fMainTable[l1]
  OBVIOUS
<1>4. PICK new : new = Given(sub, l2)
  OBVIOUS
<1>5. PICK r : r = sub.fDatum[l2]
  OBVIOUS
<1>6. /\ fMainTable' = [fMainTable EXCEPT ![l1] = new]
      /\ fFreeHint' = IF l1 < fFreeHint THEN l1 ELSE fFreeHint
      /\ th' = [th EXCEPT ![t].pc = "closed", ![t].taken = r]
      /\ mine' = [u \in Threads |-> mine[u] \ {id}]
      /\ fRefCount' = fRefCount /\ crash' = crash
  BY <1>2, <1>3, <1>4, <1>5 DEF Close, Given
<1>7. /\ id \in mine[t] /\ id \in Ids /\ l1 \in Level1 /\ l2 \in Level2
      /\ sub \in SubTables /\ fMainTable[l1] # Absent /\ r \in Resources /\ th[t].resource = r
  <2>1. id \in mine[t] /\ fMainTable[l1].fDatum[l2] = th[t].resource
    BY <1>1, <1>2 DEF ThreadOK
  <2> QED
    BY <1>2, <1>3, <1>5, <2>1, OwnedParts
<1>8. SubOK(sub)
  BY <1>1, <1>3, <1>7 DEF SubsOK
<1>9. /\ new \in SubTables /\ SubOK(new)
      /\ new.fDatum[l2] \in Level2
      /\ \A x \in Level2 : x # l2 => /\ new.fDatum[x] = sub.fDatum[x]
                                     /\ new.fSerialNumber[x] = sub.fSerialNumber[x]
  <2>1. sub.fDatum[l2] \in Resources /\ l2 \in Level2 /\ sub \in SubTables
    BY <1>5, <1>7
  <2> QED
    BY ONLY <1>4, <1>8, <2>1, GiveOK, SMTT(40)
<1>10. /\ fMainTable' \in [Level1 -> {Absent} \cup SubTables]
       /\ fMainTable'[l1] = new /\ new # Absent
       /\ \A m1 \in Level1 : m1 # l1 => fMainTable'[m1] = fMainTable[m1]
       /\ \A m1 \in Level1, m2 \in Level2 :
            /\ m1 # l1 \/ m2 # l2
            /\ fMainTable[m1] # Absent /\ fMainTable[m1].fDatum[m2] \in Resources
            => fMainTable'[m1] # Absent /\ fMainTable'[m1].fDatum[m2] = fMainTable[m1].fDatum[m2]
       /\ \A x \in Resources : new.fDatum[l2] = x => Held(x)' = Held(x) \cup {<<l1, l2>>}
       /\ \A x \in Resources : new.fDatum[l2] # x => Held(x)' = Held(x) \ {<<l1, l2>>}
  <2>1. TypeOK /\ l1 \in Level1 /\ l2 \in Level2
    BY <1>t, <1>7
  <2>2. OneHandleNew(l1, l2, new)
    BY <1>3, <1>6, <1>7, <1>9 DEF OneHandleNew, SubAt
  <2> QED
    BY ONLY <2>1, <2>2, OneHandle, SMTT(40)
<1>11. /\ \A u \in Threads : mine'[u] = mine[u] \ {id}
       /\ mine' \in [Threads -> SUBSET Ids]
  BY <1>t, <1>6, TypeParts
\* The other handles of the threads are not the one that is closed.
<1>12. ASSUME NEW u \in Threads, NEW x \in mine'[u]
       PROVE  /\ x \in mine[u] /\ x # id /\ x \in Ids
              /\ Level1Index(x) \in Level1 /\ Level2Index(x) \in Level2
              /\ Level1Index(x) # l1 \/ Level2Index(x) # l2
              /\ fMainTable[Level1Index(x)] # Absent
              /\ fMainTable[Level1Index(x)].fDatum[Level2Index(x)] \in Resources
              /\ fMainTable[Level1Index(x)].fSerialNumber[Level2Index(x)] = Serial(x)
  <2>1. x \in mine[u] /\ x # id
    BY <1>11, <1>12
  <2>2. Slot(x) # Slot(id)
    BY <1>7, <2>1, OwnedParts
  <2> QED
    BY <1>2, <2>1, <2>2, OwnedParts DEF Slot
<1>13. PICK g : g = [th[t] EXCEPT !.pc = "closed", !.taken = r]
  OBVIOUS
<1>14. th' = [th EXCEPT ![t] = g]
  BY <1>t, <1>6, <1>13, TypeParts
<1>15. /\ g \in ThreadType /\ g.pc = "closed" /\ g.id = id /\ g.resource = r /\ g.taken = r
  <2>1. th[t] \in ThreadType
    BY <1>t, TypeParts
  <2> QED
    BY <1>2, <1>7, <1>13, <2>1 DEF ThreadType
<1>16. /\ th' \in [Threads -> ThreadType] /\ th'[t] = g
       /\ \A u \in Threads : u # t => th'[u] = th[u]
  BY <1>t, <1>14, <1>15, OneThread
<1>17. TypeOK'
  <2>1. fFreeHint' \in Level1
    BY <1>t, <1>6, <1>7, TypeParts
  <2> QED
    BY <1>t, <1>6, <1>10, <1>11, <1>16, <2>1 DEF TypeOK, ThreadType
<1>18. SubsOK'
  <2> SUFFICES ASSUME NEW m1 \in Level1, fMainTable'[m1] # Absent
               PROVE  SubOK(fMainTable'[m1])
    BY DEF SubsOK, SubOK, Free, IsFreeList, IsFree
  <2> QED
    BY <1>1, <1>9, <1>10 DEF SubsOK
<1>19. HintOK'
  <2>1. Level1 \subseteq Int /\ fFreeHint \in Level1
    <3>1. Level1 \subseteq Int
      BY Sizes
    <3>2. fFreeHint \in Level1
      BY <1>t, TypeParts
    <3> QED
      BY <3>1, <3>2
  <2>2. \A m1, m0 \in Level1 : m0 < m1 /\ fMainTable'[m1] # Absent => fMainTable'[m0] # Absent
    BY <1>1, <1>7, <1>10 DEF HintOK
  <2>3. ASSUME NEW m1 \in Level1, m1 < fFreeHint'
        PROVE  fMainTable'[m1] # Absent /\ ~HasFree(m1)'
    <3>1. m1 # l1 /\ m1 < fFreeHint
      BY <1>6, <1>7, <2>1, <2>3
    <3> QED
      BY <1>1, <1>10, <3>1 DEF HintOK, HasFree
  <2> QED
    BY <1>1, <1>6, <2>2, <2>3 DEF HintOK
<1>20. OwnersOK'
  <2>1. ASSUME NEW u \in Threads
        PROVE  Opening(u)' = Opening(u)
    BY <1>1, <1>15, <1>16 DEF Opening, Slot, Level1Index, Level2Index
  <2>2. ASSUME NEW u \in Threads, NEW h \in Owned(u)'
        PROVE  h \in Owned(u) /\ IsOpen(h)'
    <3>1. CASE h \in Opening(u)'
      <4>1. th[u].pc = "opened" /\ h = Slot(th[u].id)
        BY <2>1, <3>1 DEF Opening
      <4>2. PICK m1 \in Level1, m2 \in Level2 : m1 = Level1Index(th[u].id) /\ m2 = Level2Index(th[u].id)
        BY <4>1, OpenedParts
      <4>3. fMainTable[m1] # Absent /\ fMainTable[m1].fDatum[m2] \in Resources
        BY <4>1, <4>2, OpenedParts
      <4>4. Slot(id) # Slot(th[u].id)
        BY <1>7, <4>1, OwnedParts
      <4>5. m1 # l1 \/ m2 # l2
        BY <1>2, <4>2, <4>4 DEF Slot
      <4>6. fMainTable'[m1] # Absent /\ fMainTable'[m1].fDatum[m2] \in Resources
        BY <1>10, <4>3, <4>5
      <4> QED
        BY <2>1, <3>1, <4>1, <4>2, <4>6 DEF Owned, IsOpen, Slot
    <3>2. CASE h \notin Opening(u)'
      <4>1. PICK x \in mine'[u] : h = Slot(x)
        BY <2>2, <3>2 DEF Owned, Slot, Level1Index, Level2Index
      <4>2. PICK m1 \in Level1, m2 \in Level2 : m1 = Level1Index(x) /\ m2 = Level2Index(x)
        BY <1>12
      <4>3. /\ fMainTable[m1] # Absent /\ fMainTable[m1].fDatum[m2] \in Resources
            /\ m1 # l1 \/ m2 # l2
            /\ x \in mine[u]
        BY <1>12, <4>2
      <4>4. fMainTable'[m1] # Absent /\ fMainTable'[m1].fDatum[m2] \in Resources
        BY <1>10, <4>3
      <4> QED
        BY <4>1, <4>2, <4>3, <4>4 DEF Owned, IsOpen, Slot
    <3> QED
      BY <3>1, <3>2
  <2>3. \A u \in Threads : \A h \in Owned(u)' : IsOpen(h)'
    BY <2>2
  <2>4. \A u, v \in Threads : u # v => Owned(u)' \cap Owned(v)' = {}
    <3>1. \A u, v \in Threads : u # v => Owned(u) \cap Owned(v) = {}
      BY <1>1 DEF OwnersOK
    <3> QED
      BY <2>2, <3>1
  <2>5. \A u \in Threads : th'[u].pc = "opened" => \A x \in mine'[u] : Slot(x) # Slot(th'[u].id)
    BY <1>1, <1>11, <1>15, <1>16 DEF OwnersOK
  <2>6. ASSUME NEW u \in Threads, NEW x \in mine'[u]
        PROVE  fMainTable'[Level1Index(x)].fSerialNumber[Level2Index(x)] = Serial(x)
    <3>1. PICK m1 \in Level1, m2 \in Level2 : m1 = Level1Index(x) /\ m2 = Level2Index(x)
      BY <1>12
    <3>2. /\ fMainTable[m1].fSerialNumber[m2] = Serial(x)
          /\ m1 # l1 \/ m2 # l2
      BY <1>12, <3>1
    <3>3. fMainTable'[m1].fSerialNumber[m2] = Serial(x)
      BY <1>3, <1>9, <1>10, <3>2
    <3> QED
      BY <3>1, <3>3
  <2> QED
    BY <2>3, <2>4, <2>5, <2>6 DEF OwnersOK, Slot, Level1Index, Level2Index, Serial
<1>21. \A u \in Threads : ThreadOK(u)'
  <2>1. ThreadOK(t)'
    BY <1>7, <1>15, <1>16, NothingIsNone DEF ThreadOK
  <2>2. ASSUME NEW u \in Threads, u # t
        PROVE  ThreadOK(u)'
    <3>1. ThreadOK(u) /\ th'[u] = th[u]
      BY <1>16, <2>2 DEF IInv
    <3>2. ASSUME th[u].pc = "closing"
          PROVE  /\ th[u].id \in mine'[u]
                 /\ fMainTable'[Level1Index(th[u].id)].fDatum[Level2Index(th[u].id)] = th[u].resource
      <4>1. PICK x : x = th[u].id
        OBVIOUS
      <4>2. x \in mine[u] /\ fMainTable[Level1Index(x)].fDatum[Level2Index(x)] = th[u].resource
        BY <3>1, <3>2, <4>1 DEF ThreadOK
      <4>3. Slot(id) # Slot(x)
        BY <1>7, <2>2, <4>2, OwnedParts
      <4>4. x \in mine'[u]
        BY <1>11, <4>2, <4>3
      <4>5. PICK m1 \in Level1, m2 \in Level2 : m1 = Level1Index(x) /\ m2 = Level2Index(x)
        BY <1>12, <4>4
      <4>6. /\ fMainTable[m1] # Absent /\ fMainTable[m1].fDatum[m2] \in Resources
            /\ m1 # l1 \/ m2 # l2
        BY <1>12, <4>4, <4>5
      <4>7. fMainTable'[m1].fDatum[m2] = fMainTable[m1].fDatum[m2]
        BY <1>10, <4>6
      <4> QED
        BY <4>1, <4>2, <4>4, <4>5, <4>7
    <3> QED
      BY <3>1, <3>2 DEF ThreadOK, Level1Index, Level2Index
  <2> QED
    BY <2>1, <2>2
<1>22. RefsOK'
  <2> SUFFICES ASSUME NEW x \in Resources
               PROVE  fRefCount'[x] = Cardinality(Held(x))' + Cardinality(Users(x))' + Cardinality(Takers(x))'
    BY DEF RefsOK
  <2>1. fRefCount[x] = Cardinality(Held(x)) + Cardinality(Users(x)) + Cardinality(Takers(x))
    BY <1>1 DEF IInv, RefsOK
  <2>2. /\ Cardinality(Users(x)) \in Nat /\ Cardinality(Takers(x)) \in Nat
        /\ Cardinality(Users(x))' = Cardinality(Users(x))
        /\ Cardinality(Takers(x))' = Cardinality(Takers(x)) + (IF r = x THEN 1 ELSE 0)
    <3>1. /\ Cardinality(Users(x)) \in Nat /\ Cardinality(Takers(x)) \in Nat
          /\ th[t].resource = x => Cardinality(Users(x)) > 0
          /\ th[t].taken = x => Cardinality(Takers(x)) > 0
          /\ Cardinality(Users(x))' = Cardinality(Users(x))
               + (IF g.resource = x THEN 1 ELSE 0) - (IF th[t].resource = x THEN 1 ELSE 0)
          /\ Cardinality(Takers(x))' = Cardinality(Takers(x))
               + (IF g.taken = x THEN 1 ELSE 0) - (IF th[t].taken = x THEN 1 ELSE 0)
      BY <1>t, <1>14, <1>15, Counted, ZenonT(60)
    <3>2. th[t].taken # x
      BY <1>1, NothingIsNone DEF ThreadOK
    <3> QED
      BY <1>7, <1>15, <3>1, <3>2
  <2>3. Cardinality(Held(x)) \in Nat /\ Cardinality(Held(x))' = Cardinality(Held(x)) - (IF r = x THEN 1 ELSE 0)
    <3>1. IsFiniteSet(Held(x)) /\ Cardinality(Held(x)) \in Nat
      BY HeldFinite
    <3>2. <<l1, l2>> \in Held(x) <=> r = x
      BY <1>3, <1>5, <1>7 DEF Held
    <3>3. PICK H : H = Held(x)'
      OBVIOUS
    <3>4. H = Held(x) \ {<<l1, l2>>}
      <4>1. new.fDatum[l2] # x
        BY <1>9, NothingIsNone
      <4> QED
        BY <1>10, <3>3, <4>1
    <3>5. CASE r = x
      <4>1. Cardinality(H) = Cardinality(Held(x)) - 1
        BY <3>1, <3>2, <3>4, <3>5, CountOut
      <4> QED
        BY <3>1, <3>3, <3>5, <4>1
    <3>6. CASE r # x
      <4>1. H = Held(x)
        BY <3>2, <3>4, <3>6
      <4> QED
        BY <3>1, <3>3, <3>6, <4>1
    <3> QED
      BY <3>5, <3>6
  <2>4. fRefCount'[x] = fRefCount[x]
    BY <1>6
  <2> QED
    BY <2>1, <2>2, <2>3, <2>4
<1>23. IInv'
  BY <1>1, <1>6, <1>17, <1>18, <1>19, <1>20, <1>21, <1>22 DEF IInv
<1>24. Map!Close(id)
  <2>1. Slot(id) = <<l1, l2>> /\ sub.fSerialNumber[l2] = Serial(id)
    BY <1>2, <1>3, <1>7, OwnedParts DEF Slot
  <2>2. OneHandleNew(l1, l2, new)
    BY <1>3, <1>6, <1>7, <1>9 DEF OneHandleNew, SubAt
  <2>3. \A x \in Level2 : x # l2 => new.fSerialNumber[x] = SubAt(l1).fSerialNumber[x]
    BY <1>3, <1>7, <1>9 DEF SubAt
  <2>4. new.fDatum[l2] \notin Resources
    BY <1>9, NothingIsNone
  <2>5. ASSUME NEW x \in Ids, x # id
        PROVE  Lookup(x, OBJ_ANY)' = Lookup(x, OBJ_ANY)
    <3>1. CASE Slot(x) # <<l1, l2>>
      BY <1>t, <1>7, <1>17, <2>2, <2>3, <3>1, OtherLookups
    <3>2. CASE Slot(x) = <<l1, l2>>
      <4>1. Level1Index(x) = l1 /\ Level2Index(x) = l2
        BY <3>2 DEF Slot
      <4>2. Serial(x) # sub.fSerialNumber[l2]
        BY <1>2, <1>7, <2>1, <2>5, <4>1, PartsOfId
      <4>3. Lookup(x, OBJ_ANY)' = Nothing
        BY <1>t, <1>7, <1>17, <2>2, <2>3, <2>4, <3>2, OtherLookups
      <4>4. Lookup(x, OBJ_ANY) = Nothing
        BY <1>t, <1>3, <4>1, <4>2, LookupIs DEF LookupIsDatum, Datum
      <4> QED
        BY <4>3, <4>4
    <3> QED
      BY <3>1, <3>2
  <2>6. Lookup(id, OBJ_ANY) # Nothing
    BY <1>t, <1>2, <1>3, <1>5, <1>7, <2>1, LookupIs, NothingIsNone DEF LookupIsDatum, Datum
  <2>7. Lookup(id, OBJ_ANY)' = Nothing
    BY <1>t, <1>7, <1>17, <2>1, <2>2, <2>3, <2>4, OtherLookups
  <2> QED
    BY <1>7, <2>5, <2>6, <2>7, MapCloses
<1> QED
  BY <1>2, <1>7, <1>23, <1>24

\* A team whose table is empty and whose threads are idle.
LEMMA NewTeamOK == Init => IInv
<1> SUFFICES ASSUME Init
             PROVE  IInv
  OBVIOUS
<1>i. /\ fMainTable = [l1 \in Level1 |-> Absent] /\ fFreeHint = 0 /\ crash = "no"
      /\ fRefCount = [r \in Resources |-> 0] /\ mine = [t \in Threads |-> {}]
      /\ th = [t \in Threads |-> Idle]
  BY DEF Init
<1>1. \A l1 \in Level1 : fMainTable[l1] = Absent
  BY <1>i
<1>2. PICK g : g = Idle
  OBVIOUS
<1>3. g \in ThreadType /\ g.pc = "idle" /\ g.resource = Nothing /\ g.taken = Nothing
  BY <1>2, IdleIs
<1>4. th \in [Threads -> ThreadType] /\ \A t \in Threads : th[t] = g
  BY <1>i, <1>2, <1>3
<1>5. TypeOK
  <2>1. 0 \in Level1 /\ fMainTable \in [Level1 -> {Absent} \cup SubTables]
    BY <1>i, Sizes
  <2>2. fRefCount \in [Resources -> Nat] /\ mine \in [Threads -> SUBSET Ids]
    BY <1>i
  <2> QED
    BY <1>i, <1>4, <2>1, <2>2 DEF TypeOK, ThreadType
<1>6. SubsOK
  BY <1>1 DEF SubsOK
<1>7. HintOK
  BY <1>i, <1>1, Sizes DEF HintOK
<1>8. OwnersOK
  <2>1. \A t \in Threads : Owned(t) = {}
    BY <1>i, <1>3, <1>4 DEF Owned, Opening
  <2> QED
    BY <1>i, <1>3, <1>4, <2>1 DEF OwnersOK
<1>9. \A t \in Threads : ThreadOK(t)
  BY <1>i, <1>2, <1>3, <1>4, NothingIsNone DEF ThreadOK
<1>10. RefsOK
  <2> SUFFICES ASSUME NEW x \in Resources
               PROVE  fRefCount[x] = Cardinality(Held(x)) + Cardinality(Users(x)) + Cardinality(Takers(x))
    BY DEF RefsOK
  <2>1. Held(x) = {} /\ Users(x) = {} /\ Takers(x) = {}
    <3>1. Held(x) = {}
      BY <1>1 DEF Held
    <3>2. Nothing # x
      BY NothingIsNone
    <3>3. Users(x) = {} /\ Takers(x) = {}
      BY <1>3, <1>4, <3>2 DEF Users, Takers
    <3> QED
      BY <3>1, <3>3
  <2>2. Cardinality({}) = 0
    BY FS_EmptySet
  <2> QED
    BY <1>i, <2>1, <2>2
<1> QED
  BY <1>i, <1>5, <1>6, <1>7, <1>8, <1>9, <1>10 DEF IInv

\* The destructor has released every reference that was left.
LEMMA DestroyIsNewTeam ==
  ASSUME IInv, Destroy
  PROVE  Init'
<1>1. TypeOK /\ crash = "no" /\ \A t \in Threads : ThreadOK(t) /\ th[t].pc = "idle"
  BY DEF IInv, Destroy
<1>2. /\ fMainTable' = [l1 \in Level1 |-> Absent] /\ fFreeHint' = 0 /\ crash' = "no"
      /\ mine' = [t \in Threads |-> {}]
  BY DEF Destroy
<1>3. th' = [t \in Threads |-> Idle]
  <2>1. th' = th /\ \A t \in Threads : th[t] = Idle
    BY <1>1 DEF Destroy, ThreadOK
  <2>2. th \in [Threads -> ThreadType]
    BY <1>1, TypeParts
  <2> QED
    BY <2>1, <2>2
<1>4. ASSUME NEW r \in Resources
      PROVE  fRefCount[r] - Cardinality(Held(r)) = 0
  <2>1. fRefCount[r] = Cardinality(Held(r)) + Cardinality(Users(r)) + Cardinality(Takers(r))
    BY <1>1 DEF IInv, RefsOK
  <2>2. Users(r) = {} /\ Takers(r) = {}
    <3>1. \A t \in Threads : th[t].resource = Nothing /\ th[t].taken = Nothing
      BY <1>1, IdleIs DEF ThreadOK
    <3> QED
      BY <3>1, NothingIsNone DEF Users, Takers
  <2>3. Cardinality({}) = 0 /\ Cardinality(Held(r)) \in Nat
    BY FS_EmptySet, HeldFinite
  <2> QED
    BY <2>1, <2>2, <2>3
<1>5. fRefCount' = [r \in Resources |-> 0]
  <2>1. fRefCount' = [r \in Resources |-> fRefCount[r] - Cardinality(Held(r))]
    BY DEF Destroy
  <2> QED
    BY <1>4, <2>1
<1> QED
  BY <1>2, <1>3, <1>5 DEF Init, Idle

LEMMA DestroyOK == IInv /\ Destroy => IInv'
<1>1. IInv /\ Destroy => Init'
  BY DestroyIsNewTeam
<1>2. Init' => IInv'
  BY NewTeamOK, PTL
<1> QED
  BY <1>1, <1>2

\* What IInv depends on.
LEMMA NothingOK ==
  ASSUME IInv, UNCHANGED vars
  PROVE  IInv'
<1>1. UNCHANGED <<fMainTable, fFreeHint, fRefCount, th, mine, crash>>
  BY DEF vars
<1>2. TypeOK'
  BY <1>1 DEF IInv, TypeOK
<1>3. SubsOK' /\ HintOK' /\ OwnersOK'
  BY <1>1 DEF IInv, SubsOK, HintOK, HasFree, OwnersOK, Owned, Opening, IsOpen,
              Slot, Level1Index, Level2Index, Serial
<1>4. \A t \in Threads : ThreadOK(t)'
  BY <1>1 DEF IInv, ThreadOK, Level1Index, Level2Index
<1>5. RefsOK'
  BY <1>1 DEF IInv, RefsOK, Held, Users, Takers
<1> QED
  BY <1>1, <1>2, <1>3, <1>4, <1>5 DEF IInv

-----------------------------------------------------------------------------
(* Every step. *)

handles == [id \in OpenIds |-> Lookup(id, OBJ_ANY)]

LEMMA DestroyEmpties ==
  ASSUME IInv, Destroy
  PROVE  Map!CloseAll
<1>1. \A l1 \in Level1 : fMainTable'[l1] = Absent
  BY DEF Destroy
<1>2. \A id \in Ids : Lookup(id, OBJ_ANY)' = Nothing
  BY <1>1, PartsOfId DEF Lookup, Level1Index, Level2Index, Serial
<1>3. OpenIds' = {}
  BY <1>2 DEF OpenIds
<1> QED
  BY <1>3 DEF Map!CloseAll

LEMMA StepOK ==
  ASSUME ~Shared, IInv, [Next]_vars
  PROVE  IInv' /\ [Map!Next]_handles
<1>1. ASSUME NEW t \in Threads, NEW r \in Resources, Open(t, r)
      PROVE  IInv' /\ [Map!Next]_handles
  <2>1. CASE Candidates = {}
    <3>1. UNCHANGED fMainTable
      BY <1>1, <2>1 DEF Open
    <3> QED
      BY <1>1, <2>1, <3>1, OpenFullOK, MapStays DEF handles
  <2>2. CASE Candidates # {}
    <3>1. IInv' /\ \E id \in Ids : Map!Open(id, r)
      BY <1>1, <2>2, OpenRoomOK
    <3> QED
      BY <3>1 DEF Map!Next
  <2> QED
    BY <2>1, <2>2
<1>2. ASSUME NEW t \in Threads, OpenReturns(t)
      PROVE  IInv' /\ [Map!Next]_handles
  <2>1. UNCHANGED fMainTable
    BY <1>2 DEF OpenReturns
  <2> QED
    BY <1>2, <2>1, OpenReturnsOK, MapStays DEF handles
<1>3. ASSUME NEW t \in Threads, Release(t)
      PROVE  IInv' /\ [Map!Next]_handles
  <2>1. UNCHANGED fMainTable
    BY <1>3 DEF Release
  <2> QED
    BY <1>3, <2>1, ReleaseOK, MapStays DEF handles
<1>4. ASSUME NEW t \in Threads, Close(t)
      PROVE  IInv' /\ [Map!Next]_handles
  <2>1. IInv' /\ th[t].id \in Ids /\ Map!Close(th[t].id)
    BY <1>4, CloseOK
  <2> QED
    BY <2>1 DEF Map!Next
<1>5. ASSUME NEW t \in Threads, CloseRelease(t)
      PROVE  IInv' /\ [Map!Next]_handles
  <2>1. UNCHANGED fMainTable
    BY <1>5 DEF CloseRelease
  <2> QED
    BY <1>5, <2>1, CloseReleaseOK, MapStays DEF handles
<1>6. ASSUME NEW t \in Threads, NEW id \in Ids, CloseHandle(t, id)
      PROVE  IInv' /\ [Map!Next]_handles
  <2>1. id \in mine[t] /\ GetResource(t, id, OBJ_ANY, "closing")
    BY <1>6 DEF CloseHandle
  <2>2. UNCHANGED fMainTable
    BY <2>1 DEF GetResource
  <2>3. IInv'
    BY <2>1, GetResourceOK
  <2> QED
    BY <2>2, <2>3, MapStays DEF handles
<1>7. ASSUME NEW t \in Threads, NEW id \in Ids, NEW ty \in Types \cup {OBJ_ANY}, Use(t, id, ty)
      PROVE  IInv' /\ [Map!Next]_handles
  <2>1. GetResource(t, id, ty, "using")
    BY <1>7 DEF Use
  <2>2. UNCHANGED fMainTable
    BY <2>1 DEF GetResource
  <2>3. IInv'
    BY <2>1, GetResourceOK
  <2> QED
    BY <2>2, <2>3, MapStays DEF handles
<1>8. ASSUME Destroy
      PROVE  IInv' /\ [Map!Next]_handles
  <2>1. IInv'
    BY <1>8, DestroyOK
  <2>2. Map!CloseAll
    BY <1>8, DestroyEmpties
  <2> QED
    BY <2>1, <2>2 DEF Map!Next
<1>9. ASSUME UNCHANGED vars
      PROVE  IInv' /\ [Map!Next]_handles
  <2>1. UNCHANGED fMainTable
    BY <1>9 DEF vars
  <2> QED
    BY <1>9, <2>1, NothingOK, MapStays DEF handles
<1>10. CASE Next
  <2>1. CASE \E t \in Threads :
               \/ \E r \in Resources : Open(t, r)
               \/ OpenReturns(t) \/ Release(t) \/ Close(t) \/ CloseRelease(t)
               \/ \E id \in Ids : CloseHandle(t, id) \/ \E ty \in Types \cup {OBJ_ANY} : Use(t, id, ty)
    BY <2>1, <1>1, <1>2, <1>3, <1>4, <1>5, <1>6, <1>7
  <2>2. CASE Destroy
    BY <2>2, <1>8
  <2> QED
    BY <1>10, <2>1, <2>2 DEF Next
<1> QED
  BY <1>9, <1>10

-----------------------------------------------------------------------------
(* The theorems, for threads that close their own handles. *)

\* IInv holds in every state: an open handle belongs to one thread, the list of
\* free handles of each sub table has every free handle once, and Close always
\* meets a handle that is open.  HandleTable::Close checks none of that.
THEOREM HandleTableInvariant ==
  ASSUME ~Shared
  PROVE  Spec => []IInv
<1>1. Init => IInv
  BY NewTeamOK
<1>2. IInv /\ [Next]_vars => IInv'
  BY StepOK
<1> QED
  BY <1>1, <1>2, PTL DEF Spec

\* A resource has one reference for each open handle, for each thread that uses
\* it and for each that is about to release it: Open, GetResource, Close and
\* ReleaseRef count to zero exactly when nothing is left that uses the resource.
THEOREM HandleTableRefCounts ==
  ASSUME ~Shared
  PROVE  Spec => []RefCounts
<1>1. IInv => RefCounts
  BY DEF IInv, RefCounts, RefsOK, Users, Takers
<1> QED
  BY <1>1, HandleTableInvariant, PTL

\* Open finds a handle as long as there is one: the free handles are exactly
\* those of the lists, as many as fFreeHandles says, none of them below fFreeHint.
THEOREM HandleTableFreeHandlesFound ==
  ASSUME ~Shared
  PROVE  Spec => []FreeHandlesFound
<1>1. IInv => FreeHandlesFound
  <2> SUFFICES ASSUME IInv
               PROVE  FreeHandlesFound
    OBVIOUS
  <2>1. ASSUME NEW l1 \in Level1, fMainTable[l1] # Absent
        PROVE  SubOK(fMainTable[l1])
    BY <2>1 DEF IInv, SubsOK
  <2>2. \A l1 \in Level1 : l1 < fFreeHint => fMainTable[l1] # Absent /\ ~HasFree(l1)
    BY DEF IInv, HintOK
  <2>3. crash = "table is full" => \A l1 \in Level1 : fMainTable[l1] # Absent /\ ~HasFree(l1)
    BY DEF IInv, HintOK
  <2> QED
    BY <2>1, <2>2, <2>3 DEF FreeHandlesFound, SubOK
<1> QED
  BY <1>1, HandleTableInvariant, PTL

\* Close removes the resource that close_handle found (HandleTable.h), when the
\* handle is the thread's own; handles_shared shows that it need not otherwise.
THEOREM HandleTableClosesWhatItFound ==
  ASSUME ~Shared
  PROVE  Spec => []ClosesWhatItFound
<1>1. IInv => ClosesWhatItFound
  BY DEF IInv, ThreadOK, ClosesWhatItFound
<1> QED
  BY <1>1, HandleTableInvariant, PTL

\* The table with its serial numbers, lists and hint is a map from identifiers to
\* resources: Open uses an identifier that stands for nothing, Close removes the
\* one it was given, and an identifier that was closed stands for nothing.
THEOREM HandleTableImplements ==
  ASSUME ~Shared
  PROVE  Spec => Implements
<1>1. Init => Map!Init
  <2> SUFFICES ASSUME Init
               PROVE  Map!Init
    OBVIOUS
  <2>1. \A l1 \in Level1 : fMainTable[l1] = Absent
    BY DEF Init
  <2>2. \A id \in Ids : Lookup(id, OBJ_ANY) = Nothing
    BY <2>1, PartsOfId DEF Lookup
  <2>3. OpenIds = {}
    BY <2>2 DEF OpenIds
  <2> QED
    BY <2>3 DEF Map!Init
<1>2. IInv /\ [Next]_vars => [Map!Next]_handles
  BY StepOK
<1> QED
  BY <1>1, <1>2, HandleTableInvariant, PTL DEF Spec, Implements, Map!Spec, handles
=============================================================================
