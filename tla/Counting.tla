------------------------------ MODULE Counting -------------------------------
(***************************************************************************)
(* Facts about numbers of things that the proofs of several components     *)
(* need: how the size of a finite set changes with one element, that a     *)
(* set of natural numbers has a least one, and what a queue lists, and in  *)
(* what order, when one is queued, taken or unlinked.  The least number    *)
(* stands in for induction where a step has to start from the first of     *)
(* something.                                                              *)
(***************************************************************************)
EXTENDS Integers, Sequences, FiniteSets, SequencesExt, FiniteSetTheorems, SequenceTheorems,
        WellFoundedInduction, TLAPS

\* One element more.
LEMMA CountIn ==
  ASSUME NEW S, IsFiniteSet(S), NEW x, x \notin S
  PROVE  /\ IsFiniteSet(S \cup {x})
         /\ Cardinality(S \cup {x}) = Cardinality(S) + 1
         /\ Cardinality(S) \in Nat
  BY FS_AddElement, FS_CardinalityType

\* One element less.
LEMMA CountOut ==
  ASSUME NEW S, IsFiniteSet(S), NEW x \in S
  PROVE  /\ IsFiniteSet(S \ {x})
         /\ Cardinality(S \ {x}) = Cardinality(S) - 1
         /\ Cardinality(S) \in Nat
         /\ Cardinality(S) > 0
<1>1. IsFiniteSet(S \ {x}) /\ Cardinality(S \ {x}) = Cardinality(S) - 1
  BY FS_RemoveElement, Zenon
<1>2. Cardinality(S) \in Nat /\ Cardinality(S \ {x}) \in Nat
  BY <1>1, FS_CardinalityType
<1> QED
  BY <1>1, <1>2

\* Two elements make a set of at least two.
LEMMA CountTwo ==
  ASSUME NEW S, IsFiniteSet(S), NEW x \in S, NEW y \in S, x # y
  PROVE  Cardinality(S) > 1
<1>1. IsFiniteSet(S \ {x}) /\ Cardinality(S \ {x}) = Cardinality(S) - 1 /\ Cardinality(S) \in Nat
  BY CountOut
<1>2. y \in S \ {x}
  OBVIOUS
<1>3. Cardinality(S \ {x}) > 0
  BY <1>1, <1>2, CountOut
<1> QED
  BY <1>1, <1>3

\* Two sets that have nothing in common.
LEMMA CountBoth ==
  ASSUME NEW S, IsFiniteSet(S), NEW T, IsFiniteSet(T), S \cap T = {}
  PROVE  /\ IsFiniteSet(S \cup T)
         /\ Cardinality(S \cup T) = Cardinality(S) + Cardinality(T)
         /\ Cardinality(S) \in Nat /\ Cardinality(T) \in Nat
<1>1. Cardinality(S) \in Nat /\ Cardinality(T) \in Nat
  BY FS_CardinalityType
<1>2. IsFiniteSet(S \cup T) /\ Cardinality(S \cup T) = Cardinality(S) + Cardinality(T) - Cardinality(S \cap T)
  BY FS_Union
<1>3. Cardinality(S \cap T) = 0
  BY FS_EmptySet, Zenon
<1> QED
  BY <1>1, <1>2, <1>3

\* The least of some natural numbers: the finite sets 1..n are well-founded by
\* inclusion.
LEMMA LeastNumber ==
  ASSUME NEW T \in SUBSET Nat, T # {}
  PROVE  \E x \in T : \A y \in T : x <= y
<1> DEFINE R == StrictSubsetOrdering(Nat)
           U == {1..n : n \in T}
<1>1. IsWellFoundedOn(R, FiniteSubsetsOf(Nat))
  BY FS_StrictSubsetOrderingWellFounded
<1>2. \A n \in Nat : 1..n \in FiniteSubsetsOf(Nat)
  BY FS_Interval DEF FiniteSubsetsOf
<1>3. U \subseteq FiniteSubsetsOf(Nat) /\ U # {}
  BY <1>2
<1>4. PICK b \in U : \A c \in U : ~(<<c, b>> \in R)
  <2> HIDE DEF U, R
  <2> QED
    BY <1>1, <1>3, WFMin
<1>5. PICK x \in T : b = 1..x
  OBVIOUS
<1>6. ASSUME NEW y \in T, y < x
      PROVE  FALSE
  <2>1. x \in 1..x /\ x \notin 1..y /\ 1..y \subseteq 1..x
    BY <1>6
  <2>2. <<1..y, 1..x>> \in R
    BY <2>1, <1>2 DEF StrictSubsetOrdering
  <2> QED
    BY <2>2, <1>4, <1>5
<1> QED
  BY <1>6

\* And every nonempty set of numbers that has a bound has a greatest one.
LEMMA GreatestNumber ==
  ASSUME NEW T \in SUBSET Int, T # {}, NEW bound \in Int, \A y \in T : y <= bound
  PROVE  \E x \in T : \A y \in T : x >= y
<1> DEFINE U == {bound - y : y \in T}
<1>1. U \in SUBSET Nat /\ U # {}
  <2>1. \A y \in T : bound - y \in Nat
    OBVIOUS
  <2>2. PICK y \in T : TRUE
    OBVIOUS
  <2>3. bound - y \in U
    OBVIOUS
  <2> QED
    BY <2>1, <2>3
<1>2. PICK u \in U : \A v \in U : u <= v
  BY <1>1, LeastNumber
<1>3. PICK x \in T : u = bound - x
  OBVIOUS
<1>4. ASSUME NEW y \in T
      PROVE  x >= y
  <2>1. u <= bound - y
    BY <1>2
  <2> QED
    BY <1>3, <2>1
<1> QED
  BY <1>4

-----------------------------------------------------------------------------
(* Remainders. *)

\* A remainder is below the divisor, and what is below it is its own remainder.
LEMMA Remainder ==
  ASSUME NEW m \in Nat \ {0}, NEW n \in Int
  PROVE  n % m \in 0..(m - 1) /\ (n \in 0..(m - 1) => n % m = n)
  OBVIOUS

\* A multiple is the product of its quotient.
LEMMA Multiple ==
  ASSUME NEW m \in Nat \ {0}, NEW n \in Nat, n % m = 0
  PROVE  (n \div m) * m = n
  OBVIOUS

\* A number in the same block of m as a multiple of m is below the next multiple.
LEMMA SameBlock ==
  ASSUME NEW m \in Nat \ {0}, NEW x \in Nat, NEW y \in Nat, x \div m = y \div m, y % m = 0
  PROVE  x < y + m
<1>1. x = (x \div m) * m + (x % m) /\ x % m < m /\ x % m \in Nat
  OBVIOUS
<1>2. (y \div m) * m = y
  BY Multiple
<1> QED
  BY <1>1, <1>2

\* Between two multiples of m there is at least m.
LEMMA NextMultiple ==
  ASSUME NEW m \in Nat \ {0}, NEW y \in Nat, NEW z \in Nat, y % m = 0, z % m = 0, y < z
  PROVE  y + m <= z
<1>1. PICK q \in Int : q = y \div m /\ q * m = y
  BY Multiple
<1>2. PICK r \in Int : r = z \div m /\ r * m = z
  BY Multiple
<1>3. q < r
  <2>1. SUFFICES ASSUME r <= q
                 PROVE  FALSE
    OBVIOUS
  <2>2. r * m <= q * m
    BY <2>1
  <2> QED
    BY <1>1, <1>2, <2>2
<1>4. (q + 1) * m <= r * m
  BY <1>3
<1>5. (q + 1) * m = q * m + m
  OBVIOUS
<1> QED
  BY <1>1, <1>2, <1>4, <1>5

\* Quotient and remainder.
LEMMA DivMod ==
  ASSUME NEW m \in Nat \ {0}, NEW q \in Int, NEW r \in 0..(m - 1), NEW n \in Int, n = q * m + r
  PROVE  n \div m = q /\ n % m = r
  OBVIOUS

LEMMA QuotientRemainder ==
  ASSUME NEW m \in Nat \ {0}, NEW n \in Nat
  PROVE  /\ n \div m \in Nat /\ n % m \in 0..(m - 1)
         /\ n = (n \div m) * m + (n % m)
  OBVIOUS

-----------------------------------------------------------------------------
(* Queues. *)

\* The sequence q lists every member of S once and nothing else.
Once(q, S) ==
  /\ q \in Seq(S)
  /\ \A i, j \in 1..Len(q) : q[i] = q[j] => i = j
  /\ \A t \in S : \E i \in 1..Len(q) : q[i] = t

\* A queue is empty when nothing is to be listed.
LEMMA OnceEmpty ==
  ASSUME NEW q, NEW S, Once(q, S)
  PROVE  q = << >> <=> S = {}
<1>1. ASSUME S = {} PROVE q = << >>
  <2>1. Len(q) \in Nat /\ \A i \in 1..Len(q) : q[i] \in S
    BY DEF Once
  <2>2. Len(q) = 0
    BY <2>1, <1>1
  <2> QED
    BY <2>2, EmptySeq DEF Once
<1>2. ASSUME q = << >> PROVE S = {}
  BY <1>2 DEF Once
<1> QED
  BY <1>1, <1>2

\* One thread is queued behind the others.
LEMMA OnceAppend ==
  ASSUME NEW q, NEW S, Once(q, S), NEW t, t \notin S
  PROVE  Once(Append(q, t), S \cup {t})
<1> DEFINE a == Append(q, t)
<1>1. /\ q \in Seq(S) /\ Len(q) \in Nat
      /\ \A i \in 1..Len(q) : q[i] \in S
  BY DEF Once
<1>2. q \in Seq(S \cup {t})
  BY <1>1
<1>3. /\ a \in Seq(S \cup {t})
      /\ Len(a) = Len(q) + 1
      /\ \A i \in 1..Len(q) : a[i] = q[i]
      /\ a[Len(q) + 1] = t
  BY <1>2, <1>1
<1> HIDE DEF a
<1>4. \A i \in 1..Len(a) : i \in 1..Len(q) \/ i = Len(q) + 1
  BY <1>1, <1>3
<1>5. ASSUME NEW i \in 1..Len(a), NEW j \in 1..Len(a), a[i] = a[j] PROVE i = j
  <2>1. CASE i \in 1..Len(q) /\ j \in 1..Len(q)
    BY <2>1, <1>3, <1>5 DEF Once
  <2>2. CASE i \in 1..Len(q) /\ j = Len(q) + 1
    BY <2>2, <1>1, <1>3, <1>5
  <2>3. CASE j \in 1..Len(q) /\ i = Len(q) + 1
    BY <2>3, <1>1, <1>3, <1>5
  <2> QED
    BY <2>1, <2>2, <2>3, <1>4
<1>6. ASSUME NEW u \in S \cup {t} PROVE \E i \in 1..Len(a) : a[i] = u
  <2>1. CASE u = t
    BY <2>1, <1>1, <1>3
  <2>2. CASE u \in S
    <3>1. PICK i \in 1..Len(q) : q[i] = u
      BY <2>2 DEF Once
    <3>2. i \in 1..Len(a) /\ a[i] = u
      BY <3>1, <1>1, <1>3
    <3> QED
      BY <3>2
  <2> QED
    BY <2>1, <2>2
<1>7. Once(a, S \cup {t})
  BY <1>3, <1>5, <1>6 DEF Once
<1> QED
  BY <1>7 DEF a

\* The first thread is taken.
LEMMA OnceTail ==
  ASSUME NEW q, NEW S, Once(q, S), q # << >>
  PROVE  /\ Head(q) \in S
         /\ Once(Tail(q), S \ {Head(q)})
<1> DEFINE a == Tail(q)  h == Head(q)
<1>1. /\ q \in Seq(S) /\ Len(q) \in Nat
      /\ \A i \in 1..Len(q) : q[i] \in S
      /\ \A i, j \in 1..Len(q) : q[i] = q[j] => i = j
  BY DEF Once
<1>2. Len(q) > 0
  BY <1>1, EmptySeq
<1>3. /\ a \in Seq(S) /\ Len(a) = Len(q) - 1 /\ h = q[1]
      /\ \A i \in 1..Len(a) : a[i] = q[i + 1]
  BY <1>1, <1>2
<1> HIDE DEF a, h
<1>4. h \in S
  BY <1>1, <1>2, <1>3
<1>5. \A i \in 1..Len(a) : i + 1 \in 1..Len(q) /\ i + 1 # 1 /\ i \in Int
  BY <1>1, <1>2, <1>3
<1>6. 1 \in 1..Len(q)
  BY <1>1, <1>2
<1>7. \A i \in 1..Len(a) : a[i] \in S \ {h}
  <2> TAKE i \in 1..Len(a)
  <2>1. i + 1 \in 1..Len(q) /\ i + 1 # 1
    BY <1>5
  <2>2. q[i + 1] # q[1]
    BY <2>1, <1>1, <1>6
  <2> QED
    BY <2>1, <2>2, <1>1, <1>3
<1>8. a \in Seq(S \ {h})
  BY <1>3, <1>7, ElementOfSeq, SeqDef, LenProperties
<1>9. ASSUME NEW i \in 1..Len(a), NEW j \in 1..Len(a), a[i] = a[j] PROVE i = j
  <2>1. i + 1 = j + 1
    BY <1>9, <1>5, <1>1, <1>3
  <2> QED
    BY <2>1, <1>5
<1>10. ASSUME NEW u \in S \ {h} PROVE \E i \in 1..Len(a) : a[i] = u
  <2>1. PICK k \in 1..Len(q) : q[k] = u
    BY DEF Once
  <2>2. k # 1
    BY <2>1, <1>3
  <2>3. k - 1 \in 1..Len(a) /\ (k - 1) + 1 = k
    BY <2>2, <1>1, <1>3
  <2>4. a[k - 1] = u
    BY <2>3, <2>1, <1>3
  <2> QED
    BY <2>3, <2>4
<1>11. Once(a, S \ {h})
  BY <1>8, <1>9, <1>10 DEF Once
<1> QED
  BY <1>4, <1>11 DEF a, h

\* How often a thread is in the queue.
LEMMA OnceCount ==
  ASSUME NEW q, NEW S, Once(q, S), NEW t
  PROVE  /\ t \in S => Cardinality({i \in 1..Len(q) : q[i] = t}) = 1
         /\ t \notin S => Cardinality({i \in 1..Len(q) : q[i] = t}) = 0
<1>1. ASSUME t \in S PROVE Cardinality({i \in 1..Len(q) : q[i] = t}) = 1
  <2>1. PICK k \in 1..Len(q) : q[k] = t
    BY <1>1 DEF Once
  <2>2. {i \in 1..Len(q) : q[i] = t} = {k}
    BY <2>1, SMTT(20) DEF Once
  <2> QED
    BY <2>2, FS_Singleton, Zenon
<1>2. ASSUME t \notin S PROVE Cardinality({i \in 1..Len(q) : q[i] = t}) = 0
  <2>1. \A i \in 1..Len(q) : q[i] \in S
    BY DEF Once
  <2>2. {i \in 1..Len(q) : q[i] = t} = {}
    BY <2>1, <1>2
  <2> QED
    BY <2>2, FS_EmptySet, Zenon
<1> QED
  BY <1>1, <1>2, Zenon

\* As many items as places.
LEMMA OnceSize ==
  ASSUME NEW q, NEW S, Once(q, S)
  PROVE  Cardinality(S) = Len(q)
<1>1. PICK n \in Nat : n = Len(q)
  BY LenProperties DEF Once
<1>2. PICK f : f = [i \in 1..n |-> q[i]]
  OBVIOUS
<1>3. \A i \in 1..n : q[i] \in S
  BY <1>1, ElementOfSeq DEF Once
<1>4. f \in [1..n -> S]
  BY <1>2, <1>3
<1>5. \A i, j \in 1..n : f[i] = f[j] => i = j
  BY <1>1, <1>2 DEF Once
<1>6. \A t \in S : \E i \in 1..n : f[i] = t
  BY <1>1, <1>2 DEF Once
<1>7. f \in Bijection(1..n, S)
  BY <1>4, <1>5, <1>6 DEF Bijection, Injection, Surjection, IsInjective
<1>8. ExistsBijection(1..n, S)
  BY <1>7, Zenon DEF ExistsBijection
<1>9. IsFiniteSet(1..n) /\ Cardinality(1..n) = n
  BY FS_Interval
<1> QED
  BY <1>1, <1>8, <1>9, FS_Bijection, Zenon

\* The queue without one of its places.
LEMMA RemoveAtPlace ==
  ASSUME NEW S, NEW q \in Seq(S), NEW i \in 1..Len(q)
  PROVE  /\ RemoveAt(q, i) \in Seq(S)
         /\ Len(RemoveAt(q, i)) = Len(q) - 1
         /\ \A j \in 1..(Len(q) - 1) : RemoveAt(q, i)[j] = IF j < i THEN q[j] ELSE q[j + 1]
<1> DEFINE left  == SubSeq(q, 1, i - 1)
           right == SubSeq(q, i + 1, Len(q))
<1>1. Len(q) \in Nat /\ DOMAIN q = 1..Len(q)
  BY LenProperties
<1>2. /\ left \in Seq(S) /\ Len(left) = i - 1
      /\ \A j \in 1..(i - 1) : left[j] = q[j]
  BY <1>1
<1>3. /\ right \in Seq(S) /\ Len(right) = Len(q) - i
      /\ \A j \in 1..(Len(q) - i) : right[j] = q[i + j]
  <2>1. i + 1 \in Int /\ Len(q) \in Int /\ \A j \in (i + 1)..Len(q) : q[j] \in S
    BY <1>1, ElementOfSeq
  <2>2. /\ right \in Seq(S)
        /\ Len(right) = IF i + 1 <= Len(q) THEN Len(q) - (i + 1) + 1 ELSE 0
        /\ \A j \in 1..(Len(q) - (i + 1) + 1) : right[j] = q[(i + 1) + j - 1]
    BY <2>1, SubSeqProperties
  <2>3. Len(right) = Len(q) - i
    <3> HIDE DEF right
    <3>1. CASE i + 1 <= Len(q)
      BY <3>1, <1>1, <2>2
    <3>2. CASE ~(i + 1 <= Len(q))
      <4>1. Len(q) - i = 0
        <5>1. i \in Int /\ i <= Len(q) /\ Len(q) \in Int
          BY <1>1
        <5>2. i + 1 > Len(q)
          BY <5>1, <3>2
        <5> QED
          BY <5>1, <5>2
      <4>2. Len(right) = 0
        BY <3>2, <2>2, Zenon
      <4> QED
        BY <4>1, <4>2
    <3> QED
      BY <3>1, <3>2
  <2>4. ASSUME NEW j \in 1..(Len(q) - i)
        PROVE  right[j] = q[i + j]
    <3>1. j \in 1..(Len(q) - (i + 1) + 1) /\ (i + 1) + j - 1 = i + j
      BY <1>1
    <3> HIDE DEF right
    <3> QED
      BY <3>1, <2>2
  <2> QED
    BY <2>2, <2>3, <2>4
<1>4. /\ left \o right \in Seq(S) /\ Len(left \o right) = Len(q) - 1
      /\ \A j \in 1..(Len(q) - 1) :
           (left \o right)[j] = IF j < i THEN left[j] ELSE right[j - (i - 1)]
  <2> HIDE DEF left, right
  <2>1. /\ left \o right \in Seq(S) /\ Len(left \o right) = Len(left) + Len(right)
        /\ \A j \in 1..(Len(left) + Len(right)) :
             (left \o right)[j] = IF j <= Len(left) THEN left[j] ELSE right[j - Len(left)]
    BY <1>2, <1>3, ConcatProperties
  <2> QED
    BY <1>1, <1>2, <1>3, <2>1
<1>5. RemoveAt(q, i) = left \o right
  BY DEF RemoveAt
<1>6. ASSUME NEW j \in 1..(Len(q) - 1)
      PROVE  (left \o right)[j] = IF j < i THEN q[j] ELSE q[j + 1]
  <2> HIDE DEF left, right
  <2>1. CASE j < i
    BY <2>1, <1>1, <1>2, <1>4
  <2>2. CASE ~(j < i)
    <3>1. j - (i - 1) \in 1..(Len(q) - i) /\ i + (j - (i - 1)) = j + 1
      BY <2>2, <1>1
    <3>2. right[j - (i - 1)] = q[j + 1]
      BY <3>1, <1>3
    <3> QED
      BY <2>2, <3>2, <1>4
  <2> QED
    BY <2>1, <2>2
<1> QED
  <2> HIDE DEF left, right
  <2> QED
    BY <1>4, <1>5, <1>6

\* The place that RemoveFirst removes.
LEMMA RemoveFirstIs ==
  ASSUME NEW q, NEW S, Once(q, S), NEW t \in S
  PROVE  \E i \in 1..Len(q) : q[i] = t /\ RemoveFirst(q, t) = RemoveAt(q, i)
<1>1. PICK i \in 1..Len(q) : q[i] = t
  BY DEF Once
<1>2. {j \in 1..Len(q) : q[j] = t} = {i}
  BY <1>1 DEF Once
<1>3. Min({i}) = i
  BY DEF Min
<1>4. SelectInSeq(q, LAMBDA v : v = t) = i
  BY <1>2, <1>3, Zenon DEF SelectInSeq
<1>5. RemoveFirst(q, t) = RemoveAt(q, i)
  BY <1>1, <1>4, Zenon DEF RemoveFirst
<1> QED
  BY <1>1, <1>5, Zenon

\* One thread is taken out, wherever it is in the queue.
LEMMA OnceRemove ==
  ASSUME NEW q, NEW S, Once(q, S), NEW t
  PROVE  /\ t \in S => Once(RemoveFirst(q, t), S \ {t})
         /\ t \notin S => RemoveFirst(q, t) = q
<1>1. /\ q \in Seq(S) /\ Len(q) \in Nat
      /\ \A i \in 1..Len(q) : q[i] \in S
      /\ \A i, j \in 1..Len(q) : q[i] = q[j] => i = j
  BY DEF Once
<1>2. ASSUME t \notin S PROVE RemoveFirst(q, t) = q
  <2>1. ~ \E i \in 1..Len(q) : q[i] = t
    BY <1>1, <1>2, Zenon
  <2> QED
    BY <2>1, Zenon DEF RemoveFirst
<1>3. ASSUME t \in S PROVE Once(RemoveFirst(q, t), S \ {t})
  <2>1. PICK i \in 1..Len(q) : q[i] = t /\ RemoveFirst(q, t) = RemoveAt(q, i)
    BY <1>3, RemoveFirstIs, Zenon
  <2> DEFINE r == RemoveAt(q, i)
  <2>5. RemoveFirst(q, t) = r
    BY <2>1, Zenon
  <2>6. /\ r \in Seq(S) /\ Len(r) = Len(q) - 1
        /\ \A j \in 1..(Len(q) - 1) : r[j] = IF j < i THEN q[j] ELSE q[j + 1]
    BY <1>1, <2>1, RemoveAtPlace
  <2> HIDE DEF r
  <2>7. \A j \in 1..Len(r) :
          \E m \in 1..Len(q) : r[j] = q[m] /\ m # i /\ (j < i => m = j) /\ (~(j < i) => m = j + 1)
    <3> TAKE j \in 1..Len(r)
    <3>1. CASE j < i
      <4>1. j \in 1..Len(q) /\ j # i /\ r[j] = q[j]
        BY <3>1, <1>1, <2>6
      <4> QED
        BY <4>1, <3>1
    <3>2. CASE ~(j < i)
      <4>1. j + 1 \in 1..Len(q) /\ j + 1 # i /\ r[j] = q[j + 1]
        BY <3>2, <1>1, <2>1, <2>6
      <4> QED
        BY <4>1, <3>2
    <3> QED
      BY <3>1, <3>2
  <2>8. \A j \in 1..Len(r) : r[j] \in S \ {t}
    <3> TAKE j \in 1..Len(r)
    <3>1. PICK m \in 1..Len(q) : r[j] = q[m] /\ m # i
      BY <2>7, Zenon
    <3> QED
      BY <3>1, <1>1, <2>1
  <2>9. r \in Seq(S \ {t})
    <3>1. r \in [1..Len(r) -> S \ {t}] /\ Len(r) \in Nat
      BY <2>6, <2>8, <1>1, LenProperties
    <3> QED
      BY <3>1, SeqDef
  <2>10. \A j, m \in 1..Len(r) : r[j] = r[m] => j = m
    <3> TAKE j, m \in 1..Len(r)
    <3> HAVE r[j] = r[m]
    <3>1. PICK a \in 1..Len(q) : r[j] = q[a] /\ (j < i => a = j) /\ (~(j < i) => a = j + 1)
      BY <2>7, Zenon
    <3>2. PICK b \in 1..Len(q) : r[m] = q[b] /\ (m < i => b = m) /\ (~(m < i) => b = m + 1)
      BY <2>7, Zenon
    <3>3. a = b
      BY <3>1, <3>2, <1>1
    <3>4. Len(r) \in Nat
      BY <2>6, <1>1
    <3> QED
      BY <3>1, <3>2, <3>3, <3>4, <2>1, <1>1
  <2>11. \A u \in S \ {t} : \E j \in 1..Len(r) : r[j] = u
    <3> TAKE u \in S \ {t}
    <3>1. PICK m \in 1..Len(q) : q[m] = u
      BY DEF Once
    <3>2. m # i
      BY <3>1, <2>1
    <3>3. CASE m < i
      <4>1. m \in 1..Len(r) /\ r[m] = u
        BY <3>1, <3>3, <1>1, <2>1, <2>6
      <4> QED
        BY <4>1
    <3>4. CASE m > i
      <4>1. m - 1 \in 1..Len(r) /\ ~(m - 1 < i) /\ (m - 1) + 1 = m
        BY <3>1, <3>4, <1>1, <2>1, <2>6
      <4>2. r[m - 1] = u
        BY <4>1, <3>1, <2>6
      <4> QED
        BY <4>1, <4>2
    <3> QED
      BY <3>2, <3>3, <3>4, <1>1, <2>1
  <2> QED
    BY <2>5, <2>9, <2>10, <2>11, Zenon DEF Once
<1> QED
  BY <1>2, <1>3, Zenon

\* The queue with one more place.
LEMMA InsertAtPlace ==
  ASSUME NEW S, NEW q \in Seq(S), NEW i \in 1..(Len(q) + 1), NEW e \in S
  PROVE  /\ InsertAt(q, i, e) \in Seq(S)
         /\ Len(InsertAt(q, i, e)) = Len(q) + 1
         /\ \A j \in 1..(Len(q) + 1) :
              /\ j < i => InsertAt(q, i, e)[j] = q[j]
              /\ j = i => InsertAt(q, i, e)[j] = e
              /\ j > i => InsertAt(q, i, e)[j] = q[j - 1]
<1> DEFINE left  == SubSeq(q, 1, i - 1)
           right == SubSeq(q, i, Len(q))
           head  == Append(left, e)
<1>1. Len(q) \in Nat /\ DOMAIN q = 1..Len(q)
  BY LenProperties
<1>2. /\ left \in Seq(S) /\ Len(left) = i - 1
      /\ \A j \in 1..(i - 1) : left[j] = q[j]
  BY <1>1
<1>3. /\ right \in Seq(S) /\ Len(right) = Len(q) - i + 1
      /\ \A j \in 1..(Len(q) - i + 1) : right[j] = q[i + j - 1]
  <2>1. i \in Int /\ Len(q) \in Int /\ \A j \in i..Len(q) : q[j] \in S
    BY <1>1, ElementOfSeq
  <2>2. /\ right \in Seq(S)
        /\ Len(right) = IF i <= Len(q) THEN Len(q) - i + 1 ELSE 0
        /\ \A j \in 1..(Len(q) - i + 1) : right[j] = q[i + j - 1]
    BY <2>1, SubSeqProperties
  <2> HIDE DEF right
  <2>3. CASE i <= Len(q)
    BY <2>2, <2>3
  <2>4. CASE ~(i <= Len(q))
    <3>1. Len(q) - i + 1 = 0
      BY <1>1, <2>4
    <3> QED
      BY <2>2, <2>4, <3>1
  <2> QED
    BY <2>3, <2>4
<1> HIDE DEF left, right
<1>4. /\ head \in Seq(S) /\ Len(head) = i
      /\ \A j \in 1..(i - 1) : head[j] = q[j]
      /\ head[i] = e
  BY <1>1, <1>2
<1>5. InsertAt(q, i, e) = head \o right
  <2>1. InsertAt(q, i, e) = left \o <<e>> \o right
    BY DEF InsertAt, left, right
  <2>2. left \o <<e>> = head
    BY <1>2
  <2> QED
    BY <2>1, <2>2, Zenon
<1> HIDE DEF head
<1>6. /\ head \o right \in Seq(S) /\ Len(head \o right) = Len(head) + Len(right)
      /\ \A j \in 1..(Len(head) + Len(right)) :
           (head \o right)[j] = IF j <= Len(head) THEN head[j] ELSE right[j - Len(head)]
  BY <1>3, <1>4, ConcatProperties
<1> PICK z : z = head \o right
  OBVIOUS
<1>7. Len(head) + Len(right) = Len(q) + 1
  BY <1>1, <1>3, <1>4
<1>8. ASSUME NEW j \in 1..(Len(q) + 1)
      PROVE  /\ j < i => z[j] = q[j]
             /\ j = i => z[j] = e
             /\ j > i => z[j] = q[j - 1]
  <2>1. z[j] = IF j <= i THEN head[j] ELSE right[j - i]
    BY <1>4, <1>6, <1>7
  <2>2. ASSUME j > i PROVE right[j - i] = q[j - 1]
    <3>1. j - i \in 1..(Len(q) - i + 1) /\ i + (j - i) - 1 = j - 1
      BY <1>1, <2>2
    <3> QED
      BY <3>1, <1>3
  <2> QED
    BY <1>1, <1>4, <2>1, <2>2
<1>9. z \in Seq(S) /\ Len(z) = Len(q) + 1 /\ InsertAt(q, i, e) = z
  BY <1>5, <1>6, <1>7
<1> QED
  BY <1>8, <1>9, Zenon

\* One member is put in, wherever it comes in the queue.
LEMMA OnceInsert ==
  ASSUME NEW q, NEW S, Once(q, S), NEW t, t \notin S, NEW i \in 1..(Len(q) + 1)
  PROVE  Once(InsertAt(q, i, t), S \cup {t})
<1> PICK r : r = InsertAt(q, i, t)
  OBVIOUS
<1>1. /\ q \in Seq(S) /\ Len(q) \in Nat
      /\ \A m \in 1..Len(q) : q[m] \in S
      /\ \A m, n \in 1..Len(q) : q[m] = q[n] => m = n
  BY ONLY Once(q, S), LenProperties, ElementOfSeq DEF Once
<1>2. q \in Seq(S \cup {t})
  BY <1>1
<1>3. /\ r \in Seq(S \cup {t}) /\ Len(r) = Len(q) + 1
      /\ \A j \in 1..(Len(q) + 1) :
           /\ j < i => r[j] = q[j]
           /\ j = i => r[j] = t
           /\ j > i => r[j] = q[j - 1]
  <2>1. t \in S \cup {t}
    OBVIOUS
  <2> QED
    BY <1>2, <2>1, InsertAtPlace, SMTT(20)
<1>4. /\ r[i] = t
      /\ \A j \in 1..Len(r) : j # i =>
           \E a \in 1..Len(q) : r[j] = q[a] /\ (j < i => a = j) /\ (j > i => a = j - 1)
  <2>1. r[i] = t
    BY <1>1, <1>3
  <2>2. ASSUME NEW j \in 1..Len(r), j # i
        PROVE  \E a \in 1..Len(q) : r[j] = q[a] /\ (j < i => a = j) /\ (j > i => a = j - 1)
    <3>1. CASE j < i
      <4>1. j \in 1..Len(q) /\ r[j] = q[j]
        BY <1>1, <1>3, <3>1
      <4> QED
        BY <3>1, <4>1
    <3>2. CASE j > i
      <4>1. j - 1 \in 1..Len(q) /\ r[j] = q[j - 1]
        BY <1>1, <1>3, <3>2
      <4> QED
        BY <3>2, <4>1
    <3> QED
      BY <1>1, <1>3, <2>2, <3>1, <3>2
  <2> QED
    BY <2>1, <2>2
<1>5. ASSUME NEW m \in 1..Len(r), NEW n \in 1..Len(r), r[m] = r[n] PROVE m = n
  <2>1. m \in Int /\ n \in Int
    BY <1>1, <1>3
  <2>2. CASE m = i
    BY <1>1, <1>4, <1>5, <2>2
  <2>3. CASE n = i
    BY <1>1, <1>4, <1>5, <2>3
  <2>4. CASE m # i /\ n # i
    <3>1. PICK a \in 1..Len(q) : r[m] = q[a] /\ (m < i => a = m) /\ (m > i => a = m - 1)
      BY <1>4, <2>4, Zenon
    <3>2. PICK b \in 1..Len(q) : r[n] = q[b] /\ (n < i => b = n) /\ (n > i => b = n - 1)
      BY <1>4, <2>4, Zenon
    <3>3. a = b
      BY <1>1, <1>5, <3>1, <3>2
    <3> QED
      BY <1>1, <2>1, <2>4, <3>1, <3>2, <3>3
  <2> QED
    BY <2>2, <2>3, <2>4
<1>6. ASSUME NEW u \in S \cup {t} PROVE \E j \in 1..Len(r) : r[j] = u
  <2>1. CASE u = t
    <3>1. i \in 1..Len(r) /\ r[i] = t
      BY <1>1, <1>3
    <3> QED
      BY <2>1, <3>1
  <2>2. CASE u \in S
    <3>1. PICK m \in 1..Len(q) : q[m] = u
      BY <2>2 DEF Once
    <3>2. CASE m < i
      <4>1. m \in 1..Len(r) /\ r[m] = u
        BY <1>1, <1>3, <3>1, <3>2
      <4> QED
        BY <4>1
    <3>3. CASE m >= i
      <4>1. m + 1 \in 1..Len(r) /\ r[m + 1] = u
        BY <1>1, <1>3, <3>1, <3>3
      <4> QED
        BY <4>1
    <3> QED
      BY <3>2, <3>3
  <2> QED
    BY <2>1, <2>2
<1>7. Once(r, S \cup {t})
  BY <1>3, <1>5, <1>6, Zenon DEF Once
<1> QED
  BY <1>7, Zenon

\* What the members of a queue have in d does not fall from its head to its end.
Rising(q, d) == \A i, j \in 1..Len(q) : i < j => d[q[i]] <= d[q[j]]

LEMMA RisingInsert ==
  ASSUME NEW q, NEW S, Once(q, S), NEW t, t \notin S, NEW i \in 1..(Len(q) + 1),
         NEW d, \A u \in S \cup {t} : d[u] \in Int, Rising(q, d),
         \A j \in 1..Len(q) : (j < i => d[q[j]] <= d[t]) /\ (j >= i => d[t] <= d[q[j]])
  PROVE  Rising(InsertAt(q, i, t), d)
<1> PICK r : r = InsertAt(q, i, t)
  OBVIOUS
<1>1. /\ q \in Seq(S) /\ Len(q) \in Nat
      /\ \A m \in 1..Len(q) : d[q[m]] \in Int
  BY DEF Once
<1>2. q \in Seq(S \cup {t}) /\ t \in S \cup {t}
  BY <1>1
<1>3. /\ Len(r) = Len(q) + 1
      /\ \A j \in 1..(Len(q) + 1) :
           /\ j < i => r[j] = q[j]
           /\ j = i => r[j] = t
           /\ j > i => r[j] = q[j - 1]
  BY <1>2, InsertAtPlace, SMTT(20)
<1>4. ASSUME NEW m \in 1..Len(r), NEW n \in 1..Len(r), m < n PROVE d[r[m]] <= d[r[n]]
  <2>1. m \in Int /\ n \in Int /\ i \in Int
    BY <1>1, <1>3
  <2>2. CASE n < i
    <3>1. m \in 1..Len(q) /\ n \in 1..Len(q) /\ r[m] = q[m] /\ r[n] = q[n]
      BY <1>1, <1>3, <1>4, <2>1, <2>2
    <3> QED
      BY <1>4, <3>1, Zenon DEF Rising
  <2>3. CASE n = i
    <3>1. m \in 1..Len(q) /\ m < i /\ r[m] = q[m] /\ r[n] = t
      BY <1>1, <1>3, <1>4, <2>1, <2>3
    <3> QED
      BY <3>1, Zenon
  <2>4. CASE n > i /\ m < i
    <3>1. /\ m \in 1..Len(q) /\ n - 1 \in 1..Len(q) /\ n - 1 >= i
          /\ r[m] = q[m] /\ r[n] = q[n - 1]
      BY <1>1, <1>3, <1>4, <2>1, <2>4
    <3>2. d[q[m]] <= d[t] /\ d[t] <= d[q[n - 1]]
      BY <2>4, <3>1, Zenon
    <3> QED
      BY <1>1, <3>1, <3>2
  <2>5. CASE n > i /\ m = i
    <3>1. n - 1 \in 1..Len(q) /\ n - 1 >= i /\ r[m] = t /\ r[n] = q[n - 1]
      BY <1>1, <1>3, <1>4, <2>1, <2>5
    <3> QED
      BY <3>1, Zenon
  <2>6. CASE m > i
    <3>1. /\ m - 1 \in 1..Len(q) /\ n - 1 \in 1..Len(q) /\ m - 1 < n - 1
          /\ r[m] = q[m - 1] /\ r[n] = q[n - 1]
      BY <1>1, <1>3, <1>4, <2>1, <2>6
    <3> QED
      BY <3>1, Zenon DEF Rising
  <2> QED
    BY <1>4, <2>1, <2>2, <2>3, <2>4, <2>5, <2>6
<1>5. Rising(r, d)
  BY <1>4, Zenon DEF Rising
<1> QED
  BY <1>5, Zenon

LEMMA RisingRemove ==
  ASSUME NEW q, NEW S, Once(q, S), NEW d, Rising(q, d), NEW t
  PROVE  /\ Rising(RemoveFirst(q, t), d)
         /\ q # << >> /\ Head(q) # t
            => RemoveFirst(q, t) # << >> /\ Head(RemoveFirst(q, t)) = Head(q)
<1>1. CASE t \notin S
  BY <1>1, OnceRemove, Zenon
<1>2. CASE t \in S
  <2>1. PICK i \in 1..Len(q) : q[i] = t /\ RemoveFirst(q, t) = RemoveAt(q, i)
    BY <1>2, RemoveFirstIs, Zenon
  <2>2. q \in Seq(S) /\ Len(q) \in Nat
    BY DEF Once
  <2>3. PICK r : r = RemoveAt(q, i)
    OBVIOUS
  <2>4. /\ r \in Seq(S) /\ Len(r) = Len(q) - 1
        /\ \A j \in 1..(Len(q) - 1) : r[j] = IF j < i THEN q[j] ELSE q[j + 1]
    BY <2>2, <2>3, RemoveAtPlace
  <2>5. ASSUME NEW m \in 1..Len(r), NEW n \in 1..Len(r), m < n PROVE d[r[m]] <= d[r[n]]
    <3>1. \E a, b \in 1..Len(q) : r[m] = q[a] /\ r[n] = q[b] /\ a < b
      <4>1. CASE n < i
        <5>1. m \in 1..Len(q) /\ n \in 1..Len(q) /\ r[m] = q[m] /\ r[n] = q[n]
          BY <2>2, <2>4, <2>5, <4>1
        <5> QED
          BY <2>5, <5>1
      <4>2. CASE n >= i /\ m < i
        <5>1. m \in 1..Len(q) /\ n + 1 \in 1..Len(q) /\ m < n + 1 /\ r[m] = q[m] /\ r[n] = q[n + 1]
          BY <2>2, <2>4, <2>5, <4>2
        <5> QED
          BY <5>1
      <4>3. CASE m >= i
        <5>1. /\ m + 1 \in 1..Len(q) /\ n + 1 \in 1..Len(q) /\ m + 1 < n + 1
              /\ r[m] = q[m + 1] /\ r[n] = q[n + 1]
          BY <2>2, <2>4, <2>5, <4>3
        <5> QED
          BY <5>1
      <4> QED
        BY <2>2, <2>4, <4>1, <4>2, <4>3
    <3> QED
      BY <3>1, Zenon DEF Rising
  <2>6. Rising(r, d)
    BY <2>5, Zenon DEF Rising
  <2>7. ASSUME q # << >>, Head(q) # t PROVE r # << >> /\ Head(r) = Head(q)
    <3>1. Len(q) > 0 /\ Head(q) = q[1]
      BY <2>2, <2>7, EmptySeq
    <3>2. i # 1 /\ Len(q) > 1
      BY <2>1, <2>2, <2>7, <3>1
    <3>3. Len(r) > 0 /\ r[1] = q[1]
      BY <2>2, <2>4, <3>2
    <3> QED
      BY <2>4, <3>1, <3>3, EmptySeq
  <2> QED
    BY <2>1, <2>3, <2>6, <2>7, Zenon
<1> QED
  BY <1>1, <1>2

LEMMA RisingTail ==
  ASSUME NEW q, NEW S, Once(q, S), NEW d, Rising(q, d), q # << >>
  PROVE  Rising(Tail(q), d)
<1>1. q \in Seq(S) /\ Len(q) \in Nat
  BY DEF Once
<1>2. Len(q) > 0
  BY <1>1, EmptySeq
<1> PICK r : r = Tail(q)
  OBVIOUS
<1>3. Len(r) = Len(q) - 1 /\ \A i \in 1..Len(r) : r[i] = q[i + 1]
  BY <1>1, <1>2
<1>4. ASSUME NEW m \in 1..Len(r), NEW n \in 1..Len(r), m < n PROVE d[r[m]] <= d[r[n]]
  <2>1. /\ m + 1 \in 1..Len(q) /\ n + 1 \in 1..Len(q) /\ m + 1 < n + 1
        /\ r[m] = q[m + 1] /\ r[n] = q[n + 1]
    BY <1>1, <1>3, <1>4
  <2> QED
    BY <2>1, Zenon DEF Rising
<1>5. Rising(r, d)
  BY <1>4, Zenon DEF Rising
<1> QED
  BY <1>5, Zenon

\* The head has the least.
LEMMA HeadIsLeast ==
  ASSUME NEW q, NEW S, Once(q, S), NEW d, \A u \in S : d[u] \in Int, Rising(q, d), NEW t \in S
  PROVE  q # << >> /\ Head(q) \in S /\ d[Head(q)] <= d[t]
<1>1. /\ q \in Seq(S) /\ Len(q) \in Nat
      /\ \A i \in 1..Len(q) : q[i] \in S
  BY DEF Once
<1>2. PICK i \in 1..Len(q) : q[i] = t
  BY DEF Once
<1>3. q # << >> /\ Head(q) = q[1] /\ 1 \in 1..Len(q)
  BY <1>1, <1>2
<1>4. d[q[1]] <= d[t]
  <2>1. CASE i = 1
    BY <1>2, <2>1
  <2>2. CASE i # 1
    BY <1>1, <1>2, <1>3, <2>2 DEF Rising
  <2> QED
    BY <2>1, <2>2
<1> QED
  BY <1>1, <1>3, <1>4, Zenon
=============================================================================
