--------------------------- MODULE PageCacheProofs ---------------------------
(***************************************************************************)
(* OnePage, PagesAccounted and ResultUsable of PageCache, for any number   *)
(* of threads, pages and caches.                                           *)
(*                                                                         *)
(* None of them is inductive.  That a cache has one page for an offset     *)
(* depends on nobody inserting a page between the look into the cache and  *)
(* the allocation, and on a page that is filled staying where it is        *)
(* meanwhile; that in turn on the reference counts, since only the last    *)
(* release of a cache takes its pages away.  IInv says what each call of   *)
(* GetPage relies on, how the calls are nested, and what a count counts.   *)
(***************************************************************************)
EXTENDS PageCache, Counting, SequenceTheorems, TLAPS

Frame == [cache : Caches, offset : Offsets, privateCopy : BOOLEAN, at : Places,
          page : Pages \cup {None}, got : Pages \cup {None}]

Types ==
  /\ fState \in [Pages -> {"free", "transition", "active"}]
  /\ fCache \in [Pages -> Caches \cup {None}]
  /\ fCacheOffset \in [Pages -> Offsets]
  /\ fCacheLock \in Threads \cup {None}
  /\ fRefCount \in [Caches -> Nat]
  /\ mapped \subseteq Caches
  /\ stack \in [Threads -> Seq(Frame)]
  /\ \A t \in Threads : Len(stack[t]) <= 2
  /\ fault \in [Threads -> [cache : Caches \cup {None}, write : BOOLEAN,
                            result : Pages \cup {None}]]

\* What a call of GetPage relies on, in thread t: its page is where it put it,
\* and while it allocates, nobody else can have put one there.
CallOK(t, f) ==
  /\ f.page # None <=> f.at \in {"reading", "copying", "sharing"}
  /\ f.page # None => /\ IsBusy(f.page)
                      /\ fCache[f.page] = f.cache
                      /\ fCacheOffset[f.page] = f.offset
  /\ f.at \in Allocs => fCacheLock = t /\ LookupPage(f.cache, f.offset) = {}
  /\ f.at \in {"alloc to copy", "copying"} => IsCopy(f.cache) /\ f.privateCopy
  /\ f.at \in {"alloc dummy", "sharing"} => IsCopy(f.cache) /\ ~f.privateCopy
  /\ f.got # None => /\ fState[f.got] = "active"
                     /\ IsCopy(f.cache) /\ fCache[f.got] = Source[f.cache]

\* The first call is HandleFault's; a second one is for the source of the first.
NestingOK(t) ==
  /\ Len(stack[t]) = 1 => /\ stack[t][1].cache = fault[t].cache
                          /\ stack[t][1].privateCopy = (fault[t].write /\ IsCopy(fault[t].cache))
  /\ Len(stack[t]) = 2 => /\ stack[t][2].cache = fault[t].cache
                          /\ stack[t][2].privateCopy = (fault[t].write /\ IsCopy(fault[t].cache))
                          /\ stack[t][2].at \in {"copying", "sharing"}
                          /\ stack[t][1].cache = Source[fault[t].cache]

\* A fault holds its cache until it has its page, and the page is there.
FaultOK(t) ==
  /\ fault[t].cache = None => stack[t] = << >> /\ fault[t].result = None
  /\ fault[t].cache # None => (stack[t] = << >> <=> fault[t].result # None)
  /\ fault[t].result # None =>
       /\ fState[fault[t].result] = "active"
       /\ \/ fCache[fault[t].result] = fault[t].cache
          \/ /\ IsCopy(fault[t].cache) /\ ~fault[t].write
             /\ fCache[fault[t].result] = Source[fault[t].cache]

ThreadOK(t) ==
  /\ \A i \in 1..Len(stack[t]) : CallOK(t, stack[t][i])
  /\ NestingOK(t)
  /\ FaultOK(t)

\* A page is in a cache that exists, or free; two pages of a cache differ in
\* their offsets.
PagesOK ==
  /\ \A p \in Pages : Free(p) <=> fCache[p] = None
  /\ \A p \in Pages : ~Free(p) => fRefCount[fCache[p]] > 0
  /\ \A p, q \in Pages : ~Free(p) /\ fCache[p] = fCache[q] /\ fCacheOffset[p] = fCacheOffset[q]
                         => p = q
  /\ fFreePagesAvailable = Cardinality({p \in Pages : Free(p)})

\* Every busy page is the page of a call, and of calls of one thread only.
Uses(t, p) == \E i \in 1..Len(stack[t]) : stack[t][i].page = p

BusyOK ==
  /\ \A p \in Pages : IsBusy(p) => \E t \in Threads : Uses(t, p)
  /\ \A t, u \in Threads, p \in Pages : Uses(t, p) /\ Uses(u, p) => t = u

FaultsOf(c) == {t \in Threads : fault[t].cache = c}
CopiesOf(c) == {d \in Copies : Source[d] = c /\ fRefCount[d] > 0}

\* References are held by the VNode, an area, faults and copies.
RefsOK ==
  \A c \in Caches :
    fRefCount[c] = (IF c \in Files THEN 1 ELSE 0) + (IF c \in mapped THEN 1 ELSE 0)
                   + Cardinality(FaultsOf(c)) + Cardinality(CopiesOf(c))

IInv ==
  /\ Types
  /\ \A t \in Threads : ThreadOK(t)
  /\ PagesOK
  /\ BusyOK
  /\ RefsOK

-----------------------------------------------------------------------------
(* References. *)

\* Sets of faults and copies can be counted.
LEMMA RefSets ==
  ASSUME Types, NEW c \in Caches
  PROVE  /\ IsFiniteSet(FaultsOf(c)) /\ Cardinality(FaultsOf(c)) \in Nat
         /\ IsFiniteSet(CopiesOf(c)) /\ Cardinality(CopiesOf(c)) \in Nat
<1>1. FaultsOf(c) \in SUBSET Threads /\ CopiesOf(c) \in SUBSET Copies
  BY DEF FaultsOf, CopiesOf
<1>2. IsFiniteSet(FaultsOf(c)) /\ IsFiniteSet(CopiesOf(c))
  BY <1>1, PageCacheAssumption, FS_Subset
<1> QED
  BY <1>2, FS_CardinalityType

\* A fault's cache is there; one that the fault alone has is no file's, and no
\* area and no other fault has it.
LEMMA FaultHolds ==
  ASSUME Types, RefsOK, NEW t \in Threads, fault[t].cache # None
  PROVE  LET c == fault[t].cache
         IN  /\ c \in Caches /\ fRefCount[c] > 0
             /\ ~(fRefCount[c] > 1) => /\ fRefCount[c] = 1
                                       /\ c \notin Files /\ c \notin mapped
                                       /\ \A u \in Threads \ {t} : fault[u].cache # c
<1> DEFINE c == fault[t].cache
<1>1. c \in Caches
  BY DEF Types
<1>2. /\ IsFiniteSet(FaultsOf(c)) /\ Cardinality(FaultsOf(c)) \in Nat
      /\ Cardinality(CopiesOf(c)) \in Nat
  BY <1>1, RefSets
<1>3. t \in FaultsOf(c)
  BY DEF FaultsOf
<1>4. Cardinality(FaultsOf(c)) > 0
  BY <1>2, <1>3, CountOut
<1>5. ASSUME NEW u \in Threads \ {t}, fault[u].cache = c
      PROVE  Cardinality(FaultsOf(c)) > 1
  <2>1. u \in FaultsOf(c)
    BY <1>5 DEF FaultsOf
  <2> QED
    BY <1>2, <1>3, <2>1, CountTwo
<1>6. fRefCount[c] = (IF c \in Files THEN 1 ELSE 0) + (IF c \in mapped THEN 1 ELSE 0)
                     + Cardinality(FaultsOf(c)) + Cardinality(CopiesOf(c))
  BY <1>1 DEF RefsOK
<1> HIDE DEF c
<1>7. fRefCount[c] > 0
  BY <1>2, <1>4, <1>6
<1>8. ASSUME ~(fRefCount[c] > 1)
      PROVE  /\ fRefCount[c] = 1 /\ c \notin Files /\ c \notin mapped
             /\ ~(Cardinality(FaultsOf(c)) > 1)
  BY <1>2, <1>4, <1>6, <1>8
<1> QED
  BY <1>1, <1>5, <1>7, <1>8 DEF c

\* So is the cache of an area.
LEMMA AreaHolds ==
  ASSUME Types, RefsOK, NEW c \in mapped
  PROVE  /\ c \in Caches /\ fRefCount[c] > 0
         /\ ~(fRefCount[c] > 1) => /\ fRefCount[c] = 1 /\ c \notin Files
                                   /\ \A u \in Threads : fault[u].cache # c
<1>1. c \in Caches
  BY DEF Types
<1>2. /\ IsFiniteSet(FaultsOf(c)) /\ Cardinality(FaultsOf(c)) \in Nat
      /\ Cardinality(CopiesOf(c)) \in Nat
  BY <1>1, RefSets
<1>3. ASSUME NEW u \in Threads, fault[u].cache = c
      PROVE  Cardinality(FaultsOf(c)) > 0
  <2>1. u \in FaultsOf(c)
    BY <1>3 DEF FaultsOf
  <2> QED
    BY <1>2, <2>1, CountOut
<1>4. fRefCount[c] = (IF c \in Files THEN 1 ELSE 0) + 1
                     + Cardinality(FaultsOf(c)) + Cardinality(CopiesOf(c))
  BY <1>1 DEF RefsOK
<1> QED
  BY <1>1, <1>2, <1>3, <1>4

\* And a file's cache, which its VNode keeps.
LEMMA FileHeld ==
  ASSUME Types, RefsOK, NEW c \in Files
  PROVE  fRefCount[c] > 0
<1>1. c \in Caches
  BY DEF Caches
<1>2. Cardinality(FaultsOf(c)) \in Nat /\ Cardinality(CopiesOf(c)) \in Nat
  BY <1>1, RefSets
<1>3. fRefCount[c] = 1 + (IF c \in mapped THEN 1 ELSE 0)
                     + Cardinality(FaultsOf(c)) + Cardinality(CopiesOf(c))
  BY <1>1 DEF RefsOK
<1> QED
  BY <1>2, <1>3

-----------------------------------------------------------------------------
(* Calls. *)

\* What is in a stack.
LEMMA Stacks ==
  ASSUME Types, NEW t \in Threads
  PROVE  /\ stack[t] \in Seq(Frame) /\ Len(stack[t]) \in {0, 1, 2}
         /\ \A i \in 1..Len(stack[t]) : stack[t][i] \in Frame
         /\ stack[t] # << >> <=> Len(stack[t]) > 0
         /\ Len(stack[t]) = 1 => 1..Len(stack[t]) = {1}
         /\ Len(stack[t]) = 2 => 1..Len(stack[t]) = {1, 2}
<1>1. stack[t] \in Seq(Frame) /\ Len(stack[t]) <= 2
  BY DEF Types
<1>2. Len(stack[t]) \in Nat /\ (stack[t] # << >> <=> Len(stack[t]) > 0)
  BY <1>1
<1>a. ASSUME NEW n \in Nat, n <= 2
      PROVE  n \in {0, 1, 2}
  BY <1>a
<1>3. Len(stack[t]) \in {0, 1, 2}
  BY <1>1, <1>2, <1>a
<1>4. \A i \in 1..Len(stack[t]) : stack[t][i] \in Frame
  BY <1>1
<1>5. 1..1 = {1} /\ 1..2 = {1, 2}
  OBVIOUS
<1> QED
  BY <1>1, <1>2, <1>3, <1>4, <1>5

\* A call that is not of a stack of two is the only one, and is for the cache of
\* the fault; of two, the inner one is for the source of the outer one.
LEMMA CallFacts ==
  ASSUME Types, NEW t \in Threads, ThreadOK(t), stack[t] # << >>
  PROVE  /\ Top(t) \in Frame /\ CallOK(t, Top(t)) /\ Len(stack[t]) \in {1, 2}
         /\ fault[t].cache \in Caches /\ fault[t].result = None
         /\ Len(stack[t]) = 1 => Top(t).cache = fault[t].cache
         /\ Len(stack[t]) = 2 =>
              /\ stack[t][2] \in Frame /\ CallOK(t, stack[t][2])
              /\ IsCopy(fault[t].cache) /\ fault[t].cache \in Copies
              /\ Top(t).cache = Source[fault[t].cache] /\ Top(t).cache \in Files
              /\ stack[t][2].page \in Pages /\ stack[t][2].page # Top(t).page
<1>1. Len(stack[t]) \in {1, 2} /\ \A i \in 1..Len(stack[t]) : stack[t][i] \in Frame
  BY Stacks
<1>2. Top(t) \in Frame /\ CallOK(t, Top(t))
  BY <1>1 DEF ThreadOK, Top
<1>3. fault[t].cache \in Caches /\ fault[t].result = None
  BY DEF ThreadOK, FaultOK, Types
<1>4. Len(stack[t]) = 1 => Top(t).cache = fault[t].cache
  BY DEF ThreadOK, NestingOK, Top
<1>5. ASSUME Len(stack[t]) = 2
      PROVE  /\ stack[t][2] \in Frame /\ CallOK(t, stack[t][2])
             /\ IsCopy(fault[t].cache) /\ fault[t].cache \in Copies
             /\ Top(t).cache = Source[fault[t].cache] /\ Top(t).cache \in Files
             /\ stack[t][2].page \in Pages /\ stack[t][2].page # Top(t).page
  <2>1. stack[t][2] \in Frame /\ CallOK(t, stack[t][2])
    BY <1>1, <1>5 DEF ThreadOK
  <2>2. /\ stack[t][2].cache = fault[t].cache
        /\ stack[t][2].at \in {"copying", "sharing"}
        /\ Top(t).cache = Source[fault[t].cache]
    BY <1>5 DEF ThreadOK, NestingOK, Top
  <2>3. IsCopy(fault[t].cache) /\ fault[t].cache \in Copies
    BY <2>1, <2>2 DEF CallOK, IsCopy
  <2>4. Top(t).cache \in Files
    BY <2>2, <2>3, PageCacheAssumption
  <2>5. /\ stack[t][2].page # None /\ stack[t][2].page \in Pages
        /\ fCache[stack[t][2].page] = fault[t].cache
    BY <2>1, <2>2 DEF CallOK, Frame
  <2>6. Top(t).page # None => fCache[Top(t).page] = Top(t).cache
    BY <1>2 DEF CallOK
  <2>7. Top(t).cache # fault[t].cache
    BY <2>3, <2>4, PageCacheAssumption
  <2> QED
    BY <2>1, <2>2, <2>3, <2>4, <2>5, <2>6, <2>7
<1> QED
  BY <1>1, <1>2, <1>3, <1>4, <1>5

\* What Return does to the stacks and the faults.
LEMMA Returns ==
  ASSUME Types, NEW t \in Threads, ThreadOK(t), stack[t] # << >>,
         NEW p \in Pages, Return(t, p)
  PROVE  /\ stack' \in [Threads -> Seq(Frame)] /\ Len(stack'[t]) <= 2
         /\ \A u \in Threads \ {t} : stack'[u] = stack[u] /\ fault'[u] = fault[u]
         /\ Len(stack[t]) = 1 => /\ stack'[t] = << >>
                                 /\ fault' = [fault EXCEPT ![t].result = p]
         /\ Len(stack[t]) = 2 => /\ Len(stack'[t]) = 1
                                 /\ stack'[t][1] = [stack[t][2] EXCEPT !.got = p]
                                 /\ fault' = fault
<1>1. Len(stack[t]) \in {1, 2} /\ stack[t] \in Seq(Frame)
  BY CallFacts, Stacks
<1>2. stack \in [Threads -> Seq(Frame)] /\ fault \in [Threads -> [cache : Caches \cup {None},
        write : BOOLEAN, result : Pages \cup {None}]]
  BY DEF Types
<1>3. CASE Len(stack[t]) = 1
  <2>1. stack' = [stack EXCEPT ![t] = << >>] /\ fault' = [fault EXCEPT ![t].result = p]
    BY <1>3 DEF Return
  <2>2. << >> \in Seq(Frame)
    OBVIOUS
  <2> QED
    BY <1>2, <1>3, <2>1, <2>2
<1>4. CASE Len(stack[t]) = 2
  <2> DEFINE g == [stack[t][2] EXCEPT !.got = p]
             s == <<g>> \o Tail(Tail(stack[t]))
  <2>1. stack' = [stack EXCEPT ![t] = s] /\ fault' = fault
    BY <1>4 DEF Return
  <2>2. stack[t][2] \in Frame
    BY <1>4, CallFacts
  <2>3. g \in Frame
    BY <2>2 DEF Frame
  <2>4. Tail(stack[t]) \in Seq(Frame) /\ Len(Tail(stack[t])) = 1
    BY <1>1, <1>4
  <2> HIDE DEF s
  <2>5. Tail(Tail(stack[t])) \in Seq(Frame) /\ Len(Tail(Tail(stack[t]))) = 0
    <3> DEFINE r == Tail(stack[t])
    <3>1. r \in Seq(Frame) /\ Len(r) = 1
      BY <2>4
    <3> HIDE DEF r
    <3>a. Len(<< >>) = 0 /\ 0 # 1
      BY EmptySeq
    <3>b. r # << >>
      BY <3>1, <3>a, Zenon
    <3>2. Tail(r) \in Seq(Frame) /\ Len(Tail(r)) = Len(r) - 1
      BY <3>1, <3>b, HeadTailProperties
    <3>3. Len(Tail(r)) = 0
      BY <3>1, <3>2
    <3> QED
      BY <3>2, <3>3 DEF r
  <2> HIDE DEF g
  <2>6. <<g>> \in Seq(Frame) /\ Len(<<g>>) = 1
    BY <2>3
  <2>7. s \in Seq(Frame) /\ Len(s) = 1 /\ s[1] = g
    BY <2>5, <2>6 DEF s
  <2>8. stack'[t] = s /\ \A u \in Threads \ {t} : stack'[u] = stack[u]
    BY <1>2, <2>1
  <2>9. stack' \in [Threads -> Seq(Frame)]
    BY <1>2, <2>1, <2>7
  <2>10. Len(stack'[t]) = 1 /\ stack'[t][1] = [stack[t][2] EXCEPT !.got = p]
    BY <2>7, <2>8 DEF g
  <2>11. Len(stack'[t]) <= 2
    BY <2>10
  <2> QED
    BY <1>4, <2>1, <2>8, <2>9, <2>10, <2>11
<1> QED
  BY <1>1, <1>3, <1>4

-----------------------------------------------------------------------------
(* Threads that a step leaves alone. *)

Same(q) == fState'[q] = fState[q] /\ fCache'[q] = fCache[q] /\ fCacheOffset'[q] = fCacheOffset[q]

Holds(u, q) ==
  \/ fault[u].result = q
  \/ \E i \in 1..Len(stack[u]) : stack[u][i].page = q \/ stack[u][i].got = q

\* What a thread relies on still holds if the pages that it holds stay as they
\* are, and so does the cache it looked into, which is locked.
LEMMA KeepThread ==
  ASSUME Types, NEW u \in Threads, ThreadOK(u),
         stack'[u] = stack[u], fault'[u] = fault[u],
         \A q \in Pages : Holds(u, q) => Same(q),
         fCacheLock # u \/ (fCacheLock' = fCacheLock /\ \A q \in Pages : Same(q))
  PROVE  ThreadOK(u)'
<1>1. \A i \in 1..Len(stack[u]) : stack[u][i] \in Frame
  BY Stacks
<1>2. ASSUME NEW i \in 1..Len(stack[u])
      PROVE  CallOK(u, stack[u][i])'
  <2> DEFINE f == stack[u][i]
  <2>1. f \in Frame /\ CallOK(u, f) /\ stack'[u][i] = f
    BY <1>1 DEF ThreadOK
  <2>2. /\ f.page \in Pages => Same(f.page)
        /\ f.got \in Pages => Same(f.got)
    BY DEF Holds
  <2>3. f.page \in Pages \cup {None} /\ f.got \in Pages \cup {None}
    BY <2>1 DEF Frame
  <2> HIDE DEF f
  <2>4. f.at \in Allocs => fCacheLock' = u /\ {p \in Pages : fCache'[p] = f.cache /\ fCacheOffset'[p] = f.offset} = {}
    <3> SUFFICES ASSUME f.at \in Allocs
                 PROVE  fCacheLock' = u /\ \A p \in Pages : ~(fCache'[p] = f.cache /\ fCacheOffset'[p] = f.offset)
      OBVIOUS
    <3>1. fCacheLock = u /\ \A p \in Pages : ~(fCache[p] = f.cache /\ fCacheOffset[p] = f.offset)
      BY <2>1 DEF CallOK, LookupPage
    <3> QED
      BY <3>1 DEF Same
  <2>5. /\ f.page # None => /\ fState'[f.page] = "transition"
                            /\ fCache'[f.page] = f.cache
                            /\ fCacheOffset'[f.page] = f.offset
        /\ f.got # None => /\ fState'[f.got] = "active"
                           /\ IsCopy(f.cache) /\ fCache'[f.got] = Source[f.cache]
    BY <2>1, <2>2, <2>3 DEF CallOK, Same, IsBusy
  <2> QED
    BY <2>1, <2>4, <2>5 DEF CallOK, LookupPage, IsBusy, IsCopy
<1>3. \A i \in 1..Len(stack'[u]) : CallOK(u, stack[u][i])'
  BY <1>2
<1>4. NestingOK(u)'
  BY DEF ThreadOK, NestingOK, IsCopy
<1>5. FaultOK(u)'
  <2>1. fault[u].result \in Pages => Same(fault[u].result)
    BY DEF Holds
  <2>2. fault[u].result \in Pages \cup {None}
    BY DEF Types
  <2> QED
    BY <2>1, <2>2 DEF ThreadOK, FaultOK, IsCopy, Same
<1> QED
  BY <1>3, <1>4, <1>5 DEF ThreadOK

\* A page that is free, or busy in another thread's call, is held by nobody else.
LEMMA NotHeld ==
  ASSUME Types, PagesOK, BusyOK, NEW t \in Threads, NEW u \in Threads \ {t}, ThreadOK(u),
         NEW q \in Pages, Free(q) \/ (Uses(t, q) /\ IsBusy(q))
  PROVE  ~Holds(u, q)
<1>1. fState[q] # "active"
  BY DEF Free, IsBusy
<1>2. fault[u].result # q
  BY <1>1, PageCacheAssumption DEF ThreadOK, FaultOK
<1>3. ~Uses(u, q)
  <2>1. Uses(u, q) => IsBusy(q)
    BY PageCacheAssumption DEF Uses, ThreadOK, CallOK
  <2> QED
    BY <2>1 DEF BusyOK, Free, IsBusy
<1>4. \A i \in 1..Len(stack[u]) : stack[u][i].got # q
  BY <1>1, PageCacheAssumption DEF ThreadOK, CallOK
<1> QED
  BY <1>2, <1>3, <1>4 DEF Holds, Uses

\* What a thread relies on after its call has returned p.
LEMMA ReturnOK ==
  ASSUME Types, PagesOK, BusyOK, NEW t \in Threads, ThreadOK(t), stack[t] # << >>,
         NEW p \in Pages, Return(t, p),
         \A q \in Pages : Same(q) \/ Top(t).page = q \/ Free(q),
         fState'[p] = "active",
         \/ fCache'[p] = Top(t).cache
         \/ Top(t).at = "sharing" /\ fCache'[p] = Source[Top(t).cache]
  PROVE  ThreadOK(t)'
<1>1. /\ Top(t) \in Frame /\ CallOK(t, Top(t)) /\ Len(stack[t]) \in {1, 2}
      /\ fault[t].cache \in Caches /\ fault[t].result = None
  BY CallFacts
<1>n. None \notin Pages /\ None \notin Caches
  BY PageCacheAssumption
<1>f. fault \in [Threads -> [cache : Caches \cup {None}, write : BOOLEAN, result : Pages \cup {None}]]
  BY DEF Types
<1>2. CASE Len(stack[t]) = 1
  <2>1. stack'[t] = << >> /\ fault' = [fault EXCEPT ![t].result = p]
    BY <1>2, Returns
  <2>2. Len(stack'[t]) = 0
    BY <2>1
  <2>3. /\ fault'[t].result = p /\ fault'[t].cache = fault[t].cache
        /\ fault'[t].write = fault[t].write
    BY <1>f, <2>1
  <2>4. /\ Top(t).cache = fault[t].cache
        /\ Top(t).privateCopy = (fault[t].write /\ IsCopy(fault[t].cache))
    BY <1>2 DEF ThreadOK, NestingOK, Top
  <2>5. Top(t).at = "sharing" => IsCopy(fault[t].cache) /\ ~fault[t].write
    BY <1>1, <2>4 DEF CallOK
  <2>6. FaultOK(t)'
    BY <1>1, <1>n, <2>1, <2>3, <2>4, <2>5 DEF FaultOK, IsCopy
  <2> QED
    BY <2>2, <2>6 DEF ThreadOK, NestingOK
<1>3. CASE Len(stack[t]) = 2
  <2> DEFINE g == stack[t][2]
  <2>1. /\ g \in Frame /\ CallOK(t, g)
        /\ IsCopy(fault[t].cache)
        /\ Top(t).cache = Source[fault[t].cache] /\ Top(t).cache \in Files
        /\ g.page \in Pages /\ g.page # Top(t).page
    BY <1>3, CallFacts
  <2>2. /\ g.cache = fault[t].cache /\ g.at \in {"copying", "sharing"}
        /\ g.privateCopy = (fault[t].write /\ IsCopy(fault[t].cache))
    BY <1>3 DEF ThreadOK, NestingOK
  <2>3. /\ Len(stack'[t]) = 1 /\ stack'[t][1] = [g EXCEPT !.got = p]
        /\ fault' = fault
    BY <1>3, Returns
  <2> HIDE DEF g
  <2>4. /\ stack'[t][1].page = g.page /\ stack'[t][1].cache = g.cache
        /\ stack'[t][1].offset = g.offset /\ stack'[t][1].at = g.at
        /\ stack'[t][1].privateCopy = g.privateCopy /\ stack'[t][1].got = p
    BY <2>1, <2>3 DEF Frame
  <2>5. Top(t).at # "sharing"
    BY <1>1, <2>1, PageCacheAssumption DEF CallOK, IsCopy
  <2>6. IsBusy(g.page) /\ ~Free(g.page)
    BY <1>n, <2>1 DEF CallOK, IsBusy, Free
  <2>7. Same(g.page)
    BY <2>1, <2>6
  <2>8. CallOK(t, stack[t][1])'
    BY <1>n, <2>1, <2>2, <2>4, <2>5, <2>6, <2>7 DEF CallOK, Same, IsBusy, IsCopy, Allocs
  <2>9. NestingOK(t)'
    BY <2>2, <2>3, <2>4 DEF NestingOK, IsCopy
  <2>10. stack'[t] # << >>
    BY <2>3, <2>4, Returns DEF Types
  <2>11. FaultOK(t)'
    BY <1>1, <1>n, <2>3, <2>10 DEF FaultOK
  <2> QED
    BY <2>3, <2>8, <2>9, <2>11 DEF ThreadOK
<1> QED
  BY <1>1, <1>2, <1>3

-----------------------------------------------------------------------------
(* Pages. *)

PageTypes ==
  /\ fState \in [Pages -> {"free", "transition", "active"}]
  /\ fCache \in [Pages -> Caches \cup {None}]
  /\ fCacheOffset \in [Pages -> Offsets]

FreePages == {p \in Pages : Free(p)}

LEMMA FreeSet ==
  ASSUME Types
  PROVE  IsFiniteSet(FreePages) /\ Cardinality(FreePages) \in Nat
<1>1. FreePages \in SUBSET Pages
  BY DEF FreePages
<1>2. IsFiniteSet(FreePages)
  BY <1>1, PageCacheAssumption, FS_Subset
<1> QED
  BY <1>2, FS_CardinalityType

\* Alloc and InsertPage for an offset that has no page.
LEMMA PageInserted ==
  ASSUME Types, PagesOK, NEW p \in Pages, NEW c \in Caches, NEW o \in Offsets,
         NEW state \in {"transition", "active"}, AllocAndInsert(p, c, o, state),
         LookupPage(c, o) = {}, fRefCount[c] > 0, fRefCount' = fRefCount
  PROVE  /\ PagesOK' /\ PageTypes'
         /\ Free(p) /\ fState'[p] = state /\ fCache'[p] = c /\ fCacheOffset'[p] = o
         /\ \A q \in Pages \ {p} : Same(q)
<1>n. None \notin Pages /\ None \notin Caches
  BY PageCacheAssumption
<1>t. PageTypes
  BY DEF Types, PageTypes
<1>1. /\ fState' = [fState EXCEPT ![p] = state] /\ fCache' = [fCache EXCEPT ![p] = c]
      /\ fCacheOffset' = [fCacheOffset EXCEPT ![p] = o]
      /\ fFreePagesAvailable' = fFreePagesAvailable - 1 /\ Free(p)
  BY DEF AllocAndInsert, MoveToQueue, InsertPage
<1>2. PageTypes'
  BY <1>1, <1>t DEF PageTypes
<1>3. fState'[p] = state /\ fCache'[p] = c /\ fCacheOffset'[p] = o
  BY <1>1, <1>t DEF PageTypes
<1>4. \A q \in Pages \ {p} : Same(q)
  BY <1>1, <1>t DEF PageTypes, Same
<1>5. \A q \in Pages : (Free(q) <=> fCache[q] = None)'
  BY <1>n, <1>3, <1>4 DEF PagesOK, Free, Same
<1>6. \A q \in Pages : (~Free(q) => fRefCount[fCache[q]] > 0)'
  BY <1>3, <1>4 DEF PagesOK, Free, Same
<1>7. ASSUME NEW q \in Pages, NEW r \in Pages, ~Free(q)', fCache'[q] = fCache'[r],
             fCacheOffset'[q] = fCacheOffset'[r]
      PROVE  q = r
  <2>1. \A s \in Pages : ~(fCache[s] = c /\ fCacheOffset[s] = o)
    BY DEF LookupPage
  <2> QED
    BY <2>1, <1>3, <1>4, <1>7 DEF PagesOK, Free, Same
<1>8. (fFreePagesAvailable = Cardinality({q \in Pages : Free(q)}))'
  <2>1. FreePages' = FreePages \ {p}
    BY <1>3, <1>4 DEF FreePages, Free, Same
  <2>2. p \in FreePages
    BY <1>1 DEF FreePages
  <2>3. Cardinality(FreePages \ {p}) = Cardinality(FreePages) - 1
    BY <2>2, FreeSet, CountOut
  <2>4. fFreePagesAvailable = Cardinality(FreePages)
    BY DEF PagesOK, FreePages
  <2> QED
    BY <1>1, <2>1, <2>3, <2>4 DEF FreePages
<1> QED
  BY <1>1, <1>2, <1>3, <1>4, <1>5, <1>6, <1>7, <1>8 DEF PagesOK

\* SetNotBusy.
LEMMA PageActivated ==
  ASSUME Types, PagesOK, NEW p \in Pages, IsBusy(p), SetNotBusy(p), fRefCount' = fRefCount
  PROVE  /\ PagesOK' /\ PageTypes'
         /\ fState'[p] = "active" /\ fCache'[p] = fCache[p]
         /\ \A q \in Pages \ {p} : Same(q)
<1>t. PageTypes
  BY DEF Types, PageTypes
<1>1. /\ fState' = [fState EXCEPT ![p] = "active"]
      /\ fCache' = fCache /\ fCacheOffset' = fCacheOffset
      /\ fFreePagesAvailable' = fFreePagesAvailable
  BY DEF SetNotBusy, MoveToQueue
<1>2. PageTypes'
  BY <1>1, <1>t DEF PageTypes
<1>3. fState'[p] = "active"
  BY <1>1, <1>t DEF PageTypes
<1>4. \A q \in Pages \ {p} : Same(q)
  BY <1>1, <1>t DEF PageTypes, Same
<1>5. \A q \in Pages : Free(q)' <=> Free(q)
  BY <1>3, <1>4 DEF Free, IsBusy, Same
<1>6. {q \in Pages : Free(q)}' = {q \in Pages : Free(q)}
  BY <1>5
<1> QED
  BY <1>1, <1>2, <1>3, <1>4, <1>5, <1>6 DEF PagesOK

\* RemovePage and Free.
LEMMA PagesFreed ==
  ASSUME Types, PagesOK, NEW S \in SUBSET Pages, RemoveAndFree(S),
         \A q \in S : ~Free(q),
         \A q \in Pages \ S : ~Free(q) => fRefCount'[fCache[q]] > 0
  PROVE  /\ PagesOK' /\ PageTypes'
         /\ \A q \in S : Free(q)'
         /\ \A q \in Pages \ S : Same(q)
<1>t. PageTypes
  BY DEF Types, PageTypes
<1>1. /\ fState' = [p \in Pages |-> IF p \in S THEN "free" ELSE fState[p]]
      /\ fCache' = [p \in Pages |-> IF p \in S THEN None ELSE fCache[p]]
      /\ fFreePagesAvailable' = fFreePagesAvailable + Cardinality(S)
      /\ fCacheOffset' = fCacheOffset
  BY DEF RemoveAndFree
<1>2. PageTypes'
  BY <1>1, <1>t DEF PageTypes
<1>3. \A q \in S : fState'[q] = "free" /\ fCache'[q] = None
  BY <1>1
<1>4. \A q \in Pages \ S : Same(q)
  BY <1>1 DEF Same
<1>5. \A q \in Pages : (Free(q) <=> fCache[q] = None)'
  BY <1>3, <1>4 DEF PagesOK, Free, Same
<1>6. \A q \in Pages : (~Free(q) => fRefCount[fCache[q]] > 0)'
  BY <1>3, <1>4 DEF Free, Same
<1>7. ASSUME NEW q \in Pages, NEW r \in Pages, ~Free(q)', fCache'[q] = fCache'[r],
             fCacheOffset'[q] = fCacheOffset'[r]
      PROVE  q = r
  <2>1. q \notin S /\ fCache'[q] # None
    BY <1>3, <1>5, <1>7 DEF Free
  <2>2. r \notin S
    BY <1>3, <1>7, <2>1
  <2> QED
    BY <2>1, <2>2, <1>4, <1>7 DEF PagesOK, Free, Same
<1>8. (fFreePagesAvailable = Cardinality({q \in Pages : Free(q)}))'
  <2>1. FreePages' = FreePages \cup S
    BY <1>3, <1>4 DEF FreePages, Free, Same
  <2>2. FreePages \cap S = {}
    BY DEF FreePages
  <2>3. IsFiniteSet(S)
    BY PageCacheAssumption, FS_Subset
  <2>4. Cardinality(FreePages \cup S) = Cardinality(FreePages) + Cardinality(S)
    BY <2>2, <2>3, FreeSet, CountBoth
  <2>5. fFreePagesAvailable = Cardinality(FreePages)
    BY DEF PagesOK, FreePages
  <2> QED
    BY <1>1, <2>1, <2>4, <2>5 DEF FreePages
<1> QED
  BY <1>2, <1>3, <1>4, <1>5, <1>6, <1>7, <1>8 DEF PagesOK, Free

-----------------------------------------------------------------------------
(* Steps of GetPage. *)

LEMMA RefsKept ==
  ASSUME RefsOK, fRefCount' = fRefCount, mapped' = mapped,
         \A t \in Threads : fault'[t].cache = fault[t].cache
  PROVE  RefsOK'
<1>1. \A c \in Caches : FaultsOf(c)' = FaultsOf(c) /\ CopiesOf(c)' = CopiesOf(c)
  BY DEF FaultsOf, CopiesOf
<1> QED
  BY <1>1 DEF RefsOK

LEMMA UsedAreBusy ==
  ASSUME NEW u \in Threads, ThreadOK(u), NEW q \in Pages, Uses(u, q)
  PROVE  IsBusy(q)
  BY PageCacheAssumption DEF Uses, ThreadOK, CallOK

\* A step of t, with the lock free or held by t, that leaves the other threads'
\* pages as they are.
LEMMA CallStep ==
  ASSUME IInv, NEW t \in Threads,
         fRefCount' = fRefCount, mapped' = mapped,
         fCacheLock \in {None, t}, fCacheLock' \in {None, t},
         stack' \in [Threads -> Seq(Frame)], Len(stack'[t]) <= 2,
         \A u \in Threads \ {t} : stack'[u] = stack[u] /\ fault'[u] = fault[u],
         fault' \in [Threads -> [cache : Caches \cup {None}, write : BOOLEAN,
                                 result : Pages \cup {None}]],
         fault'[t].cache = fault[t].cache,
         PageTypes', PagesOK', ThreadOK(t)',
         \A q \in Pages : Same(q) \/ Free(q) \/ (Uses(t, q) /\ IsBusy(q)),
         \A q \in Pages : IsBusy(q)' => Uses(t, q)' \/ (IsBusy(q) /\ ~Uses(t, q)),
         \A q \in Pages : Uses(t, q)' => Uses(t, q) \/ Free(q)
  PROVE  IInv'
<1>1. Types'
  <2>1. \A u \in Threads : Len(stack'[u]) <= 2
    BY DEF IInv, Types
  <2>2. fCacheLock' \in Threads \cup {None}
    OBVIOUS
  <2> QED
    BY <2>1, <2>2 DEF IInv, Types, PageTypes
<1>2. ASSUME NEW u \in Threads
      PROVE  ThreadOK(u)'
  <2>1. CASE u = t
    BY <2>1
  <2>2. CASE u # t
    <3>1. u \in Threads \ {t} /\ ThreadOK(u) /\ Types /\ PagesOK /\ BusyOK
      BY <2>2 DEF IInv
    <3>2. \A q \in Pages : Holds(u, q) => Same(q)
      BY <3>1, NotHeld
    <3>3. fCacheLock # u
      BY <2>2, PageCacheAssumption
    <3> QED
      BY <3>1, <3>2, <3>3, KeepThread
  <2> QED
    BY <2>1, <2>2
<1>3. \A u \in Threads \ {t}, q \in Pages : Uses(u, q)' <=> Uses(u, q)
  BY DEF Uses
<1>4. BusyOK'
  <2>1. ASSUME NEW q \in Pages, IsBusy(q)'
        PROVE  \E u \in Threads : Uses(u, q)'
    BY <2>1, <1>3 DEF IInv, BusyOK
  <2>2. ASSUME NEW u \in Threads \ {t}, NEW q \in Pages, Uses(t, q)', Uses(u, q)
        PROVE  FALSE
    <3>1. IsBusy(q) /\ ~Free(q)
      BY <2>2, UsedAreBusy DEF IInv, IsBusy, Free
    <3>2. Uses(t, q)
      BY <2>2, <3>1
    <3> QED
      BY <2>2, <3>2 DEF IInv, BusyOK
  <2>3. ASSUME NEW u \in Threads, NEW v \in Threads, NEW q \in Pages, Uses(u, q)', Uses(v, q)'
        PROVE  u = v
    BY <2>2, <2>3, <1>3 DEF IInv, BusyOK
  <2> QED
    BY <2>1, <2>3 DEF BusyOK
<1>5. RefsOK'
  <2>1. \A u \in Threads : fault'[u].cache = fault[u].cache
    OBVIOUS
  <2> QED
    BY <2>1, RefsKept DEF IInv
<1> QED
  BY <1>1, <1>2, <1>4, <1>5 DEF IInv

\* What a thread uses.
LEMMA UsesOf ==
  ASSUME Types, NEW t \in Threads, ThreadOK(t), stack[t] # << >>, NEW q \in Pages
  PROVE  /\ Len(stack[t]) = 1 => (Uses(t, q) <=> Top(t).page = q)
         /\ Len(stack[t]) = 2 => (Uses(t, q) <=> Top(t).page = q \/ stack[t][2].page = q)
  BY Stacks DEF Uses, Top

\* GetPage returns p; its own page, if it had one, is busy no more.
LEMMA ReturnStep ==
  ASSUME IInv, NEW t \in Threads, stack[t] # << >>, NEW p \in Pages, Return(t, p),
         fRefCount' = fRefCount, mapped' = mapped,
         fCacheLock \in {None, t}, fCacheLock' = None,
         PageTypes', PagesOK',
         \A q \in Pages : Same(q) \/ Top(t).page = q \/ (Free(q) /\ ~IsBusy(q)'),
         \A q \in Pages : Top(t).page = q => fState'[q] # "transition",
         fState'[p] = "active",
         \/ fCache'[p] = Top(t).cache
         \/ Top(t).at = "sharing" /\ fCache'[p] = Source[Top(t).cache]
  PROVE  IInv'
<1>i. Types /\ ThreadOK(t) /\ PagesOK /\ BusyOK
  BY DEF IInv
<1>1. ThreadOK(t)'
  BY <1>i, ReturnOK
<1>2. /\ stack' \in [Threads -> Seq(Frame)] /\ Len(stack'[t]) <= 2
      /\ \A u \in Threads \ {t} : stack'[u] = stack[u] /\ fault'[u] = fault[u]
      /\ Len(stack[t]) = 1 => /\ stack'[t] = << >>
                              /\ fault' = [fault EXCEPT ![t].result = p]
      /\ Len(stack[t]) = 2 => /\ Len(stack'[t]) = 1
                              /\ stack'[t][1] = [stack[t][2] EXCEPT !.got = p]
                              /\ fault' = fault
  BY <1>i, Returns
<1>3. Len(stack[t]) \in {1, 2} /\ (Len(stack[t]) = 2 => stack[t][2] \in Frame /\ stack[t][2].page # Top(t).page)
  BY <1>i, CallFacts
<1>f. fault \in [Threads -> [cache : Caches \cup {None}, write : BOOLEAN, result : Pages \cup {None}]]
  BY <1>i DEF Types
<1>4. /\ fault' \in [Threads -> [cache : Caches \cup {None}, write : BOOLEAN, result : Pages \cup {None}]]
      /\ fault'[t].cache = fault[t].cache
  <2>1. CASE Len(stack[t]) = 1
    BY <1>2, <1>f, <2>1, SMTT(40)
  <2>2. CASE Len(stack[t]) = 2
    BY <1>2, <1>f, <2>2
  <2> QED
    BY <1>3, <2>1, <2>2
<1>5. ASSUME NEW q \in Pages
      PROVE  Uses(t, q)' <=> Uses(t, q) /\ Top(t).page # q
  <2>1. CASE Len(stack[t]) = 1
    <3>1. 1..Len(stack'[t]) = {}
      BY <1>2, <2>1
    <3> QED
      BY <1>i, <2>1, <3>1, UsesOf DEF Uses
  <2>2. CASE Len(stack[t]) = 2
    <3>a. Len(stack'[t]) = 1 /\ 1..1 = {1}
      BY <1>2, <2>2
    <3>b. stack'[t][1].page = stack[t][2].page
      BY <1>2, <1>3, <2>2 DEF Frame
    <3>1. 1..Len(stack'[t]) = {1} /\ stack'[t][1].page = stack[t][2].page
      BY <3>a, <3>b
    <3> QED
      BY <1>i, <1>3, <2>2, <3>1, UsesOf DEF Uses
  <2> QED
    BY <1>3, <2>1, <2>2
<1>6. \A q \in Pages : Top(t).page = q => Uses(t, q) /\ IsBusy(q)
  <2>1. \A q \in Pages : Top(t).page = q => Uses(t, q)
    BY <1>i, <1>3, UsesOf
  <2> QED
    BY <1>i, <2>1, UsedAreBusy
<1>7. \A q \in Pages : Same(q) \/ Free(q) \/ (Uses(t, q) /\ IsBusy(q))
  BY <1>6
<1>8. ASSUME NEW q \in Pages, IsBusy(q)'
      PROVE  Uses(t, q)' \/ (IsBusy(q) /\ ~Uses(t, q))
  BY <1>5, <1>8 DEF Same, IsBusy
<1>9. \A q \in Pages : Uses(t, q)' => Uses(t, q) \/ Free(q)
  BY <1>5
<1> QED
  BY <1>1, <1>2, <1>4, <1>7, <1>8, <1>9, CallStep

\* GetPage goes on in the same call, which is g now.
LEMMA GoToStep ==
  ASSUME IInv, NEW t \in Threads, stack[t] # << >>, NEW g \in Frame,
         stack' = [stack EXCEPT ![t] = [@ EXCEPT ![1] = g]],
         g.cache = Top(t).cache, g.privateCopy = Top(t).privateCopy, CallOK(t, g)',
         fRefCount' = fRefCount, mapped' = mapped, fault' = fault,
         fCacheLock \in {None, t}, fCacheLock' \in {None, t},
         PageTypes', PagesOK',
         \A q \in Pages : Same(q) \/ Top(t).page = q \/ Free(q),
         \A q \in Pages : IsBusy(q)' => g.page = q \/ (IsBusy(q) /\ Top(t).page # q),
         \A q \in Pages : g.page = q => Top(t).page = q \/ Free(q)
  PROVE  IInv'
<1>i. Types /\ ThreadOK(t) /\ PagesOK /\ BusyOK
  BY DEF IInv
<1>n. None \notin Pages
  BY PageCacheAssumption
<1>1. /\ Top(t) \in Frame /\ CallOK(t, Top(t)) /\ Len(stack[t]) \in {1, 2}
      /\ fault[t].cache \in Caches /\ fault[t].result = None
      /\ Len(stack[t]) = 2 => /\ stack[t][2] \in Frame /\ CallOK(t, stack[t][2])
                              /\ stack[t][2].page \in Pages /\ stack[t][2].page # Top(t).page
  BY <1>i, CallFacts
<1>s. stack \in [Threads -> Seq(Frame)] /\ stack[t] \in Seq(Frame)
  BY <1>i, Stacks DEF Types
<1>2. /\ [stack[t] EXCEPT ![1] = g] \in Seq(Frame)
      /\ Len([stack[t] EXCEPT ![1] = g]) = Len(stack[t])
      /\ [stack[t] EXCEPT ![1] = g][1] = g
      /\ Len(stack[t]) = 2 => [stack[t] EXCEPT ![1] = g][2] = stack[t][2]
  <2>1. 1 \in 1..Len(stack[t])
    BY <1>1
  <2>2. Len(stack[t]) = 2 => 2 \in 1..Len(stack[t])
    OBVIOUS
  <2> QED
    BY <1>s, <2>1, <2>2, ExceptSeq
<1>3. /\ stack' \in [Threads -> Seq(Frame)] /\ Len(stack'[t]) = Len(stack[t])
      /\ stack'[t][1] = g
      /\ Len(stack[t]) = 2 => stack'[t][2] = stack[t][2]
      /\ \A u \in Threads \ {t} : stack'[u] = stack[u]
  <2> DEFINE s == [stack[t] EXCEPT ![1] = g]
  <2>1. stack' = [stack EXCEPT ![t] = s]
    OBVIOUS
  <2>2. s \in Seq(Frame) /\ Len(s) = Len(stack[t]) /\ s[1] = g /\ (Len(stack[t]) = 2 => s[2] = stack[t][2])
    BY <1>2
  <2> HIDE DEF s
  <2> QED
    BY <1>s, <2>1, <2>2
<1>4. 1..1 = {1} /\ 1..2 = {1, 2} /\ 1 # 2
  OBVIOUS
<1>5. ASSUME Len(stack[t]) = 2
      PROVE  CallOK(t, stack[t][2])'
  <2> DEFINE h == stack[t][2]
  <2>1. h \in Frame /\ CallOK(t, h) /\ h.page \in Pages /\ h.page # Top(t).page
    BY <1>1, <1>5
  <2>2. h.at \in {"copying", "sharing"} /\ stack'[t][2] = h
    BY <1>i, <1>3, <1>5 DEF ThreadOK, NestingOK
  <2> HIDE DEF h
  <2>3. IsBusy(h.page) /\ ~Free(h.page) /\ Same(h.page)
    BY <1>n, <2>1 DEF CallOK, IsBusy, Free
  <2>4. Top(t).page \in Pages => IsBusy(Top(t).page)
    BY <1>n, <1>1 DEF CallOK
  <2>5. h.got \in Pages => fState[h.got] = "active" /\ Same(h.got)
    BY <1>n, <2>1, <2>4 DEF CallOK, IsBusy, Free
  <2> QED
    BY <1>n, <2>1, <2>2, <2>3, <2>5, ZenonT(60) DEF CallOK, Same, IsBusy, IsCopy, Allocs, Frame
<1>6. \A i \in 1..Len(stack'[t]) : CallOK(t, stack[t][i])'
  <2>1. CallOK(t, stack[t][1])'
    <3>1. stack'[t][1] = g
      BY <1>3
    <3> QED
      BY <3>1, ZenonT(60) DEF CallOK
  <2> QED
    BY <1>1, <1>3, <1>4, <1>5, <2>1
<1>7. NestingOK(t)'
  BY <1>i, <1>1, <1>3, <1>4 DEF ThreadOK, NestingOK, IsCopy, Top
<1>8. FaultOK(t)'
  <2>1. stack'[t] # << >>
    <3>1. Len(stack'[t]) # 0 /\ Len(<< >>) = 0
      BY <1>1, <1>3, <1>4, EmptySeq
    <3> QED
      BY <3>1, Zenon
  <2> QED
    BY <1>1, <1>n, <2>1, PageCacheAssumption DEF FaultOK
<1>9. ThreadOK(t)'
  BY <1>6, <1>7, <1>8 DEF ThreadOK
<1>10. \A q \in Pages : /\ Uses(t, q) <=> Top(t).page = q \/ (Len(stack[t]) = 2 /\ stack[t][2].page = q)
                        /\ Uses(t, q)' <=> g.page = q \/ (Len(stack[t]) = 2 /\ stack[t][2].page = q)
  <2>1. \A q \in Pages : Uses(t, q) <=> Top(t).page = q \/ (Len(stack[t]) = 2 /\ stack[t][2].page = q)
    BY <1>i, <1>1, <1>4, UsesOf
  <2>2. ASSUME NEW q \in Pages
        PROVE  Uses(t, q)' <=> g.page = q \/ (Len(stack[t]) = 2 /\ stack[t][2].page = q)
    BY <1>1, <1>3, <1>4 DEF Uses
  <2> QED
    BY <2>1, <2>2
<1>11. \A q \in Pages : Uses(t, q) => IsBusy(q)
  BY <1>i, UsedAreBusy
<1>12. \A q \in Pages : Same(q) \/ Free(q) \/ (Uses(t, q) /\ IsBusy(q))
  BY <1>10, <1>11
<1>13. \A q \in Pages : IsBusy(q)' => Uses(t, q)' \/ (IsBusy(q) /\ ~Uses(t, q))
  BY <1>10
<1>14. \A q \in Pages : Uses(t, q)' => Uses(t, q) \/ Free(q)
  BY <1>10
<1>15. /\ \A u \in Threads \ {t} : stack'[u] = stack[u] /\ fault'[u] = fault[u]
       /\ fault' \in [Threads -> [cache : Caches \cup {None}, write : BOOLEAN,
                                  result : Pages \cup {None}]]
       /\ fault'[t].cache = fault[t].cache
       /\ Len(stack'[t]) <= 2
  <2>1. Len(stack'[t]) <= 2
    BY <1>1, <1>3
  <2> QED
    BY <1>i, <1>3, <2>1 DEF Types
<1> QED
  BY <1>3, <1>9, <1>12, <1>13, <1>14, <1>15, CallStep

\* The cache that a call is for is there.
LEMMA CallHolds ==
  ASSUME IInv, NEW t \in Threads, stack[t] # << >>
  PROVE  Top(t).cache \in Caches /\ fRefCount[Top(t).cache] > 0
<1>1. /\ Types /\ ThreadOK(t) /\ RefsOK
  BY DEF IInv
<1>2. /\ Len(stack[t]) \in {1, 2} /\ fault[t].cache \in Caches
      /\ Len(stack[t]) = 1 => Top(t).cache = fault[t].cache
      /\ Len(stack[t]) = 2 => Top(t).cache \in Files
  BY <1>1, CallFacts
<1>3. fault[t].cache # None
  BY <1>2, PageCacheAssumption
<1>4. Len(stack[t]) = 1 => fRefCount[Top(t).cache] > 0
  BY <1>1, <1>2, <1>3, FaultHolds
<1>5. Len(stack[t]) = 2 => fRefCount[Top(t).cache] > 0
  BY <1>1, <1>2, FileHeld
<1> QED
  BY <1>2, <1>4, <1>5 DEF Caches

\* The stack that CallSource makes from a stack of one call.
LEMMA TwoCalls ==
  ASSUME NEW S, NEW a \in S, NEW b \in S, NEW r \in Seq(S), Len(r) = 1
  PROVE  /\ <<a>> \o <<b>> \o Tail(r) \in Seq(S) /\ Len(<<a>> \o <<b>> \o Tail(r)) = 2
         /\ (<<a>> \o <<b>> \o Tail(r))[1] = a /\ (<<a>> \o <<b>> \o Tail(r))[2] = b
<1>0. r # << >>
  <2>1. Len(<< >>) = 0 /\ 0 # 1
    BY EmptySeq
  <2> QED
    BY <2>1, Zenon
<1>1. Tail(r) \in Seq(S) /\ Len(Tail(r)) = 0
  <2>1. Tail(r) \in Seq(S) /\ Len(Tail(r)) = Len(r) - 1
    BY <1>0, HeadTailProperties
  <2> QED
    BY <2>1
<1>2. /\ <<a>> \in Seq(S) /\ Len(<<a>>) = 1 /\ <<a>>[1] = a
      /\ <<b>> \in Seq(S) /\ Len(<<b>>) = 1 /\ <<b>>[1] = b
  OBVIOUS
<1>3. ASSUME NEW x \in Seq(S), NEW y \in Seq(S), NEW z \in Seq(S),
             Len(x) = 1, Len(y) = 1, Len(z) = 0
      PROVE  /\ x \o y \o z \in Seq(S) /\ Len(x \o y \o z) = 2
             /\ (x \o y \o z)[1] = x[1] /\ (x \o y \o z)[2] = y[1]
  <2>1. x \o y \in Seq(S) /\ Len(x \o y) = 2 /\ (x \o y)[1] = x[1] /\ (x \o y)[2] = y[1]
    BY <1>3, ConcatProperties
  <2> QED
    BY <1>3, <2>1, ConcatProperties
<1> DEFINE x == <<a>>
           y == <<b>>
           z == Tail(r)
<1>4. /\ x \in Seq(S) /\ y \in Seq(S) /\ z \in Seq(S)
      /\ Len(x) = 1 /\ Len(y) = 1 /\ Len(z) = 0 /\ x[1] = a /\ y[1] = b
  BY <1>1, <1>2
<1> HIDE DEF x, y, z
<1>5. /\ x \o y \o z \in Seq(S) /\ Len(x \o y \o z) = 2
      /\ (x \o y \o z)[1] = x[1] /\ (x \o y \o z)[2] = y[1]
  BY <1>3, <1>4, Zenon
<1>6. (x \o y \o z)[1] = a /\ (x \o y \o z)[2] = b
  BY <1>4, <1>5, Zenon
<1> QED
  BY <1>5, <1>6 DEF x, y, z

\* A busy page p is inserted, and GetPage of the source is called.
AsksSource(t, place, p) ==
  /\ \/ Top(t).at = "alloc to copy" /\ place = "copying"
     \/ Top(t).at = "alloc dummy" /\ place = "sharing"
  /\ AllocAndInsert(p, Top(t).cache, Top(t).offset, "transition")
  /\ CallSource(t, place, p)

LEMMA SourceStep ==
  ASSUME IInv, NEW t \in Threads, stack[t] # << >>, NEW p \in Pages,
         NEW place, AsksSource(t, place, p), fCacheLock' = None,
         fRefCount' = fRefCount, mapped' = mapped, fault' = fault
  PROVE  IInv'
<1>i. Types /\ ThreadOK(t) /\ PagesOK /\ BusyOK /\ RefsOK
  BY DEF IInv
<1>n. None \notin Pages /\ None \notin Caches
  BY PageCacheAssumption
<1> DEFINE f == Top(t)
           g == Call(Source[f.cache], f.offset, FALSE)
           h == [f EXCEPT !.at = place, !.page = p]
           s == <<g>> \o <<h>> \o Tail(stack[t])
<1>1. /\ f \in Frame /\ CallOK(t, f) /\ Len(stack[t]) \in {1, 2}
      /\ fault[t].cache \in Caches /\ fault[t].result = None
      /\ Len(stack[t]) = 1 => f.cache = fault[t].cache
      /\ Len(stack[t]) = 2 => f.cache \in Files
  BY <1>i, CallFacts
<1>2. /\ f.cache \in Copies /\ IsCopy(f.cache) /\ f.page = None
      /\ f.at \in Allocs /\ fCacheLock = t /\ LookupPage(f.cache, f.offset) = {}
      /\ place = "copying" => f.privateCopy
      /\ place = "sharing" => ~f.privateCopy
      /\ f.cache \in Caches /\ f.offset \in Offsets
  BY <1>1 DEF AsksSource, CallOK, Allocs, IsCopy, Frame
<1>3. Len(stack[t]) = 1 /\ f.cache = fault[t].cache
  BY <1>1, <1>2, PageCacheAssumption
<1>4. fRefCount[f.cache] > 0
  BY CallHolds
<1>5. /\ PagesOK' /\ PageTypes'
      /\ Free(p) /\ fState'[p] = "transition" /\ fCache'[p] = f.cache /\ fCacheOffset'[p] = f.offset
      /\ \A q \in Pages \ {p} : Same(q)
  BY <1>i, <1>2, <1>4, PageInserted DEF AsksSource
<1>6. g \in Frame /\ g.cache = Source[f.cache] /\ g.page = None /\ g.got = None /\ g.at = "look"
  <2>1. Source[f.cache] \in Caches
    BY <1>2, PageCacheAssumption DEF Caches
  <2> QED
    BY <1>2, <2>1 DEF Call, Frame, Places
<1>7. /\ h \in Frame /\ h.cache = f.cache /\ h.offset = f.offset /\ h.privateCopy = f.privateCopy
      /\ h.at = place /\ h.page = p /\ h.got = f.got
  BY <1>1 DEF AsksSource, Frame, Places
<1> HIDE DEF f, g, h
<1>8. s \in Seq(Frame) /\ Len(s) = 2 /\ s[1] = g /\ s[2] = h
  <2>1. stack[t] \in Seq(Frame)
    BY <1>i, Stacks
  <2> QED
    BY <1>3, <1>6, <1>7, <2>1, TwoCalls
<1>9. stack' = [stack EXCEPT ![t] = s]
  BY DEF AsksSource, CallSource, f, g, h
<1> HIDE DEF s
<1>10. /\ stack' \in [Threads -> Seq(Frame)] /\ stack'[t] = s
       /\ \A u \in Threads \ {t} : stack'[u] = stack[u]
  BY <1>i, <1>8, <1>9 DEF Types
<1>11. Len(stack'[t]) = 2 /\ stack'[t][1] = g /\ stack'[t][2] = h
  BY <1>8, <1>10
<1>a. 1..2 = {1, 2}
  OBVIOUS
<1>12. CallOK(t, stack[t][1])'
  BY <1>6, <1>n, <1>11 DEF CallOK, Allocs
<1>13. CallOK(t, stack[t][2])'
  <2>1. h.got \in Pages => fState[h.got] = "active" /\ fCache[h.got] = Source[f.cache]
    BY <1>1, <1>7, <1>n DEF CallOK
  <2>2. h.got \in Pages => Same(h.got)
    BY <2>1, <1>5 DEF Free
  <2>3. h.got \in Pages \cup {None}
    BY <1>7 DEF Frame
  <2> QED
    BY <1>2, <1>5, <1>7, <1>n, <1>11, <2>1, <2>2, <2>3, ZenonT(60) DEF AsksSource, CallOK, Allocs, Same, IsBusy, IsCopy
<1>14. ThreadOK(t)'
  <2>1. \A i \in 1..Len(stack'[t]) : CallOK(t, stack[t][i])'
    BY <1>a, <1>11, <1>12, <1>13
  <2>2. f.privateCopy = (fault[t].write /\ IsCopy(fault[t].cache))
    BY <1>i, <1>3 DEF ThreadOK, NestingOK, Top, f
  <2>3. NestingOK(t)'
    BY <1>2, <1>3, <1>6, <1>7, <1>11, <2>2 DEF AsksSource, NestingOK, IsCopy
  <2>4. stack'[t] # << >>
    <3>1. Len(stack'[t]) # 0 /\ Len(<< >>) = 0
      BY <1>11, EmptySeq
    <3> QED
      BY <3>1, Zenon
  <2>5. FaultOK(t)'
    BY <1>1, <1>n, <2>4 DEF FaultOK
  <2> QED
    BY <2>1, <2>3, <2>5 DEF ThreadOK
<1>15. \A q \in Pages : ~Uses(t, q)
  BY <1>2, <1>3, <1>i, <1>n, UsesOf DEF f
<1>16. \A q \in Pages : Uses(t, q)' <=> q = p
  BY <1>6, <1>7, <1>a, <1>11, <1>n DEF Uses
<1>17. \A q \in Pages : Same(q) \/ Free(q)
  BY <1>5
<1>18. \A q \in Pages : IsBusy(q)' => Uses(t, q)' \/ (IsBusy(q) /\ ~Uses(t, q))
  BY <1>5, <1>15, <1>16 DEF IsBusy, Same
<1>19. \A q \in Pages : Uses(t, q)' => Free(q)
  BY <1>5, <1>16
<1>20. Len(stack'[t]) <= 2
  BY <1>11
<1>21. /\ \A u \in Threads \ {t} : fault'[u] = fault[u]
       /\ fault' \in [Threads -> [cache : Caches \cup {None}, write : BOOLEAN,
                                  result : Pages \cup {None}]]
       /\ fault'[t].cache = fault[t].cache
  BY <1>i DEF Types
<1> QED
  BY <1>2, <1>5, <1>10, <1>14, <1>17, <1>18, <1>19, <1>20, <1>21, CallStep

\* Onward leads to an allocation, of the kind that the call asks for.
LEMMA OnwardFacts ==
  ASSUME NEW f \in Frame, NEW b \in BOOLEAN
  PROVE  /\ Onward(f, b) \in Allocs
         /\ Onward(f, b) = "alloc to copy" => IsCopy(f.cache) /\ f.privateCopy
         /\ Onward(f, b) = "alloc dummy" => IsCopy(f.cache) /\ ~f.privateCopy
<1>1. CASE f.cache \in Files /\ ~b
  BY <1>1 DEF Onward, Allocs
<1>2. CASE ~(f.cache \in Files /\ ~b) /\ IsCopy(f.cache) /\ f.privateCopy
  BY <1>2 DEF Onward, Allocs
<1>3. CASE ~(f.cache \in Files /\ ~b) /\ IsCopy(f.cache) /\ ~f.privateCopy
  BY <1>3 DEF Onward, Allocs
<1>4. CASE ~(f.cache \in Files /\ ~b) /\ ~IsCopy(f.cache)
  BY <1>4 DEF Onward, Allocs
<1> QED
  BY <1>1, <1>2, <1>3, <1>4

LEMMA LookOK ==
  ASSUME IInv, NEW t \in Threads, Look(t)
  PROVE  IInv'
<1>i. Types /\ ThreadOK(t) /\ PagesOK
  BY DEF IInv
<1>n. None \notin Pages /\ None \notin Caches
  BY PageCacheAssumption
<1>1. /\ stack[t] # << >> /\ Top(t).at = "look" /\ fCacheLock = None
      /\ fRefCount' = fRefCount /\ mapped' = mapped
      /\ fState' = fState /\ fCache' = fCache /\ fCacheOffset' = fCacheOffset
      /\ fFreePagesAvailable' = fFreePagesAvailable
  BY DEF Look, At, LockFree, pageVars
<1>2. Top(t) \in Frame /\ CallOK(t, Top(t)) /\ Top(t).page = None
  <2>1. Top(t) \in Frame /\ CallOK(t, Top(t))
    BY <1>i, <1>1, CallFacts
  <2> QED
    BY <1>1, <2>1 DEF CallOK
<1>3. /\ PagesOK' /\ PageTypes' /\ \A q \in Pages : Same(q)
      /\ \A q \in Pages : IsBusy(q)' <=> IsBusy(q)
  BY <1>i, <1>1 DEF PagesOK, Free, IsBusy, Types, PageTypes, Same
<1> DEFINE found == LookupPage(Top(t).cache, Top(t).offset)
<1>4. CASE found = {}
  <2>1. fCacheLock' = t /\ stack' = GoTo(t, Onward(Top(t), FALSE)) /\ fault' = fault
    BY <1>4 DEF Look
  <2>2. PICK g : g = [Top(t) EXCEPT !.at = Onward(Top(t), FALSE)]
    OBVIOUS
  <2>3. /\ Onward(Top(t), FALSE) \in Allocs
        /\ Onward(Top(t), FALSE) = "alloc to copy" => IsCopy(Top(t).cache) /\ Top(t).privateCopy
        /\ Onward(Top(t), FALSE) = "alloc dummy" => IsCopy(Top(t).cache) /\ ~Top(t).privateCopy
    BY <1>2, OnwardFacts
  <2>4. /\ g \in Frame /\ g.cache = Top(t).cache /\ g.privateCopy = Top(t).privateCopy
        /\ g.offset = Top(t).offset /\ g.page = None /\ g.got = Top(t).got
        /\ g.at = Onward(Top(t), FALSE)
    BY <1>2, <2>2, <2>3 DEF Frame, Places
  <2>5. stack' = [stack EXCEPT ![t] = [@ EXCEPT ![1] = g]]
    BY <2>1, <2>2 DEF GoTo, Top
  <2>6. CallOK(t, g)'
    <3>1. LookupPage(g.cache, g.offset)' = {}
      BY <1>1, <1>4, <2>4 DEF LookupPage
    <3>2. g.got # None => /\ fState'[g.got] = "active"
                          /\ IsCopy(g.cache) /\ fCache'[g.got] = Source[g.cache]
      BY <1>1, <1>2, <2>4 DEF CallOK
    <3> QED
      BY <2>1, <2>3, <2>4, <3>1, <3>2 DEF CallOK, Allocs, IsCopy
  <2> HIDE DEF found
  <2>7. \A q \in Pages : IsBusy(q)' => g.page = q \/ (IsBusy(q) /\ Top(t).page # q)
    BY <1>n, <1>2, <1>3
  <2>8. \A q \in Pages : g.page = q => Top(t).page = q \/ Free(q)
    BY <1>n, <2>4
  <2> QED
    BY <1>1, <1>3, <2>1, <2>4, <2>5, <2>6, <2>7, <2>8, GoToStep
<1>5. CASE found # {}
  <2>1. PICK p \in found : p = CHOOSE q \in found : TRUE
    BY <1>5
  <2>2. Return(t, p) /\ fCacheLock' = fCacheLock /\ ~IsBusy(p)
    BY <1>5, <2>1 DEF Look
  <2>3. p \in Pages /\ fCache[p] = Top(t).cache
    BY <2>1 DEF LookupPage
  <2>4. ~Free(p)
    BY <1>2, <1>i, <1>n, <2>3 DEF PagesOK, Frame
  <2>5. fState'[p] = "active" /\ fCache'[p] = Top(t).cache
    BY <1>i, <1>1, <2>2, <2>3, <2>4 DEF Types, Free, IsBusy
  <2> HIDE DEF found
  <2>6. \A q \in Pages : Top(t).page = q => fState'[q] # "transition"
    BY <1>n, <1>2
  <2> QED
    BY <1>1, <1>3, <2>2, <2>3, <2>5, <2>6, ReturnStep
<1> QED
  BY <1>4, <1>5

LEMMA AllocToReadOK ==
  ASSUME IInv, NEW t \in Threads, NEW p \in Pages, AllocToRead(t, p)
  PROVE  IInv'
<1>i. Types /\ ThreadOK(t) /\ PagesOK
  BY DEF IInv
<1>n. None \notin Pages
  BY PageCacheAssumption
<1>1. /\ stack[t] # << >> /\ Top(t).at = "alloc to read" /\ fCacheLock' = None
      /\ AllocAndInsert(p, Top(t).cache, Top(t).offset, "transition")
      /\ fRefCount' = fRefCount /\ mapped' = mapped /\ fault' = fault
      /\ stack' = [stack EXCEPT ![t][1].at = "reading", ![t][1].page = p]
  BY DEF AllocToRead, At
<1>2. Top(t) \in Frame /\ CallOK(t, Top(t))
  BY <1>i, <1>1, CallFacts
<1>3. /\ Top(t).page = None /\ fCacheLock = t /\ LookupPage(Top(t).cache, Top(t).offset) = {}
      /\ Top(t).offset \in Offsets
  BY <1>1, <1>2 DEF CallOK, Allocs, Frame
<1>4. Top(t).cache \in Caches /\ fRefCount[Top(t).cache] > 0
  BY <1>1, CallHolds
<1>5. /\ PagesOK' /\ PageTypes'
      /\ Free(p) /\ fState'[p] = "transition" /\ fCache'[p] = Top(t).cache
      /\ fCacheOffset'[p] = Top(t).offset
      /\ \A q \in Pages \ {p} : Same(q)
  BY <1>i, <1>1, <1>3, <1>4, PageInserted, ZenonT(60)
<1>6. PICK g : g = [Top(t) EXCEPT !.at = "reading", !.page = p]
  OBVIOUS
<1>7. /\ g \in Frame /\ g.cache = Top(t).cache /\ g.privateCopy = Top(t).privateCopy
      /\ g.offset = Top(t).offset /\ g.page = p /\ g.got = Top(t).got /\ g.at = "reading"
  BY <1>2, <1>6 DEF Frame, Places
<1>8. stack' = [stack EXCEPT ![t] = [@ EXCEPT ![1] = g]]
  BY <1>i, <1>1, <1>6 DEF Top, Types
<1>9. CallOK(t, g)'
  <2>1. g.got # None => Same(g.got) /\ fState[g.got] = "active" /\ IsCopy(g.cache)
                        /\ fCache[g.got] = Source[g.cache]
    BY <1>2, <1>5, <1>7 DEF CallOK, Free, Frame
  <2> QED
    BY <1>n, <1>5, <1>7, <2>1 DEF CallOK, Allocs, IsBusy, IsCopy, Same
<1>10. \A q \in Pages : Same(q) \/ Top(t).page = q \/ Free(q)
  BY <1>5
<1>11. \A q \in Pages : IsBusy(q)' => g.page = q \/ (IsBusy(q) /\ Top(t).page # q)
  BY <1>n, <1>3, <1>5, <1>7 DEF IsBusy, Same
<1>12. \A q \in Pages : g.page = q => Top(t).page = q \/ Free(q)
  BY <1>5, <1>7
<1>13. fCacheLock \in {None, t} /\ fCacheLock' \in {None, t}
  BY <1>1, <1>3
<1> QED
  BY <1>1, <1>5, <1>7, <1>8, <1>9, <1>10, <1>11, <1>12, <1>13, GoToStep

LEMMA FillDone ==
  ASSUME IInv, NEW t \in Threads, ReadDone(t) \/ CopyDone(t)
  PROVE  IInv'
<1>i. Types /\ ThreadOK(t) /\ PagesOK
  BY DEF IInv
<1>1. /\ stack[t] # << >> /\ Top(t).at \in {"reading", "copying"} /\ fCacheLock = None
      /\ SetNotBusy(Top(t).page) /\ Return(t, Top(t).page)
      /\ fCacheLock' = fCacheLock /\ fRefCount' = fRefCount /\ mapped' = mapped
  BY DEF ReadDone, CopyDone, At, LockFree
<1>2. Top(t) \in Frame /\ CallOK(t, Top(t))
  BY <1>i, <1>1, CallFacts
<1>3. PICK p \in Pages : p = Top(t).page
  BY <1>1, <1>2 DEF CallOK, Frame
<1>4. IsBusy(p) /\ fCache[p] = Top(t).cache /\ SetNotBusy(p) /\ Return(t, p)
  BY <1>1, <1>2, <1>3, PageCacheAssumption DEF CallOK
<1>5. /\ PagesOK' /\ PageTypes'
      /\ fState'[p] = "active" /\ fCache'[p] = fCache[p]
      /\ \A q \in Pages \ {p} : Same(q)
  BY <1>i, <1>1, <1>4, PageActivated
<1>6. \A q \in Pages : Same(q) \/ Top(t).page = q \/ (Free(q) /\ ~IsBusy(q)')
  BY <1>3, <1>5
<1>7. \A q \in Pages : Top(t).page = q => fState'[q] # "transition"
  BY <1>3, <1>5
<1>8. fCache'[p] = Top(t).cache
  BY <1>4, <1>5
<1> QED
  BY <1>1, <1>4, <1>5, <1>6, <1>7, <1>8, ReturnStep

LEMMA ReadFailedOK ==
  ASSUME IInv, NEW t \in Threads, ReadFailed(t)
  PROVE  IInv'
<1>i. Types /\ ThreadOK(t) /\ PagesOK
  BY DEF IInv
<1>n. None \notin Pages
  BY PageCacheAssumption
<1>1. /\ stack[t] # << >> /\ Top(t).at = "reading" /\ fCacheLock = None /\ fCacheLock' = t
      /\ RemoveAndFree({Top(t).page})
      /\ fRefCount' = fRefCount /\ mapped' = mapped /\ fault' = fault
      /\ stack' = [stack EXCEPT ![t][1].at = Onward(Top(t), TRUE), ![t][1].page = None]
  BY DEF ReadFailed, At, LockFree
<1>2. Top(t) \in Frame /\ CallOK(t, Top(t))
  BY <1>i, <1>1, CallFacts
<1>3. PICK p \in Pages : p = Top(t).page
  BY <1>1, <1>2 DEF CallOK, Frame
<1>4. /\ IsBusy(p) /\ ~Free(p) /\ fCache[p] = Top(t).cache /\ fCacheOffset[p] = Top(t).offset
      /\ RemoveAndFree({p})
  BY <1>1, <1>2, <1>3, <1>n DEF CallOK, IsBusy, Free
<1>5. /\ PagesOK' /\ PageTypes' /\ Free(p)'
      /\ \A q \in Pages \ {p} : Same(q)
  <2>1. \A q \in Pages \ {p} : ~Free(q) => fRefCount'[fCache[q]] > 0
    BY <1>i, <1>1 DEF PagesOK
  <2>2. {p} \in SUBSET Pages /\ \A q \in {p} : ~Free(q)
    BY <1>4
  <2> QED
    BY <1>i, <1>4, <2>1, <2>2, PagesFreed
<1>6. PICK g : g = [Top(t) EXCEPT !.at = Onward(Top(t), TRUE), !.page = None]
  OBVIOUS
<1>7. /\ Onward(Top(t), TRUE) \in Allocs
      /\ Onward(Top(t), TRUE) = "alloc to copy" => IsCopy(Top(t).cache) /\ Top(t).privateCopy
      /\ Onward(Top(t), TRUE) = "alloc dummy" => IsCopy(Top(t).cache) /\ ~Top(t).privateCopy
  BY <1>2, OnwardFacts
<1>8. /\ g \in Frame /\ g.cache = Top(t).cache /\ g.privateCopy = Top(t).privateCopy
      /\ g.offset = Top(t).offset /\ g.page = None /\ g.got = Top(t).got
      /\ g.at = Onward(Top(t), TRUE)
  BY <1>2, <1>6, <1>7 DEF Frame, Places
<1>9. stack' = [stack EXCEPT ![t] = [@ EXCEPT ![1] = g]]
  BY <1>i, <1>1, <1>6 DEF Top, Types
<1>10. CallOK(t, g)'
  <2>1. ASSUME NEW q \in Pages
        PROVE  ~(fCache'[q] = g.cache /\ fCacheOffset'[q] = g.offset)
    <3>1. CASE q = p
      BY <1>2, <1>5, <1>8, <3>1, PageCacheAssumption DEF PagesOK, Frame
    <3>2. CASE q # p
      BY <1>4, <1>5, <1>8, <1>i, <3>2 DEF PagesOK, Same
    <3> QED
      BY <3>1, <3>2
  <2>2. LookupPage(g.cache, g.offset)' = {}
    BY <2>1 DEF LookupPage
  <2>3. g.got # None => Same(g.got) /\ fState[g.got] = "active" /\ IsCopy(g.cache)
                        /\ fCache[g.got] = Source[g.cache]
    BY <1>2, <1>4, <1>5, <1>8 DEF CallOK, IsBusy, Frame
  <2> QED
    BY <1>1, <1>7, <1>8, <2>2, <2>3 DEF CallOK, Allocs, IsCopy, Same
<1>11. \A q \in Pages : Same(q) \/ Top(t).page = q \/ Free(q)
  BY <1>3, <1>5
<1>12. \A q \in Pages : IsBusy(q)' => g.page = q \/ (IsBusy(q) /\ Top(t).page # q)
  BY <1>3, <1>5 DEF IsBusy, Free, Same
<1>13. \A q \in Pages : g.page = q => Top(t).page = q \/ Free(q)
  BY <1>n, <1>8
<1> QED
  BY <1>1, <1>5, <1>8, <1>9, <1>10, <1>11, <1>12, <1>13, GoToStep

LEMMA AskSource ==
  ASSUME IInv, NEW t \in Threads, NEW p \in Pages, AllocToCopy(t, p) \/ AllocDummy(t, p)
  PROVE  IInv'
<1>1. ASSUME AllocToCopy(t, p)
      PROVE  /\ AsksSource(t, "copying", p) /\ stack[t] # << >> /\ fCacheLock' = None
             /\ fRefCount' = fRefCount /\ mapped' = mapped /\ fault' = fault
  BY <1>1 DEF AllocToCopy, At, AsksSource
<1>2. ASSUME AllocDummy(t, p)
      PROVE  /\ AsksSource(t, "sharing", p) /\ stack[t] # << >> /\ fCacheLock' = None
             /\ fRefCount' = fRefCount /\ mapped' = mapped /\ fault' = fault
  BY <1>2 DEF AllocDummy, At, AsksSource
<1> QED
  BY <1>1, <1>2, SourceStep

LEMMA ShareDoneOK ==
  ASSUME IInv, NEW t \in Threads, ShareDone(t)
  PROVE  IInv'
<1>i. Types /\ ThreadOK(t) /\ PagesOK
  BY DEF IInv
<1>n. None \notin Pages
  BY PageCacheAssumption
<1>1. /\ stack[t] # << >> /\ Top(t).at = "sharing" /\ fCacheLock = None /\ fCacheLock' = None
      /\ Top(t).got # None /\ RemoveAndFree({Top(t).page}) /\ Return(t, Top(t).got)
      /\ fRefCount' = fRefCount /\ mapped' = mapped
  BY DEF ShareDone, At, LockFree
<1>2. Top(t) \in Frame /\ CallOK(t, Top(t))
  BY <1>i, <1>1, CallFacts
<1>3. PICK p \in Pages : p = Top(t).page
  BY <1>1, <1>2 DEF CallOK, Frame
<1>4. PICK r \in Pages : r = Top(t).got
  BY <1>1, <1>2 DEF Frame
<1>5. /\ IsBusy(p) /\ ~Free(p) /\ RemoveAndFree({p})
      /\ Return(t, r) /\ fState[r] = "active" /\ fCache[r] = Source[Top(t).cache]
  BY <1>1, <1>2, <1>3, <1>4, <1>n DEF CallOK, IsBusy, Free
<1>6. /\ PagesOK' /\ PageTypes' /\ Free(p)'
      /\ \A q \in Pages \ {p} : Same(q)
  <2>1. \A q \in Pages \ {p} : ~Free(q) => fRefCount'[fCache[q]] > 0
    BY <1>i, <1>1 DEF PagesOK
  <2>2. {p} \in SUBSET Pages /\ \A q \in {p} : ~Free(q)
    BY <1>5
  <2> QED
    BY <1>i, <1>5, <2>1, <2>2, PagesFreed
<1>7. fState'[r] = "active" /\ fCache'[r] = Source[Top(t).cache]
  BY <1>5, <1>6 DEF IsBusy, Same
<1>8. \A q \in Pages : Same(q) \/ Top(t).page = q \/ (Free(q) /\ ~IsBusy(q)')
  BY <1>3, <1>6
<1>9. \A q \in Pages : Top(t).page = q => fState'[q] # "transition"
  BY <1>3, <1>6 DEF Free
<1> QED
  BY <1>1, <1>5, <1>6, <1>7, <1>8, <1>9, ReturnStep

LEMMA AllocZeroedOK ==
  ASSUME IInv, NEW t \in Threads, NEW p \in Pages, AllocZeroed(t, p)
  PROVE  IInv'
<1>i. Types /\ ThreadOK(t) /\ PagesOK
  BY DEF IInv
<1>1. /\ stack[t] # << >> /\ Top(t).at = "alloc zeroed" /\ fCacheLock' = None
      /\ AllocAndInsert(p, Top(t).cache, Top(t).offset, "active") /\ Return(t, p)
      /\ fRefCount' = fRefCount /\ mapped' = mapped
  BY DEF AllocZeroed, At
<1>2. Top(t) \in Frame /\ CallOK(t, Top(t))
  BY <1>i, <1>1, CallFacts
<1>3. /\ Top(t).page = None /\ fCacheLock = t /\ LookupPage(Top(t).cache, Top(t).offset) = {}
      /\ Top(t).offset \in Offsets
  BY <1>1, <1>2 DEF CallOK, Allocs, Frame
<1>4. Top(t).cache \in Caches /\ fRefCount[Top(t).cache] > 0
  BY <1>1, CallHolds
<1>5. /\ PagesOK' /\ PageTypes'
      /\ Free(p) /\ fState'[p] = "active" /\ fCache'[p] = Top(t).cache
      /\ \A q \in Pages \ {p} : Same(q)
  BY <1>i, <1>1, <1>3, <1>4, PageInserted
<1>6. \A q \in Pages : Same(q) \/ Top(t).page = q \/ (Free(q) /\ ~IsBusy(q)')
  BY <1>5 DEF IsBusy
<1>7. \A q \in Pages : Top(t).page = q => fState'[q] # "transition"
  BY <1>3, PageCacheAssumption
<1> QED
  BY <1>1, <1>3, <1>5, <1>6, <1>7, ReturnStep

-----------------------------------------------------------------------------
(* Areas and faults. *)

\* A page that a thread holds is in the cache of its fault, or in a file's.
LEMMA HeldIn ==
  ASSUME Types, NEW u \in Threads, ThreadOK(u), NEW q \in Pages, Holds(u, q)
  PROVE  fCache[q] = fault[u].cache \/ fCache[q] \in Files
<1>n. None \notin Pages
  BY PageCacheAssumption
<1>1. CASE fault[u].result = q
  BY <1>1, <1>n, PageCacheAssumption DEF ThreadOK, FaultOK, IsCopy
<1>2. ASSUME NEW i \in 1..Len(stack[u]), stack[u][i].page = q
      PROVE  fCache[q] = fault[u].cache \/ fCache[q] \in Files
  <2>1. stack[u] # << >>
    BY <1>2, Stacks
  <2>2. /\ Len(stack[u]) \in {1, 2}
        /\ Len(stack[u]) = 1 => Top(u).cache = fault[u].cache
        /\ Len(stack[u]) = 2 => Top(u).cache \in Files
    BY <2>1, CallFacts
  <2>3. Len(stack[u]) = 2 => stack[u][2].cache = fault[u].cache
    BY DEF ThreadOK, NestingOK
  <2>4. fCache[q] = stack[u][i].cache
    BY <1>2, <1>n DEF ThreadOK, CallOK
  <2>5. i = 1 \/ (i = 2 /\ Len(stack[u]) = 2)
    BY <1>2, <2>2
  <2> QED
    BY <2>2, <2>3, <2>4, <2>5 DEF Top
<1>3. ASSUME NEW i \in 1..Len(stack[u]), stack[u][i].got = q
      PROVE  fCache[q] \in Files
  <2>1. IsCopy(stack[u][i].cache) /\ fCache[q] = Source[stack[u][i].cache]
    BY <1>3, <1>n DEF ThreadOK, CallOK
  <2> QED
    BY <2>1, PageCacheAssumption DEF IsCopy
<1> QED
  BY <1>1, <1>2, <1>3 DEF Holds

\* ReleaseRef takes one reference of c away, and the last one c's pages too; the
\* references that copies hold stay as many as there are copies.
LEMMA Released ==
  ASSUME Types, PagesOK, RefsOK, NEW c \in Caches, ReleaseRef(c), fRefCount[c] > 0,
         ~(fRefCount[c] > 1) => c \notin Files
  PROVE  /\ fRefCount' \in [Caches -> Nat]
         /\ \A d \in Caches : fRefCount'[d] + Cardinality(CopiesOf(d))
              = fRefCount[d] + Cardinality(CopiesOf(d))' + (IF d = c THEN -1 ELSE 0)
         /\ \A d \in Caches : IsFiniteSet(CopiesOf(d)') /\ Cardinality(CopiesOf(d)') \in Nat
         /\ PagesOK' /\ PageTypes'
         /\ \A q \in Pages : Same(q) \/ (fCache[q] = c /\ ~(fRefCount[c] > 1) /\ fCacheLock = None)
         /\ \A q \in Pages : IsBusy(q)' => IsBusy(q)
<1>t. /\ fRefCount \in [Caches -> Nat] /\ PageTypes
      /\ None \notin Caches
  BY PageCacheAssumption DEF Types, PageTypes
<1>d. \A d \in Caches : IsFiniteSet(CopiesOf(d)) /\ Cardinality(CopiesOf(d)) \in Nat
  BY RefSets
<1>1. CASE fRefCount[c] > 1
  <2>1. /\ fRefCount' = [fRefCount EXCEPT ![c] = @ - 1]
        /\ fState' = fState /\ fCache' = fCache /\ fCacheOffset' = fCacheOffset
        /\ fFreePagesAvailable' = fFreePagesAvailable
    BY <1>1 DEF ReleaseRef, pageVars
  <2>2. fRefCount[c] - 1 \in Nat /\ fRefCount[c] - 1 > 0
    BY <1>t, <1>1
  <2>3. /\ fRefCount' \in [Caches -> Nat] /\ fRefCount'[c] = fRefCount[c] - 1
        /\ \A d \in Caches \ {c} : fRefCount'[d] = fRefCount[d]
    BY <1>t, <2>1, <2>2
  <2>4. \A d \in Caches : fRefCount'[d] > 0 <=> fRefCount[d] > 0
    BY <1>1, <2>2, <2>3
  <2>5. \A d \in Caches : CopiesOf(d)' = CopiesOf(d)
    <3>1. Copies \subseteq Caches
      BY DEF Caches
    <3> QED
      BY <2>4, <3>1 DEF CopiesOf
  <2>6. PagesOK'
    <3>1. \A q \in Pages : ~Free(q) => fCache[q] \in Caches
      BY <1>t DEF PagesOK, PageTypes
    <3>2. \A q \in Pages : ~Free(q) => fRefCount'[fCache[q]] > 0
      BY <2>4, <3>1 DEF PagesOK
    <3> QED
      BY <2>1, <3>2 DEF PagesOK, Free
  <2>7. ASSUME NEW d \in Caches
        PROVE  fRefCount'[d] + Cardinality(CopiesOf(d))
                 = fRefCount[d] + Cardinality(CopiesOf(d))' + (IF d = c THEN -1 ELSE 0)
    <3>1. Cardinality(CopiesOf(d)') = Cardinality(CopiesOf(d)) /\ Cardinality(CopiesOf(d)) \in Nat
      BY <1>d, <2>5
    <3>2. d = c => fRefCount'[d] = fRefCount[d] - 1
      BY <2>3
    <3>3. d # c => fRefCount'[d] = fRefCount[d]
      BY <2>3
    <3>4. fRefCount[d] \in Nat /\ fRefCount'[d] \in Nat
      BY <1>t, <2>3
    <3> QED
      BY <3>1, <3>2, <3>3, <3>4
  <2>8. PageTypes' /\ \A q \in Pages : Same(q) /\ (IsBusy(q)' => IsBusy(q))
    BY <1>t, <2>1 DEF PageTypes, Same, IsBusy
  <2>9. \A d \in Caches : IsFiniteSet(CopiesOf(d)') /\ Cardinality(CopiesOf(d)') \in Nat
    BY <1>d, <2>5
  <2> QED
    BY <2>3, <2>6, <2>7, <2>8, <2>9
<1>2. CASE ~(fRefCount[c] > 1)
  <2> DEFINE S == {p \in Pages : fCache[p] = c}
             less(d) == IF d = c \/ (IsCopy(c) /\ d = Source[c]) THEN 1 ELSE 0
  <2>1. /\ fCacheLock = None /\ RemoveAndFree(S)
        /\ fRefCount' = [d \in Caches |-> fRefCount[d] - less(d)]
    BY <1>2 DEF ReleaseRef, LockFree
  <2>2. fRefCount[c] = 1 /\ c \notin Files
    BY <1>t, <1>2
  <2>3. IsCopy(c) => /\ Source[c] \in Files /\ Source[c] \in Caches /\ Source[c] # c
                     /\ c \in CopiesOf(Source[c]) /\ Source[c] \notin Copies
    BY <2>2, PageCacheAssumption DEF IsCopy, Caches, CopiesOf
  <2>4. IsCopy(c) => fRefCount[Source[c]] > 1
    <3> SUFFICES ASSUME IsCopy(c)
                 PROVE  fRefCount[Source[c]] > 1
      OBVIOUS
    <3> DEFINE s == Source[c]
    <3>1. Cardinality(CopiesOf(s)) > 0 /\ Cardinality(FaultsOf(s)) \in Nat /\ Cardinality(CopiesOf(s)) \in Nat
      BY <1>d, <2>3, CountOut, RefSets
    <3>2. fRefCount[s] = 1 + (IF s \in mapped THEN 1 ELSE 0)
                         + Cardinality(FaultsOf(s)) + Cardinality(CopiesOf(s))
      BY <2>3 DEF RefsOK
    <3> HIDE DEF s
    <3>3. fRefCount[s] > 1
      BY <3>1, <3>2
    <3> QED
      BY <3>3 DEF s
  <2>5. /\ less(c) = 1
        /\ IsCopy(c) => less(Source[c]) = 1
        /\ \A d \in Caches : d # c /\ ~(IsCopy(c) /\ d = Source[c]) => less(d) = 0
    OBVIOUS
  <2>6. \A d \in Caches : fRefCount'[d] = fRefCount[d] - less(d)
    BY <2>1
  <2> HIDE DEF less
  <2>7. /\ fRefCount'[c] = 0
        /\ IsCopy(c) => fRefCount'[Source[c]] = fRefCount[Source[c]] - 1 /\ fRefCount'[Source[c]] > 0
                        /\ fRefCount'[Source[c]] \in Nat
        /\ \A d \in Caches : d # c /\ ~(IsCopy(c) /\ d = Source[c]) => fRefCount'[d] = fRefCount[d]
    <3>1. fRefCount'[c] = 0
      BY <2>2, <2>5, <2>6
    <3>2. ASSUME IsCopy(c)
          PROVE  fRefCount'[Source[c]] = fRefCount[Source[c]] - 1 /\ fRefCount'[Source[c]] > 0
                 /\ fRefCount'[Source[c]] \in Nat
      <4>1. fRefCount[Source[c]] \in Nat /\ fRefCount[Source[c]] > 1
        BY <1>t, <2>3, <2>4, <3>2
      <4>2. fRefCount'[Source[c]] = fRefCount[Source[c]] - 1
        BY <2>3, <2>5, <2>6, <3>2
      <4> QED
        BY <4>1, <4>2
    <3>3. ASSUME NEW d \in Caches, d # c, ~(IsCopy(c) /\ d = Source[c])
          PROVE  fRefCount'[d] = fRefCount[d]
      <4>1. less(d) = 0 /\ fRefCount[d] \in Nat
        BY <1>t, <2>5, <3>3
      <4> QED
        BY <2>6, <4>1
    <3> QED
      BY <3>1, <3>2, <3>3
  <2>8. fRefCount' \in [Caches -> Nat]
    <3>1. \A d \in Caches : fRefCount'[d] \in Nat
      BY <1>t, <2>7
    <3>2. fRefCount' = [d \in Caches |-> fRefCount'[d]]
      BY <2>1
    <3> QED
      BY <3>1, <3>2
  <2>9. /\ \A d \in Copies : fRefCount'[d] > 0 <=> (d # c /\ fRefCount[d] > 0)
    BY <2>3, <2>7 DEF Caches
  <2>10. \A d \in Caches : /\ IsCopy(c) /\ d = Source[c] => CopiesOf(d)' = CopiesOf(d) \ {c}
                           /\ ~(IsCopy(c) /\ d = Source[c]) => CopiesOf(d)' = CopiesOf(d)
    BY <2>9 DEF CopiesOf, IsCopy
  <2>11. ASSUME NEW d \in Caches
         PROVE  /\ fRefCount'[d] + Cardinality(CopiesOf(d))
                     = fRefCount[d] + Cardinality(CopiesOf(d))' + (IF d = c THEN -1 ELSE 0)
                /\ IsFiniteSet(CopiesOf(d)') /\ Cardinality(CopiesOf(d)') \in Nat
    <3>0. fRefCount[d] \in Nat /\ fRefCount'[d] \in Nat /\ Cardinality(CopiesOf(d)) \in Nat
      BY <1>t, <1>d, <2>8
    <3>1. CASE IsCopy(c) /\ d = Source[c]
      <4>1. /\ Cardinality(CopiesOf(d)') = Cardinality(CopiesOf(d)) - 1
            /\ IsFiniteSet(CopiesOf(d)')
        BY <1>d, <2>3, <2>10, <3>1, CountOut
      <4>2. Cardinality(CopiesOf(d)') \in Nat
        BY <4>1, FS_CardinalityType
      <4>3. d # c /\ fRefCount'[d] = fRefCount[d] - 1
        BY <2>3, <2>7, <3>1
      <4> QED
        BY <3>0, <4>1, <4>2, <4>3
    <3>2. CASE d = c
      <4>1. CopiesOf(d)' = CopiesOf(d)
        BY <2>3, <2>10, <3>2
      <4>2. IsFiniteSet(CopiesOf(d)') /\ Cardinality(CopiesOf(d)') = Cardinality(CopiesOf(d))
        BY <1>d, <4>1
      <4>3. fRefCount'[d] = fRefCount[d] - 1
        BY <2>2, <2>7, <3>2
      <4> QED
        BY <3>0, <3>2, <4>2, <4>3
    <3>3. CASE d # c /\ ~(IsCopy(c) /\ d = Source[c])
      <4>1. CopiesOf(d)' = CopiesOf(d)
        BY <2>10, <3>3
      <4>2. IsFiniteSet(CopiesOf(d)') /\ Cardinality(CopiesOf(d)') = Cardinality(CopiesOf(d))
        BY <1>d, <4>1
      <4>3. fRefCount'[d] = fRefCount[d]
        BY <2>7, <3>3
      <4> QED
        BY <3>0, <3>3, <4>2, <4>3
    <3> QED
      BY <3>1, <3>2, <3>3
  <2>12. \A q \in S : ~Free(q)
    BY <1>t DEF PagesOK
  <2>13. ASSUME NEW q \in Pages \ S, ~Free(q)
         PROVE  fRefCount'[fCache[q]] > 0
    <3>1. fCache[q] \in Caches /\ fCache[q] # c /\ fRefCount[fCache[q]] > 0
      BY <1>t, <2>13 DEF PagesOK, PageTypes
    <3> QED
      BY <2>7, <3>1
  <2>14. /\ PagesOK' /\ PageTypes'
         /\ \A q \in S : Free(q)'
         /\ \A q \in Pages \ S : Same(q)
    BY <2>1, <2>12, <2>13, PagesFreed
  <2>15. \A q \in Pages : Same(q) \/ (fCache[q] = c /\ ~(fRefCount[c] > 1) /\ fCacheLock = None)
    BY <1>2, <2>1, <2>14
  <2>16. \A q \in Pages : IsBusy(q)' => IsBusy(q)
    BY <2>14 DEF IsBusy, Free, Same
  <2> QED
    BY <2>8, <2>11, <2>14, <2>15, <2>16
<1> QED
  BY <1>1, <1>2

\* Threads go on as before while a reference of c is released that they do not
\* hold.
LEMMA OthersAtRelease ==
  ASSUME Types, NEW c \in Caches, NEW u \in Threads, ThreadOK(u),
         stack'[u] = stack[u], fault'[u] = fault[u], fCacheLock' = fCacheLock,
         ~(fRefCount[c] > 1) => c \notin Files /\ fault[u].cache # c,
         \A q \in Pages : Same(q) \/ (fCache[q] = c /\ ~(fRefCount[c] > 1) /\ fCacheLock = None)
  PROVE  ThreadOK(u)'
<1>1. \A q \in Pages : Holds(u, q) => Same(q)
  BY HeldIn
<1>2. fCacheLock # u \/ (fCacheLock' = fCacheLock /\ \A q \in Pages : Same(q))
  BY PageCacheAssumption
<1> QED
  BY <1>1, <1>2, KeepThread

LEMMA FaultDoneOK ==
  ASSUME IInv, NEW t \in Threads, FaultDone(t)
  PROVE  IInv'
<1>i. Types /\ PagesOK /\ BusyOK /\ RefsOK /\ \A u \in Threads : ThreadOK(u)
  BY DEF IInv
<1>n. None \notin Pages /\ None \notin Caches
  BY PageCacheAssumption
<1>0. fault[t].cache # None /\ fault[t].cache \in Caches
  BY <1>i, FaultHolds DEF FaultDone, Idle
<1>c. PICK c \in Caches : c = fault[t].cache
  BY <1>0
<1>1. /\ c # None /\ fault[t].cache = c /\ fault[t].result # None /\ ReleaseRef(c)
      /\ fault' = [fault EXCEPT ![t] = NoFault]
      /\ fCacheLock' = fCacheLock /\ mapped' = mapped /\ stack' = stack
  BY <1>c DEF FaultDone, Idle
<1>2. /\ c \in Caches /\ fRefCount[c] > 0
      /\ ~(fRefCount[c] > 1) => /\ c \notin Files
                                /\ \A u \in Threads \ {t} : fault[u].cache # c
  BY <1>i, <1>1, FaultHolds
<1>f. fault \in [Threads -> [cache : Caches \cup {None}, write : BOOLEAN, result : Pages \cup {None}]]
  BY <1>i DEF Types
<1>3. /\ fault' \in [Threads -> [cache : Caches \cup {None}, write : BOOLEAN, result : Pages \cup {None}]]
      /\ fault'[t] = NoFault /\ \A u \in Threads \ {t} : fault'[u] = fault[u]
  BY <1>1, <1>f DEF NoFault
<1>4. t \in FaultsOf(c) /\ FaultsOf(c)' = FaultsOf(c) \ {t}
      /\ \A d \in Caches \ {c} : FaultsOf(d)' = FaultsOf(d)
  BY <1>1, <1>3, <1>n DEF FaultsOf, NoFault
<1>5. /\ fRefCount' \in [Caches -> Nat]
      /\ \A d \in Caches : fRefCount'[d] + Cardinality(CopiesOf(d))
           = fRefCount[d] + Cardinality(CopiesOf(d))' + (IF d = c THEN -1 ELSE 0)
      /\ \A d \in Caches : IsFiniteSet(CopiesOf(d)') /\ Cardinality(CopiesOf(d)') \in Nat
      /\ PagesOK' /\ PageTypes'
      /\ \A q \in Pages : Same(q) \/ (fCache[q] = c /\ ~(fRefCount[c] > 1) /\ fCacheLock = None)
      /\ \A q \in Pages : IsBusy(q)' => IsBusy(q)
  BY <1>i, <1>1, <1>2, Released
<1>6. Types'
  BY <1>i, <1>1, <1>3, <1>5 DEF Types, PageTypes
<1>7. ASSUME NEW u \in Threads
      PROVE  ThreadOK(u)'
  <2>1. CASE u # t
    BY <1>i, <1>1, <1>2, <1>3, <1>5, <2>1, OthersAtRelease
  <2>2. CASE u = t
    <3>1. stack'[t] = << >>
      BY <1>i, <1>1 DEF ThreadOK, FaultOK
    <3>2. FaultOK(t)'
      BY <1>3, <3>1 DEF FaultOK, NoFault
    <3>3. Len(stack'[t]) = 0
      BY <3>1
    <3> QED
      BY <2>2, <3>2, <3>3 DEF ThreadOK, NestingOK
  <2> QED
    BY <2>1, <2>2
<1>8. BusyOK'
  BY <1>i, <1>1, <1>5 DEF BusyOK, Uses
<1>9. RefsOK'
  <2> SUFFICES ASSUME NEW d \in Caches
               PROVE  fRefCount'[d] = (IF d \in Files THEN 1 ELSE 0) + (IF d \in mapped' THEN 1 ELSE 0)
                                      + Cardinality(FaultsOf(d))' + Cardinality(CopiesOf(d))'
    BY DEF RefsOK
  <2>1. fRefCount[d] = (IF d \in Files THEN 1 ELSE 0) + (IF d \in mapped THEN 1 ELSE 0)
                       + Cardinality(FaultsOf(d)) + Cardinality(CopiesOf(d))
    BY <1>i DEF RefsOK
  <2>2. IsFiniteSet(FaultsOf(d)) /\ Cardinality(FaultsOf(d)) \in Nat /\ Cardinality(CopiesOf(d)) \in Nat
    BY <1>i, RefSets
  <2>3. fRefCount[d] \in Nat /\ fRefCount'[d] \in Nat /\ Cardinality(CopiesOf(d)') \in Nat
    BY <1>5, <1>i DEF Types
  <2>4. Cardinality(FaultsOf(d)') = Cardinality(FaultsOf(d)) + (IF d = c THEN -1 ELSE 0)
    <3>1. CASE d = c
      BY <1>4, <2>2, <3>1, CountOut
    <3>2. CASE d # c
      BY <1>4, <2>2, <3>2
    <3> QED
      BY <3>1, <3>2
  <2>5. fRefCount'[d] + Cardinality(CopiesOf(d))
          = fRefCount[d] + Cardinality(CopiesOf(d))' + (IF d = c THEN -1 ELSE 0)
    BY <1>5
  <2> QED
    BY <1>1, <2>1, <2>2, <2>3, <2>4, <2>5
<1> QED
  BY <1>6, <1>5, <1>7, <1>8, <1>9 DEF IInv

LEMMA DeleteAreaOK ==
  ASSUME IInv, NEW c \in Caches, DeleteArea(c)
  PROVE  IInv'
<1>i. Types /\ PagesOK /\ BusyOK /\ RefsOK /\ \A u \in Threads : ThreadOK(u)
  BY DEF IInv
<1>1. /\ c \in mapped /\ ReleaseRef(c) /\ mapped' = mapped \ {c}
      /\ fCacheLock' = fCacheLock /\ stack' = stack /\ fault' = fault
  BY DEF DeleteArea
<1>2. /\ fRefCount[c] > 0
      /\ ~(fRefCount[c] > 1) => /\ c \notin Files
                                /\ \A u \in Threads : fault[u].cache # c
  BY <1>i, <1>1, AreaHolds
<1>5. /\ fRefCount' \in [Caches -> Nat]
      /\ \A d \in Caches : fRefCount'[d] + Cardinality(CopiesOf(d))
           = fRefCount[d] + Cardinality(CopiesOf(d))' + (IF d = c THEN -1 ELSE 0)
      /\ \A d \in Caches : IsFiniteSet(CopiesOf(d)') /\ Cardinality(CopiesOf(d)') \in Nat
      /\ PagesOK' /\ PageTypes'
      /\ \A q \in Pages : Same(q) \/ (fCache[q] = c /\ ~(fRefCount[c] > 1) /\ fCacheLock = None)
      /\ \A q \in Pages : IsBusy(q)' => IsBusy(q)
  BY <1>i, <1>1, <1>2, Released
<1>6. Types'
  BY <1>i, <1>1, <1>5 DEF Types, PageTypes
<1>7. \A u \in Threads : ThreadOK(u)'
  BY <1>i, <1>1, <1>2, <1>5, OthersAtRelease
<1>8. BusyOK'
  BY <1>i, <1>1, <1>5 DEF BusyOK, Uses
<1>9. RefsOK'
  <2> SUFFICES ASSUME NEW d \in Caches
               PROVE  fRefCount'[d] = (IF d \in Files THEN 1 ELSE 0) + (IF d \in mapped' THEN 1 ELSE 0)
                                      + Cardinality(FaultsOf(d))' + Cardinality(CopiesOf(d))'
    BY DEF RefsOK
  <2>1. fRefCount[d] = (IF d \in Files THEN 1 ELSE 0) + (IF d \in mapped THEN 1 ELSE 0)
                       + Cardinality(FaultsOf(d)) + Cardinality(CopiesOf(d))
    BY <1>i DEF RefsOK
  <2>2. Cardinality(FaultsOf(d)) \in Nat /\ Cardinality(CopiesOf(d)) \in Nat
    BY <1>i, RefSets
  <2>3. fRefCount[d] \in Nat /\ fRefCount'[d] \in Nat /\ Cardinality(CopiesOf(d)') \in Nat
    BY <1>5, <1>i DEF Types
  <2>4. FaultsOf(d)' = FaultsOf(d)
    BY <1>1 DEF FaultsOf
  <2>5. fRefCount'[d] + Cardinality(CopiesOf(d))
          = fRefCount[d] + Cardinality(CopiesOf(d))' + (IF d = c THEN -1 ELSE 0)
    BY <1>5
  <2> QED
    BY <1>1, <2>1, <2>2, <2>3, <2>4, <2>5
<1> QED
  BY <1>6, <1>5, <1>7, <1>8, <1>9 DEF IInv

\* Nothing changes in the threads and pages when references are only added.
LEMMA OnlyAcquired ==
  ASSUME IInv, NEW u \in Threads,
         fState' = fState, fCache' = fCache, fCacheOffset' = fCacheOffset,
         fFreePagesAvailable' = fFreePagesAvailable, fCacheLock' = fCacheLock,
         fRefCount' \in [Caches -> Nat], \A d \in Caches : fRefCount'[d] >= fRefCount[d]
  PROVE  /\ PagesOK'
         /\ stack'[u] = stack[u] /\ fault'[u] = fault[u] => ThreadOK(u)'
<1>i. Types /\ PagesOK /\ ThreadOK(u)
  BY DEF IInv
<1>1. PagesOK'
  <2>1. ASSUME NEW q \in Pages, ~Free(q)
        PROVE  fRefCount'[fCache[q]] > 0
    <3>1. fCache[q] \in Caches /\ fRefCount[fCache[q]] > 0
      BY <1>i, <2>1 DEF Types, PagesOK
    <3>2. fRefCount[fCache[q]] \in Nat /\ fRefCount'[fCache[q]] \in Nat
      BY <1>i, <3>1 DEF Types
    <3> QED
      BY <3>1, <3>2
  <2> QED
    BY <1>i, <2>1 DEF PagesOK, Free
<1>2. \A q \in Pages : Same(q)
  BY DEF Same
<1>3. stack'[u] = stack[u] /\ fault'[u] = fault[u] => ThreadOK(u)'
  BY <1>i, <1>2, KeepThread
<1> QED
  BY <1>1, <1>3

LEMMA HandleFaultOK ==
  ASSUME IInv, NEW t \in Threads, NEW c \in Caches, NEW o \in Offsets, NEW write \in BOOLEAN,
         HandleFault(t, c, o, write)
  PROVE  IInv'
<1>i. Types /\ PagesOK /\ BusyOK /\ RefsOK /\ \A u \in Threads : ThreadOK(u)
  BY DEF IInv
<1>n. None \notin Pages /\ None \notin Caches
  BY PageCacheAssumption
<1> DEFINE g == Call(c, o, write /\ IsCopy(c))
           new == [NoFault EXCEPT !.cache = c, !.write = write]
<1>1. /\ fault[t].cache = None /\ c \in mapped
      /\ fRefCount' = [fRefCount EXCEPT ![c] = @ + 1]
      /\ fault' = [fault EXCEPT ![t] = new] /\ stack' = [stack EXCEPT ![t] = <<g>>]
      /\ fState' = fState /\ fCache' = fCache /\ fCacheOffset' = fCacheOffset
      /\ fFreePagesAvailable' = fFreePagesAvailable
      /\ fCacheLock' = fCacheLock /\ mapped' = mapped
  BY DEF HandleFault, Idle, pageVars
<1>2. /\ new \in [cache : Caches \cup {None}, write : BOOLEAN, result : Pages \cup {None}]
      /\ new.cache = c /\ new.write = write /\ new.result = None
  BY DEF NoFault
<1>3. /\ g \in Frame /\ g.cache = c /\ g.privateCopy = (write /\ IsCopy(c)) /\ g.at = "look"
      /\ g.page = None /\ g.got = None
  BY DEF Call, Frame, Places, IsCopy
<1> HIDE DEF g, new
<1>4. /\ fault' \in [Threads -> [cache : Caches \cup {None}, write : BOOLEAN, result : Pages \cup {None}]]
      /\ fault'[t] = new /\ \A u \in Threads \ {t} : fault'[u] = fault[u]
  BY <1>i, <1>1, <1>2 DEF Types
<1>5. <<g>> \in Seq(Frame) /\ Len(<<g>>) = 1 /\ <<g>>[1] = g /\ <<g>> # << >>
  BY <1>3
<1>6. /\ stack' \in [Threads -> Seq(Frame)] /\ stack'[t] = <<g>>
      /\ \A u \in Threads \ {t} : stack'[u] = stack[u]
  BY <1>i, <1>1, <1>5 DEF Types
<1>r. fRefCount[c] > 0 /\ fRefCount \in [Caches -> Nat]
  BY <1>i, <1>1, AreaHolds DEF Types
<1>7. /\ fRefCount' \in [Caches -> Nat] /\ fRefCount'[c] = fRefCount[c] + 1
      /\ \A d \in Caches \ {c} : fRefCount'[d] = fRefCount[d]
      /\ \A d \in Caches : fRefCount'[d] >= fRefCount[d]
      /\ \A d \in Caches : fRefCount'[d] > 0 <=> fRefCount[d] > 0
  BY <1>1, <1>r
<1>8. Types'
  <2>1. \A u \in Threads : Len(stack'[u]) <= 2
    <3>1. Len(stack'[t]) <= 2
      BY <1>5, <1>6
    <3> QED
      BY <1>i, <1>6, <3>1 DEF Types
  <2> QED
    BY <1>i, <1>1, <1>4, <1>6, <1>7, <2>1 DEF Types
<1>9. PagesOK'
  BY <1>1, <1>7, OnlyAcquired
<1>10. ASSUME NEW u \in Threads
       PROVE  ThreadOK(u)'
  <2>1. CASE u # t
    BY <1>1, <1>4, <1>6, <1>7, <2>1, OnlyAcquired
  <2>2. CASE u = t
    <3>a. 1..1 = {1}
      OBVIOUS
    <3>b. Len(stack'[t]) = 1 /\ stack'[t][1] = g /\ stack'[t] # << >>
      BY <1>5, <1>6
    <3>1. CallOK(t, stack[t][1])'
      BY <1>n, <1>3, <3>b DEF CallOK, Allocs
    <3>2. \A i \in 1..Len(stack'[t]) : CallOK(t, stack[t][i])'
      BY <3>a, <3>b, <3>1
    <3>3. NestingOK(t)'
      BY <1>2, <1>3, <1>4, <3>b DEF NestingOK, IsCopy
    <3>4. FaultOK(t)'
      BY <1>n, <1>2, <1>4, <3>b DEF FaultOK
    <3> QED
      BY <2>2, <3>2, <3>3, <3>4 DEF ThreadOK
  <2> QED
    BY <2>1, <2>2
<1>11. ASSUME NEW q \in Pages
       PROVE  ~Uses(t, q) /\ ~Uses(t, q)'
  <2>1. stack[t] = << >>
    BY <1>i, <1>1 DEF ThreadOK, FaultOK
  <2>2. ~Uses(t, q)
    BY <2>1 DEF Uses
  <2>3. Len(stack'[t]) = 1 /\ stack'[t][1] = g
    BY <1>5, <1>6
  <2>4. ~Uses(t, q)'
    BY <1>n, <1>3, <2>3 DEF Uses
  <2> QED
    BY <2>2, <2>4
<1>12. \A u \in Threads, q \in Pages : Uses(u, q)' <=> Uses(u, q)
  <2>1. \A u \in Threads \ {t}, q \in Pages : Uses(u, q)' <=> Uses(u, q)
    BY <1>6 DEF Uses
  <2> QED
    BY <1>11, <2>1
<1>13. BusyOK'
  BY <1>i, <1>1, <1>12 DEF BusyOK, IsBusy
<1>14. RefsOK'
  <2> SUFFICES ASSUME NEW d \in Caches
               PROVE  fRefCount'[d] = (IF d \in Files THEN 1 ELSE 0) + (IF d \in mapped' THEN 1 ELSE 0)
                                      + Cardinality(FaultsOf(d))' + Cardinality(CopiesOf(d))'
    BY DEF RefsOK
  <2>1. fRefCount[d] = (IF d \in Files THEN 1 ELSE 0) + (IF d \in mapped THEN 1 ELSE 0)
                       + Cardinality(FaultsOf(d)) + Cardinality(CopiesOf(d))
    BY <1>i DEF RefsOK
  <2>2. /\ IsFiniteSet(FaultsOf(d)) /\ Cardinality(FaultsOf(d)) \in Nat /\ Cardinality(CopiesOf(d)) \in Nat
    BY <1>i, RefSets
  <2>3. CopiesOf(d)' = CopiesOf(d)
    BY <1>7 DEF CopiesOf, Caches
  <2>4. CASE d = c
    <3>1. FaultsOf(d)' = FaultsOf(d) \cup {t} /\ t \notin FaultsOf(d)
      BY <1>n, <1>1, <1>2, <1>4, <2>4 DEF FaultsOf
    <3>2. Cardinality(FaultsOf(d)') = Cardinality(FaultsOf(d)) + 1
      BY <2>2, <3>1, CountIn
    <3>3. fRefCount'[d] = fRefCount[d] + 1
      BY <1>7, <2>4
    <3> QED
      BY <1>1, <2>1, <2>2, <2>3, <3>2, <3>3
  <2>5. CASE d # c
    <3>1. FaultsOf(d)' = FaultsOf(d)
      BY <1>n, <1>1, <1>2, <1>4, <2>5 DEF FaultsOf
    <3>2. fRefCount'[d] = fRefCount[d]
      BY <1>7, <2>5
    <3> QED
      BY <1>1, <2>1, <2>3, <3>1, <3>2
  <2> QED
    BY <2>4, <2>5
<1> QED
  BY <1>8, <1>9, <1>10, <1>13, <1>14 DEF IInv

LEMMA CreateAreaOK ==
  ASSUME IInv, NEW c \in Caches, CreateArea(c)
  PROVE  IInv'
<1>i. Types /\ PagesOK /\ BusyOK /\ RefsOK /\ \A u \in Threads : ThreadOK(u)
  BY DEF IInv
<1> DEFINE more(d) == IF d = c \/ (IsCopy(c) /\ d = Source[c]) THEN 1 ELSE 0
<1>1. /\ c \notin mapped /\ (c \in Files \/ fRefCount[c] = 0)
      /\ mapped' = mapped \cup {c}
      /\ fRefCount' = [d \in Caches |-> fRefCount[d] + more(d)]
      /\ fState' = fState /\ fCache' = fCache /\ fCacheOffset' = fCacheOffset
      /\ fFreePagesAvailable' = fFreePagesAvailable
      /\ fCacheLock' = fCacheLock /\ stack' = stack /\ fault' = fault
  BY DEF CreateArea, pageVars
<1>2. fRefCount \in [Caches -> Nat]
  BY <1>i DEF Types
<1>3. IsCopy(c) => /\ Source[c] \in Files /\ Source[c] \in Caches /\ Source[c] # c
                   /\ Source[c] \notin Copies /\ fRefCount[c] = 0 /\ c \in Copies /\ c \notin Files
  BY <1>1, PageCacheAssumption DEF IsCopy, Caches
<1>4. \A d \in Caches : /\ d = c => more(d) = 1
                        /\ IsCopy(c) /\ d = Source[c] => more(d) = 1
                        /\ d # c /\ ~(IsCopy(c) /\ d = Source[c]) => more(d) = 0
  OBVIOUS
<1>5. \A d \in Caches : fRefCount'[d] = fRefCount[d] + more(d)
  BY <1>1
<1> HIDE DEF more
<1>6. ASSUME NEW d \in Caches
      PROVE  /\ fRefCount[d] \in Nat
             /\ d = c \/ (IsCopy(c) /\ d = Source[c]) => fRefCount'[d] = fRefCount[d] + 1
             /\ d # c /\ ~(IsCopy(c) /\ d = Source[c]) => fRefCount'[d] = fRefCount[d]
             /\ fRefCount'[d] \in Nat /\ fRefCount'[d] >= fRefCount[d]
  BY <1>2, <1>4, <1>5
<1>7. fRefCount' \in [Caches -> Nat]
  <2>1. fRefCount' = [d \in Caches |-> fRefCount'[d]]
    BY <1>1
  <2> QED
    BY <1>6, <2>1
<1>8. Types'
  BY <1>i, <1>1, <1>7 DEF Types
<1>9. \A u \in Threads : ThreadOK(u)'
  BY <1>1, <1>6, <1>7, OnlyAcquired
<1>10. PagesOK'
  <2>1. ASSUME NEW q \in Pages, ~Free(q)
        PROVE  fRefCount'[fCache[q]] > 0
    <3>1. fCache[q] \in Caches /\ fRefCount[fCache[q]] > 0
      BY <1>i, <2>1 DEF Types, PagesOK
    <3> QED
      BY <1>6, <3>1
  <2> QED
    BY <1>i, <1>1, <2>1 DEF PagesOK, Free
<1>11. BusyOK'
  BY <1>i, <1>1 DEF BusyOK, IsBusy, Uses
<1>12. \A d \in Copies : fRefCount'[d] > 0 <=> (d = c \/ fRefCount[d] > 0)
  <2>1. ASSUME NEW d \in Copies
        PROVE  fRefCount'[d] > 0 <=> (d = c \/ fRefCount[d] > 0)
    <3>1. d \in Caches /\ ~(IsCopy(c) /\ d = Source[c])
      BY <1>3 DEF Caches
    <3>2. CASE d = c
      BY <1>6, <3>1, <3>2
    <3>3. CASE d # c
      BY <1>6, <3>1, <3>3
    <3> QED
      BY <3>2, <3>3
  <2> QED
    BY <2>1
<1>13. RefsOK'
  <2> SUFFICES ASSUME NEW d \in Caches
               PROVE  fRefCount'[d] = (IF d \in Files THEN 1 ELSE 0) + (IF d \in mapped' THEN 1 ELSE 0)
                                      + Cardinality(FaultsOf(d))' + Cardinality(CopiesOf(d))'
    BY DEF RefsOK
  <2>1. fRefCount[d] = (IF d \in Files THEN 1 ELSE 0) + (IF d \in mapped THEN 1 ELSE 0)
                       + Cardinality(FaultsOf(d)) + Cardinality(CopiesOf(d))
    BY <1>i DEF RefsOK
  <2>2. /\ Cardinality(FaultsOf(d)) \in Nat /\ Cardinality(CopiesOf(d)) \in Nat
        /\ IsFiniteSet(CopiesOf(d))
    BY <1>i, RefSets
  <2>3. FaultsOf(d)' = FaultsOf(d)
    BY <1>1 DEF FaultsOf
  <2>4. CASE IsCopy(c) /\ d = Source[c]
    <3>1. CopiesOf(d)' = CopiesOf(d) \cup {c} /\ c \notin CopiesOf(d)
      BY <1>3, <1>12, <2>4 DEF CopiesOf
    <3>2. Cardinality(CopiesOf(d)') = Cardinality(CopiesOf(d)) + 1
      BY <2>2, <3>1, CountIn
    <3>3. fRefCount'[d] = fRefCount[d] + 1 /\ (d \in mapped' <=> d \in mapped)
      BY <1>1, <1>3, <1>6, <2>4
    <3> QED
      BY <2>1, <2>2, <2>3, <3>2, <3>3
  <2>5. CASE ~(IsCopy(c) /\ d = Source[c])
    <3>1. CopiesOf(d)' = CopiesOf(d)
      BY <1>12, <2>5 DEF CopiesOf, IsCopy
    <3>2. CASE d = c
      <4>1. fRefCount'[d] = fRefCount[d] + 1 /\ d \in mapped' /\ d \notin mapped
        BY <1>1, <1>6, <3>2
      <4> QED
        BY <2>1, <2>2, <2>3, <3>1, <4>1
    <3>3. CASE d # c
      <4>1. fRefCount'[d] = fRefCount[d] /\ (d \in mapped' <=> d \in mapped)
        BY <1>1, <1>6, <2>5, <3>3
      <4> QED
        BY <2>1, <2>3, <3>1, <4>1
    <3> QED
      BY <3>2, <3>3
  <2> QED
    BY <2>4, <2>5
<1> QED
  BY <1>8, <1>9, <1>10, <1>11, <1>13 DEF IInv

-----------------------------------------------------------------------------
(* The theorems. *)

LEMMA InitOK ==
  ASSUME Init
  PROVE  IInv
<1>n. None \notin Pages /\ None \notin Caches
  BY PageCacheAssumption
<1>1. /\ fState = [p \in Pages |-> "free"] /\ fCache = [p \in Pages |-> None]
      /\ fFreePagesAvailable = Cardinality(Pages) /\ fCacheLock = None
      /\ fRefCount = [c \in Caches |-> IF c \in Files THEN 1 ELSE 0]
      /\ mapped = {} /\ stack = [t \in Threads |-> << >>]
      /\ fault = [t \in Threads |-> NoFault]
  BY DEF Init
<1>2. fCacheOffset \in [Pages -> Offsets]
  BY DEF Init
<1>3. NoFault \in [cache : Caches \cup {None}, write : BOOLEAN, result : Pages \cup {None}]
  BY DEF NoFault
<1>4. << >> \in Seq(Frame) /\ Len(<< >>) = 0
  BY EmptySeq
<1>5. \A t \in Threads : stack[t] = << >> /\ Len(stack[t]) = 0
  BY <1>1, <1>4
<1>6. Types
  <2>1. \A t \in Threads : Len(stack[t]) <= 2
    BY <1>5
  <2> QED
    BY <1>1, <1>2, <1>3, <1>4, <2>1 DEF Types
<1>7. ASSUME NEW t \in Threads
      PROVE  ThreadOK(t)
  <2>1. stack[t] = << >> /\ Len(stack[t]) = 0 /\ fault[t] = NoFault
    BY <1>1, <1>5
  <2> QED
    BY <1>n, <2>1 DEF ThreadOK, NestingOK, FaultOK, NoFault
<1>8. PagesOK
  <2>1. {p \in Pages : Free(p)} = Pages
    BY <1>1 DEF Free
  <2>2. \A p \in Pages : Free(p) /\ fCache[p] = None
    BY <1>1 DEF Free
  <2> QED
    BY <1>1, <2>1, <2>2 DEF PagesOK
<1>9. BusyOK
  <2>1. \A t \in Threads, p \in Pages : ~Uses(t, p)
    BY <1>5 DEF Uses
  <2>2. \A p \in Pages : ~IsBusy(p)
    BY <1>1 DEF IsBusy
  <2> QED
    BY <2>1, <2>2 DEF BusyOK
<1>10. RefsOK
  <2> SUFFICES ASSUME NEW c \in Caches
               PROVE  fRefCount[c] = (IF c \in Files THEN 1 ELSE 0) + (IF c \in mapped THEN 1 ELSE 0)
                                     + Cardinality(FaultsOf(c)) + Cardinality(CopiesOf(c))
    BY DEF RefsOK
  <2>1. FaultsOf(c) = {}
    BY <1>1, <1>n DEF FaultsOf, NoFault
  <2>2. CopiesOf(c) = {}
    BY <1>1, PageCacheAssumption DEF CopiesOf, Caches
  <2>3. Cardinality(FaultsOf(c)) = 0 /\ Cardinality(CopiesOf(c)) = 0
    BY <2>1, <2>2, FS_EmptySet
  <2>4. fRefCount[c] = (IF c \in Files THEN 1 ELSE 0) /\ c \notin mapped
    BY <1>1
  <2> QED
    BY <2>3, <2>4
<1> QED
  BY <1>6, <1>7, <1>8, <1>9, <1>10 DEF IInv

LEMMA Stuttering ==
  ASSUME IInv, UNCHANGED vars
  PROVE  IInv'
<1>1. /\ fState' = fState /\ fCache' = fCache /\ fCacheOffset' = fCacheOffset
      /\ fFreePagesAvailable' = fFreePagesAvailable /\ fCacheLock' = fCacheLock
      /\ fRefCount' = fRefCount /\ mapped' = mapped /\ stack' = stack /\ fault' = fault
  BY DEF vars
<1>2. Types'
  BY <1>1 DEF IInv, Types
<1>3. \A q \in Pages : Same(q)
  BY <1>1 DEF Same
<1>4. \A u \in Threads : ThreadOK(u)'
  BY <1>1, <1>3, KeepThread DEF IInv
<1>5. PagesOK'
  BY <1>1 DEF IInv, PagesOK, Free
<1>6. BusyOK'
  BY <1>1 DEF IInv, BusyOK, IsBusy, Uses
<1>7. RefsOK'
  BY <1>1, RefsKept DEF IInv
<1> QED
  BY <1>2, <1>4, <1>5, <1>6, <1>7 DEF IInv

\* Every action of Page.cpp, PageCache.cpp and HandleFault keeps what GetPage's
\* calls rely on.
THEOREM PageCacheInvariant == Spec => []IInv
<1>0. Init => IInv
  BY InitOK
<1>1. IInv /\ [Next]_vars => IInv'
  <2> SUFFICES ASSUME IInv, [Next]_vars
               PROVE  IInv'
    OBVIOUS
  <2>1. ASSUME NEW t \in Threads, Look(t)
        PROVE  IInv'
    BY <2>1, LookOK
  <2>2. ASSUME NEW t \in Threads, ReadDone(t) \/ CopyDone(t)
        PROVE  IInv'
    BY <2>2, FillDone
  <2>3. ASSUME NEW t \in Threads, ReadFailed(t)
        PROVE  IInv'
    BY <2>3, ReadFailedOK
  <2>4. ASSUME NEW t \in Threads, ShareDone(t)
        PROVE  IInv'
    BY <2>4, ShareDoneOK
  <2>5. ASSUME NEW t \in Threads, FaultDone(t)
        PROVE  IInv'
    BY <2>5, FaultDoneOK
  <2>6. ASSUME NEW t \in Threads, NEW p \in Pages, AllocToRead(t, p)
        PROVE  IInv'
    BY <2>6, AllocToReadOK
  <2>7. ASSUME NEW t \in Threads, NEW p \in Pages, AllocToCopy(t, p) \/ AllocDummy(t, p)
        PROVE  IInv'
    BY <2>7, AskSource
  <2>8. ASSUME NEW t \in Threads, NEW p \in Pages, AllocZeroed(t, p)
        PROVE  IInv'
    BY <2>8, AllocZeroedOK
  <2>9. ASSUME NEW t \in Threads, NEW c \in Caches, NEW o \in Offsets, NEW write \in BOOLEAN,
               HandleFault(t, c, o, write)
        PROVE  IInv'
    BY <2>9, HandleFaultOK
  <2>10. ASSUME NEW c \in Caches, CreateArea(c) \/ DeleteArea(c)
         PROVE  IInv'
    BY <2>10, CreateAreaOK, DeleteAreaOK
  <2>11. CASE UNCHANGED vars
    BY <2>11, Stuttering
  <2>12. ASSUME Next
         PROVE  \/ \E t \in Threads :
                     \/ Look(t) \/ ReadDone(t) \/ ReadFailed(t) \/ CopyDone(t) \/ ShareDone(t) \/ FaultDone(t)
                     \/ \E p \in Pages : AllocToRead(t, p) \/ AllocToCopy(t, p) \/ AllocDummy(t, p) \/ AllocZeroed(t, p)
                     \/ \E c \in Caches, o \in Offsets, write \in BOOLEAN : HandleFault(t, c, o, write)
                \/ \E c \in Caches : CreateArea(c) \/ DeleteArea(c)
    BY <2>12, Zenon DEF Next
  <2>13. CASE Next
    BY <2>1, <2>2, <2>3, <2>4, <2>5, <2>6, <2>7, <2>8, <2>9, <2>10, <2>12, <2>13
  <2> QED
    BY <2>11, <2>13
<1> QED
  BY <1>0, <1>1, PTL DEF Spec

\* The pages of a cache differ in their offsets (InsertPage is only called for an
\* offset that was looked for under the same lock, or under a busy page).
LEMMA OnePageHolds ==
  ASSUME IInv
  PROVE  OnePage
<1> SUFFICES ASSUME NEW c \in Caches, NEW o \in Offsets
             PROVE  Cardinality(LookupPage(c, o)) <= 1
  BY DEF OnePage
<1> DEFINE S == LookupPage(c, o)
<1>1. ASSUME NEW p \in S, NEW q \in S
      PROVE  p = q
  <2>1. p \in Pages /\ q \in Pages /\ fCache[p] = c /\ fCache[q] = c
        /\ fCacheOffset[p] = fCacheOffset[q]
    BY DEF LookupPage
  <2>2. ~Free(p)
    BY <2>1, PageCacheAssumption DEF IInv, PagesOK
  <2> QED
    BY <2>1, <2>2 DEF IInv, PagesOK
<1> HIDE DEF S
<1>2. CASE S = {}
  <2>1. Cardinality(S) = 0
    BY <1>2, FS_EmptySet
  <2> QED
    BY <2>1 DEF S
<1>3. CASE S # {}
  <2>1. PICK p : p \in S
    BY <1>3
  <2>2. S = {p}
    BY <1>1, <2>1
  <2>3. Cardinality(S) = 1
    BY <2>2, FS_Singleton
  <2> QED
    BY <2>3 DEF S
<1> QED
  BY <1>2, <1>3

\* A busy page is the page of one call; the other pages are those of no call.
LEMMA UsersCounted ==
  ASSUME IInv, NEW p \in Pages
  PROVE  LET users == {x \in Threads \X (1..2) :
                         x[2] <= Len(stack[x[1]]) /\ stack[x[1]][x[2]].page = p}
         IN  Cardinality(users) = IF IsBusy(p) THEN 1 ELSE 0
<1> DEFINE users == {x \in Threads \X (1..2) :
                       x[2] <= Len(stack[x[1]]) /\ stack[x[1]][x[2]].page = p}
<1>i. Types /\ BusyOK /\ \A t \in Threads : ThreadOK(t)
  BY DEF IInv
<1>1. ASSUME NEW x \in users
      PROVE  x = <<x[1], x[2]>> /\ x[1] \in Threads /\ x[2] \in 1..2
             /\ x[2] \in 1..Len(stack[x[1]]) /\ stack[x[1]][x[2]].page = p
             /\ Uses(x[1], p)
  <2>1. /\ x = <<x[1], x[2]>> /\ x[1] \in Threads /\ x[2] \in 1..2
        /\ x[2] <= Len(stack[x[1]]) /\ stack[x[1]][x[2]].page = p
    OBVIOUS
  <2>2. Len(stack[x[1]]) \in {0, 1, 2}
    BY <1>i, <2>1, Stacks
  <2>3. x[2] \in 1..Len(stack[x[1]])
    BY <2>1, <2>2
  <2> QED
    BY <2>1, <2>3 DEF Uses
<1>2. ASSUME NEW t \in Threads, NEW i \in 1..Len(stack[t]), stack[t][i].page = p
      PROVE  <<t, i>> \in users
  <2>1. i \in 1..2
    BY <1>i, Stacks
  <2> QED
    BY <1>2, <2>1
<1> HIDE DEF users
<1>3. CASE ~IsBusy(p)
  <2>1. \A t \in Threads : ~Uses(t, p)
    BY <1>i, <1>3, UsedAreBusy
  <2>2. users = {}
    BY <1>1, <2>1
  <2>3. Cardinality(users) = 0
    BY <2>2, FS_EmptySet
  <2> QED
    BY <1>3, <2>3 DEF users
<1>4. CASE IsBusy(p)
  <2>1. PICK t \in Threads : Uses(t, p)
    BY <1>i, <1>4 DEF BusyOK
  <2>2. PICK i \in 1..Len(stack[t]) : stack[t][i].page = p
    BY <2>1 DEF Uses
  <2>3. ASSUME NEW x \in users
        PROVE  x = <<t, i>>
    <3>1. x[1] = t
      BY <1>i, <1>1, <2>1 DEF BusyOK
    <3>2. /\ x[2] \in 1..Len(stack[t]) /\ stack[t][x[2]].page = p
          /\ x = <<x[1], x[2]>>
      BY <1>1, <3>1
    <3>3. stack[t] # << >>
      BY <1>i, <2>2, Stacks
    <3>4. /\ Len(stack[t]) \in {1, 2}
          /\ Len(stack[t]) = 2 => stack[t][1].page # stack[t][2].page
      BY <1>i, <3>3, CallFacts DEF Top
    <3>5. x[2] = i
      BY <2>2, <3>2, <3>4
    <3> QED
      BY <3>1, <3>2, <3>5
  <2>4. users = {<<t, i>>}
    BY <1>2, <2>2, <2>3
  <2>5. Cardinality(users) = 1
    BY <2>4, FS_Singleton
  <2> QED
    BY <1>4, <2>5 DEF users
<1> QED
  BY <1>3, <1>4

LEMMA PagesAccountedHolds ==
  ASSUME IInv
  PROVE  PagesAccounted
<1>i. Types /\ PagesOK
  BY DEF IInv
<1>1. fFreePagesAvailable \in 0..Cardinality(Pages)
  <2>1. FreePages \subseteq Pages /\ fFreePagesAvailable = Cardinality(FreePages)
    BY <1>i DEF PagesOK, FreePages
  <2>2. Cardinality(FreePages) <= Cardinality(Pages) /\ Cardinality(Pages) \in Nat
    BY <2>1, PageCacheAssumption, FS_Subset, FS_CardinalityType
  <2>3. Cardinality(FreePages) \in Nat
    BY <1>i, FreeSet
  <2> QED
    BY <2>1, <2>2, <2>3
<1>2. \A t \in Threads : \A i \in 1..Len(stack[t]) : stack[t][i] \in Frame
  BY <1>i, Stacks
<1>3. TypeOK
  BY <1>i, <1>1, <1>2 DEF Types, TypeOK, Frame
<1>4. /\ fFreePagesAvailable = Cardinality({p \in Pages : Free(p)})
      /\ \A p \in Pages : (Free(p) <=> fCache[p] = None) /\ (~Free(p) => fRefCount[fCache[p]] > 0)
  BY <1>i DEF PagesOK
<1> QED
  BY <1>3, <1>4, UsersCounted DEF PagesAccounted

LEMMA ResultUsableHolds ==
  ASSUME IInv
  PROVE  ResultUsable
  BY PageCacheAssumption DEF IInv, ThreadOK, FaultOK, ResultUsable

\* However many threads fault on however many caches, a cache has one page for
\* an offset (GetPage looks again after every sleep, and inserts under the lock).
THEOREM PageCacheOnePage == Spec => []OnePage
<1>1. IInv => OnePage
  BY OnePageHolds
<1> QED
  BY <1>1, PageCacheInvariant, PTL

\* No page is lost or used twice (Alloc, Free, SetNotBusy and ~PageCache).
THEOREM PageCachePagesAccounted == Spec => []PagesAccounted
<1>1. IInv => PagesAccounted
  BY PagesAccountedHolds
<1> QED
  BY <1>1, PageCacheInvariant, PTL

\* The page that GetPage returned stays usable until HandleFault releases its
\* reference, and a page to be written is not the source's.
THEOREM PageCacheResultUsable == Spec => []ResultUsable
<1>1. IInv => ResultUsable
  BY ResultUsableHolds
<1> QED
  BY <1>1, PageCacheInvariant, PTL
=============================================================================
