---------------------------- MODULE HandleTable -----------------------------
(***************************************************************************)
(* The handles of a team (HandleTable.cpp), the reference counts of the    *)
(* resources behind them (Resource.cpp), and the system calls that use     *)
(* them (SystemCall.cpp): open, read_pos and write_pos, close_handle.      *)
(*                                                                         *)
(* fLock makes what Open, Close and GetResource do to the table one step   *)
(* each (see RWLock); the threads of the team are preempted between those. *)
(***************************************************************************)
EXTENDS Integers, FiniteSets

CONSTANTS
  Threads,              \* of the team
  Resources,            \* memory for the resources; one that is deleted is used again
  Types, TypeOf,        \* GetType() of a resource
  kLevel1Size, kLevel2Size, kSerialNumberCount,
  Absent,               \* a null pointer of fMainTable
  Nothing,              \* the null pointer to a resource
  Shared                \* whether a thread closes handles that others opened

OBJ_ANY == "any"

Level1 == 0..kLevel1Size - 1
Level2 == 0..kLevel2Size - 1

SubTables ==
  [fFreeHandles : 0..kLevel2Size, fFirstFree : Level2,
   fSerialNumber : [Level2 -> 0..kSerialNumberCount - 1],
   fDatum : [Level2 -> Level2 \cup Resources]]

\* A pointer is never as small as the index of a handle, which IsFree relies on.
ASSUME HandleTableAssumption ==
  /\ IsFiniteSet(Threads)
  /\ kLevel1Size \in Nat \ {0} /\ kLevel2Size = kLevel1Size
  /\ kSerialNumberCount \in Nat \ {0}
  /\ TypeOf \in [Resources -> Types] /\ OBJ_ANY \notin Types
  /\ Resources \cap Level2 = {} /\ Nothing \notin Resources \cup Level2
  /\ Absent \notin SubTables
  /\ Shared \in BOOLEAN

Ids == 0..kSerialNumberCount * kLevel1Size * kLevel2Size - 1

VARIABLES
  fMainTable,  \* sub tables: fFreeHandles, fFirstFree, fSerialNumber and fDatum
               \* of each handle; fDatum is fResource or, when free, fNextFree
  fFreeHint,
  fRefCount,   \* of each resource; a resource with none is deleted, or not made yet
  th,          \* each thread: pc, the id it opens or closes, the resource it
               \* uses, and what it took from the table to close
  mine,        \* the handles that each thread was given and that are not closed
  crash        \* what stopped the kernel, or "no"

vars == <<fMainTable, fFreeHint, fRefCount, th, mine, crash>>

-----------------------------------------------------------------------------
IsFree(datum) == datum \in Level2

IdOf(serial, l1, l2) == (serial * kLevel2Size + l1) * kLevel1Size + l2

Level1Index(id) == (id \div kLevel2Size) % kLevel1Size
Level2Index(id) == id % kLevel2Size
Serial(id) == id \div (kLevel1Size * kLevel2Size)

\* SubTable's constructor.
SubTable ==
  [fFreeHandles |-> kLevel2Size,
   fFirstFree |-> kLevel2Size - 1,
   fSerialNumber |-> [l2 \in Level2 |-> 0],
   fDatum |-> [l2 \in Level2 |-> IF l2 = 0 THEN 0 ELSE l2 - 1]]

HasFree(l1) == fMainTable[l1] # Absent /\ fMainTable[l1].fFreeHandles > 0

\* The first sub table from fFreeHint on with a free handle, otherwise the first
\* one that is absent.
Candidates ==
  LET from == {l1 \in Level1 : l1 >= fFreeHint}
      free == {l1 \in from : HasFree(l1)}
  IN  IF free # {} THEN free ELSE {l1 \in from : fMainTable[l1] = Absent}

Least(S) == CHOOSE x \in S : \A y \in S : x <= y

\* Mutant: the serial number of the identifier is not compared.
LookupAnySerial(id, matchType) ==
  LET sub == fMainTable[Level1Index(id)]
      l2 == Level2Index(id)
  IN  IF /\ sub # Absent
         /\ ~IsFree(sub.fDatum[l2])
         /\ matchType \in {OBJ_ANY, TypeOf[sub.fDatum[l2]]}
      THEN sub.fDatum[l2] ELSE Nothing

\* What GetResource finds.
Lookup(id, matchType) ==
  LET sub == fMainTable[Level1Index(id)]
      l2 == Level2Index(id)
  IN  IF /\ sub # Absent
         /\ sub.fSerialNumber[l2] = Serial(id)
         /\ ~IsFree(sub.fDatum[l2])
         /\ matchType \in {OBJ_ANY, TypeOf[sub.fDatum[l2]]}
      THEN sub.fDatum[l2] ELSE Nothing

-----------------------------------------------------------------------------
Idle == [pc |-> "idle", id |-> 0, resource |-> Nothing, taken |-> Nothing]

Init ==
  /\ fMainTable = [l1 \in Level1 |-> Absent]
  /\ fFreeHint = 0
  /\ fRefCount = [r \in Resources |-> 0]
  /\ th = [t \in Threads |-> Idle]
  /\ mine = [t \in Threads |-> {}]
  /\ crash = "no"

\* Open puts a new resource in the table; it panics when the table is full ...
Open(t, r) ==
  /\ crash = "no" /\ th[t].pc = "idle" /\ fRefCount[r] = 0
  /\ fRefCount' = [fRefCount EXCEPT ![r] = @ + 1]
  /\ IF Candidates = {}
       THEN crash' = "table is full" /\ UNCHANGED <<fMainTable, fFreeHint, th>>
       ELSE LET l1 == Least(Candidates)
                sub == IF fMainTable[l1] = Absent THEN SubTable ELSE fMainTable[l1]
                l2 == sub.fFirstFree
            IN  /\ fFreeHint' = l1
                /\ fMainTable' = [fMainTable EXCEPT ![l1] =
                     [sub EXCEPT !.fFreeHandles = @ - 1,
                                 !.fFirstFree = sub.fDatum[l2],
                                 !.fDatum[l2] = r]]
                /\ th' = [th EXCEPT ![t].pc = "opened", ![t].id = IdOf(0, l1, l2)]
                /\ UNCHANGED crash
  /\ UNCHANGED mine

\* ... and reads the serial number of the handle without fLock.
OpenReturns(t) ==
  /\ crash = "no" /\ th[t].pc = "opened"
  /\ LET l1 == Level1Index(th[t].id)
         l2 == Level2Index(th[t].id)
     IN  mine' = [mine EXCEPT ![t] = @ \cup {IdOf(fMainTable[l1].fSerialNumber[l2], l1, l2)}]
  /\ th' = [th EXCEPT ![t] = Idle]
  /\ UNCHANGED <<fMainTable, fFreeHint, fRefCount, crash>>

\* GetResource acquires the reference before it releases fLock; the caller goes
\* on at next.
GetResource(t, id, matchType, next) ==
  /\ crash = "no" /\ th[t].pc = "idle"
  /\ Lookup(id, matchType) # Nothing
  /\ fRefCount' = [fRefCount EXCEPT ![Lookup(id, matchType)] = @ + 1]
  /\ th' = [th EXCEPT ![t] = [pc |-> next, id |-> id,
                                 resource |-> Lookup(id, matchType), taken |-> Nothing]]
  /\ UNCHANGED <<fMainTable, fFreeHint, mine, crash>>

\* read_pos and write_pos: any identifier, perhaps one closed long ago.
Use(t, id, matchType) == GetResource(t, id, matchType, "using")

\* ReleaseRef, the last thing that read_pos, write_pos and close_handle do.
Release(t) ==
  /\ crash = "no" /\ th[t].pc = "using"
  /\ fRefCount' = [fRefCount EXCEPT ![th[t].resource] = @ - 1]
  /\ th' = [th EXCEPT ![t] = Idle]
  /\ UNCHANGED <<fMainTable, fFreeHint, mine, crash>>

\* close_handle finds the resource ...
CloseHandle(t, id) ==
  /\ id \in IF Shared THEN UNION {mine[u] : u \in Threads} ELSE mine[t]
  /\ GetResource(t, id, OBJ_ANY, "closing")

\* Mutant: the hint stays where the last handle was opened.
CloseKeepsHint(t) ==
  /\ crash = "no" /\ th[t].pc = "closing"
  /\ LET l1 == Level1Index(th[t].id)
         l2 == Level2Index(th[t].id)
         sub == fMainTable[l1]
     IN  /\ fMainTable' = [fMainTable EXCEPT ![l1] =
              [sub EXCEPT !.fFreeHandles = @ + 1,
                          !.fSerialNumber[l2] = (@ + 1) % kSerialNumberCount,
                          !.fDatum[l2] = sub.fFirstFree,
                          !.fFirstFree = l2]]
         /\ th' = [th EXCEPT ![t].pc = "closed", ![t].taken = sub.fDatum[l2]]
  /\ mine' = [u \in Threads |-> mine[u] \ {th[t].id}]
  /\ UNCHANGED <<fFreeHint, fRefCount, crash>>

\* ... Close takes it out of the table ...
Close(t) ==
  /\ crash = "no" /\ th[t].pc = "closing"
  /\ LET l1 == Level1Index(th[t].id)
         l2 == Level2Index(th[t].id)
         sub == fMainTable[l1]
     IN  /\ fMainTable' = [fMainTable EXCEPT ![l1] =
              [sub EXCEPT !.fFreeHandles = @ + 1,
                          !.fSerialNumber[l2] = (@ + 1) % kSerialNumberCount,
                          !.fDatum[l2] = sub.fFirstFree,
                          !.fFirstFree = l2]]
         /\ fFreeHint' = IF l1 < fFreeHint THEN l1 ELSE fFreeHint
         /\ th' = [th EXCEPT ![t].pc = "closed", ![t].taken = sub.fDatum[l2]]
  /\ mine' = [u \in Threads |-> mine[u] \ {th[t].id}]
  /\ UNCHANGED <<fRefCount, crash>>

\* Mutant: only the reference of GetResource is released.
CloseReleaseForgets(t) ==
  /\ crash = "no" /\ th[t].pc = "closed"
  /\ th' = [th EXCEPT ![t].pc = "using", ![t].taken = Nothing]
  /\ UNCHANGED <<fMainTable, fFreeHint, fRefCount, mine, crash>>

\* ... and releases the reference of what it found there.
CloseRelease(t) ==
  /\ crash = "no" /\ th[t].pc = "closed"
  /\ IF th[t].taken \in Resources
       THEN /\ fRefCount' = [fRefCount EXCEPT ![th[t].taken] = @ - 1]
            /\ UNCHANGED crash
       ELSE crash' = "released what is no resource" /\ UNCHANGED fRefCount
  /\ th' = [th EXCEPT ![t].pc = "using", ![t].taken = Nothing]
  /\ UNCHANGED <<fMainTable, fFreeHint, mine>>

Held(r) ==
  {h \in Level1 \X Level2 : fMainTable[h[1]] # Absent /\ fMainTable[h[1]].fDatum[h[2]] = r}

\* The destructor, when the last thread of the team is gone; another team starts.
Destroy ==
  /\ crash = "no" /\ \A t \in Threads : th[t].pc = "idle"
  /\ fRefCount' = [r \in Resources |-> fRefCount[r] - Cardinality(Held(r))]
  /\ fMainTable' = [l1 \in Level1 |-> Absent]
  /\ fFreeHint' = 0
  /\ mine' = [t \in Threads |-> {}]
  /\ UNCHANGED <<th, crash>>

Next ==
  \/ \E t \in Threads :
       \/ \E r \in Resources : Open(t, r)
       \/ OpenReturns(t) \/ Release(t) \/ Close(t) \/ CloseRelease(t)
       \/ \E id \in Ids : CloseHandle(t, id) \/ \E ty \in Types \cup {OBJ_ANY} : Use(t, id, ty)
  \/ Destroy

Spec == Init /\ [][Next]_vars

-----------------------------------------------------------------------------
(* Properties. *)

TypeOK ==
  /\ fMainTable \in [Level1 -> {Absent} \cup SubTables]
  /\ fFreeHint \in Level1
  /\ fRefCount \in [Resources -> Nat]
  /\ th \in [Threads -> [pc : {"idle", "opened", "using", "closing", "closed"},
                         id : Ids, resource : Resources \cup {Nothing},
                         taken : Resources \cup Level2 \cup {Nothing}]]
  /\ mine \in [Threads -> SUBSET Ids]
  /\ crash \in {"no", "table is full", "released what is no resource"}

Free(sub) == {l2 \in Level2 : IsFree(sub.fDatum[l2])}

\* The first fFreeHandles handles of the list that starts at fFirstFree, in order.
IsFreeList(sub, list) ==
  /\ sub.fFreeHandles > 0 => list[1] = sub.fFirstFree
  /\ \A n \in 2..sub.fFreeHandles : list[n] = sub.fDatum[list[n - 1]]

\* Open finds every free handle.  The list of the free handles, which lives
\* inside them, holds every free one and none that is open, as IsFree cannot
\* mistake one for the other; and no free handle is below fFreeHint, where Open
\* would never look for it, so the kernel panics only when every handle of the
\* table is open.
FreeHandlesFound ==
  /\ \A l1 \in Level1 : fMainTable[l1] # Absent =>
       LET sub == fMainTable[l1]
       IN  /\ Cardinality(Free(sub)) = sub.fFreeHandles
           /\ \E list \in [1..sub.fFreeHandles -> Level2] :
                IsFreeList(sub, list) /\ Free(sub) = {list[n] : n \in 1..sub.fFreeHandles}
  /\ \A l1 \in Level1 : l1 < fFreeHint => fMainTable[l1] # Absent /\ ~HasFree(l1)
  /\ crash = "table is full" => \A l1 \in Level1 : fMainTable[l1] # Absent /\ ~HasFree(l1)

\* A resource has a reference for each open handle and for each thread that uses
\* it or is about to release what it closed: it lives exactly as long as it is
\* needed, although another thread closes its handle while it is used.
RefCounts ==
  /\ TypeOK
  /\ crash = "no" => \A r \in Resources :
       fRefCount[r] = Cardinality(Held(r))
                      + Cardinality({t \in Threads : th[t].resource = r})
                      + Cardinality({t \in Threads : th[t].taken = r})

\* The identifiers that stand for a resource.
OpenIds == {id \in Ids : Lookup(id, OBJ_ANY) # Nothing}

Map == INSTANCE HandleMap WITH handles <- [id \in OpenIds |-> Lookup(id, OBJ_ANY)]

\* The table is a map from identifiers to resources: Open uses a new identifier,
\* Close removes the one it is given, and no other changes.
Implements == Map!Spec

\* HandleTable.h: Close removes the given resource, so what it takes from the
\* table is the resource that close_handle found for the identifier.
ClosesWhatItFound ==
  \A t \in Threads : th[t].pc = "closed" => th[t].taken = th[t].resource

=============================================================================
