----------------------------- MODULE PageCache ------------------------------
(***************************************************************************)
(* Physical pages (Page.cpp) and the caches that own them (PageCache.cpp): *)
(* page faults of several threads that collide on one page, copy on write  *)
(* from a source cache, backing store that fails to read, and caches that  *)
(* are destroyed while faults on them are in progress.                     *)
(*                                                                         *)
(* fCacheLock (a Mutex, see Synchronization) makes what happens between    *)
(* its Lock and Unlock one step, but for Page::Alloc, which may wait for a *)
(* page with the lock held.  GetPage calls itself for the source cache:    *)
(* each thread has a stack of calls.  GetPage polls while the page is busy *)
(* (sleep, look again); in the model it looks when the page is not busy.   *)
(***************************************************************************)
EXTENDS Integers, Sequences, FiniteSets, SequencesExt

CONSTANTS Threads, Pages, Offsets,
          Files,        \* caches of a VNode, whose HasPage is always true
          Anonymous,    \* caches of swap space that nothing was written to
          Copies,       \* copy caches, made with MAP_PRIVATE
          Source,       \* fSourceCache of each copy
          None

Caches == Files \cup Anonymous \cup Copies

ASSUME PageCacheAssumption ==
  /\ IsFiniteSet(Threads) /\ IsFiniteSet(Pages) /\ IsFiniteSet(Copies)
  /\ Source \in [Copies -> Files]
  /\ Files \cap (Anonymous \cup Copies) = {} /\ Anonymous \cap Copies = {}
  /\ None \notin Pages \cup Caches \cup Threads

IsCopy(c) == c \in Copies

VARIABLES
  fState,      \* of each page
  fCache,      \* the cache that owns it, or None
  fCacheOffset,
  fFreePagesAvailable,
  fCacheLock,  \* the thread that waits for a page with the lock held, or None
  fRefCount,   \* of each cache; one with none does not exist
  mapped,      \* the caches that an area maps; a VNode keeps a reference too
  stack,       \* each thread: the calls of GetPage, the innermost first
  fault        \* each thread: the fault it handles, and the page it got

pageVars == <<fState, fCache, fCacheOffset, fFreePagesAvailable>>
vars == <<fState, fCache, fCacheOffset, fFreePagesAvailable, fCacheLock, fRefCount,
          mapped, stack, fault>>

-----------------------------------------------------------------------------
Free(p) == fState[p] = "free"
IsBusy(p) == fState[p] = "transition"

LookupPage(c, o) == {p \in Pages : fCache[p] = c /\ fCacheOffset[p] = o}

\* The queue of a page is its state; the order in a queue is left open.
MoveToQueue(p, state) == fState' = [fState EXCEPT ![p] = state]

InsertPage(p, c, o) ==
  /\ fCache' = [fCache EXCEPT ![p] = c]
  /\ fCacheOffset' = [fCacheOffset EXCEPT ![p] = o]

\* Alloc(false) or Alloc(true) of page p, and InsertPage.
AllocAndInsert(p, c, o, state) ==
  /\ Free(p)
  /\ fFreePagesAvailable > 0
  /\ fFreePagesAvailable' = fFreePagesAvailable - 1
  /\ MoveToQueue(p, state)
  /\ InsertPage(p, c, o)

\* Mutant: RemovePage and no Free.
RemoveOnly(S) ==
  /\ fCache' = [p \in Pages |-> IF p \in S THEN None ELSE fCache[p]]
  /\ UNCHANGED <<fState, fCacheOffset, fFreePagesAvailable>>

\* RemovePage and Free of the pages S.
RemoveAndFree(S) ==
  /\ fState' = [p \in Pages |-> IF p \in S THEN "free" ELSE fState[p]]
  /\ fCache' = [p \in Pages |-> IF p \in S THEN None ELSE fCache[p]]
  /\ fFreePagesAvailable' = fFreePagesAvailable + Cardinality(S)
  /\ UNCHANGED fCacheOffset

SetNotBusy(p) ==
  /\ MoveToQueue(p, "active")
  /\ UNCHANGED <<fCache, fCacheOffset, fFreePagesAvailable>>

-----------------------------------------------------------------------------
(* The calls of GetPage. *)

Call(c, o, copy) ==
  [cache |-> c, offset |-> o, privateCopy |-> copy, at |-> "look", page |-> None, got |-> None]

Top(t) == stack[t][1]

At(t, place) == stack[t] # << >> /\ Top(t).at = place

GoTo(t, place) == [stack EXCEPT ![t][1].at = place]

\* t holds the lock no more, waits for a page in the call below, and has called
\* the source cache's GetPage.
CallSource(t, place, p) ==
  stack' = [stack EXCEPT ![t] =
    <<Call(Source[Top(t).cache], Top(t).offset, FALSE)>>
      \o <<[Top(t) EXCEPT !.at = place, !.page = p]>> \o Tail(@)]

\* GetPage returns p to the call it was made from, or to HandleFault.
Return(t, p) ==
  /\ stack' = [stack EXCEPT ![t] =
       IF Len(@) = 1 THEN << >> ELSE <<[@[2] EXCEPT !.got = p]>> \o Tail(Tail(@))]
  /\ fault' = IF Len(stack[t]) = 1 THEN [fault EXCEPT ![t].result = p] ELSE fault

LockFree == fCacheLock = None

\* How GetPage goes on when no page was found: from the place it is at now.
Onward(f, readFailed) ==
  CASE f.cache \in Files /\ ~readFailed -> "alloc to read"
    [] IsCopy(f.cache) /\ f.privateCopy -> "alloc to copy"
    [] IsCopy(f.cache) /\ ~f.privateCopy -> "alloc dummy"
    [] OTHER -> "alloc zeroed"

\* Mutant: busy pages are returned.
LookIgnoresBusy(t) ==
  /\ At(t, "look") /\ LockFree
  /\ LET found == LookupPage(Top(t).cache, Top(t).offset)
     IN  IF found = {}
           THEN /\ fCacheLock' = t
                /\ stack' = GoTo(t, Onward(Top(t), FALSE))
                /\ UNCHANGED fault
           ELSE Return(t, CHOOSE p \in found : TRUE) /\ UNCHANGED fCacheLock
  /\ UNCHANGED <<pageVars, fRefCount, mapped>>

\* Mutant: the lock is not held while a page is allocated.
LookDropsLock(t) ==
  /\ At(t, "look") /\ LockFree
  /\ LET found == LookupPage(Top(t).cache, Top(t).offset)
     IN  /\ \A p \in found : ~IsBusy(p)
         /\ IF found = {}
              THEN stack' = GoTo(t, Onward(Top(t), FALSE)) /\ UNCHANGED fault
              ELSE Return(t, CHOOSE p \in found : TRUE)
  /\ UNCHANGED <<pageVars, fCacheLock, fRefCount, mapped>>

\* Lock fCacheLock and look for the page.
Look(t) ==
  /\ At(t, "look") /\ LockFree
  /\ LET found == LookupPage(Top(t).cache, Top(t).offset)
     IN  /\ \A p \in found : ~IsBusy(p)
         /\ IF found = {}
              THEN /\ fCacheLock' = t
                   /\ stack' = GoTo(t, Onward(Top(t), FALSE))
                   /\ UNCHANGED fault
              ELSE Return(t, CHOOSE p \in found : TRUE) /\ UNCHANGED fCacheLock
  /\ UNCHANGED <<pageVars, fRefCount, mapped>>

\* A page for the backing store to read into.
AllocToRead(t, p) ==
  /\ At(t, "alloc to read")
  /\ AllocAndInsert(p, Top(t).cache, Top(t).offset, "transition")
  /\ fCacheLock' = None
  /\ stack' = [stack EXCEPT ![t][1].at = "reading", ![t][1].page = p]
  /\ UNCHANGED <<fRefCount, mapped, fault>>

\* The backing store has read the page.
ReadDone(t) ==
  /\ At(t, "reading") /\ LockFree
  /\ SetNotBusy(Top(t).page)
  /\ Return(t, Top(t).page)
  /\ UNCHANGED <<fCacheLock, fRefCount, mapped>>

\* It has failed; GetPage goes on as if it had no such page.
ReadFailed(t) ==
  /\ At(t, "reading") /\ LockFree
  /\ RemoveAndFree({Top(t).page})
  /\ fCacheLock' = t
  /\ stack' = [stack EXCEPT ![t][1].at = Onward(Top(t), TRUE), ![t][1].page = None]
  /\ UNCHANGED <<fRefCount, mapped, fault>>

\* A page for the private copy; GetPage of the source is called without the lock.
AllocToCopy(t, p) ==
  /\ At(t, "alloc to copy")
  /\ AllocAndInsert(p, Top(t).cache, Top(t).offset, "transition")
  /\ fCacheLock' = None
  /\ CallSource(t, "copying", p)
  /\ UNCHANGED <<fRefCount, mapped, fault>>

\* The source's page, which GetPage always finds or makes, is copied.
CopyDone(t) ==
  /\ At(t, "copying") /\ Top(t).got # None /\ LockFree
  /\ SetNotBusy(Top(t).page)
  /\ Return(t, Top(t).page)
  /\ UNCHANGED <<fCacheLock, fRefCount, mapped>>

\* Mutant: no dummy, and fCacheLock is held while the source is asked.
AllocDummyHoldsLock(t, p) ==
  /\ At(t, "alloc dummy")
  /\ AllocAndInsert(p, Top(t).cache, Top(t).offset, "transition")
  /\ CallSource(t, "sharing", p)
  /\ UNCHANGED <<fCacheLock, fRefCount, mapped, fault>>

\* A dummy page that keeps others from the offset while the source is asked.
AllocDummy(t, p) ==
  /\ At(t, "alloc dummy")
  /\ AllocAndInsert(p, Top(t).cache, Top(t).offset, "transition")
  /\ fCacheLock' = None
  /\ CallSource(t, "sharing", p)
  /\ UNCHANGED <<fRefCount, mapped, fault>>

\* The dummy goes, and the source's page is shared.
ShareDone(t) ==
  /\ At(t, "sharing") /\ Top(t).got # None /\ LockFree
  /\ RemoveAndFree({Top(t).page})
  /\ Return(t, Top(t).got)
  /\ UNCHANGED <<fCacheLock, fRefCount, mapped>>

\* An anonymous page.
AllocZeroed(t, p) ==
  /\ At(t, "alloc zeroed")
  /\ AllocAndInsert(p, Top(t).cache, Top(t).offset, "active")
  /\ fCacheLock' = None
  /\ Return(t, p)
  /\ UNCHANGED <<fRefCount, mapped>>

-----------------------------------------------------------------------------
(* Areas and faults, as far as caches see them. *)

NoFault == [cache |-> None, write |-> FALSE, result |-> None]

Init ==
  /\ fState = [p \in Pages |-> "free"]
  /\ fCache = [p \in Pages |-> None]
  /\ fCacheOffset \in {[p \in Pages |-> o] : o \in Offsets}
  /\ fFreePagesAvailable = Cardinality(Pages)
  /\ fCacheLock = None
  /\ fRefCount = [c \in Caches |-> IF c \in Files THEN 1 ELSE 0]
  /\ mapped = {}
  /\ stack = [t \in Threads |-> << >>]
  /\ fault = [t \in Threads |-> NoFault]

Idle(t) == fault[t].cache = None

\* An area is made for a file, or for a new anonymous or copy cache, whose
\* constructor takes a reference to its source.
CreateArea(c) ==
  /\ c \notin mapped /\ (c \in Files \/ fRefCount[c] = 0)
  /\ \A t \in Threads : fault[t].cache # c \/ c \in Files
  /\ mapped' = mapped \cup {c}
  /\ fRefCount' = [d \in Caches |-> fRefCount[d] + (IF d = c \/ (IsCopy(c) /\ d = Source[c]) THEN 1 ELSE 0)]
  /\ UNCHANGED <<pageVars, fCacheLock, stack, fault>>

\* HandleFault acquires a reference while the area is locked, and calls GetPage.
HandleFault(t, c, o, write) ==
  /\ Idle(t) /\ c \in mapped
  /\ fRefCount' = [fRefCount EXCEPT ![c] = @ + 1]
  /\ fault' = [fault EXCEPT ![t] = [NoFault EXCEPT !.cache = c, !.write = write]]
  /\ stack' = [stack EXCEPT ![t] = <<Call(c, o, write /\ IsCopy(c))>>]
  /\ UNCHANGED <<pageVars, fCacheLock, mapped>>

\* ReleaseRef; the last one runs ~PageCache, which frees the pages and releases
\* the source with fCacheLock held.  (The VNode keeps a file's cache alive.)
ReleaseRef(c) ==
  IF fRefCount[c] > 1
    THEN /\ fRefCount' = [fRefCount EXCEPT ![c] = @ - 1]
         /\ UNCHANGED pageVars
    ELSE /\ LockFree
         /\ RemoveAndFree({p \in Pages : fCache[p] = c})
         /\ fRefCount' = [d \in Caches |-> fRefCount[d] - (IF d = c \/ (IsCopy(c) /\ d = Source[c]) THEN 1 ELSE 0)]

\* HandleFault has its page and releases the cache.
FaultDone(t) ==
  /\ ~Idle(t) /\ fault[t].result # None
  /\ ReleaseRef(fault[t].cache)
  /\ fault' = [fault EXCEPT ![t] = NoFault]
  /\ UNCHANGED <<fCacheLock, mapped, stack>>

\* An area is deleted.
DeleteArea(c) ==
  /\ c \in mapped
  /\ ReleaseRef(c)
  /\ mapped' = mapped \ {c}
  /\ UNCHANGED <<fCacheLock, stack, fault>>

Next ==
  \/ \E t \in Threads :
       \/ Look(t) \/ ReadDone(t) \/ ReadFailed(t) \/ CopyDone(t) \/ ShareDone(t) \/ FaultDone(t)
       \/ \E p \in Pages : AllocToRead(t, p) \/ AllocToCopy(t, p) \/ AllocDummy(t, p) \/ AllocZeroed(t, p)
       \/ \E c \in Caches, o \in Offsets, write \in BOOLEAN : HandleFault(t, c, o, write)
  \/ \E c \in Caches : CreateArea(c) \/ DeleteArea(c)

Spec == Init /\ [][Next]_vars

-----------------------------------------------------------------------------
(* Properties. *)

Allocs == {"alloc to read", "alloc to copy", "alloc dummy", "alloc zeroed"}
Places == {"look", "reading", "copying", "sharing"} \cup Allocs

TypeOK ==
  /\ fState \in [Pages -> {"free", "transition", "active"}]
  /\ fCache \in [Pages -> Caches \cup {None}]
  /\ fCacheOffset \in [Pages -> Offsets]
  /\ fFreePagesAvailable \in 0..Cardinality(Pages)
  /\ fCacheLock \in Threads \cup {None}
  /\ fRefCount \in [Caches -> Nat]
  /\ mapped \subseteq Caches
  /\ \A t \in Threads : \A i \in 1..Len(stack[t]) :
       stack[t][i] \in [cache : Caches, offset : Offsets, privateCopy : BOOLEAN, at : Places,
                        page : Pages \cup {None}, got : Pages \cup {None}]
  /\ fault \in [Threads -> [cache : Caches \cup {None}, write : BOOLEAN,
                            result : Pages \cup {None}]]

\* However the faults of several threads collide, a cache never has two pages
\* for one offset: those who share it share one page.
OnePage == \A c \in Caches, o \in Offsets : Cardinality(LookupPage(c, o)) <= 1

\* No page is lost or used twice: a busy page belongs to one call that is going
\* to free it or make it active, and every other page that is not free to a
\* cache that exists.
PagesAccounted ==
  /\ TypeOK
  /\ fFreePagesAvailable = Cardinality({p \in Pages : Free(p)})
  /\ \A p \in Pages :
       LET users == {x \in Threads \X (1..2) : x[2] <= Len(stack[x[1]]) /\ stack[x[1]][x[2]].page = p}
       IN  /\ Free(p) <=> fCache[p] = None
           /\ ~Free(p) => fRefCount[fCache[p]] > 0
           /\ Cardinality(users) = IF IsBusy(p) THEN 1 ELSE 0

\* The page that GetPage returned is there, and not busy, as long as the fault
\* holds its reference, although the area may be deleted meanwhile; a page that
\* will be written belongs to the copy cache and not to its source.
ResultUsable ==
  \A t \in Threads : fault[t].result # None =>
    /\ fState[fault[t].result] = "active"
    /\ fault[t].write => fCache[fault[t].result] = fault[t].cache

Inside == {t \in Threads : stack[t] # << >>}

CanGoOn(t) ==
  IF Top(t).at \in Allocs THEN fFreePagesAvailable > 0
  ELSE /\ LockFree
       /\ Top(t).at = "look" => \A p \in LookupPage(Top(t).cache, Top(t).offset) : ~IsBusy(p)

\* With enough pages, threads never all wait for each other: some thread that is
\* inside GetPage can go on.
SomebodyGoesOn == Inside # {} => \E t \in Inside : CanGoOn(t)

=============================================================================
