----------------------------- MODULE LockedPages -----------------------------
(***************************************************************************)
(* The window through which the kernel reaches physical pages              *)
(* (PhysicalMap::LockPhysicalPage, UnlockPhysicalPage): a fixed number of  *)
(* slots, each mapping the page it was last used for.  A slot that nobody  *)
(* holds stays mapped until the queue of inactive slots gives it to        *)
(* another page; a hash table finds it again before that.                  *)
(*                                                                         *)
(* Both operations run with interrupts off and are one step each.          *)
(* Nothing sets hashNext: a page that is entered in a bucket replaces the  *)
(* one that was there, whose slot can then not be found any more.          *)
(***************************************************************************)
EXTENDS Integers, Sequences, FiniteSets, SequencesExt

CONSTANTS fLockedPages, \* the slots in their order, without the one of the window's own table
          PhysicalPages,
          Buckets, Bucket, \* of fLockedPageHash, and the one of each page
          INVALID_PAGE,
          NoSlot,       \* a null LockedPage
          MaxHolds      \* bounds how often pages are locked at a time

Slots == ToSet(fLockedPages)

ASSUME LockedPagesAssumption ==
  /\ fLockedPages \in Seq(Slots) /\ IsInjective(fLockedPages) /\ NoSlot \notin Slots
  /\ INVALID_PAGE \notin PhysicalPages
  /\ Bucket \in [PhysicalPages -> Buckets]
  /\ MaxHolds \in Nat

VARIABLES
  pa,                    \* of each slot
  mapCount,              \* of each slot
  fLockedPageHash,       \* the slot in each bucket
  fInactiveLockedPages,  \* the queue of slots that nobody holds
  holds                  \* how many callers have each page through each slot

lockedVars == <<pa, mapCount, fLockedPageHash, fInactiveLockedPages, holds>>

AllHolds == Slots \X PhysicalPages

\* The slot that the hash table has for the page.
Mapped(page) ==
  LET slot == fLockedPageHash[Bucket[page]]
  IN  IF slot # NoSlot /\ pa[slot] = page THEN slot ELSE NoSlot

\* Where an inactive slot is in the queue.
Place(slot) == CHOOSE i \in DOMAIN fInactiveLockedPages : fInactiveLockedPages[i] = slot

Hold(slot, page) == holds' = [holds EXCEPT ![<<slot, page>>] = @ + 1]

Room == Cardinality({h \in AllHolds : holds[h] > 0}) < MaxHolds /\ \A h \in AllHolds : holds[h] < MaxHolds

\* Mutant: a slot that is found again stays in the queue.
LockMappedQueued(page) ==
  LET slot == Mapped(page)
  IN  /\ Room /\ slot # NoSlot
      /\ mapCount' = [mapCount EXCEPT ![slot] = @ + 1]
      /\ Hold(slot, page)
      /\ UNCHANGED <<fInactiveLockedPages, pa, fLockedPageHash>>

\* LockPhysicalPage of a page that is found in the hash table.
LockMapped(page) ==
  LET slot == Mapped(page)
  IN  /\ Room /\ slot # NoSlot
      /\ mapCount' = [mapCount EXCEPT ![slot] = @ + 1]
      /\ fInactiveLockedPages' = IF mapCount[slot] = 0 THEN RemoveAt(fInactiveLockedPages, Place(slot))
                                 ELSE fInactiveLockedPages
      /\ Hold(slot, page)
      /\ UNCHANGED <<pa, fLockedPageHash>>

\* LockPhysicalPage of any other page: the slot that was inactive longest leaves
\* its bucket, whatever is in it by now, for that of the page.  The kernel stops
\* if there is none.
LockAnew(page) ==
  LET slot == Head(fInactiveLockedPages)
      left == IF pa[slot] = INVALID_PAGE THEN fLockedPageHash
              ELSE [fLockedPageHash EXCEPT ![Bucket[pa[slot]]] = NoSlot]
  IN  /\ Room /\ Mapped(page) = NoSlot
      /\ fInactiveLockedPages # << >>
      /\ fInactiveLockedPages' = Tail(fInactiveLockedPages)
      /\ fLockedPageHash' = [left EXCEPT ![Bucket[page]] = slot]
      /\ pa' = [pa EXCEPT ![slot] = page]
      /\ mapCount' = [mapCount EXCEPT ![slot] = @ + 1]
      /\ Hold(slot, page)

UnlockPhysicalPage(slot, page) ==
  /\ holds[<<slot, page>>] > 0
  /\ holds' = [holds EXCEPT ![<<slot, page>>] = @ - 1]
  /\ mapCount' = [mapCount EXCEPT ![slot] = @ - 1]
  /\ fInactiveLockedPages' = IF mapCount[slot] = 1 THEN Append(fInactiveLockedPages, slot)
                             ELSE fInactiveLockedPages
  /\ UNCHANGED <<pa, fLockedPageHash>>

\* Bootstrap enqueues the slots in their order.
LockedInit ==
  /\ pa = [s \in Slots |-> INVALID_PAGE]
  /\ mapCount = [s \in Slots |-> 0]
  /\ fLockedPageHash = [b \in Buckets |-> NoSlot]
  /\ fInactiveLockedPages = fLockedPages
  /\ holds = [h \in AllHolds |-> 0]

LockedNext ==
  \/ \E page \in PhysicalPages : LockMapped(page) \/ LockAnew(page)
  \/ \E slot \in Slots, page \in PhysicalPages : UnlockPhysicalPage(slot, page)

LockedSpec == LockedInit /\ [][LockedNext]_lockedVars

-----------------------------------------------------------------------------
(* Properties.                                                              *)

LockedTypes ==
  /\ pa \in [Slots -> PhysicalPages \cup {INVALID_PAGE}]
  /\ mapCount \in [Slots -> Nat]
  /\ fLockedPageHash \in [Buckets -> Slots \cup {NoSlot}]
  /\ fInactiveLockedPages \in Seq(Slots)
  /\ holds \in [AllHolds -> Nat]

\* Whoever has locked a page reaches that page through the slot it was given,
\* until it unlocks it; mapCount is the number of those who do; and the slots
\* that may be given to other pages are those that nobody holds, each once, so
\* that the kernel is out of slots only when all are held.
SlotsKept ==
  /\ LockedTypes
  /\ \A s \in Slots, p \in PhysicalPages : holds[<<s, p>>] > 0 => pa[s] = p
  /\ \A s \in Slots : pa[s] = INVALID_PAGE => mapCount[s] = 0
  /\ \A s \in Slots, p \in PhysicalPages : pa[s] = p => mapCount[s] = holds[<<s, p>>]
  /\ ToSet(fInactiveLockedPages) = {s \in Slots : mapCount[s] = 0}
  /\ IsInjective(fInactiveLockedPages)

=============================================================================
