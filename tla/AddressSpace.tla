---------------------------- MODULE AddressSpace ----------------------------
(***************************************************************************)
(* Areas of an address space and the page faults in them (AddressSpace.cpp *)
(* with AVLTree, Area and PhysicalMap): threads fault while others create, *)
(* resize and delete areas.                                                *)
(*                                                                         *)
(* fAreaLock is an RWLock: an operation that holds it for writing, and     *)
(* each part of HandleFault that holds it for reading, is one step.        *)
(* Between its two parts a fault asks the page cache for its page; what    *)
(* PageCache does there is abstracted to the page it returns, named by the *)
(* cache and offset it holds the contents of.  Addresses are in bytes.     *)
(***************************************************************************)
EXTENDS Integers, Sequences, FiniteSets, SequencesExt

CONSTANTS Threads, AreaIds,
          Layout,             \* what the constructor adds, in order: <<low, high>>
          PAGE_SIZE,
          kAddressSpaceTop,
          AddressLimit,       \* 2^32
          Sizes, FixedAddresses,  \* that callers ask for
          Files, Anonymous,   \* page caches, as in PageCache
          Copies, Source,
          Mappable,           \* the caches that areas are created for
          Accesses, Writes,   \* kinds of access (user or system, read or write)
          Protections,        \* of areas: the sets of accesses they allow
          None

Caches == Files \cup Anonymous \cup Copies

ASSUME AddressSpaceAssumption ==
  /\ IsFiniteSet(Threads)
  /\ PAGE_SIZE \in Nat \ {0}
  /\ kAddressSpaceTop \in Nat /\ (kAddressSpaceTop + 1) % PAGE_SIZE = 0
  /\ AddressLimit \in Nat /\ kAddressSpaceTop < AddressLimit
  /\ Source \in [Copies -> Files] /\ Mappable \subseteq Caches /\ None \notin Caches
  /\ Writes \subseteq Accesses /\ Protections \subseteq SUBSET Accesses
  /\ \A size \in Sizes : size \in Nat \ {0} /\ size % PAGE_SIZE = 0
  /\ AreaIds \cap (1..Len(Layout)) = {} /\ None \notin AreaIds

\* The constructors begin with an area at 0, and all that they add ends at the top
\* or below it; so does what callers ask for, which CreateArea does not check.
ASSUME PlacementAssumption ==
  /\ Layout \in Seq(Nat \X Nat) /\ Layout # << >> /\ Layout[1][1] = 0
  /\ \A i \in 1..Len(Layout) : Layout[i][1] <= Layout[i][2] /\ Layout[i][2] <= kAddressSpaceTop
  /\ \A va \in FixedAddresses, size \in Sizes : va \in Nat /\ va + size - 1 <= kAddressSpaceTop

INVALID_PAGE == -1

VARIABLES
  fAreas,        \* the tree: a function from the areas in it to what they are
  fPhysicalMap,  \* each page address: the page it maps and whether writable
  copied,        \* <<copy cache, offset>> of the pages made by write faults
  fault,         \* each thread: the fault it handles
  leakedReads,   \* read holds of fAreaLock that nobody is going to release
  resized        \* whether ResizeArea was ever called

vars == <<fAreas, fPhysicalMap, copied, fault, leakedReads, resized>>

-----------------------------------------------------------------------------
(* The tree of areas. *)

AreasOf == DOMAIN fAreas

Overlaps(area, low, high) == low <= area.high /\ high >= area.low

\* Mutant: only the start of the range is looked at.
IsStartFree(low, high) == \A a \in AreasOf : ~Overlaps(fAreas[a], low, low)

IsRangeFree(low, high) == \A a \in AreasOf : ~Overlaps(fAreas[a], low, high)

With(f, x, value) == [y \in DOMAIN f \cup {x} |-> IF y = x THEN value ELSE f[y]]
Without(f, x) == [y \in DOMAIN f \ {x} |-> f[y]]

Containing(va) == {a \in AreasOf : fAreas[a].low <= va /\ va <= fAreas[a].high}

\* Mutant: the first address of the next area is counted too.
CeilingIncluded(a) ==
  LET above == {fAreas[b].low : b \in {b \in AreasOf : fAreas[b].low > fAreas[a].low}}
  IN  IF above = {} THEN kAddressSpaceTop ELSE Min(above)

\* The last address before the next area, and the first after the one before.
Ceiling(a) ==
  LET above == {fAreas[b].low : b \in {b \in AreasOf : fAreas[b].low > fAreas[a].low}}
  IN  IF above = {} THEN kAddressSpaceTop ELSE Min(above) - 1

Floor(a) ==
  LET below == {b \in AreasOf : fAreas[b].low < fAreas[a].low}
      before == CHOOSE b \in below : \A d \in below : fAreas[d].low <= fAreas[b].low
  IN  IF below = {} THEN 0 ELSE (fAreas[before].high + 1) % AddressLimit

\* The highest range above an area, or the lowest one below an area.
FindFreeRange(size, fromBottom) ==
  LET roomAbove == {a \in AreasOf : (Ceiling(a) - fAreas[a].high) % AddressLimit >= size}
      roomBelow == {a \in AreasOf : (fAreas[a].low - Floor(a)) % AddressLimit >= size}
  IN  IF fromBottom
        THEN IF roomBelow = {} THEN INVALID_PAGE ELSE Min({Floor(a) : a \in roomBelow})
        ELSE IF roomAbove = {} THEN INVALID_PAGE
             ELSE (Max({Ceiling(a) : a \in roomAbove}) + 1 - size) % AddressLimit

-----------------------------------------------------------------------------
(* The physical map. *)

PageAddresses == {va \in 0..kAddressSpaceTop : va % PAGE_SIZE = 0}

Unmapped == [page |-> None, writable |-> FALSE]

Mapping(page, protection) == [page |-> page, writable |-> protection \cap Writes # {}]

\* The size is rounded down to pages.
InRange(va, base, size) == base <= va /\ va < base + (size \div PAGE_SIZE) * PAGE_SIZE

Unmap(base, size) ==
  [va \in PageAddresses |-> IF InRange(va, base, size) THEN Unmapped ELSE fPhysicalMap[va]]

\* Every page of the range is mapped, to the cache's pages from the offset on.
MapAll(base, size, cache, offset, protection) ==
  [va \in PageAddresses |->
     IF InRange(va, base, size) THEN Mapping(<<cache, va - base + offset>>, protection)
     ELSE fPhysicalMap[va]]

-----------------------------------------------------------------------------
(* Areas are created, resized and deleted with fAreaLock held for writing. *)

NoFault == [at |-> "idle", va |-> 0, area |-> None, cache |-> None, offset |-> 0,
            write |-> FALSE, protection |-> {}, page |-> None, changed |-> FALSE]

Idle(t) == fault[t].at = "idle"

CanLockWrite == leakedReads = 0

\* Mutant: the change is not counted.
CountNothing == fault' = [t \in Threads |-> fault[t]]

\* fChangeCount is incremented: every fault in progress is going to see it.
\* (Faults compare it with the value they read, so only that is kept.)
CountChange ==
  fault' = [t \in Threads |-> IF Idle(t) THEN fault[t] ELSE [fault[t] EXCEPT !.changed = TRUE]]

Fresh(c) ==
  \/ c \in Files
  \/ /\ \A a \in AreasOf : fAreas[a].cache # c
     /\ \A t \in Threads : fault[t].cache # c

\* Anonymous and copy caches are made for the area; only areas of the kernel's
\* own stacks and buffers, which are anonymous, are wired.
CreateArea(a, size, protection, cache, va, fromBottom, wired) ==
  /\ a \notin AreasOf /\ Fresh(cache) /\ (wired => cache \in Anonymous)
  /\ CanLockWrite
  /\ LET high == (va + size - 1) % AddressLimit
         base == IF va = INVALID_PAGE THEN FindFreeRange(size, fromBottom)
                 ELSE IF va % PAGE_SIZE # 0 \/ ~IsRangeFree(va, high) THEN INVALID_PAGE
                 ELSE va
         area == [low |-> base, high |-> (base + size - 1) % AddressLimit,
                  protection |-> protection, cache |-> cache, offset |-> 0, wired |-> wired]
     IN  IF base = INVALID_PAGE
           THEN UNCHANGED <<fAreas, fPhysicalMap, copied>>
           ELSE /\ fAreas' = With(fAreas, a, area)
                /\ fPhysicalMap' = IF wired THEN MapAll(base, size, cache, 0, protection)
                                   ELSE fPhysicalMap
                /\ copied' = {page \in copied : page[1] # cache}
  /\ CountChange
  /\ UNCHANGED <<leakedReads, resized>>

\* The area has no cache: all of it is mapped at once.
MapPhysicalMemory(a, size, protection) ==
  /\ a \notin AreasOf
  /\ CanLockWrite
  /\ LET base == FindFreeRange(size, FALSE)
     IN  /\ base # INVALID_PAGE
         /\ fAreas' = With(fAreas, a, [low |-> base, high |-> (base + size - 1) % AddressLimit,
                                       protection |-> protection, cache |-> None,
                                       offset |-> 0, wired |-> TRUE])
         /\ fPhysicalMap' = MapAll(base, size, None, 0, protection)
  /\ CountChange
  /\ UNCHANGED <<copied, leakedReads, resized>>

SizeOf(area) == (area.high - area.low + 1) % AddressLimit

\* The area grows when there is room, and shrinks.  AVLTree::Resize makes the
\* high key low + newSize.
ResizeArea(a, newSize) ==
  /\ a \in AreasOf /\ fAreas[a].cache # None
  /\ CanLockWrite
  /\ LET area == fAreas[a]
         size == SizeOf(area)
         grown == newSize > size
         \* The bytes the loop over the new pages of a wired area maps.
         mappedAt(va) == {x \in (area.low + size)..(area.low + newSize - 1) :
                            (x - area.low - size) % PAGE_SIZE = 0 /\ x \div PAGE_SIZE = va \div PAGE_SIZE}
     IN  /\ grown => /\ area.low + newSize < AddressLimit
                     /\ IsRangeFree(area.low + size, area.low + newSize)
         /\ fPhysicalMap' =
              CASE grown /\ area.wired ->
                     [va \in PageAddresses |->
                        IF mappedAt(va) = {} THEN fPhysicalMap[va]
                        ELSE Mapping(<<area.cache, Min(mappedAt(va)) - area.low + area.offset>>, area.protection)]
                [] newSize < size -> Unmap(area.low + newSize, size - newSize)
                [] OTHER -> fPhysicalMap
         /\ fAreas' = [fAreas EXCEPT ![a].high = (area.low + newSize) % AddressLimit]
  /\ resized' = TRUE
  /\ CountChange
  /\ UNCHANGED <<copied, leakedReads>>

\* The area leaves the tree and its pages are unmapped.
DeleteArea(a) ==
  /\ a \in AreasOf \cap AreaIds
  /\ CanLockWrite
  /\ fAreas' = Without(fAreas, a)
  /\ fPhysicalMap' = Unmap(fAreas[a].low, SizeOf(fAreas[a]))
  /\ CountChange
  /\ UNCHANGED <<copied, leakedReads, resized>>

-----------------------------------------------------------------------------
(* HandleFault. *)

\* HandleFault returns: E_NO_ERROR when it has mapped the page, E_NOT_ALLOWED
\* or E_BAD_ADDRESS when it has not.
Return(t) == fault' = [fault EXCEPT ![t] = NoFault]

\* The first part: find the area, look at its protection, take a reference to
\* its cache.
FaultLookup(t, va, access) ==
  /\ Idle(t)
  /\ \/ Containing(va) = {} /\ Return(t)
     \/ \E a \in Containing(va) :
          LET area == fAreas[a]
          IN  IF access \notin area.protection \/ area.cache = None THEN Return(t)
              ELSE fault' = [fault EXCEPT ![t] =
                     [at |-> "get page", va |-> va, area |-> a, cache |-> area.cache,
                      offset |-> va - area.low + area.offset, write |-> access \in Writes,
                      protection |-> area.protection, page |-> None, changed |-> FALSE]]
  /\ UNCHANGED <<fAreas, fPhysicalMap, copied, leakedReads, resized>>

\* The cache returns its page.  A copy cache makes a page of its own when it is
\* written, and until then returns its source's.
GetPage(t) ==
  /\ fault[t].at = "get page"
  /\ LET cache == fault[t].cache
         own == <<cache, fault[t].offset>>
         shared == cache \in Copies /\ own \notin copied /\ ~fault[t].write
     IN  /\ fault' = [fault EXCEPT ![t].at = "map",
                                   ![t].page = IF shared THEN <<Source[cache], fault[t].offset>> ELSE own]
         /\ copied' = IF cache \in Copies /\ ~shared THEN copied \cup {own} ELSE copied
  /\ UNCHANGED <<fAreas, fPhysicalMap, leakedReads, resized>>

\* Mutant: a page that is read is mapped as the area's protection allows.
FaultMapKeepsProtection(t) ==
  /\ fault[t].at = "map" /\ ~fault[t].changed
  /\ fPhysicalMap' = [fPhysicalMap EXCEPT ![fault[t].va] = Mapping(fault[t].page, fault[t].protection)]
  /\ Return(t)
  /\ UNCHANGED <<fAreas, copied, leakedReads, resized>>

\* The second part, when no area has changed: map the page, read-only if it is
\* a copy area's and was read.
FaultMap(t) ==
  /\ fault[t].at = "map" /\ ~fault[t].changed
  /\ LET protection == IF fault[t].cache \in Copies /\ ~fault[t].write
                         THEN fault[t].protection \ Writes ELSE fault[t].protection
     IN  fPhysicalMap' = [fPhysicalMap EXCEPT ![fault[t].va] = Mapping(fault[t].page, protection)]
  /\ Return(t)
  /\ UNCHANGED <<fAreas, copied, leakedReads, resized>>

\* The second part, when some area has changed: look whether this one has, and
\* fail.  Only UnlockRead is under the condition; return is not.
FaultRecheck(t) ==
  /\ fault[t].at = "map" /\ fault[t].changed
  /\ LET same == \E a \in Containing(fault[t].va) :
                   /\ a = fault[t].area /\ fAreas[a].cache = fault[t].cache
                   /\ fAreas[a].offset = fault[t].offset
     IN  leakedReads' = leakedReads + (IF same THEN 1 ELSE 0)
  /\ Return(t)
  /\ UNCHANGED <<fAreas, fPhysicalMap, copied, resized>>

-----------------------------------------------------------------------------
\* The constructor; Add refuses what overlaps an area in the tree.
Added ==
  CHOOSE S \in SUBSET (1..Len(Layout)) : \A i \in 1..Len(Layout) :
    i \in S <=> \A j \in S : j < i => Layout[i][1] > Layout[j][2] \/ Layout[i][2] < Layout[j][1]

LayoutAreas ==
  [i \in Added |-> [low |-> Layout[i][1], high |-> Layout[i][2], protection |-> Accesses,
                    cache |-> None, offset |-> 0, wired |-> TRUE]]

Init ==
  /\ fAreas = LayoutAreas
  /\ fPhysicalMap = [va \in PageAddresses |-> Unmapped]
  /\ copied = {}
  /\ fault = [t \in Threads |-> NoFault]
  /\ leakedReads = 0
  /\ resized = FALSE

Faulting ==
  \E t \in Threads :
    \/ \E va \in PageAddresses, access \in Accesses : FaultLookup(t, va, access)
    \/ GetPage(t) \/ FaultMap(t) \/ FaultRecheck(t)

Changing ==
  \E a \in AreaIds :
    \/ \E size \in Sizes, protection \in Protections, cache \in Mappable,
          va \in FixedAddresses \cup {INVALID_PAGE}, fromBottom, wired \in BOOLEAN :
         CreateArea(a, size, protection, cache, va, fromBottom, wired)
    \/ \E size \in Sizes, protection \in Protections : MapPhysicalMemory(a, size, protection)
    \/ DeleteArea(a)

\* Nothing in the kernel calls ResizeArea yet.
Resizing == \E a \in AreaIds, newSize \in Sizes : ResizeArea(a, newSize)

Next == Faulting \/ Changing \/ Resizing

Spec == Init /\ [][Next]_vars

-----------------------------------------------------------------------------
(* Properties. *)

TypeOK ==
  /\ AreasOf \subseteq AreaIds \cup (1..Len(Layout))
  /\ \A a \in AreasOf :
       fAreas[a] \in [low : 0..(AddressLimit - 1), high : 0..(AddressLimit - 1), protection : SUBSET Accesses,
                      cache : Caches \cup {None}, offset : Nat, wired : BOOLEAN]
  /\ DOMAIN fPhysicalMap = PageAddresses
  /\ \A va \in PageAddresses :
       /\ fPhysicalMap[va].writable \in BOOLEAN
       /\ fPhysicalMap[va].page \in {None} \cup ((Caches \cup {None}) \X (0..kAddressSpaceTop))
  /\ copied \subseteq Copies \X (0..kAddressSpaceTop)
  /\ \A t \in Threads : /\ fault[t].at \in {"idle", "get page", "map"}
                        /\ fault[t].area \in AreaIds \cup {None}
  /\ leakedReads \in 0..Cardinality(Threads)

\* Areas never overlap, wherever they are placed: the search and IsRangeFree
\* agree with the tree, which refuses an area silently when they do not.
AreasDisjoint ==
  /\ TypeOK
  /\ ~resized => \A a, b \in AreasOf : a # b => ~Overlaps(fAreas[a], fAreas[b].low, fAreas[b].high)

\* A fault that was in progress while its area was deleted, or another created
\* in its place, maps nothing there: what is mapped at an address is always a
\* page of the area that is there now, at its offset.  It is writable only if
\* the area is, and then it is the area's own page and not the one of a file
\* that the area is a private copy of.
MappingsInAreas ==
  ~resized => \A va \in PageAddresses : fPhysicalMap[va] # Unmapped =>
    \E a \in Containing(va) :
      LET area == fAreas[a]
          own == <<area.cache, va - area.low + area.offset>>
      IN  /\ \/ fPhysicalMap[va].page = own
             \/ area.cache \in Copies /\ fPhysicalMap[va].page = <<Source[area.cache], own[2]>>
          /\ fPhysicalMap[va].writable => /\ area.protection \cap Writes # {}
                                          /\ fPhysicalMap[va].page = own

\* A file that areas only map private copies of is never mapped writable,
\* whatever reads, writes and resizes of these areas collide.
NoWriteThrough ==
  \A va \in PageAddresses :
    fPhysicalMap[va].writable => fPhysicalMap[va].page[1] \notin Files \ Mappable

FreeBases(size) == {low \in 0..(kAddressSpaceTop + 1 - size) : IsRangeFree(low, low + size - 1)}

\* A search from the top finds the highest free range, and fails only when no
\* range of the size is free.
SearchFromTop ==
  ~resized => \A size \in Sizes : FindFreeRange(size, FALSE) = Max(FreeBases(size) \cup {INVALID_PAGE})

\* AddressSpace.h: HandleFault returns E_BAD_ADDRESS if there is no area mapped
\* to the address accessed.  So a fault that has its page either maps it or
\* finds no area there.
BadAddressHasNoArea ==
  [][\A t \in Threads :
       fault[t].at = "map" /\ fault'[t].at = "idle" =>
         \/ fPhysicalMap'[fault[t].va].page = fault[t].page
         \/ Containing(fault[t].va) = {}]_vars

=============================================================================
