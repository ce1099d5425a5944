------------------------------ MODULE FrameMap ------------------------------
(***************************************************************************)
(* Physical memory frames and the page tables made of them                 *)
(* (Memory/PhysicalMemoryManager.cpp, Memory/VirtualMemoryManager.cpp): a  *)
(* bitmap of the frames in use, with their number beside it, and a page    *)
(* directory whose tables are frames of the bitmap.                        *)
(*                                                                         *)
(* The managers are called by one thread at a time.  Memory is a record of *)
(* what the code keeps, and the operations are functions from memory to    *)
(* memory.  Frames and pages are numbers; 0 stands for no entry and for    *)
(* NULL, as in the code: frame 0 is below the kernel and never handed out. *)
(***************************************************************************)
EXTENDS Integers, Sequences, FiniteSets, SequencesExt

CONSTANTS m_maxBlocks,         \* frames of the machine
          PMM_BITS_PER_INDEX,  \* frames per word of the bitmap
          PMM_BLOCK_SIZE,      \* of a frame
          availablePoint,      \* where the bitmap ends, and the kernel before it
          PAGES_PER_TABLE,
          Pages,               \* that get mapped
          BlockCounts,         \* numbers of frames that callers ask for
          DeviceFrames         \* that MapDMAAddress maps, behind the memory

\* SetMemoryAvailable rounds down: the frame of the bitmap's last words is available,
\* unless the bitmap fills it.
startBlock == availablePoint \div PMM_BLOCK_SIZE

BitmapFillsItsFrames == availablePoint % PMM_BLOCK_SIZE = 0

ASSUME FrameAssumption ==
  /\ PMM_BITS_PER_INDEX \in Nat \ {0} /\ PAGES_PER_TABLE \in Nat \ {0}
  /\ PMM_BLOCK_SIZE \in Nat \ {0} /\ availablePoint \in Nat
  /\ m_maxBlocks \in Nat /\ startBlock \in 1..m_maxBlocks
  /\ Pages \subseteq Nat /\ BlockCounts \subseteq Nat
  /\ \A f \in DeviceFrames : f \in Nat /\ f >= m_maxBlocks

VARIABLES
  mm,      \* map: frames whose bit is set; m_usedBlocks; m_entries of the
           \* directory; tables: the entries of the frames that are page tables;
           \* low: entries written at address 0, for want of a table
  given,   \* frames that callers of the physical memory manager hold
  backing, \* frames that MapAddress put behind pages
  behind   \* the frame last put behind each page, 0 if it was unmapped since

frameVars == <<mm, given, backing, behind>>

Frames == 0..(m_maxBlocks - 1)
Tables == {p \div PAGES_PER_TABLE : p \in Pages}

-----------------------------------------------------------------------------
(* The bitmap.  Only its full words are searched.                           *)

FreeBits(m) == {f \in Frames : f < (m_maxBlocks \div PMM_BITS_PER_INDEX) * PMM_BITS_PER_INDEX} \ m.map

GetFreeFrame(m) == IF FreeBits(m) = {} THEN -1 ELSE Min(FreeBits(m))

\* How many frames from f on are free, of as many as are wanted.
CountFree(m, f, size) ==
  Min({k \in 0..size : k = size \/ f + k >= m_maxBlocks \/ f + k \in m.map})

\* Mutant: the search gives up at the first frames that are too few.
SearchFramesOnce(m, starts, size) ==
  IF starts = {} \/ CountFree(m, Min(starts), size) < size THEN -1 ELSE Min(starts)

\* The search ends at the first place where there are enough frames, or where
\* it runs off the map, and then it gives up.
SearchFrames(m, starts, size) ==
  LET ends == {f \in starts : LET free == CountFree(m, f, size)
                              IN  free = size \/ f + free >= m_maxBlocks}
  IN  IF ends = {} \/ CountFree(m, Min(ends), size) < size THEN -1 ELSE Min(ends)

GetFreeFrames(m, size) ==
  CASE size = 0 -> -1
    [] size = 1 -> GetFreeFrame(m)
    [] OTHER -> SearchFrames(m, FreeBits(m), size)

-----------------------------------------------------------------------------
(* Results of allocations: the frame, 0 if there is none, and the memory.   *)

Took(m, f, size) ==
  [frame |-> f,
   m |-> [m EXCEPT !.map = @ \cup f..(f + size - 1), !.m_usedBlocks = @ + size]]

NoFrame(m) == [frame |-> 0, m |-> m]

AllocBlock(m) ==
  IF m_maxBlocks - m.m_usedBlocks <= 0 \/ GetFreeFrame(m) = -1 THEN NoFrame(m)
  ELSE Took(m, GetFreeFrame(m), 1)

AllocBlocks(m, size) ==
  IF m_maxBlocks - m.m_usedBlocks <= size \/ GetFreeFrames(m, size) = -1 THEN NoFrame(m)
  ELSE Took(m, GetFreeFrames(m, size), size)

FreeBlocks(m, f, size) ==
  [m EXCEPT !.map = @ \ f..(f + size - 1), !.m_usedBlocks = @ - size]

-----------------------------------------------------------------------------
(* Page tables.                                                             *)

DirIndex(page) == page \div PAGES_PER_TABLE
TableIndex(page) == page % PAGES_PER_TABLE

EmptyTable == [i \in 0..(PAGES_PER_TABLE - 1) |-> 0]

\* A frame becomes a table: it is cleared and entered in the directory.
CreatePageTable(m, page) ==
  LET got == AllocBlock(m)
  IN  IF m.m_entries[DirIndex(page)] # 0 \/ got.frame = 0 THEN m
      ELSE [got.m EXCEPT !.m_entries[DirIndex(page)] = got.frame,
                         !.tables = [f \in DOMAIN @ \cup {got.frame} |->
                                       IF f = got.frame THEN EmptyTable ELSE @[f]]]

\* That CreatePageTable failed is not looked at: the entry is then written to
\* where the table would be.
MapPhysicalAddressToVirtualAddresss(m, page, frame) ==
  LET c == CreatePageTable(m, page)
      table == c.m_entries[DirIndex(page)]
  IN  IF table = 0 THEN [c EXCEPT !.low = @ \cup {TableIndex(page)}]
      ELSE [c EXCEPT !.tables[table][TableIndex(page)] = frame]

\* Mutant: the entry of the directory is not cleared.
UnmapKeepsEntry(m, page) ==
  LET table == m.m_entries[DirIndex(page)]
  IN  IF table = 0 THEN m ELSE FreeBlocks(m, table, 1)

\* The whole table goes, with the pages next to this one.
UnmapPageTable(m, page) ==
  LET table == m.m_entries[DirIndex(page)]
  IN  IF table = 0 THEN m
      ELSE [FreeBlocks(m, table, 1) EXCEPT !.m_entries[DirIndex(page)] = 0,
                                           !.tables = [f \in DOMAIN @ \ {table} |-> @[f]]]

GetPhysicalAddress(m, page) ==
  LET table == m.m_entries[DirIndex(page)]
  IN  IF table = 0 THEN 0 ELSE m.tables[table][TableIndex(page)]

\* count pages from page on get the frames from frame on.
MapRange(m, page, frame, count) ==
  LET after[i \in 0..count] ==
        IF i = 0 THEN m
        ELSE MapPhysicalAddressToVirtualAddresss(after[i - 1], page + (i - 1), frame + (i - 1))
  IN  after[count]

UnmapRange(m, page, count) ==
  LET after[i \in 0..count] ==
        IF i = 0 THEN m ELSE UnmapPageTable(after[i - 1], page + (i - 1))
  IN  after[count]

-----------------------------------------------------------------------------
(* Operations.                                                              *)

\* AllocBlock and AllocBlocks for a caller that keeps the frames.
Allocate(size) ==
  LET got == IF size = 1 THEN AllocBlock(mm) ELSE AllocBlocks(mm, size)
  IN  /\ mm' = got.m
      /\ given' = IF got.frame = 0 THEN given ELSE given \cup {<<got.frame, size>>}
      /\ UNCHANGED <<backing, behind>>

\* FreeBlock and FreeBlocks.
Release(block) ==
  /\ mm' = FreeBlocks(mm, block[1], block[2])
  /\ given' = given \ {block}
  /\ UNCHANGED <<backing, behind>>

\* What is behind pages once count of them, from page on, got the frames from frame on,
\* or were unmapped, if frame is 0.
LastPut(old, page, count, frame) ==
  [p \in Pages |-> IF p \notin page..(page + count - 1) THEN old[p]
                   ELSE IF frame = 0 THEN 0 ELSE frame + (p - page)]

\* Frames behind pages are not known to anybody else and never freed.
MapAddress(page, count) ==
  LET got == AllocBlocks(mm, count)
  IN  /\ page..(page + count - 1) \subseteq Pages
      /\ \/ /\ got.frame = 0
            /\ UNCHANGED frameVars
         \/ /\ got.frame # 0
            /\ mm' = MapRange(got.m, page, got.frame, count)
            /\ backing' = backing \cup got.frame..(got.frame + count - 1)
            /\ behind' = LastPut(behind, page, count, got.frame)
            /\ UNCHANGED given

MapDMAAddress(page, frame) ==
  /\ mm' = MapPhysicalAddressToVirtualAddresss(mm, page, frame)
  /\ behind' = LastPut(behind, page, 1, frame)
  /\ UNCHANGED <<given, backing>>

UnmapAddress(page, count) ==
  /\ page..(page + count - 1) \subseteq Pages
  /\ mm' = UnmapRange(mm, page, count)
  /\ behind' = LastPut(behind, page, count, 0)
  /\ UNCHANGED <<given, backing>>

\* Initialize: everything is in use but the frames from startBlock on.
FrameInit ==
  /\ mm = [map |-> 0..(startBlock - 1), m_usedBlocks |-> startBlock,
           m_entries |-> [d \in Tables |-> 0], tables |-> << >>, low |-> {}]
  /\ given = {}
  /\ backing = {}
  /\ behind = [p \in Pages |-> 0]

FrameNext ==
  \/ \E size \in BlockCounts : Allocate(size)
  \/ \E block \in given : Release(block)
  \/ \E page \in Pages : \/ \E count \in BlockCounts : MapAddress(page, count) \/ UnmapAddress(page, count)
                         \/ \E frame \in DeviceFrames : MapDMAAddress(page, frame)

FrameSpec == FrameInit /\ [][FrameNext]_frameVars

-----------------------------------------------------------------------------
(* Properties.                                                              *)

InUse == {m \in {mm.m_entries[d] : d \in Tables} : m # 0}

GivenFrames == UNION {block[1]..(block[1] + block[2] - 1) : block \in given}

\* The frames with words of the kernel or of the bitmap.
KernelFrames == {f \in Frames : f * PMM_BLOCK_SIZE < availablePoint}

\* Every frame has one use: it holds the kernel and the bitmap, it is a page table,
\* behind a page, or a caller's; the bit of a frame is set exactly while it has one,
\* and m_usedBlocks is the number of these.  A page leads nowhere, when its table was
\* lost or never made, or to the frame last put behind it; that is a device's, or it
\* is behind no other page.
FramesAccounted ==
  /\ mm.map = KernelFrames \cup InUse \cup backing \cup GivenFrames
  /\ mm.m_usedBlocks = Cardinality(mm.map)
  /\ Cardinality(mm.map) = Cardinality(KernelFrames) + Cardinality({d \in Tables : mm.m_entries[d] # 0})
                           + Cardinality(backing) + Cardinality(GivenFrames)
  /\ DOMAIN mm.tables = InUse
  /\ \A page \in Pages : /\ GetPhysicalAddress(mm, page) \in {0, behind[page]}
                         /\ behind[page] \in {0} \cup backing \cup DeviceFrames
                         /\ behind[page] \in backing => \A p \in Pages \ {page} : behind[p] # behind[page]

\* The frames that are handed out are those that can be used, as Initialize says: none
\* of them holds words of the kernel or of the bitmap.
BitmapKept == (InUse \cup backing \cup GivenFrames) \cap KernelFrames = {}

\* A search for several frames in a row finds the lowest place there is, among
\* those that begin in a full word of the bitmap, and gives up too early never.
FindsTheFirstRun ==
  \A size \in 1..m_maxBlocks :
    LET runs == {f \in FreeBits(mm) : \A i \in f..(f + size - 1) : i \in Frames \ mm.map}
    IN  GetFreeFrames(mm, size) = IF runs = {} THEN -1 ELSE Min(runs)

=============================================================================
