----------------------------- MODULE PageTables -----------------------------
(***************************************************************************)
(* Physical maps (PhysicalMap.cpp): a page directory per address space and *)
(* page tables that are made when something is first mapped in their part  *)
(* of it.  Unmap keeps empty tables; they go with their map.               *)
(*                                                                         *)
(* A map's operations exclude each other with fLock, and the part of a map *)
(* below kKernelBase is its own, so that each operation is one step.  The  *)
(* kernel's part, which all maps share, is left out.                       *)
(***************************************************************************)
EXTENDS Integers, Sequences, FiniteSets, SequencesExt

CONSTANTS Maps,         \* identities of maps
          TableFrames,  \* the pages that Page::Alloc finds for tables
          MappedPages,  \* physical pages that get mapped
          DirectorySize, TableSize,  \* entries below kKernelBase; of a table
          NotPresent    \* an entry without kPagePresent

ASSUME PageTablesAssumption ==
  /\ DirectorySize \in Nat \ {0} /\ TableSize \in Nat \ {0}
  /\ NotPresent \notin TableFrames \cup MappedPages

VARIABLES
  pgdir,   \* the directory of each map that exists
  pgtbl,   \* what is in each frame, when it is a table and when it was one
  fMappedPageCount

tableVars == <<pgdir, pgtbl, fMappedPageCount>>

VirtualPages == 0..(DirectorySize * TableSize - 1)

\* Page::Alloc takes any page that nobody has.
FreeFrames == TableFrames \ {pgdir[m][d] : m \in DOMAIN pgdir, d \in 0..(DirectorySize - 1)}

EmptyEntries == [i \in 0..(TableSize - 1) |-> NotPresent]

\* PhysicalMap::GetPhysicalAddress; NotPresent for INVALID_PAGE.
PhysicalAddress(m, va) ==
  LET pdent == pgdir[m][va \div TableSize]
  IN  IF pdent = NotPresent THEN NotPresent ELSE pgtbl[pdent][va % TableSize]

-----------------------------------------------------------------------------
(* Operations.                                                              *)

\* The entries for user space are cleared.
NewMap(m) ==
  /\ m \notin DOMAIN pgdir
  /\ pgdir' = [x \in DOMAIN pgdir \cup {m} |->
                 IF x = m THEN [d \in 0..(DirectorySize - 1) |-> NotPresent] ELSE pgdir[x]]
  /\ fMappedPageCount' = [x \in DOMAIN pgdir \cup {m} |-> IF x = m THEN 0 ELSE fMappedPageCount[x]]
  /\ UNCHANGED pgtbl

\* The tables are freed as they are.
DeleteMap(m) ==
  /\ pgdir' = [x \in DOMAIN pgdir \ {m} |-> pgdir[x]]
  /\ fMappedPageCount' = [x \in DOMAIN pgdir \ {m} |-> fMappedPageCount[x]]
  /\ UNCHANGED pgtbl

\* Mutant: a new table keeps what the page had in it.
NewTableDirty(table) == pgtbl[table]

\* ClearPage of a new table.
NewTable(table) == EmptyEntries

\* Mutant: a page that replaces another is counted again.
CountAgain(m, old) == fMappedPageCount[m] + 1

\* The count after a page is mapped in place of what was there.
CountMapped(m, old) == fMappedPageCount[m] + (IF old = NotPresent THEN 1 ELSE 0)

\* Map: what was mapped there is replaced.  Without a table one is made.
MapPage(m, va, pa) ==
  LET pdindex == va \div TableSize
  IN  \E table \in IF pgdir[m][pdindex] = NotPresent THEN FreeFrames ELSE {pgdir[m][pdindex]} :
        LET new == pgdir[m][pdindex] = NotPresent
            entries == IF new THEN NewTable(table) ELSE pgtbl[table]
        IN  /\ pgdir' = [pgdir EXCEPT ![m][pdindex] = table]
            /\ pgtbl' = [pgtbl EXCEPT ![table] = [entries EXCEPT ![va % TableSize] = pa]]
            /\ fMappedPageCount' = [fMappedPageCount EXCEPT ![m] = CountMapped(m, entries[va % TableSize])]

\* One round of Unmap's loop, at an index of the directory and of the table
\* there, with count pages left: clears is the entries <<table, index>> that the
\* loop has come to.
UnmapRound(dir, at) ==
  LET here == Min({at.count, TableSize - at.ptindex})
  IN  CASE at.count <= 0 -> at
        [] at.count > 0 /\ dir[at.pdindex] = NotPresent ->
             IF at.ptindex + at.count < TableSize
             THEN [pdindex |-> at.pdindex, ptindex |-> at.ptindex, count |-> 0, clears |-> at.clears]
             ELSE [pdindex |-> at.pdindex + 1, ptindex |-> 0,
                   count |-> at.count - (TableSize - at.ptindex), clears |-> at.clears]
        [] OTHER ->
             [pdindex |-> at.pdindex + 1, ptindex |-> 0, count |-> at.count - here,
              clears |-> at.clears \cup {<<dir[at.pdindex], at.ptindex + i>> : i \in 0..(here - 1)}]

\* It comes to each entry of the directory once at most.
UnmapEntries(dir, va, count) ==
  LET at[k \in 0..DirectorySize] ==
        IF k = 0 THEN [pdindex |-> va \div TableSize, ptindex |-> va % TableSize, count |-> count, clears |-> {}]
        ELSE UnmapRound(dir, at[k - 1])
  IN  at[DirectorySize].clears

UnmapPages(m, va, count) ==
  LET entries == UnmapEntries(pgdir[m], va, count)
      present == {e \in entries : pgtbl[e[1]][e[2]] # NotPresent}
  IN  /\ va + count <= DirectorySize * TableSize
      /\ pgtbl' = [table \in TableFrames |-> [i \in 0..(TableSize - 1) |->
                     IF <<table, i>> \in present THEN NotPresent ELSE pgtbl[table][i]]]
      /\ fMappedPageCount' = [fMappedPageCount EXCEPT ![m] = @ - Cardinality(present)]
      /\ UNCHANGED pgdir

\* A free page has in it what its last use left.
LastUse == CHOOSE e \in MappedPages : TRUE

TableInit ==
  /\ pgdir = << >>
  /\ pgtbl = [table \in TableFrames |-> [i \in 0..(TableSize - 1) |-> LastUse]]
  /\ fMappedPageCount = << >>

TableNext ==
  \/ \E m \in Maps : NewMap(m)
  \/ \E m \in DOMAIN pgdir :
       \/ DeleteMap(m)
       \/ \E va \in VirtualPages : \/ \E pa \in MappedPages : MapPage(m, va, pa)
                                   \/ \E count \in 1..(DirectorySize * TableSize) : UnmapPages(m, va, count)

TableSpec == TableInit /\ [][TableNext]_tableVars

-----------------------------------------------------------------------------
(* Properties.                                                              *)

\* Tables are not shared between maps or parts of one map, and CountMappedPages,
\* from which the working set is trimmed, is the number of pages mapped.
PagesCounted ==
  \A m \in DOMAIN pgdir :
    /\ fMappedPageCount[m] = Cardinality({va \in VirtualPages : PhysicalAddress(m, va) # NotPresent})
    /\ \A n \in DOMAIN pgdir, d, e \in 0..(DirectorySize - 1) :
         pgdir[m][d] = pgdir[n][e] => pgdir[m][d] = NotPresent \/ (m = n /\ d = e)

mappings == [m \in DOMAIN pgdir |-> [va \in VirtualPages |-> PhysicalAddress(m, va)]]

\* Through directories and tables, the maps are AddressMaps: mapping a page
\* changes one address of one map, and unmapping a range the range, however it
\* lies across tables that are there and that are not.
Flat == INSTANCE AddressMaps WITH
          Addresses <- VirtualPages, Unmapped <- NotPresent,
          mapped <- mappings

MapsImplement == Flat!Spec

=============================================================================
