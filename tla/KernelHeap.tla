----------------------------- MODULE KernelHeap -----------------------------
(***************************************************************************)
(* The kernel's heap (Heap/kheap.cpp, Heap/ordered_array.cpp): memory that *)
(* is divided without gaps into blocks and holes, each between a header    *)
(* with its size and a footer that points back to the header, and an index *)
(* of the holes that is kept in the order of their sizes.                  *)
(*                                                                         *)
(* Allocation and release are in critical sections and so are one step     *)
(* each.  Addresses are relative to the start of the heap.  What headers   *)
(* and footers say is only found where the memory has HEAP_MAGIC, and old  *)
(* ones stay where they are, as in the memory itself.  Nothing asks for    *)
(* page-aligned blocks (kmalloc_a, kmalloc_ap) and the heap never grows    *)
(* (memory_alloc halts before expand), so these paths are left out.        *)
(***************************************************************************)
EXTENDS Integers, Sequences, FiniteSets, SequencesExt

CONSTANTS HeapSize,               \* end_address - start_address
          HeaderSize, FooterSize, \* sizeof(header_t), sizeof(footer_t)
          RequestSizes,           \* that callers ask for
          NoMagic                 \* memory that is neither header nor footer

Overhead == HeaderSize + FooterSize

ASSUME HeapAssumption ==
  /\ HeaderSize \in Nat \ {0} /\ FooterSize \in Nat \ {0}
  /\ HeapSize \in Nat /\ HeapSize > Overhead
  /\ RequestSizes \subseteq Nat
  /\ NoMagic \notin Int /\ NoMagic \notin [size : Int, is_hole : BOOLEAN]

VARIABLES
  header,   \* header_t at each address: its size and is_hole
  footer,   \* footer_t at each address: the header it points to
  index,    \* heap->index: the headers of holes
  owned     \* the blocks that callers hold, with the size they asked for

heapVars == <<header, footer, index, owned>>

Heap == [header |-> header, footer |-> footer, index |-> index]

Addresses == 0..(HeapSize - 1)

-----------------------------------------------------------------------------
(* Reading memory: the words before the heap are the unused end of the      *)
(* index, and nothing that follows the heap has the magic number.           *)

HeaderAt(h, a) == IF a \in Addresses THEN h.header[a] ELSE NoMagic
FooterAt(h, a) == IF a \in Addresses THEN h.footer[a] ELSE NoMagic

IsHoleAt(h, a) == HeaderAt(h, a) # NoMagic /\ HeaderAt(h, a).is_hole

PutHeader(h, a, size, is_hole) ==
  [h EXCEPT !.header[a] = [size |-> size, is_hole |-> is_hole]]

PutFooter(h, a, size) == [h EXCEPT !.footer[a + size - FooterSize] = a]

\* The owner of a block writes over the headers and footers that were inside.
Overwritten(h, a, size) ==
  [h EXCEPT !.header = [x \in Addresses |-> IF a < x /\ x < a + size THEN NoMagic ELSE h.header[x]],
            !.footer = [x \in Addresses |-> IF a <= x /\ x < a + size - FooterSize THEN NoMagic
                                            ELSE h.footer[x]]]

\* The item goes before the first hole that is not smaller.
insert_ordered_array(h, item) ==
  LET notSmaller == {i \in 1..Len(h.index) : h.header[h.index[i]].size >= h.header[item].size}
  IN  [h EXCEPT !.index = InsertAt(h.index, Min(notSmaller \cup {Len(h.index) + 1}), item)]

remove_ordered_array(h, i) == [h EXCEPT !.index = RemoveAt(h.index, i)]

\* The places in the index of the holes that are large enough; the search
\* takes the first.
Fitting(h, new_size) == {i \in 1..Len(h.index) : h.header[h.index[i]].size >= new_size}

-----------------------------------------------------------------------------
(* memory_alloc and hfree, as functions of the heap.                        *)

\* What is too small to be a hole goes to the block.
BlockSize(holeSize, new_size) ==
  IF holeSize - new_size < Overhead THEN holeSize ELSE new_size

\* The hole that a request is served from: the first that fits.
find_smallest_hole(h, new_size) == Min(Fitting(h, new_size))

HoleFor(h, size) == h.index[find_smallest_hole(h, size + Overhead)]

memory_alloc(h, size) ==
  LET i == find_smallest_hole(h, size + Overhead)
      pos == h.index[i]
      holeSize == h.header[pos].size
      new_size == BlockSize(holeSize, size + Overhead)
      taken == Overwritten(remove_ordered_array(h, i), pos, new_size)
      block == PutFooter(PutHeader(taken, pos, new_size, FALSE), pos, new_size)
      rest == pos + new_size
      left == holeSize - new_size
  IN  IF left = 0 THEN block
      ELSE insert_ordered_array(PutFooter(PutHeader(block, rest, left, TRUE), rest, left), rest)

\* Mutant: whatever is on the right is taken for a hole.
UnifyRightUnchecked(h, a) ==
  LET right == a + h.header[a].size
      size == h.header[a].size + h.header[right].size
  IN  IF HeaderAt(h, right) = NoMagic THEN h
      ELSE [PutFooter(PutHeader(h, a, size, TRUE), a, size) EXCEPT
              !.index = SelectSeq(h.index, LAMBDA x : x # right)]

\* Mutant: the footer of the hole on the right keeps pointing to its old header.
UnifyRightOldFooter(h, a) ==
  LET right == a + h.header[a].size
  IN  IF ~IsHoleAt(h, right) THEN h
      ELSE [h EXCEPT !.header[a].size = @ + h.header[right].size,
                     !.index = SelectSeq(h.index, LAMBDA x : x # right)]

\* The hole to the right becomes part of the hole at a, and leaves the index.
UnifyRight(h, a) ==
  LET right == a + h.header[a].size
      size == h.header[a].size + h.header[right].size
  IN  IF ~IsHoleAt(h, right) THEN h
      ELSE LET merged == PutFooter(PutHeader(h, a, size, TRUE), a, size)
           IN  remove_ordered_array(merged, CHOOSE i \in 1..Len(h.index) : h.index[i] = right)

\* The block becomes part of a hole on its left, or a new hole.
hfree(h, a) ==
  LET size == h.header[a].size
      left == FooterAt(h, a - FooterSize)
      hole == PutHeader(h, a, size, TRUE)
      whole == h.header[left].size + size
  IN  IF left # NoMagic /\ IsHoleAt(h, left)
        THEN UnifyRight(PutFooter(PutHeader(hole, left, whole, TRUE), left, whole), left)
        ELSE insert_ordered_array(UnifyRight(hole, a), a)

malloc_size(h, a) == h.header[a].size - Overhead

-----------------------------------------------------------------------------
(* What callers do.                                                         *)

Become(h) == header' = h.header /\ footer' = h.footer /\ index' = h.index

Own(a, size) == [b \in DOMAIN owned \cup {a} |-> IF b = a THEN size ELSE owned[b]]
Disown(a) == [b \in DOMAIN owned \ {a} |-> owned[b]]

\* Without a hole that fits the system halts.
Malloc(size) ==
  /\ Fitting(Heap, size + Overhead) # {}
  /\ Become(memory_alloc(Heap, size))
  /\ owned' = Own(HoleFor(Heap, size), size)

Free(a) ==
  /\ a \in DOMAIN owned
  /\ Become(hfree(Heap, a))
  /\ owned' = Disown(a)

\* A block that is too small is copied to a new one and released.
Realloc(a, size) ==
  /\ a \in DOMAIN owned
  /\ IF malloc_size(Heap, a) >= size
       THEN owned' = Own(a, size) /\ UNCHANGED <<header, footer, index>>
       ELSE /\ Fitting(Heap, size + Overhead) # {}
            /\ Become(hfree(memory_alloc(Heap, size), a))
            /\ owned' = [b \in (DOMAIN owned \ {a}) \cup {HoleFor(Heap, size)} |->
                           IF b = HoleFor(Heap, size) THEN size ELSE owned[b]]

\* create_kernel_heap: one hole, which has no footer.
HeapInit ==
  /\ header = [a \in Addresses |-> IF a = 0 THEN [size |-> HeapSize, is_hole |-> TRUE] ELSE NoMagic]
  /\ footer = [a \in Addresses |-> NoMagic]
  /\ index = <<0>>
  /\ owned = << >>

HeapNext ==
  \/ \E size \in RequestSizes : Malloc(size) \/ \E a \in DOMAIN owned : Realloc(a, size)
  \/ \E a \in DOMAIN owned : Free(a)

HeapSpec == HeapInit /\ [][HeapNext]_heapVars

-----------------------------------------------------------------------------
(* Properties.                                                              *)

Holes == {index[i] : i \in 1..Len(index)}

Parts == DOMAIN owned \cup Holes

Inside(x, a) == a <= x /\ x < a + header[a].size

\* Blocks and holes divide the memory without gaps or overlaps, whatever was
\* allocated and released in whatever order: headers and footers agree (only
\* the hole that is the whole heap has no footer), the index has every hole
\* once, holes are never next to each other, and blocks are as large as was
\* asked for.
HeapTiles ==
  /\ \A a \in Parts : /\ header[a] # NoMagic /\ header[a].is_hole = (a \in Holes)
                      /\ \/ header[a].size = HeapSize /\ a \in Holes
                         \/ footer[a + header[a].size - FooterSize] = a
  /\ \A x \in Addresses : \E a \in Parts : Inside(x, a) /\ \A b \in Parts \ {a} : ~Inside(x, b)
  /\ DOMAIN owned \cap Holes = {} /\ Cardinality(Holes) = Len(index)
  /\ \A a, b \in Holes : a + header[a].size # b
  /\ \A a \in DOMAIN owned : header[a].size >= owned[a] + Overhead

\* The heap is a BlockStore: what it does to its headers when it splits and
\* unifies holes never touches a block that somebody holds.
blocks == [a \in DOMAIN owned |-> IF header[a] = NoMagic THEN 0 ELSE header[a].size]

Store == INSTANCE BlockStore WITH Memory <- Addresses

HeapImplements == Store!Spec

=============================================================================
