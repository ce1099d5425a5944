----------------------------- MODULE BlockStore -----------------------------
(***************************************************************************)
(* What a heap promises its callers: blocks of memory that do not overlap  *)
(* and that neither move nor change their size while they are held.        *)
(***************************************************************************)
EXTENDS Integers

CONSTANT Memory      \* the addresses that can be handed out

VARIABLE blocks      \* each block that is handed out: its first address and its size

Extent(a, size) == a..(a + size - 1)

Apart(a, size) == \A b \in DOMAIN blocks : Extent(a, size) \cap Extent(b, blocks[b]) = {}

\* blocks without those in gone, and with one of the size at a.
Given(gone, a, size) ==
  [b \in (DOMAIN blocks \ gone) \cup {a} |-> IF b = a THEN size ELSE blocks[b]]

Allocate(gone) ==
  \E a \in DOMAIN blocks' \ DOMAIN blocks :
    LET size == blocks'[a]
    IN  /\ size > 0 /\ Extent(a, size) \subseteq Memory /\ Apart(a, size)
        /\ blocks' = Given(gone, a, size)

Release(a) == blocks' = [b \in DOMAIN blocks \ {a} |-> blocks[b]]

Init == blocks = << >>

\* A block is allocated, released, or moved: the old one is released after the
\* new one was found.
Next ==
  \/ Allocate({})
  \/ \E a \in DOMAIN blocks : Release(a) \/ Allocate({a})

Spec == Init /\ [][Next]_blocks

=============================================================================
