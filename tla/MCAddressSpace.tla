--------------------------- MODULE MCAddressSpace ---------------------------
(* AddressSpace with the layout of the kernel's address space made small: the *)
(* dummy area of user space, the kernel text that it overlaps, and one more   *)
(* area, with a gap of a page below it and one of two pages above it.         *)
EXTENDS AddressSpace, TLC

const_Layout == << <<0, 1>>, <<0, 1>>, <<4, 5>> >>
const_Source == [c \in Copies |-> CHOOSE f \in Files : TRUE]
const_Protections == {{"read"}, {"read", "write"}}

SameUnder == Permutations(Threads) \cup Permutations(AreaIds)

=============================================================================
