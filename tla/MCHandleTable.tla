--------------------------- MODULE MCHandleTable ----------------------------
(* HandleTable with two sub tables of two handles, and one resource more than *)
(* there are handles; one resource is of another type.                        *)
EXTENDS HandleTable, TLC

Other == CHOOSE r \in Resources : TRUE

const_TypeOf == [r \in Resources |-> IF r = Other THEN "Area" ELSE "FD"]

SameUnder == Permutations(Threads) \cup Permutations(Resources \ {Other})

=============================================================================
