---------------------------- MODULE MCPageCache -----------------------------
(* PageCache with a file, a private copy of it, and an anonymous cache. *)
EXTENDS PageCache, TLC

const_Source == [c \in Copies |-> CHOOSE f \in Files : TRUE]

SameUnder == Permutations(Threads) \cup Permutations(Pages)

=============================================================================
