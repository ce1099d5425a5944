----------------------------- MODULE HandleMap ------------------------------
(***************************************************************************)
(* What a table of handles promises (HandleTable.h): an identifier stands  *)
(* for the resource it was opened for until it is closed.                  *)
(***************************************************************************)
CONSTANTS Ids, Resources

VARIABLE handles    \* the open identifiers and their resources

Init == handles = [id \in {} |-> id]

Open(id, r) ==
  /\ id \notin DOMAIN handles
  /\ handles' = [i \in DOMAIN handles \cup {id} |-> IF i = id THEN r ELSE handles[i]]

Close(id) ==
  /\ id \in DOMAIN handles
  /\ handles' = [i \in DOMAIN handles \ {id} |-> handles[i]]

\* The team that has the table ends.
CloseAll == handles' = [id \in {} |-> id]

Next ==
  \/ \E id \in Ids : Close(id) \/ \E r \in Resources : Open(id, r)
  \/ CloseAll

Spec == Init /\ [][Next]_handles

=============================================================================
