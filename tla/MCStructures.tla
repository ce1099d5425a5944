---------------------------- MODULE MCStructures ----------------------------
(* The kernel's data structures and small locks that share nothing, checked   *)
(* together: a step belongs to one of them, and only while all others are as  *)
(* they were created, so that their state spaces add instead of multiplying.  *)
EXTENDS KernelHeap, AVLTree, LockedPages, FrameMap, PageTables, Namespace,
        RecursiveLock

const_Nodes == 1..7
const_LowKey == [n \in const_Nodes |-> IF n = 7 THEN 4 ELSE 2 * n]
const_HighKey == [n \in const_Nodes |-> IF n = 7 THEN 7 ELSE 2 * n]
const_LockedPages == <<1, 2, 3>>
const_PhysicalPages == 1..3
const_Bucket == [p \in const_PhysicalPages |-> p % 2]

allVars == <<heapVars, treeVars, lockedVars, frameVars, tableVars, nameVars, recursiveVars>>

\* Whether each structure is as it was created.
Untouched(part) ==
  CASE part = "heap" -> HeapInit
    [] part = "tree" -> TreeInit
    [] part = "locked" -> LockedInit
    [] part = "frames" -> FrameInit
    [] part = "tables" -> TableInit
    [] part = "names" -> NameInit
    [] part = "recursive" -> RecursiveInit

Structures == {"heap", "tree", "locked", "frames", "tables", "names", "recursive"}

Only(part) == \A other \in Structures \ {part} : Untouched(other)

Init == \A part \in Structures : Untouched(part)

Next ==
  \/ /\ Only("heap") /\ HeapNext
     /\ UNCHANGED <<treeVars, lockedVars, frameVars, tableVars, nameVars, recursiveVars>>
  \/ /\ Only("tree") /\ TreeNext
     /\ UNCHANGED <<heapVars, lockedVars, frameVars, tableVars, nameVars, recursiveVars>>
  \/ /\ Only("locked") /\ LockedNext
     /\ UNCHANGED <<heapVars, treeVars, frameVars, tableVars, nameVars, recursiveVars>>
  \/ /\ Only("frames") /\ FrameNext
     /\ UNCHANGED <<heapVars, treeVars, lockedVars, tableVars, nameVars, recursiveVars>>
  \/ /\ Only("tables") /\ TableNext
     /\ UNCHANGED <<heapVars, treeVars, lockedVars, frameVars, nameVars, recursiveVars>>
  \/ /\ Only("names") /\ NameNext
     /\ UNCHANGED <<heapVars, treeVars, lockedVars, frameVars, tableVars, recursiveVars>>
  \/ /\ Only("recursive") /\ RecursiveNext
     /\ UNCHANGED <<heapVars, treeVars, lockedVars, frameVars, tableVars, nameVars>>

Spec == Init /\ [][Next]_allVars

=============================================================================
