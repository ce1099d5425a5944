------------------------------ MODULE AVLTree ------------------------------
(***************************************************************************)
(* The tree that the areas of an address space are kept in (AVLTree.cpp):  *)
(* nodes are ranges of keys that do not overlap; a dummy head, whose right *)
(* child is the root, stands for the parent of the root in rotations.      *)
(*                                                                         *)
(* The tree is a record of functions on nodes, with the names of the code. *)
(* Operations are functions from trees to trees, with the stack of nodes   *)
(* above the place of the change as in the code.                           *)
(***************************************************************************)
EXTENDS Integers, Sequences, FiniteSets, SequencesExt

CONSTANTS Nodes,          \* that can be in the tree
          LowKey, HighKey,\* of each node
          fDummyHead, Null

ASSUME TreeAssumption ==
  /\ \A n \in Nodes : LowKey[n] \in Nat \ {0} /\ HighKey[n] \in Nat /\ LowKey[n] <= HighKey[n]
  /\ fDummyHead \notin Nodes /\ Null \notin Nodes \cup {fDummyHead}

VARIABLES tree,       \* fLeft, fRight and fMaxChildDepth of every node
          members     \* the nodes that were added and not removed

treeVars == <<tree, members>>

Low(n) == IF n = fDummyHead THEN 0 ELSE LowKey[n]
High(n) == IF n = fDummyHead THEN 0 ELSE HighKey[n]

-----------------------------------------------------------------------------
(* Depths and rotations.                                                    *)

\* Height of a subtree: 0 for none, and one more than the greatest depth below
\* its root otherwise.
Height(t, n) == IF n = Null THEN 0 ELSE t.fMaxChildDepth[n] + 1

RecomputeMaxChildDepth(t, n) ==
  [t EXCEPT !.fMaxChildDepth[n] = Max({Height(t, t.fLeft[n]), Height(t, t.fRight[n])})]

GetBalance(t, n) == Height(t, t.fRight[n]) - Height(t, t.fLeft[n])

\* The child takes the place of node n under its parent.
Replace(t, parent, n, child) ==
  IF t.fLeft[parent] = n THEN [t EXCEPT !.fLeft[parent] = child]
  ELSE [t EXCEPT !.fRight[parent] = child]

\* Mutant: the left subtree of the child that moves up is lost.
RotateLeftDropsSubtree(t, n, parent) ==
  LET child == t.fRight[n]
      turned == [t EXCEPT !.fRight[n] = Null, !.fLeft[child] = n]
  IN  RecomputeMaxChildDepth(RecomputeMaxChildDepth(Replace(turned, parent, n, child), n), child)

RotateLeft(t, n, parent) ==
  LET child == t.fRight[n]
      turned == [t EXCEPT !.fRight[n] = t.fLeft[child], !.fLeft[child] = n]
  IN  RecomputeMaxChildDepth(RecomputeMaxChildDepth(Replace(turned, parent, n, child), n), child)

RotateRight(t, n, parent) ==
  LET child == t.fLeft[n]
      turned == [t EXCEPT !.fLeft[n] = t.fRight[child], !.fRight[child] = n]
  IN  RecomputeMaxChildDepth(RecomputeMaxChildDepth(Replace(turned, parent, n, child), n), child)

\* One round of FixBalance: node n on the stack, and the node above it.
Balance(t, n, parent) ==
  LET r == RecomputeMaxChildDepth(t, n)
      rr == RecomputeMaxChildDepth(r, r.fRight[n])
      rl == RecomputeMaxChildDepth(r, r.fLeft[n])
  IN  CASE GetBalance(r, n) > 1  ->
             RotateLeft(IF GetBalance(rr, rr.fRight[n]) < 0 THEN RotateRight(rr, rr.fRight[n], n) ELSE rr,
                        n, parent)
        [] GetBalance(r, n) < -1 ->
             RotateRight(IF GetBalance(rl, rl.fLeft[n]) > 0 THEN RotateLeft(rl, rl.fLeft[n], n) ELSE rl,
                         n, parent)
        [] OTHER -> r

\* From the end of the stack up to the root, which is above the dummy head.
RECURSIVE FixBalance(_, _)
FixBalance(t, stack) ==
  IF Len(stack) = 1 THEN t
  ELSE FixBalance(Balance(t, Last(stack), stack[Len(stack) - 1]), Front(stack))

-----------------------------------------------------------------------------
(* Searches.                                                                *)

\* The way of Add down the tree: the nodes on it, the last of which either has
\* room on the side of the range or overlaps it.
RECURSIVE AddPath(_, _, _, _)
AddPath(t, parent, low, high) ==
  LET next == IF high < Low(parent) THEN t.fLeft[parent]
              ELSE IF low > High(parent) \/ High(parent) = 0 THEN t.fRight[parent]
              ELSE Null
  IN  <<parent>> \o (IF next = Null THEN << >> ELSE AddPath(t, next, low, high))

\* The way of Remove down to the parent of the node.
RECURSIVE RemovePath(_, _, _)
RemovePath(t, parent, n) ==
  LET next == IF Low(n) < Low(parent) THEN t.fLeft[parent] ELSE t.fRight[parent]
  IN  <<parent>> \o (IF next \in {n, Null} THEN << >> ELSE RemovePath(t, next, n))

RECURSIVE FindFrom(_, _, _)
FindFrom(t, n, key) ==
  IF n = Null THEN Null
  ELSE IF key < Low(n) THEN FindFrom(t, t.fLeft[n], key)
  ELSE IF key > High(n) THEN FindFrom(t, t.fRight[n], key)
  ELSE n

Find(t, key) == FindFrom(t, t.fRight[fDummyHead], key)

RECURSIVE FreeFrom(_, _, _, _)
FreeFrom(t, n, low, high) ==
  IF n = Null THEN TRUE
  ELSE IF high < Low(n) THEN FreeFrom(t, t.fLeft[n], low, high)
  ELSE IF low > High(n) THEN FreeFrom(t, t.fRight[n], low, high)
  ELSE FALSE

TreeRangeFree(t, low, high) == FreeFrom(t, t.fRight[fDummyHead], low, high)

\* The iterator: the current node and the stack of those still to come.  It goes
\* down on the near side and remembers what it passes.
RECURSIVE Descend(_, _, _)
Descend(near, n, stack) ==
  IF near[n] = Null THEN [current |-> n, stack |-> stack] ELSE Descend(near, near[n], Append(stack, n))

\* What GoToNext makes of the iterator; far is the other side.
GoToNext(near, far, it) ==
  CASE far[it.current] # Null -> Descend(near, far[it.current], it.stack)
    [] far[it.current] = Null /\ it.stack # << >> -> [current |-> Last(it.stack), stack |-> Front(it.stack)]
    [] OTHER -> [current |-> Null, stack |-> << >>]

RECURSIVE IterateFrom(_, _, _)
IterateFrom(near, far, it) ==
  IF it.current = Null THEN << >>
  ELSE <<it.current>> \o IterateFrom(near, far, GoToNext(near, far, it))

\* The nodes in the order an iterator meets them.
Iterate(t, forward) ==
  LET near == IF forward THEN t.fLeft ELSE t.fRight
      far  == IF forward THEN t.fRight ELSE t.fLeft
      root == t.fRight[fDummyHead]
  IN  IF root = Null THEN << >> ELSE IterateFrom(near, far, Descend(near, root, << >>))

-----------------------------------------------------------------------------
(* Operations.                                                              *)

Cleared(t, n) == [t EXCEPT !.fLeft[n] = Null, !.fRight[n] = Null, !.fMaxChildDepth[n] = 0]

\* Refused when the range overlaps one that is in the tree.  The path needs to be
\* balanced when the new node's parent had no child.
TreeAdd(n) ==
  /\ n \notin members
  /\ LET stack == AddPath(tree, fDummyHead, LowKey[n], HighKey[n])
         parent == Last(stack)
         toLeft == HighKey[n] < Low(parent)
         toRight == ~toLeft /\ (LowKey[n] > High(parent) \/ High(parent) = 0)
         leaf == Cleared(tree, n)
         linked == IF toLeft THEN [leaf EXCEPT !.fLeft[parent] = n] ELSE [leaf EXCEPT !.fRight[parent] = n]
         sibling == IF toLeft THEN tree.fRight[parent] ELSE tree.fLeft[parent]
     IN  IF ~toLeft /\ ~toRight THEN UNCHANGED treeVars
         ELSE /\ tree' = IF sibling = Null THEN FixBalance(linked, stack) ELSE linked
              /\ members' = members \cup {n}

\* The nodes from n down the left side, without the last one.
RECURSIVE LeftSpine(_, _)
LeftSpine(t, n) == IF t.fLeft[n] = Null THEN << >> ELSE <<n>> \o LeftSpine(t, t.fLeft[n])

\* The successor of the node takes its place: its left child if it has no right
\* one, its right child if that has no left one, and else the leftmost node
\* below its right child.  In the last case the nodes above that one are put on
\* the stack, under the successor, except for the last.  The node is deleted.
TreeRemove(n) ==
  /\ n \in members
  /\ LET stack == RemovePath(tree, fDummyHead, n)
         parent == Last(stack)
         left == tree.fLeft[n]
         right == tree.fRight[n]
         spine == LeftSpine(tree, right)
         leftmostParent == Last(spine)
         leftmost == tree.fLeft[leftmostParent]
         fixed(t, successor, above) ==
           Cleared(FixBalance(Replace(t, parent, n, successor), stack \o above), n)
     IN  tree' = IF right = Null THEN fixed(tree, left, << >>)
                 ELSE IF tree.fLeft[right] = Null
                   THEN fixed([tree EXCEPT !.fLeft[right] = left], right, << >>)
                   ELSE fixed([tree EXCEPT !.fLeft[leftmostParent] = tree.fRight[leftmost],
                                           !.fLeft[leftmost] = left, !.fRight[leftmost] = right],
                              leftmost, <<leftmost>> \o Front(spine))
  /\ members' = members \ {n}

TreeInit ==
  /\ tree = LET none == [n \in Nodes \cup {fDummyHead} |-> Null]
            IN  [fLeft |-> none, fRight |-> none, fMaxChildDepth |-> [n \in Nodes \cup {fDummyHead} |-> 0]]
  /\ members = {}

TreeNext == \E n \in Nodes : TreeAdd(n) \/ TreeRemove(n)

TreeSpec == TreeInit /\ [][TreeNext]_treeVars

-----------------------------------------------------------------------------
(* Properties.                                                              *)

Keys == 0..(Max({HighKey[n] : n \in Nodes}) + 1)

\* The members in the order of their keys: the reference for the tree.
Sorted == SetToSortSeq(members, LAMBDA m, n : LowKey[m] < LowKey[n])

\* After any additions and removals the tree answers as the set of its members
\* would: what is found under a key, which ranges are free, and what iterators
\* meet, forward and backward.
TreeAnswers ==
  /\ \A key \in Keys :
       LET here == {n \in members : LowKey[n] <= key /\ key <= HighKey[n]}
       IN  IF here = {} THEN Find(tree, key) = Null ELSE here = {Find(tree, key)}
  /\ \A low, high \in Keys : low <= high =>
       TreeRangeFree(tree, low, high) = \A n \in members : high < LowKey[n] \/ low > HighKey[n]
  /\ Iterate(tree, TRUE) = Sorted
  /\ Iterate(tree, FALSE) = Reverse(Sorted)

=============================================================================
