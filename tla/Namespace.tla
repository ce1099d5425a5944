----------------------------- MODULE Namespace -----------------------------
(***************************************************************************)
(* Names of files (FileSystem.cpp, VNode.cpp, driver/RootFS.cpp,           *)
(* driver/DevFS.cpp; mkdir and mount of SystemCall.cpp): trees of          *)
(* directories, one per file system, and mounts that put the root of one   *)
(* tree in the place of a directory of another.                            *)
(*                                                                         *)
(* A path is the sequence of its entries; "." also stands for the empty    *)
(* entry of a path that ends in a slash.  All paths are absolute: nothing  *)
(* calls SetCurrentDir.  Nothing calls RemoveDir either, so that no node   *)
(* goes away and its reference count has no effect.                        *)
(***************************************************************************)
EXTENDS Integers, Sequences, FiniteSets, SequencesExt

CONSTANTS Names,        \* of directories that get made
          disk, ide0,   \* the names of a directory of devices and a device in it
          MaxPath,      \* bounds the entries of a path
          MaxNodes,     \* bounds the nodes of all file systems
          MaxMounts

ASSUME NamespaceAssumption ==
  /\ ".." \notin Names \cup {disk, ide0} /\ "." \notin Names \cup {disk, ide0}
  /\ {MaxPath, MaxNodes, MaxMounts} \subseteq Nat

VARIABLES
  vnode,   \* each node: fFileSystem, fCoveredBy, fParentDir, its entries
  fs       \* each file system: its root node and fCovers

nameVars == <<vnode, fs>>

NoNode == 0       \* a null VNode
NoFS == 0         \* a null FileSystem
fRootFileSystem == 1

Entries == Names \cup {disk, ide0, ".", ".."}
Paths == BoundedSeq(Entries, MaxPath)

-----------------------------------------------------------------------------
(* Lookups.  A device is not a directory and has no parent.                 *)

IsDirectory(n) == vnode[n].fParentDir # NoNode

\* Lookup of a directory, NoNode for E_NO_SUCH_FILE, and of a device.
Lookup(n, entry) ==
  CASE ~IsDirectory(n) -> NoNode
    [] IsDirectory(n) /\ entry = "."  -> n
    [] IsDirectory(n) /\ entry = ".." -> vnode[n].fParentDir
    [] OTHER -> IF entry \in DOMAIN vnode[n].entries THEN vnode[n].entries[entry] ELSE NoNode

\* Mutant: .. at the root of a mounted file system stays there.
StepBackStays(n, entry) == n

\* From the root of a file system, .. starts at the node that it covers.
StepBack(n, entry) ==
  LET f == vnode[n].fFileSystem
  IN  IF entry = ".." /\ n = fs[f].root /\ fs[f].fCovers # NoNode THEN fs[f].fCovers ELSE n

\* One round of WalkPath; it ends at the first entry that is not found.
Step(n, entry) ==
  LET next == Lookup(StepBack(n, entry), entry)
  IN  IF n = NoNode \/ next = NoNode THEN NoNode
      ELSE IF vnode[next].fCoveredBy # NoFS THEN fs[vnode[next].fCoveredBy].root
      ELSE next

WalkPath(path) ==
  LET at[k \in 0..Len(path)] == IF k = 0 THEN fs[fRootFileSystem].root ELSE Step(at[k - 1], path[k])
  IN  at[Len(path)]

-----------------------------------------------------------------------------
(* Operations.                                                              *)

Node(f, parent, entries) ==
  [fFileSystem |-> f, fCoveredBy |-> NoFS, fParentDir |-> parent, entries |-> entries]

\* MakeDir of a directory; a device refuses.
MakeDir(n, entry) ==
  LET new == Len(vnode) + 1
  IN  /\ IsDirectory(n) /\ Lookup(n, entry) = NoNode
      /\ Len(vnode) < MaxNodes
      /\ vnode' = Append([vnode EXCEPT ![n].entries = [e \in DOMAIN @ \cup {entry} |->
                                                         IF e = entry THEN new ELSE @[e]]],
                         Node(vnode[n].fFileSystem, n, << >>))
      /\ UNCHANGED fs

\* mkdir: GetDirEntry walks all entries but the last.
mkdir(path) ==
  /\ path # << >> /\ Last(path) \in Names
  /\ LET dir == WalkPath(Front(path))
     IN  dir # NoNode /\ MakeDir(dir, Last(path))

\* DevFsInstantiate: a root with a directory that has a device in it.
mount(path) ==
  LET node == WalkPath(path)
      new == Len(vnode) + 1
      f == Len(fs) + 1
  IN  /\ node # NoNode
      /\ vnode[node].fCoveredBy = NoFS
      /\ Len(fs) <= MaxMounts /\ Len(vnode) + 3 <= MaxNodes
      /\ vnode' = [vnode EXCEPT ![node].fCoveredBy = f] \o
                  << Node(f, new, [e \in {disk} |-> new + 1]),
                     Node(f, new, [e \in {ide0} |-> new + 2]),
                     Node(f, NoNode, << >>) >>
      /\ fs' = Append(fs, [root |-> new, fCovers |-> node])

NameInit ==
  /\ vnode = << Node(fRootFileSystem, 1, << >>) >>
  /\ fs = << [root |-> 1, fCovers |-> NoNode] >>

NameNext == \E path \in Paths : mkdir(path) \/ mount(path)

NameSpec == NameInit /\ [][NameNext]_nameVars

-----------------------------------------------------------------------------
(* Properties.                                                              *)

\* The entries of a path that remain when "." is left out and ".." takes the
\* entry before it away.
Shorten(done, entry) ==
  CASE entry = "." -> done
    [] entry = ".." -> IF done = << >> THEN done ELSE Front(done)
    [] OTHER -> Append(done, entry)

Canonical(path) ==
  LET done[k \in 0..Len(path)] == IF k = 0 THEN << >> ELSE Shorten(done[k - 1], path[k])
  IN  done[Len(path)]

\* mount does not see that a directory is mounted already: it has walked into
\* the file system that covers it, and covers its root.  Nor is the root of the
\* root file system ever the start of a walk into what covers it.
PlainMounts == \A f \in 1..Len(fs) : vnode[fs[f].root].fCoveredBy = NoFS

\* Where a walk that succeeds ends is told by the names on the path alone,
\* across any mounts: . stays, and .. undoes the entry before it, from the root
\* of a mounted file system too.  (A root alone is left out.)
WalksByName ==
  PlainMounts /\ Len(vnode) > 1 =>
    \A path \in Paths : WalkPath(path) # NoNode => WalkPath(path) = WalkPath(Canonical(path))

=============================================================================
