------------------------------- MODULE DirTree -------------------------------
(***************************************************************************)
(* The exported directory: what the system calls behind std::fs do to it,  *)
(* for a server that is an ordinary user owning every file.  The server's  *)
(* handlers and other processes of the same machine act on it through      *)
(* these operators only.                                                   *)
(*                                                                         *)
(* A path is the sequence of names below the exported root.  Objects have  *)
(* an identity that survives a rename; there are no links of either kind   *)
(* (the program's README excludes them).  Each error operator gives the    *)
(* code the handlers make of the system call's error, or "ok".             *)
(***************************************************************************)
EXTENDS Naturals, SequencesExt

CONSTANTS
  Names,    \* names of files and directories
  MaxDepth, \* bound on the length of paths
  Nodes,    \* identities of files and directories
  Root,     \* the exported directory itself
  Nowhere,  \* the place of a node that does not exist
  MaxSize   \* bound on the size of files

ASSUME NodesAssumption == Root \in Nodes
ASSUME PathBoundsAssumption == MaxDepth \in Nat \ {0} /\ MaxSize \in Nat

VARIABLE inode \* what is known of each node

\* Where it is, whether it is a file or a directory, that none of its write
\* permission bits is set, and the length of a file.
Inode == [at : BoundedSeq(Names, MaxDepth) \cup {Nowhere}, kind : {"file", "dir"},
          ro : BOOLEAN, size : 0..MaxSize]

NoInode == [at |-> Nowhere, kind |-> "file", ro |-> FALSE, size |-> 0]
NewInode(p, k) == [at |-> p, kind |-> k, ro |-> FALSE, size |-> 0]

Paths == BoundedSeq(Names, MaxDepth)
Entries == Paths \ {<<>>}

ASSUME NowhereAssumption == Nowhere \notin Paths

\* Every node is somewhere below a directory, alone in its place.
TreeOK ==
  /\ inode \in [Nodes -> Inode]
  /\ inode[Root].at = <<>> /\ inode[Root].kind = "dir"
  /\ \A m, n \in Nodes : inode[m].at = inode[n].at /\ m # n => inode[m].at = Nowhere
  /\ \A n \in Nodes \ {Root} : inode[n].at # Nowhere =>
       \E d \in Nodes : inode[d].at = Front(inode[n].at) /\ inode[d].kind = "dir"

EmptyTree == inode = [n \in Nodes |-> IF n = Root THEN NewInode(<<>>, "dir") ELSE NoInode]

-----------------------------------------------------------------------------
Present(p) == \E n \in Nodes : inode[n].at = p
NodeAt(p) == CHOOSE n \in Nodes : inode[n].at = p
IsDir(p) == Present(p) /\ inode[NodeAt(p)].kind = "dir"
IsFile(p) == Present(p) /\ inode[NodeAt(p)].kind = "file"
Parent(p) == Front(p)

\* The node at p and all below it.
Under(p) == {n \in Nodes : inode[n].at # Nowhere /\ IsPrefix(p, inode[n].at)}

\* No entry can be added to, or removed from, the directory at p.
Locked(p) == inode[NodeAt(p)].ro

\* The path is looked up name by name.
LookupError(p) ==
  IF Present(p) THEN "ok"
  ELSE IF \E i \in 1..(Len(p) - 1) : IsFile(SubSeq(p, 1, i)) THEN "NotDirectory"
  ELSE "NotFound"

\* open with O_CREAT and O_EXCL, and mkdir.
CreateError(p) ==
  IF LookupError(Parent(p)) # "ok" THEN LookupError(Parent(p))
  ELSE IF IsFile(Parent(p)) THEN "NotDirectory"
  ELSE IF Present(p) THEN "AlreadyExists"
  ELSE IF Locked(Parent(p)) THEN "PermissionDenied"
  ELSE "ok"

\* unlink.
UnlinkError(p) ==
  IF ~Present(p) THEN LookupError(p)
  ELSE IF Locked(Parent(p)) THEN "PermissionDenied"
  ELSE IF IsDir(p) THEN "IsDirectory"
  ELSE "ok"

\* rmdir.
RmdirError(p) ==
  IF ~Present(p) THEN LookupError(p)
  ELSE IF Locked(Parent(p)) THEN "PermissionDenied"
  ELSE IF IsFile(p) THEN "NotDirectory"
  ELSE IF Under(p) # {NodeAt(p)} THEN "DirectoryNotEmpty"
  ELSE "ok"

\* rename, which replaces a file by a file and an empty directory by a
\* directory.  A directory that changes parents must itself be writable.
MoveError(p, q) ==
  IF ~Present(p) THEN LookupError(p)
  ELSE IF LookupError(Parent(q)) # "ok" THEN LookupError(Parent(q))
  ELSE IF IsFile(Parent(q)) THEN "NotDirectory"
  ELSE IF IsStrictPrefix(p, q) THEN "InvalidInput"
  ELSE IF IsStrictPrefix(q, p) THEN "DirectoryNotEmpty"
  ELSE IF p = q THEN "ok"
  ELSE IF Locked(Parent(p)) \/ Locked(Parent(q)) THEN "PermissionDenied"
  ELSE IF IsFile(p) /\ IsDir(q) THEN "IsDirectory"
  ELSE IF IsDir(p) /\ IsFile(q) THEN "NotDirectory"
  ELSE IF IsDir(p) /\ Parent(p) # Parent(q) /\ Locked(p) THEN "PermissionDenied"
  ELSE IF IsDir(q) /\ Under(q) # {NodeAt(q)} THEN "DirectoryNotEmpty"
  ELSE "ok"

\* open for writing.
OpenError(p) ==
  IF ~Present(p) THEN LookupError(p)
  ELSE IF IsDir(p) THEN "IsDirectory"
  ELSE IF inode[NodeAt(p)].ro THEN "PermissionDenied"
  ELSE "ok"

-----------------------------------------------------------------------------
(* What the calls leave behind when they succeed.                          *)

\* A node that does not exist comes to be, empty and writable, at p.
Add(p, k) ==
  \E n \in Nodes : inode[n].at = Nowhere /\ inode' = [inode EXCEPT ![n] = NewInode(p, k)]

\* The nodes once those of a set are gone, and once p has become q.
Without(gone) == [n \in Nodes |-> IF n \in gone THEN NoInode ELSE inode[n]]

Moved(p, q) ==
  [n \in Nodes |->
    IF n \in Under(p)
    THEN [inode[n] EXCEPT !.at = q \o SubSeq(@, Len(p) + 1, Len(@))]
    ELSE IF inode[n].at = q THEN NoInode
    ELSE inode[n]]

\* Bound: no path grows beyond MaxDepth.
Fits(p, q) == \A n \in Under(p) : Len(inode[n].at) - Len(p) + Len(q) <= MaxDepth

\* Any other process creates, removes or moves something.
Elsewhere ==
  \/ \E p \in Entries, k \in {"file", "dir"} : CreateError(p) = "ok" /\ Add(p, k)
  \/ \E p \in Entries :
       /\ UnlinkError(p) = "ok" \/ RmdirError(p) = "ok"
       /\ inode' = Without({NodeAt(p)})
  \/ \E p, q \in Entries :
       /\ p # q /\ MoveError(p, q) = "ok" /\ Fits(p, q)
       /\ inode' = Moved(p, q)
=============================================================================
