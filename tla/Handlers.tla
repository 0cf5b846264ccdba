------------------------------ MODULE Handlers ------------------------------
(***************************************************************************)
(* What the server's handlers answer, as functions of the exported         *)
(* directory: "ok" or an error code.  Used by the handlers themselves      *)
(* (ServerFs) and by the client's callbacks, for which a request is a      *)
(* single step (MountHandles).                                             *)
(***************************************************************************)
EXTENDS DirTree

\* Read opens a directory without complaint, and fails on reading it.
ReadError(p) == IF IsDir(p) THEN "IsDirectory" ELSE LookupError(p)

ReadDirError(p) == IF IsFile(p) THEN "NotDirectory" ELSE LookupError(p)

\* Flush opens a file for writing, which a read-only file refuses.
FlushError(p) == IF IsDir(p) THEN "ok" ELSE OpenError(p)

\* Mutant of CanDeleteError: any directory may be deleted.
CanDeleteAny(p, k) ==
  IF ~Present(p) THEN LookupError(p)
  ELSE IF k = "file" /\ IsDir(p) THEN "IsDirectory"
  ELSE IF k = "dir" /\ IsFile(p) THEN "NotDirectory"
  ELSE "ok"

\* CanDelete looks at the entry and at its children, not at its parent.
CanDeleteError(p, k) ==
  IF ~Present(p) THEN LookupError(p)
  ELSE IF k = "file" /\ IsDir(p) THEN "IsDirectory"
  ELSE IF k = "dir" /\ IsFile(p) THEN "NotDirectory"
  ELSE IF k = "dir" /\ Under(p) # {NodeAt(p)} THEN "DirectoryNotEmpty"
  ELSE "ok"

\* Mutant of RenameError: the target is not looked at.
RenameBlind(p, q, replace) == LookupError(p)

\* Mutant of RenameError: the source is not looked at.
RenameEager(p, q, replace) == IF ~replace /\ Present(q) THEN "AlreadyExists" ELSE "ok"

\* What a rename finds before it changes anything.
RenameError(p, q, replace) ==
  IF LookupError(p) # "ok" THEN LookupError(p)
  ELSE IF LookupError(Parent(q)) # "ok" THEN LookupError(Parent(q))
  ELSE IF ~replace /\ Present(q) THEN "AlreadyExists"
  ELSE "ok"
=============================================================================
