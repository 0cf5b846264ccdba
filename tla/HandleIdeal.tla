----------------------------- MODULE HandleIdeal -----------------------------
(***************************************************************************)
(* What an application expects of an open file: the handle stands for the  *)
(* file and not for a name.  Writing changes that file, renaming moves it, *)
(* and closing removes it if its removal has been asked for, whatever      *)
(* happens to other files.                                                 *)
(***************************************************************************)
EXTENDS DirTree

CONSTANTS Handles, NoNode

VARIABLES
  file, \* the file each handle stands for
  asked \* files whose removal has been asked for

Opened(h) == file[h] # NoNode

Init == EmptyTree /\ file = [h \in Handles |-> NoNode] /\ asked = {}

\* The handle comes to stand for a file that is there, or that it creates.
Attach(h, n) ==
  /\ ~Opened(h)
  /\ file' = [file EXCEPT ![h] = n]
  /\ \/ inode[n] # NoInode /\ UNCHANGED inode
     \/ /\ inode[n] = NoInode
        /\ \E p \in Entries, k \in {"file", "dir"} : inode' = [inode EXCEPT ![n] = NewInode(p, k)]
  /\ UNCHANGED asked

Change(h, r, s) ==
  /\ Opened(h)
  /\ inode' = [inode EXCEPT ![file[h]].ro = r, ![file[h]].size = s]
  /\ UNCHANGED <<file, asked>>

Ask(h) ==
  /\ Opened(h)
  /\ asked' \in {asked \cup {file[h]}, asked \ {file[h]}}
  /\ UNCHANGED <<inode, file>>

\* The file moves with all that is below it, and replaces what no handle
\* stands for; if it cannot move, that may be gone all the same.
Move(h, q) ==
  /\ Opened(h)
  /\ LET p == inode[file[h]].at
         others == {file[g] : g \in Handles}
         gone == {n \in Under(q) : inode'[n] = NoInode}
     IN  /\ gone \cap others = {}
         /\ inode' \in {Without(gone),
                        [n \in Nodes |-> IF n \in gone THEN NoInode ELSE Moved(p, q)[n]]}
  /\ UNCHANGED <<file, asked>>

Detach(h) ==
  /\ Opened(h)
  /\ file' = [file EXCEPT ![h] = NoNode]
  /\ \/ UNCHANGED inode
     \/ file[h] \in asked /\ inode' = Without({file[h]})
  /\ asked' = asked \cap {file'[g] : g \in Handles}

Next ==
  \E h \in Handles :
    \/ \E n \in Nodes : Attach(h, n)
    \/ \E r \in BOOLEAN, s \in 0..MaxSize : Change(h, r, s)
    \/ Ask(h)
    \/ \E q \in Entries : Move(h, q)
    \/ Detach(h)

Spec == Init /\ [][Next]_<<inode, file, asked>>
=============================================================================
