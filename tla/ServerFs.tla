------------------------------ MODULE ServerFs ------------------------------
(***************************************************************************)
(* The request handlers of RpcServer over the exported directory.          *)
(*                                                                         *)
(* The serving thread executes one request at a time.  A handler is as     *)
(* many steps as other processes on the machine can get between: most make *)
(* one system call that matters and then stat the path for the response;   *)
(* a rename looks, removes what it replaces entry by entry, and then       *)
(* renames; set_basic_info sets the permission, and then the times.  The   *)
(* server may die at each of these points.                                 *)
(***************************************************************************)
EXTENDS Handlers

CONSTANT MaxLocal \* bound on the number of steps of other processes in a request
ASSUME LocalAssumption == MaxLocal \in Nat

VARIABLES
  pc,      \* where the serving thread is in a request
  req,     \* what has to be remembered of the request
  result,  \* how it ended: "ok" or an error code; "pending", or "none"
  locals,  \* how often other processes have acted since this request began
  before,  \* history: the tree when the request began, or others last acted
  lost,    \* history: the nodes this rename has removed
  target   \* history: the nodes a rename was told to replace, or others have placed

vars == <<inode, pc, req, result, locals, before, lost, target>>

Codes == {"NotFound", "AlreadyExists", "PermissionDenied", "InvalidInput",
          "NotDirectory", "IsDirectory", "DirectoryNotEmpty", "Unexpected"}

Requests == [op : {"none", "Create", "Write", "Remove", "Rename", "SetLen",
                   "SetBasicInfo"},
             path : Paths, to : Paths, replace : BOOLEAN, node : Nodes, times : BOOLEAN]

NoRequest == [op |-> "none", path |-> <<>>, to |-> <<>>, replace |-> FALSE, node |-> Root,
              times |-> FALSE]

TypeOK ==
  /\ TreeOK
  /\ pc \in {"idle", "done", "replace", "clear", "move", "times", "attr"}
  /\ req \in Requests
  /\ result \in Codes \cup {"ok", "pending", "none"}
  /\ result = "pending" <=> pc \notin {"idle", "done"}
  /\ locals \in 0..MaxLocal
  /\ lost \subseteq Nodes /\ target \subseteq Nodes
  /\ before \in [Nodes -> Inode]

\* RpcServer::new creates the root if it has to.
Init ==
  /\ EmptyTree
  /\ pc = "idle" /\ result = "none" /\ locals = 0
  /\ req = NoRequest
  /\ before = inode /\ lost = {} /\ target = {}

-----------------------------------------------------------------------------
(* Taking a request, and ending it.                                        *)

Take == pc = "idle" /\ UNCHANGED <<locals, before, lost, target>>

Reply(code) == pc' = "done" /\ result' = code

Continue(where) == pc' = where /\ result' = "pending"

\* A request that changes nothing.
Answer(code) ==
  /\ Reply(code)
  /\ UNCHANGED <<inode, req>>

\* What is kept of a request for p.
Kept(op, p, times) == [NoRequest EXCEPT !.op = op, !.path = p, !.times = times]

\* A request for p that has done its work.
Done(op, p) == req' = Kept(op, p, FALSE)

\* The next connection.
Await ==
  /\ pc = "done"
  /\ pc' = "idle" /\ req' = NoRequest /\ result' = "none" /\ locals' = 0
  /\ before' = inode /\ lost' = {} /\ target' = {}
  /\ UNCHANGED inode

-----------------------------------------------------------------------------
(* Requests that only look.                                                *)

\* Stat, Open, ReadDir, Read, Flush, CanDelete, and GetVolumeInfo, which
\* succeeds.
Inspect(p) ==
  /\ Take
  /\ \E code \in {"ok", LookupError(p), ReadDirError(p), ReadError(p), FlushError(p)}
                 \cup {CanDeleteError(p, k) : k \in {"file", "dir"}} :
       Answer(code)

-----------------------------------------------------------------------------
(* Requests with one effect.                                               *)

\* create_entry.
Create(p, k) ==
  /\ Take
  /\ \/ CreateError(p) # "ok" /\ Answer(CreateError(p))
     \/ /\ CreateError(p) = "ok"
        /\ Add(p, k)
        /\ Continue("attr") /\ Done("Create", p)

\* write_file of a range that ends at the given offset, wherever it begins;
\* write_all may fail after some of the bytes.
Write(p, end) ==
  /\ Take
  /\ \/ OpenError(p) # "ok" /\ Answer(OpenError(p))
     \/ /\ OpenError(p) = "ok"
        /\ LET old == inode[NodeAt(p)].size
               new == IF end > old THEN end ELSE old
           IN  \E reached \in old..new :
                 /\ inode' = [inode EXCEPT ![NodeAt(p)].size = reached]
                 /\ \/ reached = new /\ Continue("attr")
                    \/ Reply("Unexpected")
        /\ Done("Write", p)

\* set_len; an allocation size is accepted and ignored.
SetLen(p, len, allocation) ==
  /\ Take
  /\ \/ LookupError(p) # "ok" /\ Answer(LookupError(p))
     \/ /\ Present(p) /\ allocation
        /\ Continue("attr") /\ UNCHANGED inode /\ Done("SetLen", p)
     \/ /\ Present(p) /\ ~allocation /\ OpenError(p) # "ok"
        /\ Answer(OpenError(p))
     \/ /\ OpenError(p) = "ok" /\ ~allocation
        /\ inode' = [inode EXCEPT ![NodeAt(p)].size = len]
        /\ Continue("attr") /\ Done("SetLen", p)

\* remove_file and remove_dir.
RemoveEntry(p, error) ==
  /\ Take
  /\ \/ error # "ok" /\ Answer(error)
     \/ /\ error = "ok"
        /\ inode' = Without({NodeAt(p)})
        /\ Reply("ok") /\ Done("Remove", p)

RemoveFile(p) == RemoveEntry(p, UnlinkError(p))
RemoveDir(p) == RemoveEntry(p, RmdirError(p))

\* What a change of the permission or the times may be refused with, by the file
\* system or for want of the right to it.
Refusals == {"PermissionDenied", "Unexpected"}

\* set_basic_info sets the permission first, if it has to, and keeps whether a time
\* is given.
SetBasicInfo(p, change, times) ==
  /\ Take
  /\ \/ LookupError(p) # "ok" /\ Answer(LookupError(p))
     \/ Present(p) /\ change # "keep" /\ \E code \in Refusals : Answer(code)
     \/ /\ Present(p)
        /\ inode' = [inode EXCEPT ![NodeAt(p)].ro =
                       IF change = "keep" THEN @ ELSE change = "readonly"]
        /\ Continue("times")
        /\ req' = Kept("SetBasicInfo", p, times)

\* Mutant of Times: they are set also if none is given.
TimesAlways ==
  /\ pc = "times"
  /\ \/ ~Present(req.path) /\ Reply(LookupError(req.path))
     \/ Present(req.path) /\ \E code \in Refusals : Reply(code)
     \/ Present(req.path) /\ Continue("attr")
  /\ UNCHANGED <<inode, req, locals, before, lost, target>>

\* The rest of set_basic_info: the times are read in any case, and set if one is
\* given.  What they are is the subject of FileTimes.
Times ==
  /\ pc = "times"
  /\ \/ ~Present(req.path) /\ Reply(LookupError(req.path))
     \/ Present(req.path) /\ req.times /\ \E code \in Refusals : Reply(code)
     \/ Present(req.path) /\ Continue("attr")
  /\ UNCHANGED <<inode, req, locals, before, lost, target>>

\* The attributes for the response, of whatever is at the path by now.
Attr ==
  /\ pc = "attr"
  /\ Reply(LookupError(req.path))
  /\ UNCHANGED <<inode, req, locals, before, lost, target>>

-----------------------------------------------------------------------------
(* Rename.                                                                 *)

\* What a rename of p to q begins with: the paths are only kept.
RenameBegin(p, q, replace) ==
  /\ pc = "idle"
  /\ Fits(p, q)
  /\ req' = [op |-> "Rename", path |-> p, to |-> q, replace |-> replace,
             node |-> IF Present(p) THEN NodeAt(p) ELSE Root, times |-> FALSE]
  /\ target' = IF replace THEN Under(q) ELSE {}
  /\ UNCHANGED <<inode, locals, before, lost>>

\* rename resolves both paths, and looks for the target if it may not replace
\* it.
RenameLook(p, q, replace) ==
  /\ RenameBegin(p, q, replace)
  /\ IF RenameError(p, q, replace) # "ok" THEN Reply(RenameError(p, q, replace))
     ELSE Continue(IF replace THEN "replace" ELSE "move")

\* The target is looked at again.  What is there decides how it is removed: a
\* file by a single call.
RenameReplace ==
  /\ pc = "replace"
  /\ UNCHANGED <<req, locals, before, target>>
  /\ LET q == req.to
     IN  \/ ~Present(q) /\ Continue("move") /\ UNCHANGED <<inode, lost>>
         \/ IsDir(q) /\ Continue("clear") /\ UNCHANGED <<inode, lost>>
         \/ /\ IsFile(q) /\ UnlinkError(q) = "ok"
            /\ inode' = Without({NodeAt(q)})
            /\ lost' = {NodeAt(q)}
            /\ Continue("move")
         \/ /\ IsFile(q) /\ UnlinkError(q) # "ok"
            /\ Reply(UnlinkError(q)) /\ UNCHANGED <<inode, lost>>

\* Mutant of Removable: a directory goes before what is in it.
RemovableAny(q) == Under(q)

\* What remove_dir_all can turn to next: files and emptied directories.
Removable(q) == {n \in Under(q) : Under(inode[n].at) = {n}}

\* One step of remove_dir_all on the target.  It ends the request, with what is
\* removed by then, at an entry of a locked directory, or when others have
\* removed or replaced the target or added to it.
RenameClear ==
  /\ pc = "clear"
  /\ UNCHANGED <<req, locals, before, target>>
  /\ LET q == req.to
     IN  \/ \E n \in Removable(q) :
              /\ IsDir(q) /\ ~Locked(Parent(inode[n].at))
              /\ inode' = Without({n})
              /\ lost' = lost \cup {n}
              /\ Continue(IF inode[n].at = q THEN "move" ELSE "clear")
         \/ /\ \/ ~Present(q) /\ Reply(LookupError(q))
               \/ IsFile(q) /\ Reply("NotDirectory")
               \/ IsDir(q) /\ locals > 0 /\ Reply("DirectoryNotEmpty")
               \/ /\ IsDir(q)
                  /\ \E n \in Removable(q) : Locked(Parent(inode[n].at))
                  /\ Reply("PermissionDenied")
            /\ UNCHANGED <<inode, lost>>

\* fs::rename, which replaces what has appeared at the target meanwhile.
RenameMove ==
  /\ pc = "move"
  /\ UNCHANGED <<req, locals, before, target>>
  /\ LET error == MoveError(req.path, req.to)
     IN  /\ Reply(error)
         /\ IF error = "ok" /\ req.path # req.to
            THEN /\ Fits(req.path, req.to)
                 /\ inode' = Moved(req.path, req.to)
                 /\ lost' = lost \cup {n \in Nodes : inode[n].at = req.to}
                
            ELSE UNCHANGED <<inode, lost>>

-----------------------------------------------------------------------------
(* The rest of the machine.                                                *)

\* The server dies in the middle of a request, and is started again.
Crash ==
  /\ pc \notin {"idle", "done"}
  /\ Reply("none")
  /\ UNCHANGED <<inode, req, locals, before, lost, target>>

\* Another process creates, removes or moves something.  Between requests that
\* would be nothing that a request cannot do.
Local ==
  /\ pc \notin {"idle", "done"} /\ locals < MaxLocal
  /\ locals' = locals + 1
  /\ Elsewhere
  /\ target' = target \cup {n \in Nodes : inode'[n].at # inode[n].at}
  /\ before' = inode'
  /\ UNCHANGED <<pc, req, result, lost>>

\* Removal and renaming of the root itself are refused before they get here, by
\* WinFsp.
Next ==
  \/ \E p \in Paths : Inspect(p)
  \/ \E p \in Entries, k \in {"file", "dir"} : Create(p, k)
  \/ \E p \in Entries, end \in 0..MaxSize : Write(p, end)
  \/ \E p \in Entries, len \in 0..MaxSize, allocation \in BOOLEAN :
       SetLen(p, len, allocation)
  \/ \E p \in Entries : RemoveFile(p) \/ RemoveDir(p)
  \/ \E p \in Paths, change \in {"keep", "readonly", "writable"}, times \in BOOLEAN :
       SetBasicInfo(p, change, times)
  \/ \E p, q \in Entries, replace \in BOOLEAN : RenameLook(p, q, replace)
  \/ Times \/ Attr \/ RenameReplace \/ RenameClear \/ RenameMove
  \/ Await \/ Crash \/ Local

Spec == Init /\ [][Next]_vars

-----------------------------------------------------------------------------
\* What a request can have changed although it is answered with an error: a write
\* has made its file longer, a replacing rename of something that exists has removed
\* a node of its target, and a request that gives a time has set the permission.
LeftBehind(n) ==
  \/ /\ req.op = "Write" /\ inode[n].at = req.path
     /\ inode[n].size > before[n].size
     /\ inode[n] = [before[n] EXCEPT !.size = inode[n].size]
  \/ /\ req.op = "Rename" /\ req.replace /\ req.node # Root
     /\ n \in lost /\ inode[n] = NoInode
  \/ /\ req.op = "SetBasicInfo" /\ req.times /\ inode[n].at = req.path
     /\ inode[n] = [before[n] EXCEPT !.ro = ~@]

\* A request that is answered with an error has left every node of the directory as
\* it was when the request began, if nobody else interfered, but for the half of its
\* own work that it cannot take back: neither the success of a step before the one
\* that failed nor the order of the steps changes anything else, or another node.
FailureLeavesTree ==
  result \in Codes /\ locals = 0 => \A n \in Nodes : inode[n] = before[n] \/ LeftBehind(n)

\* Whatever becomes of a rename, an error or the death of the server included,
\* it removes nothing but the target it was told to replace and what others
\* have put in its way since.  And if nobody has, its source is at the new path
\* if it succeeded and at the old one if not, unless the source is part of that
\* target.
RenameLoss ==
  req.op = "Rename" =>
    /\ lost \subseteq target
    /\ locals = 0 /\ req.node \notin target \cup {Root} =>
         inode[req.node].at = IF result = "ok" THEN req.to ELSE req.path

\* What CanDelete grants, the removal at clean-up can do, unless the parent is
\* read-only; and it grants all that can be done.
CanDeleteHonest ==
  \A p \in Entries :
    /\ CanDeleteError(p, "file") = "ok" /\ ~Locked(Parent(p)) => UnlinkError(p) = "ok"
    /\ CanDeleteError(p, "dir") = "ok" /\ ~Locked(Parent(p)) => RmdirError(p) = "ok"
    /\ UnlinkError(p) = "ok" => CanDeleteError(p, "file") = "ok"
    /\ RmdirError(p) = "ok" => CanDeleteError(p, "dir") = "ok"
=============================================================================
