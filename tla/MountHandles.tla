---------------------------- MODULE MountHandles ----------------------------
(***************************************************************************)
(* The file contexts of RpcFsContext.  An open file is the path it was     *)
(* opened at, or renamed to; each callback of WinFsp becomes one or two    *)
(* requests for that path.  A request takes effect in one step (ServerFs   *)
(* shows the steps of the one that has several), and its answer may be     *)
(* lost.  Other processes of the server's machine act on the directory.    *)
(* Callbacks that only look have no action of their own.                   *)
(***************************************************************************)
EXTENDS Handlers

CONSTANTS
  Handles,  \* open files of the applications
  NoNode,   \* what a closed handle stands for
  Sharing,  \* a file may be opened again while it is open
  Guarded,  \* bound on what is made read-only: files, directories or both
  MaxFaults \* bound on the number of steps of other processes and lost answers

ASSUME HandlesAssumption == NoNode \notin Nodes /\ Sharing \in BOOLEAN
ASSUME BoundsAssumption == Guarded \subseteq {"file", "dir"} /\ MaxFaults \in Nat

VARIABLES
  ctx,    \* the RpcFileContext of each handle: path, kind, delete_pending
  call,   \* what a callback has done with its first request
  faults, \* how often other processes have acted or answers have been lost
  file,   \* history: the node each handle was opened on
  asked,  \* the nodes that WinFsp knows as to be removed
  adrift  \* history: handles whose file was moved or removed by anything but
          \* a rename of their own that was answered

vars == <<inode, ctx, call, faults, file, asked, adrift>>

Closed == [path |-> Nowhere, kind |-> "file", pending |-> FALSE]
NoCall == [step |-> "none", to |-> <<>>, seen |-> 0]

TypeOK ==
  /\ TreeOK
  /\ ctx \in [Handles -> [path : Entries \cup {Nowhere}, kind : {"file", "dir"},
                          pending : BOOLEAN]]
  /\ call \in [Handles -> [step : {"none", "write", "rename"}, to : Paths,
                           seen : 0..MaxSize]]
  /\ faults \in 0..MaxFaults
  /\ file \in [Handles -> Nodes \cup {NoNode}]
  /\ \A h \in Handles : file[h] = NoNode <=> ctx[h] = Closed
  /\ asked \subseteq {file[h] : h \in Handles} \ {NoNode} /\ adrift \subseteq Handles

Init ==
  /\ EmptyTree
  /\ ctx = [h \in Handles |-> Closed] /\ call = [h \in Handles |-> NoCall]
  /\ faults = 0
  /\ file = [h \in Handles |-> NoNode] /\ asked = {} /\ adrift = {}

-----------------------------------------------------------------------------
(* External: what WinFsp lets happen at the same time.                     *)

\* A rename keeps out every callback that opens, creates or renames.
NamesFree == \A h \in Handles : call[h].step # "rename"

OpenBelow(p) == {h \in Handles : ctx[h] # Closed /\ IsPrefix(p, ctx[h].path)}

MayOpen(h, p) ==
  /\ ctx[h] = Closed /\ NamesFree
  /\ Sharing \/ \A g \in Handles : ctx[g].path # p

\* A directory with open files in it is not renamed, and an open file is
\* replaced only where it is shared.
MayRename(h, q) ==
  /\ NamesFree
  /\ \A g \in OpenBelow(ctx[h].path) : ctx[g].path = ctx[h].path
  /\ Sharing \/ OpenBelow(q) = {}

Ready(h) == ctx[h] # Closed /\ call[h] = NoCall

-----------------------------------------------------------------------------
Lose == faults < MaxFaults /\ faults' = faults + 1

Answered == UNCHANGED faults

\* The handles whose files have moved, but for those that know of it.
Drift(aware) ==
  LET moved == {g \in Handles \ aware :
                 file[g] # NoNode /\ inode'[file[g]].at # inode[file[g]].at}
  IN  adrift' = {g \in adrift \cup moved : file'[g] # NoNode}

\* The node at the path of a file context.
Reached(h) == NodeAt(ctx[h].path)

-----------------------------------------------------------------------------
(* Opening and closing.                                                    *)

Bind(h, p, k, n) ==
  /\ ctx' = [ctx EXCEPT ![h] = [path |-> p, kind |-> k, pending |-> FALSE]]
  /\ file' = [file EXCEPT ![h] = n]

Open(h, p) ==
  /\ MayOpen(h, p) /\ Present(p)
  /\ Bind(h, p, inode[NodeAt(p)].kind, NodeAt(p))
  /\ UNCHANGED <<inode, call, faults, asked, adrift>>

Create(h, p, k) ==
  /\ MayOpen(h, p) /\ CreateError(p) = "ok"
  /\ \E n \in Nodes :
       /\ inode[n] = NoInode
       /\ inode' = [inode EXCEPT ![n] = NewInode(p, k)]
       /\ \/ Answered /\ Bind(h, p, k, n)
          \/ Lose /\ UNCHANGED <<ctx, file>>
  /\ UNCHANGED <<call, asked, adrift>>

\* WinFsp asks about directories, and only records the removal of a file
\* (post_disposition_only_when_necessary).
SetDelete(h, delete) ==
  /\ Ready(h)
  /\ \/ /\ ctx[h].kind = "dir"
        /\ delete => CanDeleteError(ctx[h].path, ctx[h].kind) = "ok"
        /\ ctx' = [ctx EXCEPT ![h].pending = delete]
     \/ ctx[h].kind = "file" /\ UNCHANGED ctx
  /\ asked' = IF delete THEN asked \cup {file[h]} ELSE asked \ {file[h]}
  /\ UNCHANGED <<inode, call, faults, file, adrift>>

\* Mutant of RemoveError: the request is RemoveFile whatever the kind.
RemoveAsFile(h) == UnlinkError(ctx[h].path)

RemoveError(h) ==
  IF ctx[h].kind = "file" THEN UnlinkError(ctx[h].path) ELSE RmdirError(ctx[h].path)

\* WinFsp flags the clean-up that is to remove the file; the error of the
\* removal is dropped.
Cleanup(h) ==
  /\ Ready(h)
  /\ \E flagged \in {FALSE, file[h] \in asked} :
       LET remove == flagged \/ ctx[h].pending
       IN  \/ ~remove /\ Answered /\ UNCHANGED inode
           \/ /\ remove /\ RemoveError(h) = "ok" /\ Answered
              /\ inode' = Without({Reached(h)})
           \/ remove /\ RemoveError(h) # "ok" /\ Answered /\ UNCHANGED inode
           \/ remove /\ Lose /\ UNCHANGED inode
  /\ ctx' = [ctx EXCEPT ![h] = Closed]
  /\ file' = [file EXCEPT ![h] = NoNode]
  /\ asked' = asked \cap {file'[g] : g \in Handles}
  /\ Drift({h})
  /\ UNCHANGED call

-----------------------------------------------------------------------------
(* Writing.                                                                *)

\* A request to write up to an offset, wherever that is below a limit; it may
\* fail on the way.
SendWrite(h, most) ==
  /\ OpenError(ctx[h].path) = "ok"
  /\ LET old == inode[Reached(h)].size
     IN  \E reached \in old..(IF most > old THEN most ELSE old) :
           inode' = [inode EXCEPT ![Reached(h)].size = reached]

Write(h) ==
  /\ Ready(h)
  /\ SendWrite(h, MaxSize)
  /\ UNCHANGED <<ctx, call, faults, file, asked, adrift>>

\* A constrained write asks for the size first, and ends there if it would
\* begin behind it.
WriteConstrained(h) ==
  /\ Ready(h) /\ Present(ctx[h].path)
  /\ LET size == inode[Reached(h)].size
     IN  /\ size > 0
         /\ call' = [call EXCEPT ![h] = [NoCall EXCEPT !.step = "write", !.seen = size]]
  /\ UNCHANGED <<inode, ctx, faults, file, asked, adrift>>

\* Mutant of WriteRest: the payload is not cut.
WriteUncut(h) ==
  /\ call[h].step = "write"
  /\ \/ SendWrite(h, MaxSize)
     \/ OpenError(ctx[h].path) # "ok" /\ UNCHANGED inode
  /\ call' = [call EXCEPT ![h] = NoCall]
  /\ UNCHANGED <<ctx, faults, file, asked, adrift>>

\* The payload is cut to the size it was told.
WriteRest(h) ==
  /\ call[h].step = "write"
  /\ \/ SendWrite(h, call[h].seen)
     \/ OpenError(ctx[h].path) # "ok" /\ UNCHANGED inode
  /\ call' = [call EXCEPT ![h] = NoCall]
  /\ UNCHANGED <<ctx, faults, file, asked, adrift>>

\* set_file_size and set_basic_info.
SetSize(h, size) ==
  /\ Ready(h) /\ OpenError(ctx[h].path) = "ok"
  /\ inode' = [inode EXCEPT ![Reached(h)].size = size]
  /\ UNCHANGED <<ctx, call, faults, file, asked, adrift>>

SetReadonly(h, readonly) ==
  /\ Ready(h) /\ Present(ctx[h].path)
  /\ inode[Reached(h)].kind \in Guarded
  /\ inode' = [inode EXCEPT ![Reached(h)].ro = readonly]
  /\ UNCHANGED <<ctx, call, faults, file, asked, adrift>>

-----------------------------------------------------------------------------
(* Renaming.                                                               *)

\* Nothing stands in the way of the removal of what is at q.
Clearable(q) == \A n \in Under(q) : ~Locked(Parent(inode[n].at))

\* A rename that gets as far as its last system call succeeds.
RenameWorks(p, q) ==
  /\ ~IsFile(Parent(q)) /\ ~IsPrefix(p, q) /\ ~IsPrefix(q, p)
  /\ Clearable(q) /\ ~Locked(Parent(p)) /\ ~Locked(Parent(q))
  /\ IsDir(p) /\ Parent(p) # Parent(q) => ~Locked(p)

\* Mutant of PartlyCleared: a directory may go before what is in it.
ClearedAnyhow(q) == {Without(gone) : gone \in SUBSET Under(q)}

\* What may be left of the directory when it does not.
PartlyCleared(q) ==
  {Without(gone) : gone \in {S \in SUBSET Under(q) :
     \A n \in S : Under(inode[n].at) \subseteq S /\ ~Locked(Parent(inode[n].at))}}

\* Mutant of Rename: the context is given the new path also if the request fails.
RenameAnyhow(h, q, replace) ==
  LET p == ctx[h].path
  IN  /\ Ready(h) /\ MayRename(h, q) /\ Fits(p, q)
      /\ UNCHANGED <<ctx, file, asked>>
      /\ RenameError(p, q, replace) = "ok" /\ Answered
      /\ \/ /\ RenameWorks(p, q)
            /\ inode' = [n \in Nodes |-> IF n \in Under(q) THEN NoInode ELSE Moved(p, q)[n]]
         \/ ~RenameWorks(p, q) /\ replace /\ inode' \in PartlyCleared(q)
      /\ call' = [call EXCEPT ![h] = [NoCall EXCEPT !.step = "rename", !.to = q]]
      /\ Drift(IF Reached(h) = file[h] THEN {h} ELSE {})

Rename(h, q, replace) ==
  LET p == ctx[h].path
  IN  /\ Ready(h) /\ MayRename(h, q) /\ Fits(p, q)
      /\ UNCHANGED <<ctx, file, asked>>
      /\ RenameError(p, q, replace) = "ok"
      /\ \/ /\ RenameWorks(p, q)
            /\ inode' = [n \in Nodes |-> IF n \in Under(q) THEN NoInode ELSE Moved(p, q)[n]]
            /\ \/ /\ Answered
                  /\ call' = [call EXCEPT ![h] = [NoCall EXCEPT !.step = "rename", !.to = q]]
                  /\ Drift(IF Reached(h) = file[h] THEN {h} ELSE {})
               \/ Lose /\ UNCHANGED call /\ Drift({})
         \/ /\ ~RenameWorks(p, q) /\ replace /\ Answered
            /\ inode' \in PartlyCleared(q)
            /\ Drift({}) /\ UNCHANGED call

\* Mutant of SetPath: the context keeps the old path.
KeepPath(h) ==
  /\ call[h].step = "rename"
  /\ call' = [call EXCEPT ![h] = NoCall]
  /\ UNCHANGED <<inode, ctx, faults, file, asked, adrift>>

SetPath(h) ==
  /\ call[h].step = "rename"
  /\ ctx' = [ctx EXCEPT ![h].path = call[h].to]
  /\ call' = [call EXCEPT ![h] = NoCall]
  /\ UNCHANGED <<inode, faults, file, asked, adrift>>

-----------------------------------------------------------------------------
Local ==
  /\ faults < MaxFaults /\ faults' = faults + 1
  /\ UNCHANGED <<ctx, call, file, asked>>
  /\ Elsewhere
  /\ Drift({})

Next ==
  \/ \E h \in Handles :
       \/ \E p \in Entries : Open(h, p)
       \/ \E p \in Entries, k \in {"file", "dir"} : Create(h, p, k)
       \/ \E delete \in BOOLEAN : SetDelete(h, delete)
       \/ Cleanup(h)
       \/ Write(h) \/ WriteConstrained(h) \/ WriteRest(h)
       \/ \E size \in 0..MaxSize : SetSize(h, size)
       \/ \E readonly \in BOOLEAN : SetReadonly(h, readonly)
       \/ \E q \in Entries, replace \in BOOLEAN : Rename(h, q, replace)
       \/ SetPath(h)
  \/ Local

Spec == Init /\ [][Next]_vars

-----------------------------------------------------------------------------
\* Requests of an open file reach the file that was opened, through any number
\* of renames by its own handle, until something else has moved or removed it:
\* another handle, another process, or a rename whose answer was lost.
Reaches ==
  \A h \in Handles : ctx[h] # Closed /\ h \notin adrift =>
    inode[file[h]].at = IF call[h].step = "rename" THEN call[h].to ELSE ctx[h].path

\* A constrained write never makes a file longer than it was when the callback
\* asked, whoever cuts, replaces or extends the file before the data arrives.  That
\* is what the code does; WinFsp's documentation asks for more (ConstrainedKeepsSize).
ConstrainedStays ==
  [][\A h \in Handles, n \in Nodes :
       call[h].step = "write" /\ call'[h] = NoCall /\ inode'[n].size > inode[n].size =>
         inode'[n].size <= call[h].seen]_vars

\* What WinFsp's documentation of Write says: a constrained write does not extend
\* the file, which is then as long as it was when the data arrived.
ConstrainedKeepsSize ==
  [][\A h \in Handles, n \in Nodes :
       call[h].step = "write" /\ call'[h] = NoCall => inode'[n].size <= inode[n].size]_vars

\* The removal of a directory at clean-up, whose error nobody sees, is missed only
\* if the answer was lost, the parent is read-only, or something has been put
\* into the directory since CanDelete found it empty.
RemovalMissed ==
  [][\A h \in Handles :
       ctx[h] # Closed /\ ctx'[h] = Closed /\ ctx[h].pending /\ h \notin adrift
         /\ inode'[file[h]] # NoInode =>
       \/ faults' > faults
       \/ Locked(Parent(ctx[h].path))
       \/ Under(ctx[h].path) # {file[h]}]_vars

Ideal == INSTANCE HandleIdeal

\* No handle is adrift, and no context remembers a removal that has been called off
\* through another handle.
Undisturbed ==
  adrift = {} /\ \A h \in Handles : ctx[h].pending => file[h] \in asked

\* A context is as good as a file handle (HandleIdeal), for files that are open more
\* than once too, and whatever others have done before: a callback changes, moves or
\* removes the file that its handle was opened on, replaces none that a handle stands
\* for, and removes none whose removal is not asked for.  That is, as long as no
\* handle is, or is set, adrift, and but for the very step in which another process
\* acts or an answer is lost.
AsFiles ==
  [][Undisturbed /\ Undisturbed' /\ faults' = faults =>
       [Ideal!Next]_<<inode, file, asked>>]_vars

\* With one handle to a file, no other processes and no lost answers, the file
\* contexts implement file handles.
IdealSpec == Ideal!Spec

\* WinFsp's documentation of Cleanup: a file can be removed at the clean-up of
\* one handle while others are open, and the file system must be ready for their
\* operations until they are closed.  So they must still find something.
OpenUntilClose ==
  [][\A g, h \in Handles :
       ctx[g] # Closed /\ ctx'[g] = Closed /\ Ready(h) /\ ctx'[h] # Closed
         /\ Present(ctx[h].path) => Present(ctx[h].path)']_vars
=============================================================================
