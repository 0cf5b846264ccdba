--------------------------- MODULE ServerFs_proofs ---------------------------
(***************************************************************************)
(* Proofs about ServerFs, for any names, any depth and number of nodes,    *)
(* and any number of steps of other processes.                             *)
(*                                                                         *)
(* What a failed request leaves behind, and that a rename removes nothing  *)
(* but its target, needs to know at each stage of a request what it may    *)
(* have done to each node by then (Stages, Effects) and, at the stages of  *)
(* a rename that remove something, that all that is at risk is part of the *)
(* target (Aimed).  And it needs the directory to remain a tree (TypeOK):  *)
(* that one path leads to one node, and that what is below the old path    *)
(* moves with it and ends up neither below the old path nor in the place   *)
(* of something else (DirTree_proofs).                                     *)
(***************************************************************************)
EXTENDS ServerFs, DirTree_proofs

\* The request is a rename that replaces, of something there is.
Replacing == req.op = "Rename" /\ req.replace /\ req.node # Root

Stages ==
  /\ pc = "idle" => req = NoRequest /\ locals = 0 /\ lost = {}
  /\ pc \in {"times", "attr"} => req.op # "Rename" /\ (locals = 0 => Present(req.path))
  /\ pc = "times" => req.op = "SetBasicInfo"
  /\ pc \in {"replace", "clear"} => Replacing
  /\ pc = "replace" => lost = {}
  /\ pc = "move" /\ lost # {} => Replacing
  /\ pc \in {"replace", "clear", "move"} => req.path \in Entries /\ req.to \in Entries

\* What a rename is about to remove belongs to the target it was told to replace.
Aimed ==
  /\ pc \in {"replace", "clear"} => Under(req.to) \subseteq target
  /\ pc = "move" => {n \in Nodes : inode[n].at = req.to} \subseteq target

\* What has become of a node on the way, unless others have acted.
Effects ==
  /\ pc = "idle" => before = inode
  /\ pc \in {"replace", "clear", "move"} /\ locals = 0 =>
       \A n \in Nodes : inode[n] = before[n] \/ (n \in lost /\ inode[n] = NoInode)
  /\ pc = "times" /\ locals = 0 =>
       \A n \in Nodes :
         \/ inode[n] = before[n]
         \/ inode[n].at = req.path /\ inode[n] = [before[n] EXCEPT !.ro = ~@]

IInv == TypeOK /\ Stages /\ Aimed /\ Effects /\ FailureLeavesTree /\ RenameLoss

-----------------------------------------------------------------------------
(* What a request can be answered with.                                    *)

Answers == Codes \cup {"ok"}

\* Every system call ends well or with one of the codes.
LEMMA CallsAnswer ==
  ASSUME NEW p, NEW q, NEW replace
  PROVE  /\ LookupError(p) \in Answers /\ CreateError(p) \in Answers
         /\ UnlinkError(p) \in Answers /\ RmdirError(p) \in Answers
         /\ OpenError(p) \in Answers /\ ReadDirError(p) \in Answers
         /\ ReadError(p) \in Answers /\ FlushError(p) \in Answers
         /\ CanDeleteError(p, "file") \in Answers /\ CanDeleteError(p, "dir") \in Answers
         /\ MoveError(p, q) \in Answers /\ RenameError(p, q, replace) \in Answers
<1>1. /\ LookupError(p) \in Answers /\ LookupError(q) \in Answers
      /\ LookupError(Parent(p)) \in Answers /\ LookupError(Parent(q)) \in Answers
  BY DEF LookupError, Answers, Codes
<1>2. /\ CreateError(p) \in Answers /\ UnlinkError(p) \in Answers /\ RmdirError(p) \in Answers
      /\ OpenError(p) \in Answers /\ ReadDirError(p) \in Answers /\ ReadError(p) \in Answers
  BY <1>1 DEF CreateError, UnlinkError, RmdirError, OpenError, ReadDirError, ReadError,
              Answers, Codes
<1>3. FlushError(p) \in Answers
  BY <1>2 DEF FlushError, Answers
<1>4. CanDeleteError(p, "file") \in Answers /\ CanDeleteError(p, "dir") \in Answers
  BY <1>1 DEF CanDeleteError, Answers, Codes
<1>5. MoveError(p, q) \in Answers
  BY <1>1 DEF MoveError, Answers, Codes
<1>6. RenameError(p, q, replace) \in Answers
  BY <1>1 DEF RenameError, Answers, Codes
<1> QED BY <1>1, <1>2, <1>3, <1>4, <1>5, <1>6

\* No answer is taken for a request that is still being worked on.
LEMMA AnswersApart == Answers \subseteq Codes \cup {"ok", "pending", "none"}
                      /\ "pending" \notin Answers /\ "none" \notin Answers
                      /\ "ok" \in Answers /\ "Unexpected" \in Answers /\ "ok" \notin Codes
                      /\ "NotDirectory" \in Answers /\ "DirectoryNotEmpty" \in Answers
                      /\ "PermissionDenied" \in Answers
                      /\ "pending" \notin Codes /\ "none" \notin Codes
BY DEF Answers, Codes

\* The record of a request.
LEMMA NoRequestTyped == NoRequest \in Requests /\ NoRequest.op = "none"
BY EmptyPath, NodesAssumption DEF NoRequest, Requests

LEMMA RequestTyped ==
  ASSUME NEW op \in {"Create", "Write", "Remove", "SetLen", "SetBasicInfo"}, NEW p \in Paths,
         NEW times \in BOOLEAN, req' = Kept(op, p, times)
  PROVE  req' \in Requests /\ req'.op = op /\ req'.path = p /\ req'.times = times
<1>1. req' = [NoRequest EXCEPT !.op = op, !.path = p, !.times = times]
  BY DEF Kept
<1> QED BY <1>1, EmptyPath, NodesAssumption DEF NoRequest, Requests

\* Paths that lead to a node keep leading to one while nothing moves.
LEMMA PresentStays ==
  ASSUME NEW p, Present(p), \A n \in Nodes : inode'[n].at = inode[n].at
  PROVE  Present(p)'
BY DEF Present

-----------------------------------------------------------------------------
(* Every action keeps the invariant.                                       *)

\* The root's directory at the start.
LEMMA Initially == Init => IInv
<1> SUFFICES ASSUME Init PROVE IInv
  OBVIOUS
<1>1. TypeOK
  <2>1. locals \in 0..MaxLocal
    BY LocalAssumption DEF Init
  <2>2. result \in Codes \cup {"ok", "pending", "none"} /\ result # "pending"
    BY DEF Init
  <2>3. req \in Requests /\ pc = "idle" /\ lost = {} /\ target = {} /\ TreeOK
    BY EmptyTyped, NoRequestTyped DEF Init
  <2>4. before \in [Nodes -> Inode]
    BY <2>3 DEF Init, TreeOK
  <2> QED BY <2>1, <2>2, <2>3, <2>4 DEF TypeOK
<1>2. Stages /\ Aimed /\ Effects /\ FailureLeavesTree /\ RenameLoss
  BY NoRequestTyped DEF Init, Stages, Aimed, Effects, FailureLeavesTree, RenameLoss
<1> QED BY <1>1, <1>2 DEF IInv

\* A request that is answered at once, with nothing done.
LEMMA AnswerStep ==
  ASSUME IInv, Take, NEW code \in Answers, Answer(code)
  PROVE  IInv'
<1>1. TreeOK'
  BY DEF IInv, TypeOK, Answer, TreeOK
<1>2. TypeOK'
  BY <1>1, AnswersApart DEF IInv, TypeOK, Take, Answer, Reply
<1>3. (Stages /\ Aimed /\ Effects /\ FailureLeavesTree /\ RenameLoss)'
  BY NoRequestTyped DEF IInv, Stages, Aimed, Effects, FailureLeavesTree, RenameLoss, Take, Answer,
                        Reply
<1> QED BY <1>2, <1>3 DEF IInv

\* A request that goes on to take the attributes of what it has worked on.
LEMMA AttrNext ==
  ASSUME IInv, Take, Continue("attr"), TreeOK', NEW p \in Paths, Present(p)',
         NEW op \in {"Create", "Write", "SetLen"}, Done(op, p)
  PROVE  IInv'
<1>1. req' \in Requests /\ req'.op = op /\ req'.path = p
  BY RequestTyped DEF Done
<1>2. TypeOK'
  BY <1>1 DEF IInv, TypeOK, Take, Continue
<1>3. Stages'
  BY <1>1 DEF IInv, Stages, Take, Continue, Present
<1>4. (Aimed /\ Effects /\ FailureLeavesTree /\ RenameLoss)'
  BY <1>1, AnswersApart DEF Aimed, Effects, FailureLeavesTree, RenameLoss, Continue
<1> QED BY <1>2, <1>3, <1>4 DEF IInv

\* A request that has done its work and needs no attributes, or has failed in it.
LEMMA DoneNext ==
  ASSUME IInv, Take, TreeOK', NEW code \in Answers, Reply(code), NEW p \in Paths,
         NEW op \in {"Write", "Remove"}, Done(op, p),
         code = "ok" \/ \A n \in Nodes : (inode[n] = before[n] \/ LeftBehind(n))'
  PROVE  IInv'
<1>1. req' \in Requests /\ req'.op = op /\ req'.path = p
  BY RequestTyped DEF Done
<1>2. TypeOK'
  BY <1>1, AnswersApart DEF IInv, TypeOK, Take, Reply
<1>3. (Stages /\ Aimed /\ Effects /\ RenameLoss)'
  BY <1>1, AnswersApart DEF Stages, Aimed, Effects, RenameLoss, Reply
<1>4. FailureLeavesTree'
  BY AnswersApart DEF FailureLeavesTree, Reply
<1> QED BY <1>2, <1>3, <1>4 DEF IInv

\* Requests that only look.
LEMMA InspectStep ==
  ASSUME IInv, NEW p \in Paths, Inspect(p)
  PROVE  IInv'
<1>1. PICK code \in {"ok", LookupError(p), ReadDirError(p), ReadError(p), FlushError(p)}
                    \cup {CanDeleteError(p, k) : k \in {"file", "dir"}} : Answer(code)
  BY DEF Inspect
<1>2. code \in Answers
  BY CallsAnswer, AnswersApart
<1> QED BY <1>1, <1>2, AnswerStep DEF Inspect

LEMMA CreateStep ==
  ASSUME IInv, NEW p \in Entries, NEW k \in {"file", "dir"}, Create(p, k)
  PROVE  IInv'
<1>1. Take /\ TreeOK /\ p \in Paths
  BY EntryTyped DEF Create, IInv, TypeOK
<1>2. CASE Answer(CreateError(p))
  BY <1>1, <1>2, AnswerStep, CallsAnswer
<1>3. CASE CreateError(p) = "ok" /\ Add(p, k) /\ Continue("attr") /\ Done("Create", p)
  <2>1. PICK n \in Nodes : inode[n].at = Nowhere /\ inode' = [inode EXCEPT ![n] = NewInode(p, k)]
    BY <1>3 DEF Add
  <2>2. TreeOK'
    BY <1>1, <1>3, <2>1, AddTree
  <2>3. inode \in [Nodes -> Inode]
    BY <1>1 DEF TreeOK
  <2>4. inode'[n].at = p
    BY <2>1, <2>3 DEF NewInode
  <2>5. Present(p)'
    BY <2>4 DEF Present
  <2> QED BY <1>1, <1>3, <2>2, <2>5, AttrNext
<1> QED BY <1>2, <1>3 DEF Create

\* A write that fails has made its file longer, or changed nothing.
LEMMA WriteStep ==
  ASSUME IInv, NEW p \in Entries, NEW end \in 0..MaxSize, Write(p, end)
  PROVE  IInv'
<1>1. Take /\ TreeOK /\ p \in Paths
  BY EntryTyped DEF Write, IInv, TypeOK
<1>2. CASE Answer(OpenError(p))
  BY <1>1, <1>2, AnswerStep, CallsAnswer
<1>3. CASE OpenError(p) = "ok" /\ ~Answer(OpenError(p))
  <2>1. Present(p) /\ NodeAt(p) \in Nodes
    BY <1>1, <1>3, NodeAtPath DEF OpenError, LookupError
  <2> DEFINE old == inode[NodeAt(p)].size
             new == IF end > old THEN end ELSE old
  <2>2. old \in 0..MaxSize /\ new \in 0..MaxSize /\ MaxSize \in Nat
    BY <1>1, <2>1, PathBoundsAssumption DEF TreeOK, Inode
  <2>3. PICK reached \in old..new :
          /\ inode' = [inode EXCEPT ![NodeAt(p)].size = reached]
          /\ Continue("attr") \/ Reply("Unexpected")
    BY <1>3 DEF Write
  <2>4. reached \in 0..MaxSize
    <3> HIDE DEF old, new
    <3> QED BY <2>2
  <2>5. TreeOK' /\ \A n \in Nodes : inode'[n].at = inode[n].at
    BY <1>1, <2>1, <2>3, <2>4, ChangedTree
  <2>6. Present(p)'
    BY <2>1, <2>5, PresentStays
  <2>7. Done("Write", p)
    BY <1>3 DEF Write
  <2>8. CASE Continue("attr")
    BY <1>1, <2>5, <2>6, <2>7, <2>8, AttrNext
  <2>9. CASE Reply("Unexpected")
    <3>1. inode' = [inode EXCEPT ![NodeAt(p)].size = reached] /\ before' = inode
      BY <1>1, <2>3 DEF Take, IInv, Effects
    <3>2. /\ req'.op = "Write" /\ req'.path = p /\ inode \in [Nodes -> Inode]
          /\ inode[NodeAt(p)].at = p
      BY <1>1, <2>1, <2>7, RequestTyped, NodeAtPath DEF Done, TreeOK
    <3>3. ASSUME NEW n \in Nodes, n # NodeAt(p)
          PROVE  inode'[n] = before'[n]
      BY <3>1, <3>2, <3>3
    <3>4. inode'[NodeAt(p)] = [inode[NodeAt(p)] EXCEPT !.size = reached]
      BY <2>1, <3>1, <3>2
    <3>5. reached >= inode[NodeAt(p)].size /\ reached \in Nat
      <4> HIDE DEF new
      <4> QED BY <2>2, <2>3, <2>4
    <3>6. ASSUME NEW n \in Nodes, n = NodeAt(p)
          PROVE  (inode[n] = before[n] \/ LeftBehind(n))'
      <4> DEFINE s == inode[n]
                 t == inode'[n]
      <4>1. s \in Inode /\ t = [s EXCEPT !.size = reached] /\ reached >= s.size /\ s.at = p
        BY <3>2, <3>4, <3>5, <3>6
      <4>2. reached = s.size \/ reached > s.size
        BY <4>1, <3>5, <3>6, <2>2
      <4>3. t.at = p /\ t.size = reached /\ t = [s EXCEPT !.size = t.size]
        BY <4>1 DEF Inode
      <4>4. CASE reached = s.size
        BY <4>1, <4>4, <3>1 DEF Inode
      <4>5. CASE reached > s.size
        BY <4>3, <4>5, <3>1, <3>2 DEF LeftBehind
      <4> QED BY <4>2, <4>4, <4>5
    <3>7. \A n \in Nodes : (inode[n] = before[n] \/ LeftBehind(n))'
      BY <3>3, <3>6
    <3> QED BY <1>1, <2>5, <2>7, <2>9, <3>7, DoneNext, AnswersApart
  <2> QED BY <2>3, <2>8, <2>9
<1> QED BY <1>2, <1>3 DEF Write

LEMMA SetLenStep ==
  ASSUME IInv, NEW p \in Entries, NEW len \in 0..MaxSize, NEW allocation \in BOOLEAN,
         SetLen(p, len, allocation)
  PROVE  IInv'
<1>1. Take /\ TreeOK /\ p \in Paths
  BY EntryTyped DEF SetLen, IInv, TypeOK
<1>2. CASE Answer(LookupError(p)) \/ Answer(OpenError(p))
  BY <1>1, <1>2, AnswerStep, CallsAnswer
<1>3. CASE Present(p) /\ Continue("attr") /\ UNCHANGED inode /\ Done("SetLen", p)
  <2>1. TreeOK' /\ Present(p)'
    BY <1>1, <1>3 DEF TreeOK, Present
  <2> QED BY <1>1, <1>3, <2>1, AttrNext
<1>4. CASE /\ OpenError(p) = "ok"
           /\ inode' = [inode EXCEPT ![NodeAt(p)].size = len]
           /\ Continue("attr") /\ Done("SetLen", p)
  <2>1. Present(p) /\ NodeAt(p) \in Nodes
    BY <1>1, <1>4, NodeAtPath DEF OpenError, LookupError
  <2>2. TreeOK' /\ \A n \in Nodes : inode'[n].at = inode[n].at
    BY <1>1, <1>4, <2>1, ChangedTree
  <2>3. Present(p)'
    BY <2>1, <2>2, PresentStays
  <2> QED BY <1>1, <1>4, <2>2, <2>3, AttrNext
<1> QED BY <1>2, <1>3, <1>4 DEF SetLen

\* The path may be that of the root.
LEMMA SetBasicInfoStep ==
  ASSUME IInv, NEW p \in Paths, NEW change \in {"keep", "readonly", "writable"},
         NEW times \in BOOLEAN, SetBasicInfo(p, change, times)
  PROVE  IInv'
<1>1. Take /\ TreeOK
  BY DEF SetBasicInfo, IInv, TypeOK
<1>2. CASE Answer(LookupError(p))
  BY <1>1, <1>2, AnswerStep, CallsAnswer
<1>3. CASE \E code \in Refusals : Answer(code)
  BY <1>1, <1>3, AnswerStep, AnswersApart DEF Refusals
<1>4. CASE /\ Present(p)
           /\ inode' = [inode EXCEPT ![NodeAt(p)].ro =
                          IF change = "keep" THEN @ ELSE change = "readonly"]
           /\ Continue("times")
           /\ req' = Kept("SetBasicInfo", p, times)
  <2> DEFINE m == NodeAt(p)
             ro == IF change = "keep" THEN inode[m].ro ELSE change = "readonly"
  <2>1. m \in Nodes /\ inode[m].at = p /\ inode[m] \in Inode
    BY <1>1, <1>4, NodeAtPath DEF TreeOK
  <2>2. inode' = [inode EXCEPT ![m].ro = ro] /\ ro \in BOOLEAN
    BY <1>4, <2>1 DEF Inode
  <2>3. before' = inode /\ locals' = locals /\ pc' = "times" /\ result' = "pending"
    BY <1>1, <1>4 DEF Take, Continue, IInv, Effects
  <2>4. req' \in Requests /\ req'.op = "SetBasicInfo" /\ req'.path = p
    BY <1>4, RequestTyped
  <2> HIDE DEF m, ro
  <2>5. TreeOK' /\ \A n \in Nodes : inode'[n].at = inode[n].at
    BY <1>1, <2>1, <2>2, ChangedTree
  <2>6. Present(p)'
    BY <1>4, <2>5, PresentStays
  <2>7. TypeOK'
    BY <1>1, <2>3, <2>4, <2>5 DEF IInv, TypeOK, Take, TreeOK
  <2>8. Stages'
    BY <2>3, <2>4, <2>6 DEF Stages, Present
  <2>9. Effects'
    <3>1. inode \in [Nodes -> Inode]
      BY <1>1 DEF TreeOK
    <3>2. ASSUME NEW n \in Nodes
          PROVE  \/ inode'[n] = inode[n]
                 \/ inode'[n].at = p /\ inode'[n] = [inode[n] EXCEPT !.ro = ~@]
      <4>1. CASE n # m
        BY <2>2, <3>1, <4>1
      <4>2. CASE n = m
        <5>1. inode'[m] = [inode[m] EXCEPT !.ro = ro] /\ inode'[m].at = p
          BY <2>1, <2>2, <2>5, <3>1
        <5>2. ro = inode[m].ro \/ ro = ~inode[m].ro
          BY <2>1, <2>2 DEF Inode
        <5>3. CASE ro = inode[m].ro
          BY <2>1, <4>2, <5>1, <5>3 DEF Inode
        <5>4. CASE ro = ~inode[m].ro
          BY <2>1, <4>2, <5>1, <5>4 DEF Inode
        <5> QED BY <5>2, <5>3, <5>4
      <4> QED BY <4>1, <4>2
    <3> QED BY <2>3, <2>4, <3>2 DEF Effects
  <2>10. (Aimed /\ FailureLeavesTree /\ RenameLoss)'
    BY <2>3, <2>4, AnswersApart DEF Aimed, FailureLeavesTree, RenameLoss
  <2> QED BY <2>7, <2>8, <2>9, <2>10 DEF IInv
<1> QED BY <1>2, <1>3, <1>4 DEF SetBasicInfo

\* Times that are refused leave the permission as it has been set, and nothing else.
LEMMA TimesStep ==
  ASSUME IInv, Times
  PROVE  IInv'
<1>1. /\ TreeOK' /\ pc = "times" /\ req.op = "SetBasicInfo"
      /\ UNCHANGED <<inode, req, locals, before, lost, target>>
      /\ locals = 0 => Present(req.path)
  BY DEF IInv, TypeOK, Times, TreeOK, Stages
<1>2. CASE Continue("attr")
  <2>1. TypeOK'
    BY <1>1, <1>2 DEF IInv, TypeOK, Continue
  <2>2. (Stages /\ Aimed /\ Effects /\ FailureLeavesTree /\ RenameLoss)'
    BY <1>1, <1>2, AnswersApart DEF Stages, Aimed, Effects, FailureLeavesTree, RenameLoss,
                                    Continue, Present
  <2> QED BY <2>1, <2>2 DEF IInv
<1>3. CASE \E code \in Answers : Reply(code) /\ (locals = 0 => req.times)
  <2>1. pc' = "done" /\ result' \in Answers
    BY <1>3 DEF Reply
  <2>2. TypeOK'
    BY <1>1, <2>1, AnswersApart DEF IInv, TypeOK
  <2>3. (Stages /\ Aimed /\ Effects /\ RenameLoss)'
    BY <1>1, <2>1 DEF Stages, Aimed, Effects, RenameLoss
  <2>4. FailureLeavesTree'
    BY <1>1, <1>3 DEF IInv, Effects, FailureLeavesTree, LeftBehind
  <2> QED BY <2>2, <2>3, <2>4 DEF IInv
<1>4. LookupError(req.path) \in Answers /\ Refusals \subseteq Answers
  BY CallsAnswer, AnswersApart DEF Refusals
<1> QED BY <1>1, <1>2, <1>3, <1>4 DEF Times

LEMMA RemoveStep ==
  ASSUME IInv, NEW p \in Entries, RemoveFile(p) \/ RemoveDir(p)
  PROVE  IInv'
<1>1. PICK error \in {UnlinkError(p), RmdirError(p)} : RemoveEntry(p, error)
  BY DEF RemoveFile, RemoveDir
<1>2. Take /\ TreeOK /\ p \in Paths
  BY <1>1, EntryTyped DEF RemoveEntry, IInv, TypeOK
<1>3. CASE Answer(error)
  BY <1>2, <1>3, AnswerStep, CallsAnswer
<1>4. CASE error = "ok" /\ inode' = Without({NodeAt(p)}) /\ Reply("ok") /\ Done("Remove", p)
  <2>1. TreeOK'
    BY <1>1, <1>2, <1>4, UnlinkedTree
  <2> QED BY <1>2, <1>4, <2>1, DoneNext, AnswersApart
<1> QED BY <1>1, <1>3, <1>4 DEF RemoveEntry

\* What the request has worked on is still there if nobody else has acted.
LEMMA AttrStep ==
  ASSUME IInv, Attr
  PROVE  IInv'
<1>1. TreeOK'
  BY DEF IInv, TypeOK, Attr, TreeOK
<1>2. locals = 0 => LookupError(req.path) = "ok"
  BY DEF IInv, Stages, Attr, LookupError
<1>3. LookupError(req.path) \in Answers
  BY CallsAnswer
<1>4. TypeOK'
  BY <1>1, <1>3, AnswersApart DEF IInv, TypeOK, Attr, Reply
<1>5. (Stages /\ Aimed /\ Effects /\ FailureLeavesTree /\ RenameLoss)'
  BY <1>2, AnswersApart DEF IInv, Stages, Aimed, Effects, FailureLeavesTree, RenameLoss, Attr, Reply
<1> QED BY <1>4, <1>5 DEF IInv

-----------------------------------------------------------------------------
(* Rename.                                                                 *)

\* What a rename replaces it has found its source for.
LEMMA RenameLookStep ==
  ASSUME IInv, NEW p \in Entries, NEW q \in Entries, NEW replace \in BOOLEAN,
         RenameLook(p, q, replace)
  PROVE  IInv'
<1>1. /\ TreeOK /\ RenameBegin(p, q, replace) /\ pc = "idle" /\ locals = 0
      /\ lost = {} /\ before = inode
  BY DEF IInv, TypeOK, Stages, Effects, RenameLook, RenameBegin
<1>2. TreeOK' /\ UNCHANGED <<inode, locals, before, lost>>
  BY <1>1 DEF TreeOK, RenameBegin
<1>3. Present(p) => NodeAt(p) \in Nodes \ {Root} /\ inode[NodeAt(p)].at = p
  BY <1>1, EntryTyped, NodeAtPath, UnderLeaf
<1>4. req'.node = IF Present(p) THEN NodeAt(p) ELSE Root
  BY <1>1 DEF RenameBegin
<1>5. /\ req'.op = "Rename" /\ req'.path = p /\ req'.to = q /\ req'.replace = replace
      /\ target' = IF replace THEN Under(q) ELSE {}
  BY <1>1 DEF RenameBegin
<1>6. req' \in Requests
  <2>1. req'.node \in Nodes
    BY <1>3, <1>4, NodesAssumption
  <2>2. req' = [op |-> "Rename", path |-> p, to |-> q, replace |-> replace, node |-> req'.node,
              times |-> FALSE]
    BY <1>1 DEF RenameBegin
  <2>3. p \in Paths /\ q \in Paths /\ FALSE \in BOOLEAN /\ "Rename" \in {"none", "Create",
            "Write", "Remove", "Rename", "SetLen", "SetBasicInfo"}
    BY EntryTyped
  <2>4. \A n \in Nodes : [op |-> "Rename", path |-> p, to |-> q, replace |-> replace, node |-> n,
                          times |-> FALSE] \in Requests
    BY <2>3, Zenon DEF Requests
  <2> QED BY <2>1, <2>2, <2>4
<1>7. target' \subseteq Nodes
  BY <1>5 DEF Under
<1>8. ASSUME result' # "ok"
      PROVE  RenameLoss'
  BY <1>2, <1>1, <1>3, <1>4, <1>5, <1>8 DEF RenameLoss
<1>9. CASE Reply(RenameError(p, q, replace)) /\ RenameError(p, q, replace) # "ok"
  <2>1. RenameError(p, q, replace) \in Answers
    BY CallsAnswer
  <2>2. TypeOK'
    BY <1>2, <1>6, <1>7, <1>9, <2>1, AnswersApart DEF IInv, TypeOK, Reply
  <2>3. (Stages /\ Aimed /\ Effects /\ FailureLeavesTree)'
    BY <1>1, <1>2, <1>9 DEF Stages, Aimed, Effects, FailureLeavesTree, Reply
  <2>4. RenameLoss'
    BY <1>8, <1>9 DEF Reply
  <2> QED BY <2>2, <2>3, <2>4 DEF IInv
<1>10. CASE /\ RenameError(p, q, replace) = "ok"
            /\ Continue(IF replace THEN "replace" ELSE "move")
  <2>1. Present(p) /\ (~replace => ~Present(q))
    BY <1>10 DEF RenameError, LookupError
  <2>2. req'.node # Root
    BY <1>3, <1>4, <2>1
  <2>3. result' = "pending" /\ pc' = IF replace THEN "replace" ELSE "move"
    BY <1>10 DEF Continue
  <2>4. TypeOK'
    BY <1>2, <1>6, <1>7, <2>3 DEF IInv, TypeOK
  <2>5. Stages'
    BY <1>1, <1>2, <1>5, <2>2, <2>3 DEF Stages, Replacing
  <2>6. Aimed'
    BY <1>2, <1>5, <2>1, <2>3 DEF Aimed, Present, Under
  <2>7. (Effects /\ FailureLeavesTree /\ RenameLoss)'
    BY <1>1, <1>2, <1>8, <2>3, AnswersApart DEF Effects, FailureLeavesTree
  <2> QED BY <2>4, <2>5, <2>6, <2>7 DEF IInv
<1> QED BY <1>9, <1>10 DEF RenameLook

\* What is known while a rename removes what it replaces.
LEMMA Clearing ==
  ASSUME IInv, pc \in {"replace", "clear"}
  PROVE  /\ TreeOK /\ req \in Requests /\ req.op = "Rename" /\ req.replace /\ req.node # Root
         /\ req.node \in Nodes /\ req.to \in Entries /\ Under(req.to) \subseteq target
         /\ lost \subseteq target /\ target \subseteq Nodes /\ result = "pending"
         /\ locals = 0 /\ req.node \notin target => inode[req.node].at = req.path
BY DEF IInv, TypeOK, Stages, Aimed, Replacing, Requests, RenameLoss

\* Nodes that go are below the target, and what stays stays where it was.
LEMMA WithoutPlaces ==
  ASSUME TreeOK, NEW gone \in SUBSET Nodes, inode' = Without(gone), NEW q \in Entries
  PROVE  /\ \A n \in Nodes \ gone : inode'[n] = inode[n]
         /\ \A n \in gone : inode'[n].at = Nowhere
         /\ Under(q)' \subseteq Under(q)
         /\ {n \in Nodes : inode'[n].at = q} \subseteq {n \in Under(q) : n \notin gone}
<1>1. \A n \in Nodes : inode'[n] = IF n \in gone THEN NoInode ELSE inode[n]
  BY DEF Without
<1>2. \A n \in gone : inode'[n].at = Nowhere
  BY <1>1 DEF NoInode
<1>3. q # Nowhere /\ IsPrefix(q, q)
  BY EntryTyped, PrefixNames
<1> QED BY <1>1, <1>2, <1>3 DEF Under

\* A step of a rename that removes part of the target, and what follows it.
LEMMA RenameRemoves ==
  ASSUME IInv, pc \in {"replace", "clear"}, NEW n \in Under(req.to),
         Under(inode[n].at) \subseteq {n}, inode' = Without({n}), lost' = lost \cup {n},
         UNCHANGED <<req, locals, before, target>>,
         Continue("clear") \/ (inode[n].at = req.to /\ Continue("move"))
  PROVE  IInv'
<1>1. /\ TreeOK /\ req.to \in Entries /\ Under(req.to) \subseteq target /\ n \in target
      /\ n \in Nodes \ {Root} /\ inode[n].at # Nowhere
  BY Clearing, UnderLeaf DEF Under
<1>2. TreeOK'
  BY <1>1, RemovedTree
<1>3. /\ \A m \in Nodes \ {n} : inode'[m] = inode[m]
      /\ Under(req.to)' \subseteq Under(req.to)
      /\ {m \in Nodes : inode'[m].at = req.to} \subseteq Under(req.to)
  BY <1>1, WithoutPlaces
<1>4. result' = "pending" /\ pc' \in {"clear", "move"}
  BY DEF Continue
<1>5. TypeOK'
  BY <1>1, <1>2, <1>4 DEF IInv, TypeOK
<1>6. Stages'
  BY <1>4 DEF IInv, Stages, Replacing
<1>7. Aimed'
  BY <1>1, <1>3, <1>4 DEF Aimed, Under
<1>8. (Effects /\ FailureLeavesTree /\ RenameLoss)'
  <2>1. lost' \subseteq target
    BY <1>1, Clearing
  <2>2. ASSUME locals = 0, req.node \notin target
        PROVE  inode'[req.node].at = req.path
    BY <1>1, <1>3, <2>2, Clearing
  <2>3. inode'[n] = NoInode
    BY <1>1 DEF Without
  <2>4. Effects'
    BY <1>3, <1>4, <2>3 DEF IInv, Effects
  <2> QED BY <1>4, <2>1, <2>2, <2>4, AnswersApart DEF FailureLeavesTree, RenameLoss
<1> QED BY <1>5, <1>6, <1>7, <1>8 DEF IInv

\* A step of a rename that replaces, by which nothing is removed.
LEMMA RenameWaits ==
  ASSUME IInv, pc \in {"replace", "clear"}, UNCHANGED <<inode, lost>>,
         UNCHANGED <<req, locals, before, target>>,
         \/ ~Present(req.to) /\ Continue("move")
         \/ Continue("clear")
         \/ \E code \in Answers \ {"ok"} : Reply(code)
  PROVE  IInv'
<1>1. TreeOK'
  BY DEF IInv, TypeOK, TreeOK
<1>2. TypeOK' /\ result' # "ok"
  BY <1>1, AnswersApart DEF IInv, TypeOK, Continue, Reply
<1>3. Stages'
  BY DEF IInv, Stages, Replacing, Continue, Reply
<1>4. Aimed'
  BY DEF IInv, Aimed, Present, Under, Continue, Reply
<1>5. RenameLoss' /\ Effects'
  BY <1>2, Clearing DEF IInv, RenameLoss, Effects, Continue, Reply
<1>6. FailureLeavesTree'
  BY Clearing DEF IInv, Effects, FailureLeavesTree, LeftBehind
<1> QED BY <1>2, <1>3, <1>4, <1>5, <1>6 DEF IInv

LEMMA RenameReplaceStep ==
  ASSUME IInv, RenameReplace
  PROVE  IInv'
<1>1. TreeOK /\ req.to \in Entries /\ pc = "replace" /\ UNCHANGED <<req, locals, before, target>>
  BY Clearing DEF RenameReplace
<1>2. CASE /\ UNCHANGED <<inode, lost>>
           /\ \/ ~Present(req.to) /\ Continue("move")
              \/ Continue("clear")
              \/ UnlinkError(req.to) # "ok" /\ Reply(UnlinkError(req.to))
  <2>1. UnlinkError(req.to) \in Answers
    BY CallsAnswer
  <2> QED BY <1>1, <1>2, <2>1, RenameWaits
<1>3. CASE /\ IsFile(req.to) /\ UnlinkError(req.to) = "ok"
           /\ inode' = Without({NodeAt(req.to)})
           /\ lost' = {NodeAt(req.to)} /\ Continue("move")
  <2> DEFINE n == NodeAt(req.to)
  <2>1. inode[n].at = req.to /\ Under(req.to) = {n}
    BY <1>1, <1>3, UnlinkedTree
  <2>2. lost = {}
    BY <1>1 DEF IInv, Stages
  <2> HIDE DEF n
  <2> QED BY <1>1, <1>3, <2>1, <2>2, RenameRemoves DEF n
<1> QED BY <1>2, <1>3 DEF RenameReplace

LEMMA RenameClearStep ==
  ASSUME IInv, RenameClear
  PROVE  IInv'
<1>1. TreeOK /\ req.to \in Entries /\ pc = "clear" /\ UNCHANGED <<req, locals, before, target>>
  BY Clearing DEF RenameClear
<1>2. CASE /\ UNCHANGED <<inode, lost>>
           /\ \/ ~Present(req.to) /\ Reply(LookupError(req.to))
              \/ \E code \in {"NotDirectory", "DirectoryNotEmpty", "PermissionDenied"} :
                   Reply(code)
  <2>1. LookupError(req.to) \in Answers
    BY CallsAnswer
  <2>2. ~Present(req.to) => LookupError(req.to) # "ok"
    BY DEF LookupError
  <2> QED BY <1>1, <1>2, <2>1, <2>2, RenameWaits, AnswersApart
<1>3. CASE \E n \in Removable(req.to) :
             /\ inode' = Without({n}) /\ lost' = lost \cup {n}
             /\ Continue(IF inode[n].at = req.to THEN "move" ELSE "clear")
  <2>1. PICK n \in Under(req.to) :
          /\ Under(inode[n].at) = {n}
          /\ inode' = Without({n}) /\ lost' = lost \cup {n}
          /\ Continue(IF inode[n].at = req.to THEN "move" ELSE "clear")
    BY <1>3 DEF Removable
  <2> QED BY <1>1, <2>1, RenameRemoves
<1> QED BY <1>2, <1>3 DEF RenameClear

\* A move that fails changes nothing more; one that succeeds takes the node at the
\* old path to the new one.
LEMMA RenameMoveStep ==
  ASSUME IInv, RenameMove
  PROVE  IInv'
<1> DEFINE p == req.path
           q == req.to
<1>1. /\ TreeOK /\ p \in Entries /\ q \in Entries /\ pc = "move"
      /\ UNCHANGED <<req, locals, before, target>> /\ req \in Requests
      /\ Reply(MoveError(p, q)) /\ MoveError(p, q) \in Answers
      /\ {n \in Nodes : inode[n].at = q} \subseteq target /\ result = "pending"
      /\ lost \subseteq Nodes
  BY CallsAnswer DEF IInv, TypeOK, Stages, Aimed, RenameMove
<1>2. CASE UNCHANGED <<inode, lost>> /\ (MoveError(p, q) # "ok" \/ p = q)
  <2>1. TreeOK'
    BY <1>1, <1>2 DEF TreeOK
  <2>2. TypeOK'
    BY <1>1, <1>2, <2>1, AnswersApart DEF IInv, TypeOK, Reply
  <2>3. (Stages /\ Aimed /\ Effects /\ FailureLeavesTree)'
    BY <1>1, <1>2 DEF IInv, Stages, Aimed, Effects, FailureLeavesTree, LeftBehind, Replacing, Reply
  <2>4. RenameLoss'
    BY <1>1, <1>2 DEF IInv, RenameLoss, Reply
  <2> QED BY <2>2, <2>3, <2>4 DEF IInv
<1>3. CASE /\ MoveError(p, q) = "ok" /\ p # q /\ Fits(p, q) /\ inode' = Moved(p, q)
           /\ lost' = lost \cup {n \in Nodes : inode[n].at = q}
  <2> HIDE DEF p, q
  <2>1. TreeOK' /\ ~IsPrefix(p, q) /\ ~IsPrefix(q, p) /\ inode' = Replaced(p, q)
    BY <1>1, <1>3, MovedTree
  <2>2. result' = "ok" /\ pc' = "done" /\ lost' \subseteq Nodes
    BY <1>1, <1>3 DEF Reply
  <2>3. TypeOK'
    BY <1>1, <1>3, <2>1, <2>2 DEF IInv, TypeOK
  <2>4. (Stages /\ Aimed /\ Effects /\ FailureLeavesTree)'
    BY <2>2, AnswersApart DEF Stages, Aimed, Effects, FailureLeavesTree
  <2>5. RenameLoss'
    <3> SUFFICES ASSUME req.op = "Rename"
                 PROVE  /\ lost' \subseteq target
                        /\ locals = 0 /\ req.node \notin target \cup {Root} =>
                             inode'[req.node].at = q
      BY <1>1, <2>2 DEF RenameLoss, q
    <3>1. lost' \subseteq target
      BY <1>1, <1>3 DEF IInv, RenameLoss
    <3>2. ASSUME locals = 0, req.node \notin target \cup {Root}
          PROVE  inode'[req.node].at = q
      <4>1. inode[req.node].at = p /\ req.node \in Nodes
        BY <1>1, <3>2 DEF IInv, RenameLoss, Requests, p
      <4>2. req.node \in Under(p) /\ p \in Seq(Names) /\ q \in Seq(Names) /\ q # <<>>
        BY <1>1, <4>1, EntryTyped, PrefixNames DEF Under
      <4>3. inode'[req.node].at = Place(p, q, p)
        BY <1>1, <1>3, <2>1, <4>1, <4>2, ReplacedNodes
      <4> QED BY <4>2, <4>3, PlaceFront, PrefixNames
    <3> QED BY <3>1, <3>2
  <2> QED BY <2>3, <2>4, <2>5 DEF IInv
<1> QED BY <1>2, <1>3 DEF RenameMove

\* The next request, and the death of the server.
LEMMA TurnStep ==
  ASSUME IInv, Await \/ Crash \/ UNCHANGED vars
  PROVE  IInv'
<1>1. TreeOK'
  BY DEF IInv, TypeOK, Await, Crash, vars, TreeOK
<1>2. CASE Await
  <2>1. TypeOK'
    <3>1. locals' \in 0..MaxLocal
      BY <1>2, LocalAssumption DEF Await
    <3>2. result' \in Codes \cup {"ok", "pending", "none"} /\ result' # "pending"
      BY <1>2 DEF Await
    <3>3. req' \in Requests /\ pc' = "idle" /\ lost' = {} /\ target' = {}
      BY <1>2, NoRequestTyped DEF Await
    <3>4. before' \in [Nodes -> Inode]
      BY <1>1, <1>2 DEF Await, TreeOK
    <3> QED BY <1>1, <3>1, <3>2, <3>3, <3>4 DEF TypeOK
  <2>2. (Stages /\ Aimed /\ Effects /\ FailureLeavesTree /\ RenameLoss)'
    BY <1>2, NoRequestTyped DEF Stages, Aimed, Effects, FailureLeavesTree, RenameLoss, Await
  <2> QED BY <2>1, <2>2 DEF IInv
<1>3. CASE Crash
  <2>1. TypeOK'
    BY <1>1, <1>3 DEF IInv, TypeOK, Crash, Reply
  <2>2. (Stages /\ Aimed /\ Effects /\ FailureLeavesTree /\ RenameLoss)'
    BY <1>3, AnswersApart DEF IInv, TypeOK, Stages, Aimed, Effects, FailureLeavesTree, RenameLoss,
                              Crash, Reply
  <2> QED BY <2>1, <2>2 DEF IInv
<1>4. CASE UNCHANGED vars
  <2>1. TypeOK'
    BY <1>1, <1>4 DEF IInv, TypeOK, vars
  <2>2. (Stages /\ Aimed /\ Effects /\ FailureLeavesTree /\ RenameLoss)'
    BY <1>4 DEF IInv, Stages, Aimed, Effects, FailureLeavesTree, LeftBehind, RenameLoss, vars,
                Replacing, Present, Under
  <2> QED BY <2>1, <2>2 DEF IInv
<1> QED BY <1>2, <1>3, <1>4

\* Other processes: what they put in the way of a rename counts as its target.
LEMMA LocalStep ==
  ASSUME IInv, Local
  PROVE  IInv'
<1>1. /\ locals' = locals + 1 /\ pc \notin {"idle", "done"} /\ locals \in 0..MaxLocal
      /\ locals < MaxLocal /\ UNCHANGED <<pc, req, result, lost>> /\ before' = inode'
      /\ target' = target \cup {n \in Nodes : inode'[n].at # inode[n].at}
  BY DEF IInv, TypeOK, Local
<1>2. locals' \in 0..MaxLocal /\ locals' # 0
  BY <1>1, LocalAssumption
<1>3. TreeOK'
  BY ElsewhereTree DEF IInv, TypeOK, Local
<1>4. TypeOK'
  BY <1>1, <1>2, <1>3 DEF IInv, TypeOK, TreeOK
<1>5. Stages' /\ Effects'
  BY <1>1, <1>2 DEF IInv, Stages, Effects, Replacing
<1>6. Aimed'
  BY <1>1 DEF IInv, Aimed, Under
<1>7. FailureLeavesTree' /\ RenameLoss'
  BY <1>1, <1>2 DEF IInv, FailureLeavesTree, RenameLoss
<1> QED BY <1>4, <1>5, <1>6, <1>7 DEF IInv

LEMMA Step == IInv /\ [Next]_vars => IInv'
<1> SUFFICES ASSUME IInv, [Next]_vars PROVE IInv'
  OBVIOUS
<1>1. CASE \E p \in Paths : Inspect(p)
  BY <1>1, InspectStep
<1>2. CASE \E p \in Entries, k \in {"file", "dir"} : Create(p, k)
  BY <1>2, CreateStep
<1>3. CASE \E p \in Entries, end \in 0..MaxSize : Write(p, end)
  BY <1>3, WriteStep
<1>4. CASE \E p \in Entries, len \in 0..MaxSize, allocation \in BOOLEAN :
             SetLen(p, len, allocation)
  BY <1>4, SetLenStep
<1>5. CASE \E p \in Entries : RemoveFile(p) \/ RemoveDir(p)
  BY <1>5, RemoveStep
<1>6. CASE \E p \in Paths, change \in {"keep", "readonly", "writable"}, times \in BOOLEAN :
             SetBasicInfo(p, change, times)
  BY <1>6, SetBasicInfoStep
<1>7. CASE \E p, q \in Entries, replace \in BOOLEAN : RenameLook(p, q, replace)
  BY <1>7, RenameLookStep
<1>8. CASE Times \/ Attr
  BY <1>8, TimesStep, AttrStep
<1>9. CASE RenameReplace
  BY <1>9, RenameReplaceStep
<1>10. CASE RenameClear
  BY <1>10, RenameClearStep
<1>11. CASE RenameMove
  BY <1>11, RenameMoveStep
<1>12. CASE Await \/ Crash \/ UNCHANGED vars
  BY <1>12, TurnStep
<1>13. CASE Local
  BY <1>13, LocalStep
<1> QED
  BY <1>1, <1>2, <1>3, <1>4, <1>5, <1>6, <1>7, <1>8, <1>9, <1>10, <1>11, <1>12,
     <1>13 DEF Next

\* Every request leaves the exported directory a tree, in which no two entries
\* share a path and every entry is in a directory, whatever other processes do to
\* it between its system calls.
THEOREM TypeCorrect == Spec => []TypeOK
<1>1. IInv => TypeOK
  BY DEF IInv
<1> QED BY Initially, Step, <1>1, PTL DEF Spec

\* A rename, whether it succeeds, fails or dies with the server, removes nothing
\* but the target it was told to replace and what others have put in its way; and
\* unless others have acted, or it was part of that target, its source is at the
\* new path if the rename succeeded and at the old one otherwise.
THEOREM RenamesLoseNothing == Spec => []RenameLoss
<1>1. IInv => RenameLoss
  BY DEF IInv
<1> QED BY Initially, Step, <1>1, PTL DEF Spec

\* A request that is answered with an error has left every node of the exported
\* directory as it was unless others interfered, but for the bytes a write has got
\* down, the nodes of the target that a replacing rename has removed by then, and the
\* permission that set_basic_info sets before times that are refused.
THEOREM FailuresHarmless == Spec => []FailureLeavesTree
<1>1. IInv => FailureLeavesTree
  BY DEF IInv
<1>2. QED
  BY Initially, Step, <1>1, PTL DEF Spec

-----------------------------------------------------------------------------
(* What can_delete grants.                                                 *)

LEMMA FileDeletion ==
  ASSUME NEW p
  PROVE  /\ CanDeleteError(p, "file") = "ok" /\ ~Locked(Parent(p)) => UnlinkError(p) = "ok"
         /\ UnlinkError(p) = "ok" => CanDeleteError(p, "file") = "ok"
<1>1. LookupError(p) = "ok" <=> Present(p)
  BY DEF LookupError
<1>2. QED
  BY <1>1 DEF CanDeleteError, UnlinkError

LEMMA DirDeletion ==
  ASSUME NEW p
  PROVE  /\ CanDeleteError(p, "dir") = "ok" /\ ~Locked(Parent(p)) => RmdirError(p) = "ok"
         /\ RmdirError(p) = "ok" => CanDeleteError(p, "dir") = "ok"
<1>1. LookupError(p) = "ok" <=> Present(p)
  BY DEF LookupError
<1>2. QED
  BY <1>1 DEF CanDeleteError, RmdirError

\* can_delete grants a deletion exactly if remove_file or remove_dir can carry
\* it out, the permission of the parent aside: in any tree, however it came to
\* be.
THEOREM DeletionHonest == Spec => []CanDeleteHonest
<1>1. CanDeleteHonest
  BY FileDeletion, DirDeletion DEF CanDeleteHonest
<1>2. QED
  BY <1>1, PTL
=============================================================================
