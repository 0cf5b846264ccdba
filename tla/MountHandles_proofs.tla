------------------------- MODULE MountHandles_proofs -------------------------
(***************************************************************************)
(* Proofs about MountHandles, for any names, depth, nodes and handles, any *)
(* number of steps of other processes and of lost answers.                 *)
(*                                                                         *)
(* A file context holds a path and not a file.  That the two agree         *)
(* (Reaches) is kept because a path leads to one node (TreeOK), a handle   *)
(* whose file is moved or removed by anything but its own rename is adrift *)
(* from then on, and the context of one that is being renamed is judged by *)
(* the path it is about to be given (Expected).                            *)
(***************************************************************************)
EXTENDS MountHandles, DirTree_proofs

\* The path at which the file of a handle should be.
Expected(h) == IF call[h].step = "rename" THEN call[h].to ELSE ctx[h].path

\* Only open files have calls in progress, only directories pending removals.
Contexts ==
  \A h \in Handles :
    /\ ctx[h].path = Nowhere => ctx[h] = Closed
    /\ ctx[h].pending => ctx[h].kind = "dir"
    /\ call[h] # NoCall => ctx[h] # Closed
    /\ call[h].step = "rename" => call[h].to \in Entries

\* A context knows whether its file is a directory.
KindKnown ==
  \A h \in Handles : ctx[h] # Closed /\ h \notin adrift => inode[file[h]].kind = ctx[h].kind

IInv == TypeOK /\ Contexts /\ Reaches /\ KindKnown

Context == [path : Entries \cup {Nowhere}, kind : {"file", "dir"}, pending : BOOLEAN]
Call == [step : {"none", "write", "rename"}, to : Paths, seen : 0..MaxSize]

-----------------------------------------------------------------------------
(* Records.                                                                *)

LEMMA RecordsTyped ==
  /\ Closed \in Context /\ ~Closed.pending /\ Closed.path = Nowhere /\ Nowhere \notin Entries
  /\ NoCall \in Call /\ NoCall.step = "none"
  /\ \A q \in Paths : LET c == [NoCall EXCEPT !.step = "rename", !.to = q]
                      IN  c \in Call /\ c.step = "rename" /\ c.to = q /\ c # NoCall
  /\ \A size \in 0..MaxSize : LET c == [NoCall EXCEPT !.step = "write", !.seen = size]
                              IN  c \in Call /\ c.step = "write" /\ c.seen = size /\ c # NoCall
<1>1. 0 \in 0..MaxSize /\ <<>> \in Paths /\ Nowhere \notin Entries
  BY PathBoundsAssumption, EmptyPath DEF Entries
<1> QED BY <1>1 DEF Closed, NoCall, Context, Call

\* What is known of an open handle.
LEMMA OpenHandle ==
  ASSUME IInv, NEW h \in Handles, ctx[h] # Closed
  PROVE  /\ file[h] \in Nodes /\ ctx[h].path \in Entries /\ ctx[h] \in Context
         /\ Expected(h) \in Entries /\ Expected(h) # Nowhere
         /\ h \notin adrift => /\ inode[file[h]].at = Expected(h)
                               /\ inode[file[h]].kind = ctx[h].kind
<1>1. file[h] \in Nodes /\ ctx[h] \in Context
  BY DEF IInv, TypeOK, Context
<1>2. ctx[h].path \in Entries
  BY <1>1 DEF IInv, Contexts, Context
<1>3. Expected(h) \in Entries
  BY <1>2 DEF IInv, Contexts, Expected
<1>4. Expected(h) # Nowhere
  BY <1>3, EntryTyped
<1>5. h \notin adrift => /\ inode[file[h]].at = Expected(h)
                         /\ inode[file[h]].kind = ctx[h].kind
  BY DEF IInv, Reaches, KindKnown, Expected
<1> QED BY <1>1, <1>2, <1>3, <1>4, <1>5

\* A handle that is not adrift afterwards has its file where it was.
LEMMA DriftKeeps ==
  ASSUME IInv, NEW aware, Drift(aware), NEW g \in Handles, g \notin aware,
         ctx[g] # Closed, file'[g] # NoNode, g \notin adrift'
  PROVE  /\ g \notin adrift /\ inode'[file[g]].at = inode[file[g]].at
         /\ inode[file[g]].at = Expected(g)
<1>1. file[g] # NoNode
  BY DEF IInv, TypeOK
<1>2. g \notin adrift /\ inode'[file[g]].at = inode[file[g]].at
  BY <1>1 DEF Drift
<1> QED BY <1>2, OpenHandle

-----------------------------------------------------------------------------
(* Every action keeps the invariant.                                       *)

LEMMA Initially == Init => IInv
<1> SUFFICES ASSUME Init PROVE IInv
  OBVIOUS
<1>1. TypeOK
  <2>1. TreeOK
    BY EmptyTyped DEF Init
  <2>2. ctx \in [Handles -> Context] /\ call \in [Handles -> Call]
    BY RecordsTyped DEF Init
  <2>3. faults \in 0..MaxFaults
    BY BoundsAssumption DEF Init
  <2>4. /\ file \in [Handles -> Nodes \cup {NoNode}]
        /\ \A h \in Handles : file[h] = NoNode /\ ctx[h] = Closed
        /\ asked = {} /\ adrift = {}
    BY DEF Init
  <2> QED BY <2>1, <2>2, <2>3, <2>4 DEF TypeOK, Context, Call
<1>2. Contexts /\ Reaches /\ KindKnown
  BY RecordsTyped DEF Init, Contexts, Reaches, KindKnown
<1> QED BY <1>1, <1>2 DEF IInv

\* A step that binds no handle to another file, and none to another path.
LEMMA SameFiles ==
  ASSUME IInv, UNCHANGED <<ctx, file, asked>>, TreeOK', KindsStay,
         call' \in [Handles -> Call], faults' \in 0..MaxFaults, adrift' \subseteq Handles,
         \A h \in Handles : call'[h] # NoCall => ctx[h] # Closed,
         \A h \in Handles : call'[h].step = "rename" => call'[h].to \in Entries,
         \A h \in Handles : ctx[h] # Closed /\ h \notin adrift' =>
           h \notin adrift /\ inode'[file[h]].at = Expected(h)'
  PROVE  IInv'
<1>1. TypeOK'
  BY DEF IInv, TypeOK, Call
<1>2. Contexts'
  BY DEF IInv, Contexts
<1>3. Reaches'
  BY DEF Reaches, Expected
<1>4. KindKnown'
  <2> SUFFICES ASSUME NEW h \in Handles, ctx[h] # Closed, h \notin adrift'
               PROVE  inode'[file[h]].kind = ctx[h].kind
    BY DEF KindKnown
  <2>1. /\ file[h] \in Nodes /\ inode[file[h]].at # Nowhere
        /\ inode[file[h]].kind = ctx[h].kind
    BY OpenHandle
  <2>2. Expected(h)' \in Entries
    BY <1>1, <1>2, OpenHandle DEF TypeOK, Contexts, Expected
  <2>3. inode'[file[h]].at # Nowhere
    BY <2>2, EntryTyped
  <2> QED BY <2>1, <2>3 DEF KindsStay
<1> QED BY <1>1, <1>2, <1>3, <1>4 DEF IInv

\* A handle that comes to stand for the node at a path.
LEMMA BindStep ==
  ASSUME IInv, NEW h \in Handles, ctx[h] = Closed, NEW p \in Entries, NEW k \in {"file", "dir"},
         NEW n \in Nodes, Bind(h, p, k, n), UNCHANGED <<call, faults, asked, adrift>>,
         TreeOK', inode'[n].at = p, inode'[n].kind = k,
         \A m \in Nodes : inode[m].at # Nowhere => inode'[m] = inode[m]
  PROVE  IInv'
<1> DEFINE c == [path |-> p, kind |-> k, pending |-> FALSE]
<1>1. c \in Context /\ c.path = p /\ c.kind = k /\ ~c.pending /\ p # Nowhere
  BY EntryTyped DEF Context
<1>2. c # Closed
  BY <1>1 DEF Closed
<1>3. ctx' = [ctx EXCEPT ![h] = c] /\ file' = [file EXCEPT ![h] = n] /\ file[h] = NoNode
  BY DEF Bind, IInv, TypeOK
<1> HIDE DEF c
<1>4. ctx \in [Handles -> Context] /\ file \in [Handles -> Nodes \cup {NoNode}]
  BY DEF IInv, TypeOK, Context
<1>5. ctx'[h] = c /\ file'[h] = n /\ n # NoNode
  BY <1>3, <1>4, HandlesAssumption
<1>6. \A g \in Handles \ {h} : ctx'[g] = ctx[g] /\ file'[g] = file[g]
  BY <1>3, <1>4
<1>7. TypeOK'
  <2>1. ctx' \in [Handles -> Context] /\ file' \in [Handles -> Nodes \cup {NoNode}]
    BY <1>1, <1>3, <1>4
  <2>2. \A g \in Handles : file'[g] = NoNode <=> ctx'[g] = Closed
    BY <1>2, <1>5, <1>6 DEF IInv, TypeOK
  <2>3. asked' \subseteq {file'[g] : g \in Handles} \ {NoNode}
    <3> SUFFICES ASSUME NEW m \in asked PROVE \E g \in Handles : m = file'[g] /\ m # NoNode
      OBVIOUS
    <3>1. PICK g \in Handles : m = file[g] /\ m # NoNode
      BY DEF IInv, TypeOK
    <3> QED BY <1>3, <1>6, <3>1
  <2> QED BY <2>1, <2>2, <2>3 DEF IInv, TypeOK, Context
<1>8. call[h] = NoCall /\ call[h].step = "none"
  BY RecordsTyped DEF IInv, Contexts
<1>9. Contexts'
  <2> SUFFICES ASSUME NEW g \in Handles
               PROVE  /\ ctx'[g].path = Nowhere => ctx'[g] = Closed
                      /\ ctx'[g].pending => ctx'[g].kind = "dir"
                      /\ call[g] # NoCall => ctx'[g] # Closed
                      /\ call[g].step = "rename" => call[g].to \in Entries
    BY DEF Contexts
  <2>1. CASE g = h
    BY <1>1, <1>5, <1>8, <2>1
  <2>2. CASE g # h
    BY <1>6, <2>2 DEF IInv, Contexts
  <2> QED BY <2>1, <2>2
<1>10. ASSUME NEW g \in Handles, ctx'[g] # Closed, g \notin adrift
       PROVE  inode'[file'[g]].at = Expected(g)' /\ inode'[file'[g]].kind = ctx'[g].kind
  <2>1. CASE g = h
    BY <1>1, <1>5, <1>8, <2>1 DEF Expected
  <2>2. CASE g # h
    <3>1. ctx'[g] = ctx[g] /\ file'[g] = file[g] /\ Expected(g)' = Expected(g)
      BY <1>6, <2>2 DEF Expected
    <3> QED BY <1>10, <3>1, OpenHandle
  <2> QED BY <2>1, <2>2
<1>11. Reaches' /\ KindKnown'
  BY <1>10 DEF Reaches, KindKnown, Expected
<1> QED BY <1>7, <1>9, <1>11 DEF IInv

LEMMA OpenStep ==
  ASSUME IInv, NEW h \in Handles, NEW p \in Entries, Open(h, p)
  PROVE  IInv'
<1> DEFINE n == NodeAt(p)
<1>1. TreeOK /\ p \in Paths
  BY EntryTyped DEF IInv, TypeOK
<1>2. n \in Nodes /\ inode[n].at = p
  BY <1>1, NodeAtPath DEF Open
<1>3. inode[n].kind \in {"file", "dir"}
  BY <1>1, <1>2 DEF TreeOK, Inode
<1>4. TreeOK' /\ UNCHANGED inode
  BY <1>1 DEF Open, TreeOK
<1>5. ctx[h] = Closed /\ Bind(h, p, inode[n].kind, n) /\ UNCHANGED <<call, faults, asked, adrift>>
  BY DEF Open, MayOpen
<1> HIDE DEF n
<1> QED BY <1>2, <1>3, <1>4, <1>5, BindStep

\* The file is created even if the answer is lost.
LEMMA CreateStep ==
  ASSUME IInv, NEW h \in Handles, NEW p \in Entries, NEW k \in {"file", "dir"}, Create(h, p, k)
  PROVE  IInv'
<1>1. PICK n \in Nodes :
        /\ inode[n] = NoInode
        /\ inode' = [inode EXCEPT ![n] = NewInode(p, k)]
        /\ \/ Answered /\ Bind(h, p, k, n)
           \/ Lose /\ UNCHANGED <<ctx, file>>
  BY DEF Create
<1>2. TreeOK /\ inode \in [Nodes -> Inode]
  BY DEF IInv, TypeOK, TreeOK
<1>3. inode[n].at = Nowhere
  BY <1>1 DEF NoInode
<1>4. ctx[h] = Closed /\ UNCHANGED <<call, asked, adrift>> /\ CreateError(p) = "ok"
  BY DEF Create, MayOpen
<1>5. TreeOK'
  BY <1>1, <1>2, <1>3, <1>4, AddTree
<1>6. KindsStay /\ \A m \in Nodes : inode[m].at # Nowhere => inode'[m] = inode[m]
  BY <1>1, <1>2, <1>3, AddKinds
<1>7. inode'[n].at = p /\ inode'[n].kind = k
  BY <1>1, <1>2 DEF NewInode
<1>8. CASE Answered /\ Bind(h, p, k, n)
  BY <1>4, <1>5, <1>6, <1>7, <1>8, BindStep DEF Answered
<1>9. CASE Lose /\ UNCHANGED <<ctx, file>>
  <2>1. faults' \in 0..MaxFaults
    BY <1>9, BoundsAssumption DEF Lose, IInv, TypeOK
  <2>2. call' \in [Handles -> Call] /\ adrift' \subseteq Handles
    BY <1>4 DEF IInv, TypeOK, Call
  <2>3. \A g \in Handles : /\ call'[g] # NoCall => ctx[g] # Closed
                           /\ call'[g].step = "rename" => call'[g].to \in Entries
    BY <1>4 DEF IInv, Contexts
  <2>4. ASSUME NEW g \in Handles, ctx[g] # Closed, g \notin adrift'
        PROVE  g \notin adrift /\ inode'[file[g]].at = Expected(g)'
    <3>1. Expected(g)' = Expected(g)
      BY <1>4, <1>9 DEF Expected
    <3> QED BY <1>4, <1>6, <2>4, <3>1, OpenHandle
  <2> QED BY <1>4, <1>5, <1>6, <1>9, <2>1, <2>2, <2>3, <2>4, SameFiles
<1> QED BY <1>1, <1>8, <1>9

\* A request for removal changes what is pending, of directories only.
LEMMA SetDeleteStep ==
  ASSUME IInv, NEW h \in Handles, NEW delete \in BOOLEAN, SetDelete(h, delete)
  PROVE  IInv'
<1>1. /\ ctx[h] # Closed /\ UNCHANGED <<inode, call, faults, file, adrift>>
      /\ \/ ctx[h].kind = "dir" /\ ctx' = [ctx EXCEPT ![h].pending = delete]
         \/ ctx' = ctx
      /\ asked' = IF delete THEN asked \cup {file[h]} ELSE asked \ {file[h]}
  BY DEF SetDelete, Ready
<1>2. TreeOK' /\ ctx \in [Handles -> Context]
  BY <1>1 DEF IInv, TypeOK, TreeOK, Context
<1>3. /\ ctx'[h] \in Context /\ ctx'[h].path = ctx[h].path /\ ctx'[h].kind = ctx[h].kind
      /\ ctx'[h].pending => ctx[h].pending \/ ctx[h].kind = "dir"
      /\ \A g \in Handles \ {h} : ctx'[g] = ctx[g]
  BY <1>1, <1>2 DEF Context
<1>4. ctx' \in [Handles -> Context]
  BY <1>1, <1>2 DEF Context
<1>5. ctx[h].path \in Entries /\ file[h] \in Nodes /\ file[h] # NoNode
  BY <1>1, OpenHandle, HandlesAssumption
<1>6. ctx'[h] # Closed
  BY <1>3, <1>5, RecordsTyped
<1>7. asked' \subseteq {file[g] : g \in Handles} \ {NoNode}
  BY <1>1, <1>5 DEF IInv, TypeOK
<1>8. \A g \in Handles : ctx'[g] = Closed <=> ctx[g] = Closed
  BY <1>1, <1>3, <1>6
<1>9. TypeOK'
  BY <1>1, <1>2, <1>4, <1>7, <1>8 DEF IInv, TypeOK, Context
<1>10. Contexts'
  <2> SUFFICES ASSUME NEW g \in Handles
               PROVE  /\ ctx'[g].path = Nowhere => ctx'[g] = Closed
                      /\ ctx'[g].pending => ctx'[g].kind = "dir"
                      /\ call'[g] # NoCall => ctx'[g] # Closed
                      /\ call'[g].step = "rename" => call'[g].to \in Entries
    BY DEF Contexts
  <2>1. /\ ctx[g].pending => ctx[g].kind = "dir"
        /\ call'[g] # NoCall => ctx[g] # Closed
        /\ call'[g].step = "rename" => call'[g].to \in Entries
    BY <1>1 DEF IInv, Contexts
  <2>2. CASE g = h
    BY <1>3, <1>5, <1>6, <2>1, <2>2, RecordsTyped
  <2>3. CASE g # h
    BY <1>3, <2>1, <2>3 DEF IInv, Contexts
  <2> QED BY <2>2, <2>3
<1>11. Reaches' /\ KindKnown'
  BY <1>1, <1>3, <1>8 DEF IInv, Reaches, KindKnown
<1> QED BY <1>9, <1>10, <1>11 DEF IInv

\* What a clean-up may remove.
LEMMA CleanupRemoves ==
  ASSUME IInv, NEW h \in Handles, Ready(h), RemoveError(h) = "ok"
  PROVE  /\ Reached(h) \in Nodes /\ inode[Reached(h)].at = ctx[h].path
         /\ inode' = Without({Reached(h)}) => TreeOK'
<1>1. TreeOK /\ ctx[h].path \in Entries
  BY OpenHandle DEF IInv, TypeOK, Ready
<1>2. UnlinkError(ctx[h].path) = "ok" \/ RmdirError(ctx[h].path) = "ok"
  BY DEF RemoveError
<1> QED BY <1>1, <1>2, UnlinkedTree DEF Reached

\* Whatever a clean-up removes, the handles of others stay or are adrift.
LEMMA CleanupStep ==
  ASSUME IInv, NEW h \in Handles, Cleanup(h)
  PROVE  IInv'
<1>1. /\ Ready(h) /\ ctx' = [ctx EXCEPT ![h] = Closed] /\ file' = [file EXCEPT ![h] = NoNode]
      /\ asked' = asked \cap {file'[g] : g \in Handles} /\ Drift({h}) /\ UNCHANGED call
      /\ call[h] = NoCall
  BY DEF Cleanup, Ready
<1>2. \/ UNCHANGED inode
      \/ RemoveError(h) = "ok" /\ inode' = Without({Reached(h)})
  BY DEF Cleanup
<1>3. TreeOK'
  <2>1. CASE UNCHANGED inode
    BY <2>1 DEF IInv, TypeOK, TreeOK
  <2>2. CASE RemoveError(h) = "ok" /\ inode' = Without({Reached(h)})
    BY <1>1, <2>2, CleanupRemoves
  <2> QED BY <1>2, <2>1, <2>2
<1>4. KindsStay
  BY <1>2, WithoutKinds DEF KindsStay
<1>5. faults' \in 0..MaxFaults
  BY BoundsAssumption DEF Cleanup, Answered, Lose, IInv, TypeOK
<1>6. /\ ctx \in [Handles -> Context] /\ file \in [Handles -> Nodes \cup {NoNode}]
      /\ asked \subseteq {file[g] : g \in Handles} \ {NoNode}
  BY DEF IInv, TypeOK, Context
<1>7. /\ ctx'[h] = Closed /\ file'[h] = NoNode
      /\ \A g \in Handles \ {h} : ctx'[g] = ctx[g] /\ file'[g] = file[g]
  BY <1>1, <1>6
<1>8. TypeOK'
  <2>1. ctx' \in [Handles -> Context] /\ file' \in [Handles -> Nodes \cup {NoNode}]
    BY <1>1, <1>6, RecordsTyped
  <2>2. \A g \in Handles : file'[g] = NoNode <=> ctx'[g] = Closed
    BY <1>7 DEF IInv, TypeOK
  <2>3. asked' \subseteq {file'[g] : g \in Handles} \ {NoNode}
    BY <1>1, <1>6
  <2>4. adrift' \subseteq Handles
    BY <1>1 DEF Drift, IInv, TypeOK
  <2> QED BY <1>1, <1>3, <1>5, <2>1, <2>2, <2>3, <2>4 DEF IInv, TypeOK, Context
<1>9. Contexts'
  <2> SUFFICES ASSUME NEW g \in Handles
               PROVE  /\ ctx'[g].path = Nowhere => ctx'[g] = Closed
                      /\ ctx'[g].pending => ctx'[g].kind = "dir"
                      /\ call'[g] # NoCall => ctx'[g] # Closed
                      /\ call'[g].step = "rename" => call'[g].to \in Entries
    BY DEF Contexts
  <2>1. CASE g = h
    BY <1>1, <1>7, <2>1, RecordsTyped
  <2>2. CASE g # h
    BY <1>1, <1>7, <2>2 DEF IInv, Contexts
  <2> QED BY <2>1, <2>2
<1>10. ASSUME NEW g \in Handles, ctx'[g] # Closed, g \notin adrift'
       PROVE  /\ inode'[file'[g]].at = Expected(g)' /\ inode'[file'[g]].kind = ctx'[g].kind
  <2>1. /\ g # h /\ ctx[g] # Closed /\ ctx'[g] = ctx[g] /\ file'[g] = file[g]
        /\ Expected(g)' = Expected(g)
    BY <1>1, <1>7, <1>10 DEF Expected
  <2>2. file'[g] # NoNode
    BY <1>8, <1>10 DEF TypeOK
  <2>3. g \notin adrift /\ inode'[file[g]].at = Expected(g)
    BY <1>1, <1>10, <2>1, <2>2, DriftKeeps
  <2>4. /\ file[g] \in Nodes /\ inode[file[g]].at = Expected(g) /\ Expected(g) # Nowhere
        /\ inode[file[g]].kind = ctx[g].kind
    BY <2>1, <2>3, OpenHandle
  <2> QED BY <1>4, <2>1, <2>3, <2>4 DEF KindsStay
<1>11. Reaches' /\ KindKnown'
  BY <1>10 DEF Reaches, KindKnown, Expected
<1> QED BY <1>8, <1>9, <1>11 DEF IInv

-----------------------------------------------------------------------------
(* Writing.                                                                *)

\* A file that changes stays where it is.
LEMMA ChangeStep ==
  ASSUME IInv, UNCHANGED <<ctx, faults, file, asked, adrift>>, TreeOK',
         \A n \in Nodes : inode'[n].at = inode[n].at /\ inode'[n].kind = inode[n].kind,
         call' \in [Handles -> Call],
         \A h \in Handles : call'[h] # NoCall => ctx[h] # Closed,
         \A h \in Handles : call[h].step = "rename" \/ call'[h].step = "rename" =>
           call'[h] = call[h]
  PROVE  IInv'
<1>1. KindsStay
  BY DEF KindsStay
<1>2. faults' \in 0..MaxFaults /\ adrift' \subseteq Handles
  BY DEF IInv, TypeOK
<1>3. \A h \in Handles : call'[h].step = "rename" => call'[h].to \in Entries
  BY DEF IInv, Contexts
<1>4. ASSUME NEW h \in Handles, ctx[h] # Closed, h \notin adrift'
      PROVE  h \notin adrift /\ inode'[file[h]].at = Expected(h)'
  <2>1. Expected(h)' = Expected(h)
    BY DEF Expected
  <2> QED BY <1>4, <2>1, OpenHandle
<1> QED BY <1>1, <1>2, <1>3, <1>4, SameFiles

\* What the write request does.
LEMMA SendWriteChanges ==
  ASSUME IInv, NEW h \in Handles, ctx[h] # Closed, NEW most \in 0..MaxSize, SendWrite(h, most)
  PROVE  /\ TreeOK' /\ Reached(h) \in Nodes /\ inode[Reached(h)].at = ctx[h].path
         /\ \A n \in Nodes : inode'[n].at = inode[n].at /\ inode'[n].kind = inode[n].kind
         /\ \E reached \in 0..MaxSize :
              /\ inode' = [inode EXCEPT ![Reached(h)].size = reached]
              /\ reached > inode[Reached(h)].size => reached <= most
<1>1. TreeOK /\ ctx[h].path \in Paths
  BY OpenHandle, EntryTyped DEF IInv, TypeOK
<1>2. Reached(h) \in Nodes /\ inode[Reached(h)].at = ctx[h].path
  BY <1>1, NodeAtPath DEF SendWrite, OpenError, LookupError, Reached
<1> DEFINE old == inode[Reached(h)].size
<1>3. old \in 0..MaxSize /\ MaxSize \in Nat
  BY <1>1, <1>2, PathBoundsAssumption DEF TreeOK, Inode
<1>4. PICK reached \in old..(IF most > old THEN most ELSE old) :
        inode' = [inode EXCEPT ![Reached(h)].size = reached]
  BY DEF SendWrite
<1>5. reached \in 0..MaxSize /\ (reached > old => reached <= most)
  <2> HIDE DEF old
  <2> QED BY <1>3
<1> QED BY <1>1, <1>2, <1>4, <1>5, ChangedTree

\* No change at all.
LEMMA NoChange ==
  ASSUME IInv, UNCHANGED inode
  PROVE  TreeOK' /\ \A n \in Nodes : inode'[n].at = inode[n].at /\ inode'[n].kind = inode[n].kind
BY DEF IInv, TypeOK, TreeOK

LEMMA CallsKept ==
  ASSUME IInv, UNCHANGED call
  PROVE  /\ call' \in [Handles -> Call]
         /\ \A h \in Handles : call'[h] # NoCall => ctx[h] # Closed
         /\ \A h \in Handles : call'[h] = call[h]
BY DEF IInv, TypeOK, Contexts, Call

LEMMA WriteStep ==
  ASSUME IInv, NEW h \in Handles, Write(h)
  PROVE  IInv'
<1>1. ctx[h] # Closed /\ SendWrite(h, MaxSize) /\ MaxSize \in 0..MaxSize
  BY PathBoundsAssumption DEF Write, Ready
<1>2. TreeOK' /\ \A n \in Nodes : inode'[n].at = inode[n].at /\ inode'[n].kind = inode[n].kind
  BY <1>1, SendWriteChanges
<1> QED BY <1>2, CallsKept, ChangeStep DEF Write

\* The first of the two requests of a constrained write only looks.
LEMMA WriteConstrainedStep ==
  ASSUME IInv, NEW h \in Handles, WriteConstrained(h)
  PROVE  IInv'
<1>1. /\ ctx[h] # Closed /\ call[h] = NoCall /\ UNCHANGED <<inode, ctx, faults, file, asked, adrift>>
      /\ Present(ctx[h].path)
      /\ call' = [call EXCEPT ![h] = [NoCall EXCEPT !.step = "write", !.seen = inode[Reached(h)].size]]
  BY DEF WriteConstrained, Ready
<1>2. TreeOK /\ ctx[h].path \in Paths
  BY <1>1, OpenHandle, EntryTyped DEF IInv, TypeOK
<1>3. Reached(h) \in Nodes
  BY <1>1, <1>2, NodeAtPath DEF Reached
<1>4. inode[Reached(h)].size \in 0..MaxSize
  BY <1>2, <1>3 DEF TreeOK, Inode
<1>5. call \in [Handles -> Call]
  BY DEF IInv, TypeOK, Call
<1> DEFINE c == [NoCall EXCEPT !.step = "write", !.seen = inode[Reached(h)].size]
<1>6. c \in Call /\ c.step = "write"
  BY <1>4, RecordsTyped
<1> HIDE DEF c
<1>7. call' \in [Handles -> Call] /\ call'[h].step = "write" /\ call[h].step = "none"
  BY <1>1, <1>5, <1>6, RecordsTyped DEF c
<1>8. \A g \in Handles \ {h} : call'[g] = call[g]
  BY <1>1, <1>5
<1>9. /\ \A g \in Handles : call'[g] # NoCall => ctx[g] # Closed
      /\ \A g \in Handles : call[g].step = "rename" \/ call'[g].step = "rename" => call'[g] = call[g]
  BY <1>1, <1>7, <1>8 DEF IInv, Contexts
<1> QED BY <1>1, <1>7, <1>9, NoChange, ChangeStep

LEMMA WriteRestStep ==
  ASSUME IInv, NEW h \in Handles, WriteRest(h)
  PROVE  IInv'
<1>1. /\ call[h].step = "write" /\ UNCHANGED <<ctx, faults, file, asked, adrift>>
      /\ SendWrite(h, call[h].seen) \/ UNCHANGED inode
      /\ call' = [call EXCEPT ![h] = NoCall]
  BY DEF WriteRest
<1>2. call \in [Handles -> Call]
  BY DEF IInv, TypeOK, Call
<1>3. ctx[h] # Closed /\ call[h].seen \in 0..MaxSize
  BY <1>1, <1>2, RecordsTyped DEF IInv, Contexts, Call
<1>4. TreeOK' /\ \A n \in Nodes : inode'[n].at = inode[n].at /\ inode'[n].kind = inode[n].kind
  BY <1>1, <1>3, SendWriteChanges, NoChange
<1>5. /\ call' \in [Handles -> Call] /\ call'[h] = NoCall
      /\ \A g \in Handles \ {h} : call'[g] = call[g]
  BY <1>1, <1>2, RecordsTyped
<1>6. /\ \A g \in Handles : call'[g] # NoCall => ctx[g] # Closed
      /\ \A g \in Handles : call[g].step = "rename" \/ call'[g].step = "rename" => call'[g] = call[g]
  BY <1>1, <1>5, RecordsTyped DEF IInv, Contexts
<1> QED BY <1>1, <1>4, <1>5, <1>6, ChangeStep

LEMMA SetStep ==
  ASSUME IInv, NEW h \in Handles,
         \/ \E size \in 0..MaxSize : SetSize(h, size)
         \/ \E readonly \in BOOLEAN : SetReadonly(h, readonly)
  PROVE  IInv'
<1>1. /\ ctx[h] # Closed /\ Present(ctx[h].path)
      /\ UNCHANGED <<ctx, call, faults, file, asked, adrift>>
  BY DEF SetSize, SetReadonly, Ready, OpenError, LookupError
<1>2. TreeOK /\ ctx[h].path \in Paths
  BY <1>1, OpenHandle, EntryTyped DEF IInv, TypeOK
<1>3. Reached(h) \in Nodes
  BY <1>1, <1>2, NodeAtPath DEF Reached
<1>4. \/ \E size \in 0..MaxSize : inode' = [inode EXCEPT ![Reached(h)].size = size]
      \/ \E readonly \in BOOLEAN : inode' = [inode EXCEPT ![Reached(h)].ro = readonly]
  BY DEF SetSize, SetReadonly
<1>5. TreeOK' /\ \A n \in Nodes : inode'[n].at = inode[n].at /\ inode'[n].kind = inode[n].kind
  BY <1>2, <1>3, <1>4, ChangedTree
<1> QED BY <1>1, <1>5, CallsKept, ChangeStep

-----------------------------------------------------------------------------
(* Renaming.                                                               *)

\* What the rename request does to the exported directory.
LEMMA RenameEffect ==
  ASSUME IInv, NEW h \in Handles, NEW q \in Entries, NEW replace \in BOOLEAN,
         Rename(h, q, replace)
  PROVE  /\ ctx[h] # Closed /\ call[h] = NoCall /\ ctx[h].path \in Entries
         /\ Present(ctx[h].path) /\ TreeOK' /\ KindsStay
         /\ \/ /\ RenameWorks(ctx[h].path, q) /\ Fits(ctx[h].path, q)
               /\ ~IsPrefix(ctx[h].path, q) /\ ~IsPrefix(q, ctx[h].path)
               /\ inode' = Replaced(ctx[h].path, q)
            \/ /\ ~RenameWorks(ctx[h].path, q)
               /\ \E gone \in SUBSET Under(q) : inode' = Without(gone)
<1> DEFINE p == ctx[h].path
<1>1. ctx[h] # Closed /\ call[h] = NoCall /\ p \in Entries /\ p \in Paths /\ TreeOK
  BY OpenHandle, EntryTyped DEF Rename, Ready, IInv, TypeOK
<1>2. RenameError(p, q, replace) = "ok" /\ Fits(p, q)
  BY DEF Rename
<1>3. Present(p) /\ Present(Parent(q)) /\ Parent(q) \in Paths
  BY <1>2, EntryTyped DEF RenameError, LookupError
<1>4. CASE RenameWorks(p, q) /\ inode' = [n \in Nodes |-> IF n \in Under(q) THEN NoInode
                                                        ELSE Moved(p, q)[n]]
  <2>1. ~IsPrefix(p, q) /\ ~IsPrefix(q, p) /\ ~IsFile(Parent(q)) /\ inode' = Replaced(p, q)
    BY <1>4 DEF RenameWorks, Replaced
  <2>2. NodeAt(Parent(q)) \in Nodes
    BY <1>1, <1>3, NodeAtPath
  <2>3. inode[NodeAt(Parent(q))].kind \in {"file", "dir"}
    BY <1>1, <2>2 DEF TreeOK, Inode
  <2>4. IsDir(Parent(q))
    BY <1>3, <2>1, <2>3 DEF IsFile, IsDir
  <2>5. TreeOK' /\ KindsStay
    BY <1>1, <1>2, <2>1, <2>4, ReplacedTree, ReplacedKinds
  <2> QED BY <1>1, <1>2, <1>3, <1>4, <2>1, <2>5
<1>5. CASE ~RenameWorks(p, q) /\ inode' \in PartlyCleared(q)
  <2>1. PICK gone \in SUBSET Under(q) :
          inode' = Without(gone) /\ \A n \in gone : Under(inode[n].at) \subseteq gone
    BY <1>5 DEF PartlyCleared
  <2>2. gone \in SUBSET (Nodes \ {Root}) /\ \A n \in gone : inode[n].at # Nowhere
    BY <1>1, UnderLeaf DEF Under
  <2>3. TreeOK' /\ KindsStay
    BY <1>1, <2>1, <2>2, WithoutTree, WithoutKinds
  <2> QED BY <1>1, <1>3, <1>5, <2>1, <2>3
<1> QED BY <1>4, <1>5 DEF Rename

\* Until the context is given the new path, the file is where it is going to say.
LEMMA RenameStep ==
  ASSUME IInv, NEW h \in Handles, NEW q \in Entries, NEW replace \in BOOLEAN,
         Rename(h, q, replace)
  PROVE  IInv'
<1> DEFINE p == ctx[h].path
<1>1. /\ ctx[h] # Closed /\ call[h] = NoCall /\ p \in Entries /\ p \in Paths /\ TreeOK
      /\ Present(p) /\ TreeOK' /\ KindsStay /\ UNCHANGED <<ctx, file, asked>>
      /\ file[h] \in Nodes
  BY RenameEffect, EntryTyped, OpenHandle DEF Rename, IInv, TypeOK
<1>2. faults' \in 0..MaxFaults
  BY BoundsAssumption DEF Rename, Answered, Lose, IInv, TypeOK
<1>3. call \in [Handles -> Call] /\ q \in Paths
  BY EntryTyped DEF IInv, TypeOK, Call
<1>4. CASE UNCHANGED call /\ Drift({})
  <2>1. adrift' \subseteq Handles
    BY <1>4 DEF Drift, IInv, TypeOK
  <2>2. \A g \in Handles : /\ call'[g].step = "rename" => call'[g].to \in Entries
    BY <1>4 DEF IInv, Contexts
  <2>3. ASSUME NEW g \in Handles, ctx[g] # Closed, g \notin adrift'
        PROVE  g \notin adrift /\ inode'[file[g]].at = Expected(g)'
    <3>1. file'[g] # NoNode /\ Expected(g)' = Expected(g)
      BY <1>1, <1>4, <2>3 DEF Expected, IInv, TypeOK
    <3> QED BY <1>4, <2>3, <3>1, DriftKeeps
  <2> QED BY <1>1, <1>2, <1>4, <2>1, <2>2, <2>3, CallsKept, SameFiles
<1>5. CASE /\ RenameWorks(p, q) /\ inode' = Replaced(p, q)
           /\ call' = [call EXCEPT ![h] = [NoCall EXCEPT !.step = "rename", !.to = q]]
           /\ Drift(IF Reached(h) = file[h] THEN {h} ELSE {})
  <2> DEFINE c == [NoCall EXCEPT !.step = "rename", !.to = q]
  <2>1. c \in Call /\ c.step = "rename" /\ c.to = q
    BY <1>3, RecordsTyped
  <2> HIDE DEF c
  <2>2. /\ call' \in [Handles -> Call] /\ call'[h].step = "rename" /\ call'[h].to = q
        /\ \A g \in Handles \ {h} : call'[g] = call[g]
    BY <1>3, <1>5, <2>1 DEF c
  <2>3. /\ \A g \in Handles : call'[g] # NoCall => ctx[g] # Closed
        /\ \A g \in Handles : call'[g].step = "rename" => call'[g].to \in Entries
    BY <1>1, <2>2 DEF IInv, Contexts
  <2>4. adrift' \subseteq Handles
    BY <1>5 DEF Drift, IInv, TypeOK
  <2>5. ASSUME NEW g \in Handles, ctx[g] # Closed, g \notin adrift', g # h
        PROVE  g \notin adrift /\ inode'[file[g]].at = Expected(g)'
    <3>1. file'[g] # NoNode /\ Expected(g)' = Expected(g)
      BY <1>1, <2>2, <2>5 DEF Expected, IInv, TypeOK
    <3>2. g \notin IF Reached(h) = file[h] THEN {h} ELSE {}
      BY <2>5
    <3> QED BY <1>5, <2>5, <3>1, <3>2, DriftKeeps
  <2>6. ASSUME h \notin adrift'
        PROVE  h \notin adrift /\ inode'[file[h]].at = q
    <3>1. Expected(h) = p /\ file'[h] # NoNode
      BY <1>1, RecordsTyped DEF Expected, IInv, TypeOK
    <3>2. h \notin adrift
      BY <1>5, <2>6, <3>1 DEF Drift
    <3>3. inode[file[h]].at = p
      BY <1>1, <3>1, <3>2, OpenHandle
    <3>4. ~IsPrefix(p, q) /\ ~IsPrefix(q, p) /\ Fits(p, q)
      BY <1>5, RenameEffect
    <3> HIDE DEF p
    <3>5. file[h] \in Under(p) /\ p \in Seq(Names) /\ q \in Seq(Names) /\ q # <<>>
      BY <1>1, <3>3, EntryTyped, PrefixNames DEF Under
    <3>6. inode'[file[h]].at = Place(p, q, p)
      BY <1>1, <1>5, <3>3, <3>4, <3>5, ReplacedNodes
    <3> QED BY <3>2, <3>5, <3>6, PlaceFront, PrefixNames
  <2>7. ASSUME NEW g \in Handles, ctx[g] # Closed, g \notin adrift'
        PROVE  g \notin adrift /\ inode'[file[g]].at = Expected(g)'
    BY <2>2, <2>5, <2>6, <2>7 DEF Expected
  <2> HIDE DEF p
  <2> QED BY <1>1, <1>2, <2>2, <2>3, <2>4, <2>7, SameFiles
<1>6. inode' = Replaced(p, q) <=> inode' = [n \in Nodes |-> IF n \in Under(q) THEN NoInode
                                                          ELSE Moved(p, q)[n]]
  BY DEF Replaced
<1> QED BY <1>4, <1>5, <1>6 DEF Rename

\* The context is given the path at which its file already is.
LEMMA SetPathStep ==
  ASSUME IInv, NEW h \in Handles, SetPath(h)
  PROVE  IInv'
<1>1. /\ call[h].step = "rename" /\ UNCHANGED <<inode, faults, file, asked, adrift>>
      /\ ctx' = [ctx EXCEPT ![h].path = call[h].to] /\ call' = [call EXCEPT ![h] = NoCall]
  BY DEF SetPath
<1>2. call[h].to \in Entries /\ call[h] # NoCall /\ ctx[h] # Closed /\ call[h].to # Nowhere
  BY <1>1, RecordsTyped, EntryTyped DEF IInv, Contexts
<1>3. TreeOK' /\ ctx \in [Handles -> Context] /\ call \in [Handles -> Call]
  BY <1>1 DEF IInv, TypeOK, TreeOK, Context, Call
<1>4. /\ ctx'[h] \in Context /\ ctx'[h].path = call[h].to /\ ctx'[h].kind = ctx[h].kind
      /\ ctx'[h].pending = ctx[h].pending /\ call'[h] = NoCall
      /\ \A g \in Handles \ {h} : ctx'[g] = ctx[g] /\ call'[g] = call[g]
  BY <1>1, <1>2, <1>3 DEF Context
<1>5. ctx' \in [Handles -> Context] /\ call' \in [Handles -> Call]
  <2>1. \A g \in Handles : ctx'[g] \in Context
    BY <1>3, <1>4
  <2>2. ctx' = [g \in Handles |-> ctx'[g]]
    BY <1>1, <1>3
  <2>3. call' \in [Handles -> Call]
    BY <1>1, <1>3, RecordsTyped
  <2> QED BY <2>1, <2>2, <2>3
<1>6. ctx'[h] # Closed
  BY <1>2, <1>4, RecordsTyped
<1>7. \A g \in Handles : ctx'[g] = Closed <=> ctx[g] = Closed
  BY <1>2, <1>4, <1>6
<1>8. TypeOK'
  BY <1>1, <1>3, <1>5, <1>7 DEF IInv, TypeOK, Context, Call
<1>9. Contexts'
  <2> SUFFICES ASSUME NEW g \in Handles
               PROVE  /\ ctx'[g].path = Nowhere => ctx'[g] = Closed
                      /\ ctx'[g].pending => ctx'[g].kind = "dir"
                      /\ call'[g] # NoCall => ctx'[g] # Closed
                      /\ call'[g].step = "rename" => call'[g].to \in Entries
    BY DEF Contexts
  <2>1. CASE g = h
    <3>1. ctx[g].pending => ctx[g].kind = "dir"
      BY DEF IInv, Contexts
    <3> QED BY <1>2, <1>4, <2>1, <3>1, RecordsTyped
  <2>2. CASE g # h
    BY <1>4, <2>2 DEF IInv, Contexts
  <2> QED BY <2>1, <2>2
<1>10. \A g \in Handles : Expected(g)' = Expected(g)
  <2> TAKE g \in Handles
  <2>1. CASE g = h
    <3>1. NoCall.step # "rename"
      BY DEF NoCall
    <3> QED BY <1>1, <1>4, <2>1, <3>1 DEF Expected
  <2>2. CASE g # h
    BY <1>4, <2>2 DEF Expected
  <2> QED BY <2>1, <2>2
<1>11. Reaches'
  BY <1>1, <1>7, <1>10 DEF IInv, Reaches, Expected
<1>12. KindKnown'
  BY <1>1, <1>4, <1>7 DEF IInv, KindKnown
<1> QED BY <1>8, <1>9, <1>11, <1>12 DEF IInv

-----------------------------------------------------------------------------
(* The rest of the machine, and all together.                              *)

LEMMA LocalStep ==
  ASSUME IInv, Local
  PROVE  IInv'
<1>1. UNCHANGED <<ctx, call, file, asked>> /\ Drift({}) /\ TreeOK
  BY DEF Local, IInv, TypeOK
<1>2. TreeOK' /\ KindsStay
  BY <1>1, ElsewhereTree, ElsewhereKinds DEF Local
<1>3. faults' \in 0..MaxFaults
  BY BoundsAssumption DEF Local, IInv, TypeOK
<1>4. adrift' \subseteq Handles
  BY <1>1 DEF Drift, IInv, TypeOK
<1>5. \A g \in Handles : call'[g].step = "rename" => call'[g].to \in Entries
  BY <1>1 DEF IInv, Contexts
<1>6. ASSUME NEW g \in Handles, ctx[g] # Closed, g \notin adrift'
      PROVE  g \notin adrift /\ inode'[file[g]].at = Expected(g)'
  <2>1. file'[g] # NoNode /\ Expected(g)' = Expected(g)
    BY <1>1, <1>6 DEF Expected, IInv, TypeOK
  <2> QED BY <1>1, <1>6, <2>1, DriftKeeps
<1> QED BY <1>1, <1>2, <1>3, <1>4, <1>5, <1>6, CallsKept, SameFiles

LEMMA StutterStep ==
  ASSUME IInv, UNCHANGED vars
  PROVE  IInv'
<1>1. /\ UNCHANGED <<inode, ctx, call, faults, file, asked, adrift>>
      /\ \A h \in Handles : call[h].step = "rename" \/ call'[h].step = "rename" => call'[h] = call[h]
  BY DEF vars
<1> QED BY <1>1, NoChange, CallsKept, ChangeStep

LEMMA Step == IInv /\ [Next]_vars => IInv'
<1> SUFFICES ASSUME IInv, [Next]_vars PROVE IInv'
  OBVIOUS
<1>1. ASSUME NEW h \in Handles, \E p \in Entries : Open(h, p)
      PROVE  IInv'
  BY <1>1, OpenStep
<1>2. ASSUME NEW h \in Handles, \E p \in Entries, k \in {"file", "dir"} : Create(h, p, k)
      PROVE  IInv'
  BY <1>2, CreateStep
<1>3. ASSUME NEW h \in Handles, \E delete \in BOOLEAN : SetDelete(h, delete)
      PROVE  IInv'
  BY <1>3, SetDeleteStep
<1>4. ASSUME NEW h \in Handles, Cleanup(h)
      PROVE  IInv'
  BY <1>4, CleanupStep
<1>5. ASSUME NEW h \in Handles, Write(h) \/ WriteConstrained(h) \/ WriteRest(h)
      PROVE  IInv'
  BY <1>5, WriteStep, WriteConstrainedStep, WriteRestStep
<1>6. ASSUME NEW h \in Handles, \/ \E size \in 0..MaxSize : SetSize(h, size)
                                \/ \E readonly \in BOOLEAN : SetReadonly(h, readonly)
      PROVE  IInv'
  BY <1>6, SetStep
<1>7. ASSUME NEW h \in Handles, \E q \in Entries, replace \in BOOLEAN : Rename(h, q, replace)
      PROVE  IInv'
  BY <1>7, RenameStep
<1>8. ASSUME NEW h \in Handles, SetPath(h)
      PROVE  IInv'
  BY <1>8, SetPathStep
<1> QED
  BY <1>1, <1>2, <1>3, <1>4, <1>5, <1>6, <1>7, <1>8, LocalStep, StutterStep DEF Next

\* The exported directory stays a tree under the callbacks and what other processes
\* do in between, and the contexts of open files stay records of paths in it.
THEOREM TypeCorrect == Spec => []TypeOK
<1>1. IInv => TypeOK
  BY DEF IInv
<1> QED BY Initially, Step, <1>1, PTL DEF Spec

\* A context leads to the file it was opened on, through any renames and
\* replacements by any handles, unless something other than the handle itself has
\* moved or removed that file.
THEOREM ContextsReach == Spec => []Reaches
<1>1. IInv => Reaches
  BY DEF IInv
<1> QED BY Initially, Step, <1>1, PTL DEF Spec

-----------------------------------------------------------------------------
(* Constrained writes.                                                     *)

\* Only its second request ends a constrained write.
LEMMA WriteEnds ==
  ASSUME IInv, [Next]_vars, NEW h \in Handles, call[h].step = "write", call'[h] = NoCall
  PROVE  WriteRest(h)
<1>1. call[h] # NoCall /\ call[h] # call'[h] /\ call \in [Handles -> Call]
  BY RecordsTyped DEF IInv, TypeOK, Call
<1>2. ~UNCHANGED call
  BY <1>1
<1>3. ASSUME NEW g \in Handles, WriteConstrained(g)
      PROVE  FALSE
  BY <1>1, <1>3 DEF WriteConstrained, Ready
<1>4. ASSUME NEW g \in Handles, SetPath(g)
      PROVE  FALSE
  BY <1>1, <1>4 DEF SetPath
<1>5. ASSUME NEW g \in Handles, NEW q, NEW replace, Rename(g, q, replace)
      PROVE  FALSE
  <2>1. call[g] = NoCall /\ (UNCHANGED call \/ \E c : call' = [call EXCEPT ![g] = c])
    BY <1>5 DEF Rename, Ready
  <2> QED BY <1>1, <2>1
<1>6. ASSUME NEW g \in Handles, WriteRest(g), g # h
      PROVE  FALSE
  BY <1>1, <1>6 DEF WriteRest
<1>7. ASSUME NEW g \in Handles,
             \/ \E p \in Entries : Open(g, p)
             \/ \E p \in Entries, k \in {"file", "dir"} : Create(g, p, k)
             \/ \E delete \in BOOLEAN : SetDelete(g, delete)
             \/ Cleanup(g) \/ Write(g)
             \/ \E size \in 0..MaxSize : SetSize(g, size)
             \/ \E readonly \in BOOLEAN : SetReadonly(g, readonly)
      PROVE  FALSE
  BY <1>2, <1>7 DEF Open, Create, SetDelete, Cleanup, Write, SetSize, SetReadonly
<1>8. CASE Local \/ UNCHANGED vars
  BY <1>2, <1>8 DEF Local, vars
<1> QED BY <1>3, <1>4, <1>5, <1>6, <1>7, <1>8 DEF Next

\* A write that must not extend the file, made of two requests, never extends it
\* beyond the size it had at the first, however the file has changed between them.
THEOREM ConstrainedWrites == Spec => ConstrainedStays
<1>1. IInv /\ [Next]_vars =>
        [\A h \in Handles, n \in Nodes :
           call[h].step = "write" /\ call'[h] = NoCall /\ inode'[n].size > inode[n].size =>
             inode'[n].size <= call[h].seen]_vars
  <2> SUFFICES ASSUME IInv, [Next]_vars, NEW h \in Handles, NEW n \in Nodes,
                      call[h].step = "write", call'[h] = NoCall,
                      inode'[n].size > inode[n].size
               PROVE  inode'[n].size <= call[h].seen
    OBVIOUS
  <2>1. WriteRest(h)
    BY WriteEnds
  <2>2. inode \in [Nodes -> Inode] /\ call[h] \in Call
    BY DEF IInv, TypeOK, TreeOK, Call
  <2>3. inode[n].size \in 0..MaxSize /\ call[h].seen \in 0..MaxSize /\ call[h] # NoCall
    BY <2>2, RecordsTyped DEF Inode, Call
  <2>4. ctx[h] # Closed
    BY <2>3 DEF IInv, Contexts
  <2>5. CASE UNCHANGED inode
    BY <2>3, <2>5
  <2>6. CASE SendWrite(h, call[h].seen)
    <3>1. PICK reached \in 0..MaxSize :
            /\ inode' = [inode EXCEPT ![Reached(h)].size = reached]
            /\ reached > inode[Reached(h)].size => reached <= call[h].seen
      BY <2>3, <2>4, <2>6, SendWriteChanges
    <3>2. CASE n = Reached(h)
      <4>1. inode'[n].size = reached
        BY <2>2, <3>1, <3>2 DEF Inode
      <4> QED BY <3>1, <3>2, <4>1
    <3>3. CASE n # Reached(h)
      <4>1. inode'[n].size = inode[n].size
        BY <2>2, <3>1, <3>3
      <4> QED BY <2>3, <4>1
    <3> QED BY <3>2, <3>3
  <2> QED BY <2>1, <2>5, <2>6 DEF WriteRest
<1> QED BY Initially, Step, <1>1, PTL DEF Spec, ConstrainedStays

-----------------------------------------------------------------------------
(* Removal on closing.                                                     *)

\* Only a clean-up closes a handle.
LEMMA HandleCloses ==
  ASSUME IInv, [Next]_vars, NEW h \in Handles, ctx[h] # Closed, ctx'[h] = Closed
  PROVE  Cleanup(h)
<1>1. ctx \in [Handles -> Context] /\ ctx[h].path # Nowhere /\ ctx' # ctx
  BY OpenHandle, RecordsTyped DEF IInv, TypeOK, Context
<1>2. ctx'[h].path = Nowhere
  BY RecordsTyped
<1>3. ASSUME NEW g \in Handles, NEW p, NEW k, NEW n, ctx[g] = Closed, Bind(g, p, k, n)
      PROVE  FALSE
  BY <1>1, <1>3 DEF Bind
<1>4. ASSUME NEW g \in Handles, \E delete \in BOOLEAN : SetDelete(g, delete)
      PROVE  FALSE
  <2>1. PICK delete \in BOOLEAN : ctx' = [ctx EXCEPT ![g].pending = delete]
    BY <1>1, <1>4 DEF SetDelete
  <2>2. ctx'[h].path = ctx[h].path
    BY <1>1, <2>1 DEF Context
  <2> QED BY <1>1, <1>2, <2>2
<1>5. ASSUME NEW g \in Handles, SetPath(g)
      PROVE  FALSE
  <2>1. ctx' = [ctx EXCEPT ![g].path = call[g].to] /\ call[g].to # Nowhere
    BY <1>5, EntryTyped DEF SetPath, IInv, Contexts
  <2>2. ctx'[h].path \in {ctx[h].path, call[g].to}
    BY <1>1, <2>1 DEF Context
  <2> QED BY <1>1, <1>2, <2>1, <2>2
<1>6. ASSUME NEW g \in Handles, Cleanup(g), g # h
      PROVE  FALSE
  BY <1>1, <1>6 DEF Cleanup
<1>7. ASSUME NEW g \in Handles,
             \/ \E p \in Entries : Open(g, p)
             \/ \E p \in Entries, k \in {"file", "dir"} : Create(g, p, k)
      PROVE  FALSE
  BY <1>1, <1>3, <1>7 DEF Open, Create, MayOpen
<1>8. ASSUME NEW g \in Handles,
             \/ Write(g) \/ WriteConstrained(g) \/ WriteRest(g)
             \/ \E size \in 0..MaxSize : SetSize(g, size)
             \/ \E readonly \in BOOLEAN : SetReadonly(g, readonly)
             \/ \E q \in Entries, replace \in BOOLEAN : Rename(g, q, replace)
      PROVE  FALSE
  BY <1>1, <1>8 DEF Write, WriteConstrained, WriteRest, SetSize, SetReadonly, Rename
<1>9. CASE Local \/ UNCHANGED vars
  BY <1>1, <1>9 DEF Local, vars
<1> QED BY <1>4, <1>5, <1>6, <1>7, <1>8, <1>9 DEF Next

\* A directory whose removal is pending goes when its handle is closed, unless the
\* answer is lost, the directory above it is read-only or something has come to be
\* in it.
THEOREM RemovalsHappen == Spec => RemovalMissed
<1>1. IInv /\ [Next]_vars =>
        [\A h \in Handles :
           ctx[h] # Closed /\ ctx'[h] = Closed /\ ctx[h].pending /\ h \notin adrift
             /\ inode'[file[h]] # NoInode =>
           \/ faults' > faults
           \/ Locked(Parent(ctx[h].path))
           \/ Under(ctx[h].path) # {file[h]}]_vars
  <2> SUFFICES ASSUME IInv, [Next]_vars, NEW h \in Handles,
                      ctx[h] # Closed, ctx'[h] = Closed, ctx[h].pending, h \notin adrift,
                      inode'[file[h]] # NoInode
               PROVE  \/ faults' > faults
                      \/ Locked(Parent(ctx[h].path))
                      \/ Under(ctx[h].path) # {file[h]}
    OBVIOUS
  <2> DEFINE p == ctx[h].path
  <2>1. Cleanup(h) /\ call[h] = NoCall
    BY HandleCloses DEF Cleanup, Ready
  <2>2. /\ TreeOK /\ p \in Entries /\ p \in Paths /\ file[h] \in Nodes
        /\ inode[file[h]].at = p /\ inode[file[h]].kind = ctx[h].kind
    BY <2>1, OpenHandle, EntryTyped, RecordsTyped DEF Expected, IInv, TypeOK
  <2>3. ctx[h].kind = "dir"
    BY DEF IInv, Contexts
  <2>4. Present(p) /\ NodeAt(p) = file[h] /\ ~IsFile(p)
    <3>1. Present(p)
      BY <2>2 DEF Present
    <3>2. NodeAt(p) = file[h]
      BY <2>2, <3>1, NodeAtPath
    <3> QED BY <2>2, <2>3, <3>1, <3>2 DEF IsFile
  <2>5. RmdirError(p) = "ok" \/ Locked(Parent(p)) \/ Under(p) # {file[h]}
    BY <2>4 DEF RmdirError
  <2>6. CASE RmdirError(p) = "ok" /\ inode' = Without({Reached(h)})
    BY <2>2, <2>4, <2>6 DEF Without, Reached
  <2>7. CASE Lose
    BY <2>7, BoundsAssumption DEF Lose, IInv, TypeOK
  <2>8. RemoveError(h) = RmdirError(p)
    BY <2>3 DEF RemoveError
  <2> QED BY <2>1, <2>5, <2>6, <2>7, <2>8 DEF Cleanup
<1> QED BY Initially, Step, <1>1, PTL DEF Spec, RemovalMissed

-----------------------------------------------------------------------------
(* While no handle is adrift, a context is as good as a file handle.       *)

\* The abstract specification means the same by the exported directory.
LEMMA IdealTree ==
  ASSUME NEW p, NEW q, NEW gone
  PROVE  /\ Ideal!Entries = Entries /\ Ideal!NoInode = NoInode
         /\ Ideal!Under(p) = Under(p) /\ Ideal!Moved(p, q) = Moved(p, q)
         /\ Ideal!Without(gone) = Without(gone)
<1>1. Ideal!Entries = Entries
  BY DEF Ideal!Entries, Ideal!Paths, Ideal!BoundedSeq, Ideal!SeqOf, Entries, Paths, BoundedSeq,
         SeqOf
<1>2. Ideal!NoInode = NoInode
  BY DEF Ideal!NoInode, NoInode
<1>3. Ideal!Under(p) = Under(p)
  BY DEF Ideal!Under, Under, Ideal!IsPrefix, IsPrefix
<1>4. Ideal!Moved(p, q) = Moved(p, q)
  BY <1>2, <1>3 DEF Ideal!Moved, Moved
<1>5. Ideal!Without(gone) = Without(gone)
  BY <1>2 DEF Ideal!Without, Without
<1> QED BY <1>1, <1>2, <1>3, <1>4, <1>5

\* Where the file of an open handle is, while no rename is in progress.
LEMMA SteadyHandle ==
  ASSUME IInv, adrift = {}, NEW h \in Handles, ctx[h] # Closed
  PROVE  /\ TreeOK /\ file[h] \in Nodes /\ ctx[h].path \in Entries
         /\ inode[file[h]].at = Expected(h) /\ inode[file[h]].at # Nowhere
         /\ call[h].step # "rename" => /\ inode[file[h]].at = ctx[h].path
                                       /\ Reached(h) = file[h]
<1>1. /\ TreeOK /\ file[h] \in Nodes /\ ctx[h].path \in Entries /\ ctx[h].path \in Paths
      /\ inode[file[h]].at = Expected(h) /\ inode[file[h]].at # Nowhere
  BY OpenHandle, EntryTyped DEF IInv, TypeOK
<1>2. ASSUME call[h].step # "rename"
      PROVE  inode[file[h]].at = ctx[h].path /\ Reached(h) = file[h]
  <2>1. inode[file[h]].at = ctx[h].path
    BY <1>1, <1>2 DEF Expected
  <2>2. Present(ctx[h].path)
    BY <1>1, <2>1 DEF Present
  <2> QED BY <1>1, <2>1, <2>2, NodeAtPath DEF Reached
<1> QED BY <1>1, <1>2

\* A step in which nothing goes wrong: no answer is lost and nobody else acts.
LEMMA NoFaults ==
  ASSUME IInv, faults' = faults
  PROVE  ~Lose /\ ~Local
BY DEF IInv, TypeOK, Lose, Local

\* Opening and creating attach the handle to the file that is there by then.
LEMMA IdealOpen ==
  ASSUME IInv, faults' = faults, NEW h \in Handles, NEW p \in Entries,
         Open(h, p) \/ \E k \in {"file", "dir"} : Create(h, p, k)
  PROVE  \E n \in Nodes : Ideal!Attach(h, n)
<1>1. MayOpen(h, p) /\ UNCHANGED asked
  BY DEF Open, Create
<1>2. file[h] = NoNode /\ TreeOK /\ p \in Paths /\ p # Nowhere
  BY <1>1, EntryTyped DEF MayOpen, IInv, TypeOK
<1>3. \E n \in Nodes :
        /\ file' = [file EXCEPT ![h] = n]
        /\ \/ inode[n] # NoInode /\ UNCHANGED inode
           \/ /\ inode[n] = NoInode
              /\ \E k \in {"file", "dir"} : inode' = [inode EXCEPT ![n] = NewInode(p, k)]
  <2>1. CASE Open(h, p)
    <3> DEFINE n == NodeAt(p)
    <3>1. n \in Nodes /\ inode[n].at = p
      BY <1>2, <2>1, NodeAtPath DEF Open
    <3>2. file' = [file EXCEPT ![h] = n] /\ UNCHANGED inode
      BY <2>1 DEF Open, Bind
    <3>3. inode[n] # NoInode
      BY <1>2, <3>1 DEF NoInode
    <3> HIDE DEF n
    <3> QED BY <3>1, <3>2, <3>3
  <2>2. CASE \E k \in {"file", "dir"} : Create(h, p, k)
    <3>1. PICK k \in {"file", "dir"}, n \in Nodes :
            /\ inode[n] = NoInode /\ inode' = [inode EXCEPT ![n] = NewInode(p, k)]
            /\ file' = [file EXCEPT ![h] = n]
      BY <2>2, NoFaults DEF Create, Bind
    <3> QED BY <3>1
  <2> QED BY <2>1, <2>2
<1>4. \A k : Ideal!NewInode(p, k) = NewInode(p, k)
  BY DEF Ideal!NewInode, NewInode
<1>5. p \in Ideal!Entries /\ Ideal!NoInode = NoInode
  BY IdealTree
<1> QED BY <1>1, <1>2, <1>3, <1>4, <1>5 DEF Ideal!Attach, Ideal!Opened

\* Clean-up removes the file that the handle stands for, and only if that is asked for.
LEMMA IdealCleanup ==
  ASSUME IInv, Undisturbed, faults' = faults, NEW h \in Handles, Cleanup(h)
  PROVE  Ideal!Detach(h)
<1>1. /\ ctx[h] # Closed /\ call[h] = NoCall /\ file' = [file EXCEPT ![h] = NoNode]
      /\ asked' = asked \cap {file'[g] : g \in Handles}
  BY DEF Cleanup, Ready
<1>2. file[h] # NoNode
  BY <1>1 DEF IInv, TypeOK
<1>3. Reached(h) = file[h]
  BY <1>1, SteadyHandle, RecordsTyped DEF Undisturbed
<1>4. UNCHANGED inode \/ (file[h] \in asked /\ inode' = Without({file[h]}))
  BY <1>3 DEF Cleanup, Undisturbed
<1>5. Ideal!Without({file[h]}) = Without({file[h]})
  BY IdealTree
<1> QED BY <1>1, <1>2, <1>4, <1>5 DEF Ideal!Detach, Ideal!Opened

\* Whatever a handle writes or sets is written to the file it stands for.
LEMMA SteadyChange ==
  ASSUME IInv, adrift = {}, NEW h \in Handles, ctx[h] # Closed, call[h].step # "rename",
         \/ \E v \in 0..MaxSize : inode' = [inode EXCEPT ![Reached(h)].size = v]
         \/ \E v \in BOOLEAN : inode' = [inode EXCEPT ![Reached(h)].ro = v]
  PROVE  /\ file[h] # NoNode
         /\ \E r \in BOOLEAN, v \in 0..MaxSize :
              inode' = [inode EXCEPT ![file[h]].ro = r, ![file[h]].size = v]
<1> DEFINE n == file[h]
<1>1. n \in Nodes /\ Reached(h) = n /\ inode \in [Nodes -> Inode] /\ n # NoNode
  BY SteadyHandle, HandlesAssumption DEF TreeOK
<1> HIDE DEF n
<1>2. inode[n] \in Inode /\ inode[n].ro \in BOOLEAN /\ inode[n].size \in 0..MaxSize
  BY <1>1 DEF Inode
<1>3. CASE \E v \in 0..MaxSize : inode' = [inode EXCEPT ![n].size = v]
  <2>1. PICK v \in 0..MaxSize : inode' = [inode EXCEPT ![n].size = v]
    BY <1>3
  <2>2. inode' = [inode EXCEPT ![n].ro = inode[n].ro, ![n].size = v]
    BY <1>1, <1>2, <2>1 DEF Inode
  <2> QED BY <1>1, <1>2, <2>2 DEF n
<1>4. CASE \E v \in BOOLEAN : inode' = [inode EXCEPT ![n].ro = v]
  <2>1. PICK v \in BOOLEAN : inode' = [inode EXCEPT ![n].ro = v]
    BY <1>4
  <2>2. inode' = [inode EXCEPT ![n].ro = v, ![n].size = inode[n].size]
    BY <1>1, <1>2, <2>1 DEF Inode
  <2> QED BY <1>1, <1>2, <2>2 DEF n
<1> QED BY <1>1, <1>3, <1>4

\* The callbacks that write, and the steps between two requests.
LEMMA IdealWrite ==
  ASSUME IInv, adrift = {}, NEW h \in Handles,
         \/ Write(h) \/ WriteConstrained(h) \/ WriteRest(h) \/ SetPath(h)
         \/ \E size \in 0..MaxSize : SetSize(h, size)
         \/ \E readonly \in BOOLEAN : SetReadonly(h, readonly)
  PROVE  \/ UNCHANGED <<inode, file, asked>>
         \/ \E r \in BOOLEAN, v \in 0..MaxSize : Ideal!Change(h, r, v)
<1>1. UNCHANGED <<file, asked>>
  BY DEF Write, WriteConstrained, WriteRest, SetPath, SetSize, SetReadonly
<1>2. CASE SetPath(h)
  BY <1>1, <1>2 DEF SetPath
<1>3. CASE ~SetPath(h)
  <2>1. ctx[h] # Closed /\ call[h].step # "rename" /\ call[h].seen \in 0..MaxSize
    BY <1>3, RecordsTyped DEF Write, WriteConstrained, WriteRest, SetSize, SetReadonly, Ready,
                              IInv, Contexts, TypeOK
  <2>2. MaxSize \in 0..MaxSize
    BY PathBoundsAssumption
  <2>3. \/ UNCHANGED inode
        \/ \E v \in 0..MaxSize : inode' = [inode EXCEPT ![Reached(h)].size = v]
        \/ \E v \in BOOLEAN : inode' = [inode EXCEPT ![Reached(h)].ro = v]
    <3>1. CASE Write(h) \/ WriteRest(h)
      BY <2>1, <2>2, <3>1, SendWriteChanges DEF Write, WriteRest
    <3>2. CASE WriteConstrained(h)
      BY <3>2 DEF WriteConstrained
    <3>3. CASE \E size \in 0..MaxSize : SetSize(h, size)
      BY <3>3 DEF SetSize
    <3>4. CASE \E readonly \in BOOLEAN : SetReadonly(h, readonly)
      BY <3>4 DEF SetReadonly
    <3> QED BY <1>3, <3>1, <3>2, <3>3, <3>4
  <2> QED BY <1>1, <2>1, <2>3, SteadyChange DEF Ideal!Change, Ideal!Opened
<1> QED BY <1>2, <1>3

\* A rename moves the file that the handle stands for, and what it removes no handle
\* stands for, or that handle is adrift afterwards.
LEMMA IdealRename ==
  ASSUME IInv, adrift = {}, adrift' = {}, faults' = faults, NEW h \in Handles,
         NEW q \in Entries, NEW replace \in BOOLEAN, Rename(h, q, replace)
  PROVE  Ideal!Move(h, q)
<1> DEFINE p == ctx[h].path
           gone == {n \in Under(q) : inode'[n] = NoInode}
           Fate == /\ gone \cap {file[g] : g \in Handles} = {}
                   /\ inode' \in {Without(gone),
                                  [n \in Nodes |-> IF n \in gone THEN NoInode ELSE Moved(p, q)[n]]}
<1>1. /\ ctx[h] # Closed /\ call[h] = NoCall /\ p \in Entries /\ TreeOK
      /\ UNCHANGED <<ctx, file, asked>> /\ NoNode \notin Nodes
  BY RenameEffect, HandlesAssumption DEF Rename, IInv, TypeOK
<1>2. /\ inode[file[h]].at = p /\ Reached(h) = file[h] /\ file[h] \in Nodes
  BY <1>1, SteadyHandle, RecordsTyped
<1>3. /\ \A n \in Under(q) : n \in Nodes /\ inode[n] # NoInode /\ inode[n].at # Nowhere
  BY DEF Under, NoInode
<1>4. ASSUME NEW aware, Drift(aware), NEW g \in Handles \ aware
      PROVE  file[g] \notin gone
  <2> SUFFICES ASSUME file[g] \in gone PROVE FALSE
    OBVIOUS
  <2>1. file[g] \in Nodes /\ inode[file[g]].at # Nowhere /\ inode'[file[g]].at = Nowhere
    BY <1>3 DEF NoInode
  <2>2. file'[g] # NoNode /\ file[g] # NoNode
    BY <1>1, <2>1
  <2> QED BY <1>4, <2>1, <2>2 DEF Drift
<1>5. ASSUME ~IsPrefix(p, q), ~IsPrefix(q, p), Fits(p, q), inode' = Replaced(p, q), Drift({h})
      PROVE  Fate
  <2>1. \A n \in Under(q) : inode'[n] = NoInode
    <3> HIDE DEF p
    <3> QED BY <1>1, <1>5, ReplacedNodes
  <2>2. gone = Under(q)
    BY <2>1
  <2>3. inode' = [n \in Nodes |-> IF n \in gone THEN NoInode ELSE Moved(p, q)[n]]
    BY <1>5, <2>2 DEF Replaced
  <2>4. file[h] \notin gone
    BY <1>2, <1>5 DEF Under
  <2> HIDE DEF gone
  <2>5. gone \cap {file[g] : g \in Handles} = {}
    BY <1>4, <1>5, <2>4
  <2> QED BY <2>3, <2>5
<1>6. ASSUME NEW lost \in SUBSET Under(q), inode' = Without(lost), Drift({})
      PROVE  Fate
  <2>1. \A n \in Nodes : inode'[n] = IF n \in lost THEN NoInode ELSE inode[n]
    BY <1>6 DEF Without
  <2>2. gone = lost
    BY <1>3, <1>6, <2>1
  <2> HIDE DEF gone
  <2>3. gone \cap {file[g] : g \in Handles} = {}
    BY <1>4, <1>6
  <2> QED BY <1>6, <2>2, <2>3
<1>7. \/ RenameWorks(p, q) /\ Drift({h})
      \/ ~RenameWorks(p, q) /\ Drift({})
  BY <1>2, NoFaults DEF Rename
<1>8. Fate
  <2> HIDE DEF Fate
  <2> QED BY <1>5, <1>6, <1>7, RenameEffect
<1>9. /\ Ideal!NoInode = NoInode /\ Ideal!Under(q) = Under(q)
      /\ Ideal!Moved(p, q) = Moved(p, q) /\ Ideal!Without(gone) = Without(gone)
  BY IdealTree
<1> HIDE DEF p
<1> QED BY <1>1, <1>2, <1>8, <1>9 DEF Ideal!Move, Ideal!Opened

\* Every step of a callback is a step of an application's open file, or none.
LEMMA IdealStep ==
  ASSUME IInv, Undisturbed, Undisturbed', faults' = faults, [Next]_vars
  PROVE  [Ideal!Next]_<<inode, file, asked>>
<1>1. adrift = {} /\ adrift' = {}
  BY DEF Undisturbed
<1>2. ASSUME NEW h \in Handles, NEW delete \in BOOLEAN, SetDelete(h, delete)
      PROVE  Ideal!Ask(h)
  BY <1>2 DEF SetDelete, Ready, IInv, TypeOK, Ideal!Ask, Ideal!Opened
<1>3. CASE UNCHANGED vars
  BY <1>3 DEF vars
<1>4. Ideal!Entries = Entries
  BY IdealTree
<1>5. CASE Next
  <2>1. PICK h \in Handles :
          \/ \E p \in Entries : Open(h, p)
          \/ \E p \in Entries, k \in {"file", "dir"} : Create(h, p, k)
          \/ \E delete \in BOOLEAN : SetDelete(h, delete)
          \/ Cleanup(h)
          \/ Write(h) \/ WriteConstrained(h) \/ WriteRest(h)
          \/ \E size \in 0..MaxSize : SetSize(h, size)
          \/ \E readonly \in BOOLEAN : SetReadonly(h, readonly)
          \/ \E q \in Entries, replace \in BOOLEAN : Rename(h, q, replace)
          \/ SetPath(h)
    BY <1>5, NoFaults DEF Next
  <2>2. \/ UNCHANGED <<inode, file, asked>>
        \/ \E n \in Nodes : Ideal!Attach(h, n)
        \/ \E r \in BOOLEAN, s \in 0..MaxSize : Ideal!Change(h, r, s)
        \/ Ideal!Ask(h)
        \/ \E q \in Entries : Ideal!Move(h, q)
        \/ Ideal!Detach(h)
    BY <1>1, <1>2, <2>1, IdealOpen, IdealCleanup, IdealWrite, IdealRename
  <2> QED BY <1>4, <2>2 DEF Ideal!Next
<1> QED BY <1>3, <1>5

\* The file contexts hold nothing but paths, and yet what a callback does is what it
\* would do to the file that its handle was opened on, in every state in which nothing
\* else has moved or removed a file that is open: for files that are open more than
\* once too, and after any number of lost answers and steps of other processes.
THEOREM ContextsMeanFiles == Spec => AsFiles
<1>1. IInv /\ [Next]_vars =>
        [Undisturbed /\ Undisturbed' /\ faults' = faults =>
           [Ideal!Next]_<<inode, file, asked>>]_vars
  BY IdealStep
<1> QED BY Initially, Step, <1>1, PTL DEF Spec, AsFiles

-----------------------------------------------------------------------------
(* With the file system to itself, and no file opened twice, a context is  *)
(* as good as a file handle.                                               *)

\* No handle is ever adrift, no two stand for the same file, and a pending removal
\* has been asked for.
Alone ==
  /\ adrift = {}
  /\ \A g, h \in Handles : ctx[g] # Closed /\ ctx[h] # Closed /\ file[g] = file[h] => g = h
  /\ \A h \in Handles : ctx[h].pending => file[h] \in asked

AInv == IInv /\ Alone

LEMMA AloneHandle ==
  ASSUME AInv, NEW h \in Handles, ctx[h] # Closed
  PROVE  /\ TreeOK /\ file[h] \in Nodes /\ ctx[h].path \in Entries
         /\ inode[file[h]].at = Expected(h) /\ inode[file[h]].at # Nowhere
         /\ call[h].step # "rename" => /\ inode[file[h]].at = ctx[h].path
                                       /\ Reached(h) = file[h]
BY SteadyHandle DEF AInv, Alone

\* What a rename moves but its own file, and what it removes, no handle stands for.
LEMMA RenameFree ==
  ASSUME AInv, ~Sharing, NEW h \in Handles, NEW q \in Entries, NEW replace,
         Rename(h, q, replace), NEW g \in Handles, ctx[g] # Closed
  PROVE  /\ file[g] \notin Under(q)
         /\ file[g] \in Under(ctx[h].path) => g = h
<1>1. /\ NamesFree /\ \A f \in OpenBelow(ctx[h].path) : ctx[f].path = ctx[h].path
      /\ OpenBelow(q) = {} /\ ctx[h] # Closed
  BY DEF Rename, MayRename, Ready
<1>2. /\ inode[file[g]].at = ctx[g].path /\ Reached(g) = file[g]
      /\ inode[file[h]].at = ctx[h].path /\ Reached(h) = file[h]
  BY <1>1, AloneHandle DEF NamesFree
<1>3. file[g] \notin Under(q)
  BY <1>1, <1>2 DEF Under, OpenBelow
<1>4. ASSUME file[g] \in Under(ctx[h].path)
      PROVE  g = h
  <2>1. ctx[g].path = ctx[h].path
    BY <1>1, <1>2, <1>4 DEF Under, OpenBelow
  <2> QED BY <1>1, <1>2, <2>1 DEF Reached, AInv, Alone
<1> QED BY <1>3, <1>4

\* Nobody is adrift after a step that moves no file of a handle but the given one.
LEMMA NoDrift ==
  ASSUME adrift = {}, NEW aware, Drift(aware),
         \A g \in Handles \ aware : file[g] # NoNode => inode'[file[g]].at = inode[file[g]].at
  PROVE  adrift' = {}
BY DEF Drift

\* What of Alone does not depend on the exported directory.
LEMMA AloneSame ==
  ASSUME AInv, UNCHANGED <<file, asked>>, adrift' = {},
         \A h \in Handles : ctx'[h] # Closed => ctx[h] # Closed,
         \A h \in Handles : ctx'[h].pending => ctx[h].pending
  PROVE  Alone'
BY DEF AInv, Alone

LEMMA AloneBind ==
  ASSUME AInv, NEW h \in Handles, NEW p, NEW k, NEW n, Bind(h, p, k, n),
         UNCHANGED <<asked, adrift>>, \A g \in Handles : ctx[g] # Closed => file[g] # n
  PROVE  Alone'
<1>1. ctx \in [Handles -> Context] /\ file \in [Handles -> Nodes \cup {NoNode}]
  BY DEF AInv, IInv, TypeOK, Context
<1>2. /\ file'[h] = n /\ \A g \in Handles \ {h} : file'[g] = file[g] /\ ctx'[g] = ctx[g]
      /\ ~ctx'[h].pending
  BY <1>1 DEF Bind
<1> QED BY <1>2 DEF AInv, Alone

LEMMA AloneOpen ==
  ASSUME AInv, ~Sharing, faults' = faults, NEW h \in Handles, NEW p \in Entries,
         Open(h, p) \/ \E k \in {"file", "dir"} : Create(h, p, k)
  PROVE  Alone'
<1>1. MayOpen(h, p) /\ UNCHANGED <<asked, adrift>>
  BY DEF Open, Create
<1>2. /\ NamesFree /\ TreeOK /\ p \in Paths
      /\ \A g \in Handles : ctx[g].path # p
  BY <1>1, EntryTyped DEF MayOpen, AInv, IInv, TypeOK
<1>3. CASE Open(h, p)
  <2> DEFINE n == NodeAt(p)
  <2>1. n \in Nodes /\ inode[n].at = p
    BY <1>2, <1>3, NodeAtPath DEF Open
  <2>2. \A g \in Handles : ctx[g] # Closed => file[g] # n
    BY <1>2, <2>1, AloneHandle DEF NamesFree
  <2>3. Bind(h, p, inode[n].kind, n)
    BY <1>3 DEF Open
  <2> HIDE DEF n
  <2> QED BY <1>1, <2>2, <2>3, AloneBind
<1>4. CASE \E k \in {"file", "dir"} : Create(h, p, k)
  <2>1. PICK k \in {"file", "dir"}, n \in Nodes :
          inode[n] = NoInode /\ Bind(h, p, k, n)
    BY <1>4, NoFaults DEF Create, AInv
  <2>2. \A g \in Handles : ctx[g] # Closed => file[g] # n
    BY <2>1, AloneHandle DEF NoInode
  <2> QED BY <1>1, <2>1, <2>2, AloneBind
<1> QED BY <1>3, <1>4

LEMMA AloneDelete ==
  ASSUME AInv, NEW h \in Handles, NEW delete \in BOOLEAN, SetDelete(h, delete)
  PROVE  Alone'
<1>1. /\ ctx[h] # Closed /\ UNCHANGED <<file, adrift>>
      /\ \/ ctx' = [ctx EXCEPT ![h].pending = delete]
         \/ ctx[h].kind = "file" /\ ctx' = ctx
      /\ asked' = IF delete THEN asked \cup {file[h]} ELSE asked \ {file[h]}
  BY DEF SetDelete, Ready
<1>2. ctx \in [Handles -> Context]
  BY DEF AInv, IInv, TypeOK, Context
<1>3. /\ \A g \in Handles \ {h} : ctx'[g] = ctx[g]
      /\ ctx'[h].pending => delete
  <2>1. ctx[h].kind = "file" => ~ctx[h].pending
    BY DEF AInv, IInv, Contexts
  <2> QED BY <1>1, <1>2, <2>1 DEF Context
<1>4. IInv'
  BY SetDeleteStep DEF AInv
<1>5. \A g \in Handles : ctx'[g] # Closed => ctx[g] # Closed
  BY <1>1, <1>3
<1>6. \A g \in Handles : ctx'[g].pending => file'[g] \in asked'
  <2> SUFFICES ASSUME NEW g \in Handles, ctx'[g].pending PROVE file[g] \in asked'
    BY <1>1
  <2>1. CASE g = h
    BY <1>1, <1>3, <2>1
  <2>2. CASE g # h
    <3>1. ctx[g].pending
      BY <1>3, <2>2
    <3>2. file[g] \in asked
      BY <3>1 DEF AInv, Alone
    <3>3. ctx[g] # Closed
      BY <3>1 DEF Closed
    <3>4. file[g] # file[h]
      BY <1>1, <2>2, <3>3 DEF AInv, Alone
    <3> QED BY <1>1, <3>2, <3>4
  <2> QED BY <2>1, <2>2
<1> QED BY <1>1, <1>5, <1>6 DEF AInv, Alone

LEMMA AloneCleanup ==
  ASSUME AInv, faults' = faults, NEW h \in Handles, Cleanup(h)
  PROVE  Alone'
<1>1. /\ ctx[h] # Closed /\ call[h] = NoCall
      /\ ctx' = [ctx EXCEPT ![h] = Closed] /\ file' = [file EXCEPT ![h] = NoNode]
      /\ asked' = asked \cap {file'[g] : g \in Handles} /\ Drift({h})
  BY DEF Cleanup, Ready
<1>2. /\ ctx \in [Handles -> Context] /\ file \in [Handles -> Nodes \cup {NoNode}]
      /\ asked \subseteq {file[g] : g \in Handles} \ {NoNode}
      /\ \A g \in Handles : file[g] = NoNode <=> ctx[g] = Closed
  BY DEF AInv, IInv, TypeOK, Context
<1>3. /\ ctx'[h] = Closed /\ file'[h] = NoNode /\ file[h] # NoNode
      /\ \A g \in Handles \ {h} : ctx'[g] = ctx[g] /\ file'[g] = file[g]
  BY <1>1, <1>2
<1>4. UNCHANGED inode \/ inode' = Without({file[h]})
  BY <1>1, AloneHandle, RecordsTyped DEF Cleanup
<1>5. \A f, g \in Handles : f # g /\ file[f] # NoNode => file[f] # file[g]
  BY <1>2 DEF AInv, Alone
<1>6. asked' = asked \ {file[h]}
  <2>1. ASSUME NEW m \in asked, m # file[h]
        PROVE  m \in asked'
    <3>1. PICK g \in Handles : m = file[g]
      BY <1>2
    <3>2. m = file'[g]
      BY <1>3, <2>1, <3>1
    <3> QED BY <1>1, <3>2
  <2>2. file[h] \notin asked'
    BY <1>1, <1>3, <1>5
  <2> QED BY <1>1, <2>1, <2>2
<1>7. adrift' = {}
  <2>1. ASSUME NEW g \in Handles \ {h}, file[g] # NoNode
        PROVE  inode'[file[g]].at = inode[file[g]].at
    <3>1. file[g] # file[h] /\ file[g] \in Nodes
      BY <1>2, <1>5, <2>1
    <3> QED BY <1>4, <3>1 DEF Without
  <2> QED BY <1>1, <2>1, NoDrift DEF AInv, Alone
<1>8. ASSUME NEW g \in Handles, ctx'[g].pending
      PROVE  file'[g] \in asked'
  <2>1. ctx'[g] # Closed
    BY <1>8 DEF Closed
  <2>2. g # h /\ ctx'[g] = ctx[g] /\ file'[g] = file[g]
    BY <1>3, <2>1
  <2>3. ctx[g].pending
    BY <1>8, <2>2
  <2>4. file[g] \in asked
    BY <2>3 DEF AInv, Alone
  <2>5. file[g] # NoNode
    BY <1>2, <2>1, <2>2
  <2> QED BY <1>5, <1>6, <2>2, <2>4, <2>5
<1>9. \A f, g \in Handles : ctx'[f] # Closed /\ ctx'[g] # Closed /\ file'[f] = file'[g] => f = g
  BY <1>3 DEF AInv, Alone
<1> QED BY <1>7, <1>8, <1>9 DEF Alone

\* A rename moves the file that the handle stands for and no other handle's.
LEMMA AloneRename ==
  ASSUME AInv, ~Sharing, faults' = faults, NEW h \in Handles, NEW q \in Entries,
         NEW replace \in BOOLEAN, Rename(h, q, replace)
  PROVE  Alone'
<1> DEFINE p == ctx[h].path
<1>1. /\ ctx[h] # Closed /\ call[h] = NoCall /\ p \in Entries /\ TreeOK
      /\ UNCHANGED <<ctx, file, asked>>
  BY RenameEffect DEF Rename, AInv, IInv, TypeOK
<1>2. Reached(h) = file[h]
  BY <1>1, AloneHandle, RecordsTyped
<1>3. \A g \in Handles : file[g] # NoNode => ctx[g] # Closed /\ file[g] \in Nodes
  BY DEF AInv, IInv, TypeOK
<1>4. CASE /\ ~IsPrefix(p, q) /\ ~IsPrefix(q, p) /\ Fits(p, q) /\ inode' = Replaced(p, q)
           /\ Drift({h})
  <2>1. \A n \in Nodes \ (Under(p) \cup Under(q)) : inode'[n] = inode[n]
    <3> HIDE DEF p
    <3> QED BY <1>1, <1>4, ReplacedNodes
  <2>2. ASSUME NEW g \in Handles \ {h}, file[g] # NoNode
        PROVE  inode'[file[g]].at = inode[file[g]].at
    <3>1. file[g] \in Nodes /\ file[g] \notin Under(p) /\ file[g] \notin Under(q)
      BY <1>3, <2>2, RenameFree DEF p
    <3> QED BY <2>1, <3>1
  <2>3. adrift' = {}
    BY <1>4, <2>2, NoDrift DEF AInv, Alone
  <2> QED BY <1>1, <2>3, AloneSame
<1>5. CASE /\ \E lost \in SUBSET Under(q) : inode' = Without(lost)
           /\ Drift({})
  <2>1. PICK lost \in SUBSET Under(q) : inode' = Without(lost)
    BY <1>5
  <2>2. ASSUME NEW g \in Handles \ {}, file[g] # NoNode
        PROVE  inode'[file[g]].at = inode[file[g]].at
    <3>1. file[g] \in Nodes /\ file[g] \notin lost
      BY <1>3, <2>2, RenameFree
    <3> QED BY <2>1, <3>1 DEF Without
  <2>3. adrift' = {}
    BY <1>5, <2>2, NoDrift DEF AInv, Alone
  <2> QED BY <1>1, <2>3, AloneSame
<1>6. \/ RenameWorks(p, q) /\ Drift({h})
      \/ ~RenameWorks(p, q) /\ Drift({})
  BY <1>2, NoFaults DEF Rename, AInv
<1> QED BY <1>4, <1>5, <1>6, RenameEffect DEF AInv

LEMMA AloneInit == Init => Alone
BY DEF Init, Alone, Closed

\* The other callbacks move nothing.
LEMMA AloneWrite ==
  ASSUME AInv, NEW h \in Handles,
         \/ Write(h) \/ WriteConstrained(h) \/ WriteRest(h) \/ SetPath(h)
         \/ \E size \in 0..MaxSize : SetSize(h, size)
         \/ \E readonly \in BOOLEAN : SetReadonly(h, readonly)
  PROVE  Alone'
<1>1. UNCHANGED <<file, asked, adrift>> /\ adrift' = {}
  BY DEF AInv, Alone, Write, WriteConstrained, WriteRest, SetPath, SetSize, SetReadonly
<1>2. CASE SetPath(h)
  <2>1. ctx \in [Handles -> Context] /\ ctx[h] # Closed
    BY <1>2, RecordsTyped DEF SetPath, AInv, IInv, TypeOK, Contexts, Context
  <2>2. /\ ctx'[h].pending = ctx[h].pending
        /\ \A g \in Handles \ {h} : ctx'[g] = ctx[g]
    BY <1>2, <2>1 DEF SetPath, Context
  <2>3. \A g \in Handles : ctx'[g] # Closed => ctx[g] # Closed
    BY <2>1, <2>2
  <2>4. ASSUME NEW g \in Handles, ctx'[g].pending
        PROVE  ctx[g].pending
    BY <2>2, <2>4
  <2> QED BY <1>1, <2>3, <2>4, AloneSame
<1>3. CASE ~SetPath(h)
  <2>1. UNCHANGED ctx
    BY <1>3 DEF Write, WriteConstrained, WriteRest, SetSize, SetReadonly
  <2> QED BY <1>1, <2>1 DEF AInv, Alone
<1> QED BY <1>2, <1>3

LEMMA AloneStep ==
  ASSUME AInv, IInv', ~Sharing, MaxFaults = 0, [Next]_vars
  PROVE  Alone' /\ [Ideal!Next]_<<inode, file, asked>>
<1>1. faults' = faults
  BY DEF AInv, IInv, TypeOK
<1>2. CASE UNCHANGED vars
  BY <1>2 DEF vars, AInv, Alone
<1>3. CASE Next
  <2>1. PICK h \in Handles :
          \/ \E p \in Entries : Open(h, p)
          \/ \E p \in Entries, k \in {"file", "dir"} : Create(h, p, k)
          \/ \E delete \in BOOLEAN : SetDelete(h, delete)
          \/ Cleanup(h)
          \/ Write(h) \/ WriteConstrained(h) \/ WriteRest(h)
          \/ \E size \in 0..MaxSize : SetSize(h, size)
          \/ \E readonly \in BOOLEAN : SetReadonly(h, readonly)
          \/ \E q \in Entries, replace \in BOOLEAN : Rename(h, q, replace)
          \/ SetPath(h)
    BY <1>1, <1>3, NoFaults DEF Next, AInv
  <2>2. Alone'
    BY <1>1, <2>1, AloneOpen, AloneDelete, AloneCleanup, AloneWrite, AloneRename
  <2> QED BY <1>1, <2>2, IdealStep DEF AInv, Alone, Undisturbed
<1> QED BY <1>2, <1>3

\* While nobody else acts on the directory, no answer is lost and no file is opened
\* twice, the file contexts, though they hold nothing but paths, implement open
\* files: writing changes the file the handle was opened on, renaming moves it and
\* closing removes it if that was asked for, whatever happens to other files.
THEOREM ContextsImplementFiles == ~Sharing /\ MaxFaults = 0 => (Spec => IdealSpec)
<1> SUFFICES ASSUME ~Sharing, MaxFaults = 0 PROVE Spec => IdealSpec
  OBVIOUS
<1>1. Init => AInv
  BY Initially, AloneInit DEF AInv
<1>2. AInv /\ [Next]_vars => AInv'
  BY Step, AloneStep DEF AInv
<1>3. Init => Ideal!Init
  BY DEF Init, Ideal!Init, EmptyTree, Ideal!EmptyTree, NewInode, Ideal!NewInode, NoInode,
         Ideal!NoInode
<1>4. AInv /\ [Next]_vars => [Ideal!Next]_<<inode, file, asked>>
  BY Step, AloneStep DEF AInv
<1> QED BY <1>1, <1>2, <1>3, <1>4, PTL DEF Spec, IdealSpec, Ideal!Spec
=============================================================================
