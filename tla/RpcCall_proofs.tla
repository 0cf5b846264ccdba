--------------------------- MODULE RpcCall_proofs ---------------------------
(***************************************************************************)
(* Proofs about RpcCall, for any set of callers, any number of calls and   *)
(* any number of crashes.                                                  *)
(*                                                                         *)
(* The invariant Inductive is proved part by part: each lemma XStep says   *)
(* that a step from a state satisfying the whole of Inductive leads to a   *)
(* state satisfying X.                                                     *)
(***************************************************************************)
EXTENDS RpcCall, TLAPS

SeqThms == INSTANCE SequenceTheorems

\* The actions in which the caller of k goes on with its call.
CallStep(k) ==
  WriteTag(k) \/ WriteRequest(k) \/ Receive(k) \/ Lose(k) \/ TimeOut(k)
    \/ Shutdown(k)

-----------------------------------------------------------------------------
(* The two operations on the queue and the log.                            *)

\* Taking the head of a non-empty queue: what listener.accept does.
LEMMA DequeueFacts ==
  ASSUME NEW S, NEW s \in Seq(S), s # <<>>
  PROVE  /\ Head(s) = s[1]
         /\ Head(s) \in S
         /\ Tail(s) \in Seq(S)
         /\ 1 \in DOMAIN s
         /\ \A i \in DOMAIN Tail(s) : i + 1 \in DOMAIN s /\ Tail(s)[i] = s[i + 1]
<1>1. Head(s) = s[1]
  OBVIOUS
<1>2. Head(s) \in S /\ Tail(s) \in Seq(S) /\ Len(Tail(s)) = Len(s) - 1
      /\ \A i \in 1..Len(Tail(s)) : Tail(s)[i] = s[i + 1]
  BY SeqThms!HeadTailProperties
<1>3. Len(s) \in Nat \ {0} /\ DOMAIN s = 1..Len(s)
  BY SeqThms!EmptySeq, SeqThms!LenProperties
<1>4. DOMAIN Tail(s) = 1..Len(Tail(s))
  BY <1>2, SeqThms!LenProperties
<1> QED
  BY <1>1, <1>2, <1>3, <1>4

\* Adding an element at the end: connecting, and dispatching.
LEMMA AppendFacts ==
  ASSUME NEW S, NEW s \in Seq(S), NEW e \in S
  PROVE  /\ Append(s, e) \in Seq(S)
         /\ Len(Append(s, e)) = Len(s) + 1
         /\ Len(s) \in Nat
         /\ DOMAIN s = 1..Len(s)
         /\ DOMAIN Append(s, e) = 1..(Len(s) + 1)
         /\ \A i \in DOMAIN s : Append(s, e)[i] = s[i]
         /\ Append(s, e)[Len(s) + 1] = e
<1>1. DOMAIN s = 1..Len(s) /\ Len(s) \in Nat
  BY SeqThms!LenProperties
<1>2. Append(s, e) \in Seq(S) /\ Len(Append(s, e)) = Len(s) + 1
      /\ (\A i \in 1..Len(s) : Append(s, e)[i] = s[i])
      /\ Append(s, e)[Len(s) + 1] = e
  BY SeqThms!AppendProperties
<1>3. DOMAIN Append(s, e) = 1..Len(Append(s, e))
  BY <1>2, SeqThms!LenProperties
<1> QED
  BY <1>1, <1>2, <1>3

-----------------------------------------------------------------------------
(* The invariant.                                                          *)

\* The initial state satisfies the invariant.
LEMMA InitInductive == Init => Inductive
<1> SUFFICES ASSUME Init PROVE Inductive
  OBVIOUS
<1>1. TypeOK
  BY BoundsAssumption DEF Init, TypeOK, Calls
<1>2. QueueOrdered /\ ServingYoungest /\ InOrder /\ OnlyKeyedApplied
  BY DEF Init, QueueOrdered, ServingYoungest, InOrder, OnlyKeyedApplied
<1>3. FramesKeyed /\ RepliesOwn /\ FutureBlank
  BY DEF Init, FramesKeyed, RepliesOwn, FutureBlank, Calls
<1> QED
  BY <1>1, <1>2, <1>3 DEF Inductive

\* Every step keeps the types.
LEMMA TypeStep == Inductive /\ [Next]_vars => TypeOK'
<1> SUFFICES ASSUME Inductive, [Next]_vars PROVE TypeOK'
  OBVIOUS
<1> USE BoundsAssumption, CallersAssumption DEF Inductive
<1>1. ASSUME NEW c \in Callers, NEW stage \in {"tagging", "enrolling"},
             Connect(c, stage)
      PROVE  TypeOK'
  <2>1. next \in Calls
    BY <1>1 DEF Connect, TypeOK, Calls
  <2>2. backlog' \in Seq(Calls)
    BY <1>1, <2>1, AppendFacts DEF Connect, TypeOK
  <2> QED
    BY <1>1, <2>1, <2>2 DEF Connect, TypeOK, Calls, Open, DataStages, MonitorStages
<1>2. ASSUME NEW c \in Callers, Refused(c)
      PROVE  TypeOK'
  BY <1>2 DEF Refused, Return, TypeOK, Calls, Finished
<1>3. ASSUME NEW k \in Calls, CallStep(k)
      PROVE  TypeOK'
  <2>1. CASE WriteTag(k)
    BY <2>1 DEF WriteTag, Deliver, TypeOK, Open, DataStages, MonitorStages
  <2>2. CASE WriteRequest(k)
    BY <2>2 DEF WriteRequest, Deliver, TypeOK, Open, DataStages, MonitorStages
  <2>3. CASE Receive(k)
    BY <2>3 DEF Receive, Return, TypeOK, Finished
  <2>4. CASE Lose(k)
    BY <2>4 DEF Lose, Return, TypeOK, Finished
  <2>5. CASE TimeOut(k)
    BY <2>5 DEF TimeOut, Return, TypeOK, Finished
  <2>6. CASE Shutdown(k)
    BY <2>6 DEF Shutdown, Return, TypeOK, Finished
  <2> QED
    BY <1>3, <2>1, <2>2, <2>3, <2>4, <2>5, <2>6 DEF CallStep
<1>4. ASSUME Accept
      PROVE  TypeOK'
  <2>1. cur' \in Calls /\ backlog' \in Seq(Calls)
    BY <1>4, DequeueFacts DEF Accept, TypeOK
  <2>2. pc' = "tag" /\ UNCHANGED <<next, owner, status, inbox, cut, watched, log,
                                   reply, crashes>>
    BY <1>4 DEF Accept, client
  <2> QED
    BY <2>1, <2>2 DEF TypeOK, Calls
<1>5. ASSUME ReadTag \/ SkipTag \/ ReadRequest \/ DropRequest
      PROVE  TypeOK'
  BY <1>5 DEF ReadTag, SkipTag, ReadRequest, DropRequest, NextConnection, client,
              TypeOK
<1>6. ASSUME Enrol
      PROVE  TypeOK'
  <2>1. cur \in Calls
    BY <1>6 DEF Enrol, TypeOK, ServingYoungest, Calls
  <2> QED
    BY <1>6, <2>1 DEF Enrol, NextConnection, client, TypeOK
<1>7. ASSUME Apply
      PROVE  TypeOK'
  <2>1. cur \in Calls
    BY <1>7 DEF Apply, TypeOK, ServingYoungest, Calls
  <2>2. log' \in Seq(Calls)
    BY <1>7, <2>1, AppendFacts DEF Apply, TypeOK
  <2> QED
    BY <1>7, <2>2 DEF Apply, client, TypeOK
<1>8. ASSUME Respond
      PROVE  TypeOK'
  <2>1. Len(log) \in Nat
    BY SeqThms!LenProperties DEF TypeOK
  <2>2. reply' \in [Calls -> Nat]
    BY <1>8, <2>1 DEF Respond, TypeOK
  <2>3. pc' = "accept" /\ cur' = 0
        /\ UNCHANGED <<next, owner, status, inbox, cut, backlog, watched, log,
                       crashes>>
    BY <1>8 DEF Respond, NextConnection, client
  <2> QED
    BY <2>2, <2>3 DEF TypeOK
<1>9. ASSUME NEW k \in Calls, MonitorGone(k)
      PROVE  TypeOK'
  BY <1>9 DEF MonitorGone, client, TypeOK
<1>10. ASSUME Crash \/ Restart
       PROVE  TypeOK'
  <2>1. backlog' \in Seq(Calls)
    BY <1>10, SeqThms!EmptySeq DEF Crash, Restart, TypeOK
  <2>2. /\ pc' \in {"down", "accept"} /\ cur' \in 0..MaxCalls
        /\ watched' \in SUBSET Calls /\ crashes' \in 0..MaxCrashes
    BY <1>10 DEF Crash, Restart, TypeOK
  <2>3. UNCHANGED <<next, owner, status, inbox, cut, log, reply>>
    BY <1>10 DEF Crash, Restart, client
  <2> QED
    BY <2>1, <2>2, <2>3 DEF TypeOK
<1>11. ASSUME NEW k \in Calls, Cut(k)
       PROVE  TypeOK'
  BY <1>11 DEF Cut, client, TypeOK
<1>12. ASSUME UNCHANGED vars
       PROVE  TypeOK'
  BY <1>12 DEF vars, TypeOK
<1> QED
  BY <1>1, <1>2, <1>3, <1>4, <1>5, <1>6, <1>7, <1>8, <1>9, <1>10, <1>11, <1>12
  DEF Next, Client, Server, Serve, CallStep

\* The steps that leave the queue, the log and the thread's connection alone.
LEMMA QuietSteps ==
  ASSUME \/ \E k \in Calls : CallStep(k) \/ MonitorGone(k) \/ Cut(k)
         \/ ReadTag \/ ReadRequest \/ Restart \/ UNCHANGED vars
  PROVE  UNCHANGED <<next, backlog, cur, log>>
BY DEF CallStep, WriteTag, WriteRequest, Receive, Lose, TimeOut, Shutdown,
       MonitorGone, Cut, ReadTag, ReadRequest, Restart, client, vars

\* The steps in which the thread gives its connection up.
LEMMA ReleaseSteps ==
  ASSUME Enrol \/ SkipTag \/ DropRequest \/ Respond
  PROVE  cur' = 0 /\ pc' = "accept" /\ UNCHANGED <<next, backlog, log>>
BY DEF Enrol, SkipTag, DropRequest, Respond, NextConnection, client

\* The step relation, by what a step does to the queue and the log.
LEMMA StepKinds ==
  ASSUME [Next]_vars
  PROVE  \/ \E c \in Callers : \E stage \in {"tagging", "enrolling"} :
              Connect(c, stage)
         \/ \E c \in Callers : Refused(c)
         \/ Accept
         \/ Apply
         \/ Crash
         \/ Enrol \/ SkipTag \/ DropRequest \/ Respond
         \/ \/ \E k \in Calls : CallStep(k) \/ MonitorGone(k) \/ Cut(k)
            \/ ReadTag \/ ReadRequest \/ Restart \/ UNCHANGED vars
BY DEF Next, Client, Server, Serve, CallStep

\* Every step keeps the queue in order, and younger than what has been served.
LEMMA QueueStep == Inductive /\ [Next]_vars => QueueOrdered'
<1> SUFFICES ASSUME Inductive, [Next]_vars PROVE QueueOrdered'
  OBVIOUS
<1> USE BoundsAssumption DEF Inductive
<1>0. /\ next \in 1..(MaxCalls + 1) /\ cur \in 0..MaxCalls
      /\ backlog \in Seq(Calls) /\ log \in Seq(Calls)
      /\ \A i \in DOMAIN backlog : backlog[i] \in Calls
      /\ \A i \in DOMAIN log : log[i] \in Calls
  BY SeqThms!ElementOfSeq, SeqThms!LenProperties DEF TypeOK
<1>1. ASSUME NEW c \in Callers, NEW stage \in {"tagging", "enrolling"},
             Connect(c, stage)
      PROVE  QueueOrdered'
  <2>1. next \in Calls /\ next' = next + 1 /\ backlog' = Append(backlog, next)
        /\ UNCHANGED <<cur, log>>
    BY <1>1, <1>0 DEF Connect, Calls
  <2>2. /\ DOMAIN backlog = 1..Len(backlog) /\ Len(backlog) \in Nat
        /\ DOMAIN backlog' = 1..(Len(backlog) + 1)
        /\ \A i \in DOMAIN backlog : backlog'[i] = backlog[i]
        /\ backlog'[Len(backlog) + 1] = next
    BY <2>1, <1>0, AppendFacts
  <2>3. \A i \in DOMAIN backlog' :
          i \in DOMAIN backlog \/ (i = Len(backlog) + 1 /\ backlog'[i] = next)
    BY <2>2
  <2>4. \A i, j \in DOMAIN backlog' : i < j => backlog'[i] < backlog'[j]
    BY <2>2, <2>3, <1>0 DEF QueueOrdered, Calls
  <2>5. \A i \in DOMAIN backlog' : cur' < backlog'[i] /\ backlog'[i] < next'
    BY <2>1, <2>2, <2>3, <1>0 DEF QueueOrdered, ServingYoungest, Calls
  <2>6. \A i \in DOMAIN log', j \in DOMAIN backlog' : log'[i] < backlog'[j]
    BY <2>1, <2>2, <2>3, <1>0 DEF QueueOrdered, ServingYoungest, Calls
  <2> QED
    BY <2>4, <2>5, <2>6 DEF QueueOrdered
<1>2. ASSUME NEW c \in Callers, Refused(c)
      PROVE  QueueOrdered'
  <2>1. next' = next + 1 /\ UNCHANGED <<backlog, cur, log>>
    BY <1>2 DEF Refused
  <2> QED
    BY <2>1, <1>0 DEF QueueOrdered, Calls
<1>3. ASSUME Accept
      PROVE  QueueOrdered'
  <2>1. cur' = backlog[1] /\ 1 \in DOMAIN backlog /\ UNCHANGED <<next, log>>
    BY <1>3, <1>0, DequeueFacts DEF Accept, client
  <2>2. \A i \in DOMAIN backlog' :
          i \in Nat \ {0} /\ i + 1 \in DOMAIN backlog
            /\ backlog'[i] = backlog[i + 1]
    <3>1. backlog' = Tail(backlog) /\ backlog # <<>>
      BY <1>3 DEF Accept
    <3>2. backlog' \in Seq(Calls)
      BY <3>1, <1>0, DequeueFacts
    <3>3. DOMAIN backlog' \subseteq Nat \ {0}
      BY <3>2, SeqThms!LenProperties
    <3> QED
      BY <3>1, <3>3, <1>0, DequeueFacts
  <2> QED
    BY <2>1, <2>2, <1>0 DEF QueueOrdered, Calls
<1>4. ASSUME Apply
      PROVE  QueueOrdered'
  <2>1. cur \in Calls /\ log' = Append(log, cur) /\ UNCHANGED <<next, cur, backlog>>
    BY <1>4, <1>0 DEF Apply, client, ServingYoungest, Calls
  <2>2. \A i \in DOMAIN log' :
          \/ i \in DOMAIN log /\ log'[i] = log[i]
          \/ log'[i] = cur
    BY <2>1, <1>0, AppendFacts
  <2> QED
    BY <2>1, <2>2, <1>0 DEF QueueOrdered, Calls
<1>5. ASSUME Crash
      PROVE  QueueOrdered'
  BY <1>5, SeqThms!EmptySeq DEF Crash, QueueOrdered
<1>6. ASSUME Enrol \/ SkipTag \/ DropRequest \/ Respond
      PROVE  QueueOrdered'
  BY <1>6, <1>0, ReleaseSteps DEF QueueOrdered, Calls
<1>7. ASSUME UNCHANGED <<next, backlog, cur, log>>
      PROVE  QueueOrdered'
  BY <1>7 DEF QueueOrdered
<1> QED
  BY <1>1, <1>2, <1>3, <1>4, <1>5, <1>6, <1>7, StepKinds, QuietSteps

\* Every step keeps the log in order, with the thread's connection the youngest
\* of all that has been served.
LEMMA LogStep == Inductive /\ [Next]_vars => InOrder' /\ ServingYoungest'
<1> SUFFICES ASSUME Inductive, [Next]_vars PROVE InOrder' /\ ServingYoungest'
  OBVIOUS
<1> USE BoundsAssumption DEF Inductive
<1>0. /\ next \in 1..(MaxCalls + 1) /\ cur \in 0..MaxCalls
      /\ backlog \in Seq(Calls) /\ log \in Seq(Calls)
      /\ \A i \in DOMAIN backlog : backlog[i] \in Calls
      /\ \A i \in DOMAIN log : log[i] \in Calls
  BY SeqThms!ElementOfSeq, SeqThms!LenProperties DEF TypeOK
<1>1. ASSUME NEW c \in Callers, NEW stage \in {"tagging", "enrolling"},
             Connect(c, stage) \/ Refused(c)
      PROVE  InOrder' /\ ServingYoungest'
  <2>1. next' = next + 1 /\ UNCHANGED <<pc, cur, log>>
    BY <1>1 DEF Connect, Refused
  <2> QED
    BY <2>1, <1>0 DEF InOrder, ServingYoungest, Calls
<1>2. ASSUME Accept
      PROVE  InOrder' /\ ServingYoungest'
  <2>1. /\ cur' = backlog[1] /\ 1 \in DOMAIN backlog /\ pc' = "tag"
        /\ UNCHANGED <<next, log>>
    BY <1>2, <1>0, DequeueFacts DEF Accept, client
  <2> QED
    BY <2>1, <1>0 DEF InOrder, ServingYoungest, QueueOrdered, Calls
<1>3. ASSUME Apply
      PROVE  InOrder' /\ ServingYoungest'
  <2>1. /\ cur \in Calls /\ log' = Append(log, cur) /\ UNCHANGED <<next, cur>>
        /\ pc = "apply" /\ pc' = "respond"
    BY <1>3, <1>0 DEF Apply, client, ServingYoungest, Calls
  <2>2. /\ Len(log) \in Nat /\ DOMAIN log = 1..Len(log)
        /\ Len(log') = Len(log) + 1
        /\ DOMAIN log' = 1..(Len(log) + 1)
        /\ \A i \in DOMAIN log : log'[i] = log[i]
        /\ log'[Len(log) + 1] = cur
    BY <2>1, <1>0, AppendFacts
  <2>3. \A i \in DOMAIN log' : i \in DOMAIN log \/ i = Len(log) + 1
    BY <2>2
  <2>4. InOrder'
    BY <2>1, <2>2, <2>3, <1>0 DEF InOrder, ServingYoungest, Calls
  <2>5. \A i \in DOMAIN log' : log'[i] < next'
    BY <2>1, <2>2, <2>3 DEF ServingYoungest
  <2> QED
    BY <2>1, <2>2, <2>4, <2>5 DEF ServingYoungest
<1>4. ASSUME Crash
      PROVE  InOrder' /\ ServingYoungest'
  <2>1. pc' = "down" /\ cur' = 0 /\ UNCHANGED <<next, log>>
    BY <1>4 DEF Crash, client
  <2> QED
    BY <2>1, <1>0 DEF InOrder, ServingYoungest
<1>5. ASSUME Enrol \/ SkipTag \/ DropRequest \/ Respond
      PROVE  InOrder' /\ ServingYoungest'
  BY <1>5, <1>0, ReleaseSteps DEF InOrder, ServingYoungest
<1>6. ASSUME ReadTag \/ ReadRequest \/ Restart
      PROVE  InOrder' /\ ServingYoungest'
  BY <1>6 DEF ReadTag, ReadRequest, Restart, client, InOrder, ServingYoungest
<1>7. ASSUME \/ \E k \in Calls : CallStep(k) \/ MonitorGone(k) \/ Cut(k)
             \/ UNCHANGED vars
      PROVE  InOrder' /\ ServingYoungest'
  <2>1. UNCHANGED <<next, pc, cur, log>>
    BY <1>7 DEF CallStep, WriteTag, WriteRequest, Receive, Lose, TimeOut, Shutdown,
                MonitorGone, Cut, client, vars
  <2> QED
    BY <2>1 DEF InOrder, ServingYoungest
<1> QED
  BY <1>1, <1>2, <1>3, <1>4, <1>5, <1>6, <1>7, StepKinds

\* Every step keeps the server from dispatching what was sealed with another
\* key, and leaves calls not yet made untouched.
LEMMA KeyStep ==
  Inductive /\ [Next]_vars => FramesKeyed' /\ OnlyKeyedApplied' /\ FutureBlank'
<1> SUFFICES ASSUME Inductive, [Next]_vars
    PROVE  FramesKeyed' /\ OnlyKeyedApplied' /\ FutureBlank'
  OBVIOUS
<1> USE BoundsAssumption, CallersAssumption DEF Inductive
<1>0. /\ next \in 1..(MaxCalls + 1) /\ cur \in 0..MaxCalls
      /\ log \in Seq(Calls) /\ \A i \in DOMAIN log : log[i] \in Calls
      /\ owner \in [Calls -> Callers \cup {NoCaller}]
      /\ inbox \in [Calls -> {"empty", "data", "request", "foreign", "monitor"}]
      /\ status \in [Calls -> {"unused"} \cup Open \cup Finished]
      /\ \A i \in DOMAIN log : log[i] < next
      /\ cur < next
  BY SeqThms!ElementOfSeq, SeqThms!LenProperties DEF TypeOK, ServingYoungest
<1>1. ASSUME NEW c \in Callers, NEW stage \in {"tagging", "enrolling"},
             Connect(c, stage) \/ Refused(c)
      PROVE  FramesKeyed' /\ OnlyKeyedApplied' /\ FutureBlank'
  <2>1. /\ next \in Calls /\ next' = next + 1
        /\ owner' = [owner EXCEPT ![next] = c]
        /\ \E o \in {"tagging", "enrolling", "refused"} :
             status' = [status EXCEPT ![next] = o]
        /\ UNCHANGED <<inbox, pc, cur, log>>
    BY <1>1, <1>0 DEF Connect, Refused, Return, Calls
  <2>2. \A k \in Calls : k # next => owner'[k] = owner[k] /\ status'[k] = status[k]
    BY <2>1, <1>0
  <2>3. FramesKeyed'
    BY <2>1, <2>2, <1>0 DEF FramesKeyed, FutureBlank, ServingYoungest, Calls
  <2>4. OnlyKeyedApplied'
    BY <2>1, <2>2, <1>0 DEF OnlyKeyedApplied, Calls
  <2>5. FutureBlank'
    BY <2>1, <2>2, <1>0 DEF FutureBlank, Calls
  <2> QED
    BY <2>3, <2>4, <2>5
<1>2. ASSUME NEW k \in Calls, CallStep(k)
      PROVE  FramesKeyed' /\ OnlyKeyedApplied' /\ FutureBlank'
  <2>1. UNCHANGED <<next, owner, pc, cur, log>>
    BY <1>2 DEF CallStep, WriteTag, WriteRequest, Receive, Lose, TimeOut, Shutdown
  <2>2. OnlyKeyedApplied'
    BY <2>1 DEF OnlyKeyedApplied
  <2>3. status[k] \in Open
    BY <1>2, <1>0 DEF CallStep, WriteTag, WriteRequest, Receive, Lose, TimeOut,
                      Shutdown, Open, DataStages, MonitorStages
  <2>4. k < next
    BY <2>3, <1>0 DEF FutureBlank, Open, DataStages, MonitorStages, Calls
  <2>5. \A m \in Calls : m # k => status'[m] = status[m] /\ inbox'[m] = inbox[m]
    BY <1>2, <1>0 DEF CallStep, WriteTag, WriteRequest, Receive, Lose, TimeOut,
                      Shutdown, Return, Deliver
  <2>6. FutureBlank'
    BY <2>1, <2>4, <2>5, <1>0 DEF FutureBlank, Calls
  <2>7. inbox'[k] = "request" => inbox[k] = "request" \/ owner[k] \in Keyed
    BY <1>2, <1>0 DEF CallStep, WriteTag, WriteRequest, Receive, Lose, TimeOut,
                      Shutdown, Deliver
  <2>8. FramesKeyed'
    BY <2>1, <2>5, <2>7 DEF FramesKeyed
  <2> QED
    BY <2>2, <2>6, <2>8
<1>3. ASSUME ReadRequest
      PROVE  FramesKeyed' /\ OnlyKeyedApplied' /\ FutureBlank'
  <2>1. inbox[cur] = "request" /\ cur \in Calls
        /\ UNCHANGED <<next, owner, status, inbox, cur, log>>
    BY <1>3, <1>0 DEF ReadRequest, client, ServingYoungest, Calls
  <2> QED
    BY <2>1 DEF FramesKeyed, OnlyKeyedApplied, FutureBlank
<1>4. ASSUME Apply
      PROVE  FramesKeyed' /\ OnlyKeyedApplied' /\ FutureBlank'
  <2>1. /\ cur \in Calls /\ log' = Append(log, cur) /\ owner[cur] \in Keyed
        /\ pc' = "respond" /\ UNCHANGED <<next, owner, status, inbox, cur>>
    BY <1>4, <1>0 DEF Apply, client, ServingYoungest, FramesKeyed, Calls
  <2>2. \A i \in DOMAIN log' :
          \/ i \in DOMAIN log /\ log'[i] = log[i]
          \/ log'[i] = cur
    BY <2>1, <1>0, AppendFacts
  <2> QED
    BY <2>1, <2>2 DEF FramesKeyed, OnlyKeyedApplied, FutureBlank
<1>5. ASSUME \/ Accept \/ Crash \/ Enrol \/ SkipTag \/ DropRequest \/ Respond
             \/ ReadTag \/ Restart \/ UNCHANGED vars
             \/ \E k \in Calls : MonitorGone(k) \/ Cut(k)
      PROVE  FramesKeyed' /\ OnlyKeyedApplied' /\ FutureBlank'
  <2>1. UNCHANGED <<next, owner, status, inbox, log>>
    BY <1>5 DEF Accept, Crash, Enrol, SkipTag, DropRequest, Respond, ReadTag, Restart,
                MonitorGone, Cut, NextConnection, client, vars
  <2>2. pc' = "apply" => pc = "apply" /\ cur' = cur
    BY <1>5 DEF Accept, Crash, Enrol, SkipTag, DropRequest, Respond, ReadTag, Restart,
                MonitorGone, Cut, NextConnection, client, vars
  <2> QED
    BY <2>1, <2>2 DEF FramesKeyed, OnlyKeyedApplied, FutureBlank
<1> QED
  BY <1>1, <1>2, <1>3, <1>4, <1>5, StepKinds

\* Every step keeps each response with the call it answers.
LEMMA ReplyStep == Inductive /\ [Next]_vars => RepliesOwn'
<1> SUFFICES ASSUME Inductive, [Next]_vars PROVE RepliesOwn'
  OBVIOUS
<1> USE BoundsAssumption DEF Inductive
<1>0. /\ next \in 1..(MaxCalls + 1) /\ cur \in 0..MaxCalls
      /\ log \in Seq(Calls) /\ reply \in [Calls -> Nat]
      /\ status \in [Calls -> {"unused"} \cup Open \cup Finished]
  BY DEF TypeOK
<1>1. ASSUME NEW c \in Callers, NEW stage \in {"tagging", "enrolling"},
             Connect(c, stage) \/ Refused(c)
      PROVE  RepliesOwn'
  <2>1. /\ next \in Calls
        /\ \E o \in {"tagging", "enrolling", "refused"} :
             status' = [status EXCEPT ![next] = o]
        /\ UNCHANGED <<log, reply>>
    BY <1>1, <1>0 DEF Connect, Refused, Return, Calls
  <2> QED
    BY <2>1, <1>0 DEF RepliesOwn
<1>2. ASSUME NEW k \in Calls, CallStep(k)
      PROVE  RepliesOwn'
  <2>1. UNCHANGED <<log, reply>>
    BY <1>2 DEF CallStep, WriteTag, WriteRequest, Receive, Lose, TimeOut, Shutdown
  <2>2. \A m \in Calls :
          status'[m] = "answered" => status[m] = "answered" \/ reply[m] # 0
    BY <1>2, <1>0 DEF CallStep, WriteTag, WriteRequest, Receive, Lose, TimeOut,
                      Shutdown, Return
  <2> QED
    BY <2>1, <2>2 DEF RepliesOwn
<1>3. ASSUME Apply
      PROVE  RepliesOwn'
  <2>1. cur \in Calls /\ log' = Append(log, cur) /\ UNCHANGED <<status, reply>>
    BY <1>3, <1>0 DEF Apply, client, ServingYoungest, Calls
  <2>2. \A i \in DOMAIN log : i \in DOMAIN log' /\ log'[i] = log[i]
    BY <2>1, <1>0, AppendFacts
  <2> QED
    BY <2>1, <2>2 DEF RepliesOwn
<1>4. ASSUME Respond
      PROVE  RepliesOwn'
  <2>1. /\ cur \in Calls /\ Len(log) # 0 /\ log[Len(log)] = cur
        /\ reply' = [reply EXCEPT ![cur] = IF cur \in cut THEN @ ELSE Len(log)]
        /\ UNCHANGED <<log, status>>
    BY <1>4, <1>0 DEF Respond, client, ServingYoungest, Calls
  <2>2. Len(log) \in DOMAIN log
    BY <2>1, <1>0, SeqThms!LenProperties
  <2> QED
    BY <2>1, <2>2, <1>0 DEF RepliesOwn
<1>5. ASSUME \/ Accept \/ Crash \/ Enrol \/ SkipTag \/ DropRequest \/ ReadTag
             \/ ReadRequest \/ Restart \/ UNCHANGED vars
             \/ \E k \in Calls : MonitorGone(k) \/ Cut(k)
      PROVE  RepliesOwn'
  <2>1. UNCHANGED <<status, log, reply>>
    BY <1>5 DEF Accept, Crash, Enrol, SkipTag, DropRequest, ReadTag, ReadRequest,
                Restart, MonitorGone, Cut, NextConnection, client, vars
  <2> QED
    BY <2>1 DEF RepliesOwn
<1> QED
  BY <1>1, <1>2, <1>3, <1>4, <1>5, StepKinds

\* The invariant is inductive.
LEMMA NextInductive == Inductive /\ [Next]_vars => Inductive'
<1> SUFFICES ASSUME Inductive, [Next]_vars PROVE Inductive'
  OBVIOUS
<1> QED
  BY TypeStep, QueueStep, LogStep, KeyStep, ReplyStep DEF Inductive

\* Every reachable state of the RPC layer satisfies the invariant.
THEOREM InductiveHolds == Spec => []Inductive
<1>1. Init => Inductive
  BY InitInductive
<1>2. Inductive /\ [Next]_vars => Inductive'
  BY NextInductive
<1> QED
  BY <1>1, <1>2, PTL DEF Spec

-----------------------------------------------------------------------------
(* The properties.                                                         *)

\* Type correctness of the client, the queue and the serving thread.
THEOREM TypeCorrect == Spec => []TypeOK
<1>1. Inductive => TypeOK
  BY DEF Inductive
<1> QED
  BY <1>1, InductiveHolds, PTL

\* Requests take effect at most once and in the order of their connections,
\* however many callers time out and however often the server is restarted.
THEOREM Ordered == Spec => []InOrder
<1>1. Inductive => InOrder
  BY DEF Inductive
<1> QED
  BY <1>1, InductiveHolds, PTL

\* send never returns the response to another call.
THEOREM AnswersMatch == Spec => []AnswerIsOwn
<1>1. Inductive => AnswerIsOwn
  BY DEF Inductive, RepliesOwn, AnswerIsOwn
<1> QED
  BY <1>1, InductiveHolds, PTL

\* dispatch is never reached by a frame sealed with another password.
THEOREM KeyGuards == Spec => []OnlyKeyedApplied
<1>1. Inductive => OnlyKeyedApplied
  BY DEF Inductive
<1> QED
  BY <1>1, InductiveHolds, PTL

\* A step applies only calls younger than every call already answered.
LEMMA SettledStep ==
  ASSUME Inductive, [Next]_vars, NEW j \in Calls,
         NEW i \in (Len(log) + 1)..Len(log'), status[j] = "answered"
  PROVE  log'[i] > j
<1> USE DEF Inductive
<1>0. /\ cur \in 0..MaxCalls /\ log \in Seq(Calls) /\ Len(log) \in Nat
      /\ MaxCalls \in Nat
  BY BoundsAssumption, SeqThms!LenProperties DEF TypeOK
<1>1. Apply
  <2> SUFFICES ASSUME UNCHANGED log PROVE FALSE
    BY StepKinds, QuietSteps, ReleaseSteps DEF Connect, Refused, Accept, Crash
  <2> QED
    BY <1>0
<1>2. cur \in Calls /\ log' = Append(log, cur)
  BY <1>0, <1>1 DEF Apply, ServingYoungest, Calls
<1>3. i = Len(log) + 1 /\ log'[i] = cur
  <2>1. Len(log') = Len(log) + 1 /\ log'[Len(log) + 1] = cur
    BY <1>0, <1>2, AppendFacts
  <2> QED
    BY <1>0, <2>1
<1>4. \E n \in DOMAIN log : log[n] = j
  BY DEF RepliesOwn
<1>5. j < cur
  BY <1>1, <1>4 DEF Apply, ServingYoungest
<1> QED
  BY <1>0, <1>2, <1>3, <1>5 DEF Calls

\* What timed out is settled by the answer to any later call.
THEOREM AnswersSettle == Spec => Settled
<1>1. Inductive /\ [Next]_vars
        => [\A j \in Calls : \A i \in (Len(log) + 1)..Len(log') :
              status[j] = "answered" => log'[i] > j]_vars
  BY SettledStep
<1> QED
  BY <1>1, InductiveHolds, PTL DEF Spec, Settled

-----------------------------------------------------------------------------
(* The refinement.                                                         *)

\* The initial state of the system is one of CallOrder.
LEMMA RefinedInit == Init => Abstract!Init
BY DEF Init, Abstract!Init, Abstract!Calls, Calls, Outcome, AnswerTo

\* Steps that CallOrder does not see.
LEMMA HiddenSteps ==
  ASSUME Inductive,
         \/ Accept \/ Crash \/ Enrol \/ SkipTag \/ DropRequest \/ ReadTag
         \/ ReadRequest \/ Restart \/ UNCHANGED vars
         \/ \E k \in Calls : MonitorGone(k) \/ Cut(k)
  PROVE  UNCHANGED Abstract!vars
<1>1. UNCHANGED <<next, status, log, reply>>
  BY DEF Accept, Crash, Enrol, SkipTag, DropRequest, ReadTag, ReadRequest, Restart,
         MonitorGone, Cut, NextConnection, client, vars
<1> QED
  BY <1>1 DEF Abstract!vars, Outcome, AnswerTo

\* Every step of the system is a step of CallOrder, or one that it does not see.
LEMMA RefinedStep ==
  ASSUME Inductive, Inductive', [Next]_vars
  PROVE  [Abstract!Next]_(Abstract!vars)
<1> USE BoundsAssumption DEF Inductive
<1>0. /\ next \in 1..(MaxCalls + 1) /\ cur \in 0..MaxCalls
      /\ log \in Seq(Calls) /\ reply \in [Calls -> Nat]
      /\ status \in [Calls -> {"unused"} \cup Open \cup Finished]
      /\ status' \in [Calls -> {"unused"} \cup Open \cup Finished]
  BY DEF TypeOK
<1> DEFINE outcome == [k \in Calls |-> Outcome(k)]
           answer == [k \in Calls |-> AnswerTo(k)]
<1>1. ASSUME NEW c \in Callers, NEW stage \in {"tagging", "enrolling"},
             Connect(c, stage) \/ Refused(c)
      PROVE  Abstract!Issue
  <2>1. /\ next \in Calls /\ next' = next + 1
        /\ \E o \in {"tagging", "enrolling", "refused"} :
             status' = [status EXCEPT ![next] = o]
        /\ UNCHANGED <<log, reply>>
    BY <1>1, <1>0 DEF Connect, Refused, Return, Calls
  <2>2. status[next] = "unused"
    BY <2>1 DEF FutureBlank, Calls
  <2>3. \E o \in {"none", "failed"} : outcome' = [outcome EXCEPT ![next] = o]
    BY <2>1, <2>2, <1>0 DEF Outcome, Open, DataStages, MonitorStages
  <2>4. UNCHANGED answer
    BY <2>1, <2>2, <1>0 DEF AnswerTo
  <2>5. next - 1 < MaxCalls /\ next' - 1 = next - 1 + 1 /\ next - 1 + 1 = next
    BY <2>1, <1>0 DEF Calls
  <2> QED
    BY <2>1, <2>3, <2>4, <2>5 DEF Abstract!Issue
<1>2. ASSUME Apply
      PROVE  \E k \in Calls : Abstract!Apply(k)
  <2>1. /\ cur \in Calls /\ log' = Append(log, cur)
        /\ UNCHANGED <<next, status, reply>>
    BY <1>2, <1>0 DEF Apply, client, ServingYoungest, Calls
  <2>2. cur <= next - 1 /\ \A i \in DOMAIN log : log[i] < cur
    BY <1>2, <1>0 DEF Apply, ServingYoungest
  <2>3. UNCHANGED <<outcome, answer>>
    BY <2>1 DEF Outcome, AnswerTo
  <2> QED
    BY <2>1, <2>2, <2>3 DEF Abstract!Apply
<1>3. ASSUME NEW k \in Calls, Receive(k)
      PROVE  Abstract!Answer(k)
  <2>1. /\ status[k] = "waiting" /\ status' = [status EXCEPT ![k] = "answered"]
        /\ reply[k] # 0 /\ UNCHANGED <<next, log, reply>>
    BY <1>3 DEF Receive, Return
  <2>2. reply[k] \in DOMAIN log /\ log[reply[k]] = k
    BY <2>1 DEF RepliesOwn
  <2>3. outcome[k] = "none" /\ outcome' = [outcome EXCEPT ![k] = "answered"]
    BY <2>1, <1>0 DEF Outcome, Open, DataStages, MonitorStages
  <2>4. answer' = [answer EXCEPT ![k] = reply[k]]
    BY <2>1, <1>0 DEF AnswerTo
  <2> QED
    BY <2>1, <2>2, <2>3, <2>4 DEF Abstract!Answer
<1>4. ASSUME NEW k \in Calls, Lose(k) \/ TimeOut(k) \/ Shutdown(k)
      PROVE  Abstract!Fail(k)
  <2>1. /\ status[k] \in Open
        /\ \E o \in {"lost", "timeout", "closed"} :
             status' = [status EXCEPT ![k] = o]
        /\ UNCHANGED <<next, log, reply>>
    BY <1>4 DEF Lose, TimeOut, Shutdown, Return, Open, MonitorStages
  <2>2. k <= next - 1
    BY <2>1, <1>0 DEF FutureBlank, Open, DataStages, MonitorStages, Calls
  <2>3. outcome[k] = "none" /\ outcome' = [outcome EXCEPT ![k] = "failed"]
    BY <2>1, <1>0 DEF Outcome, Open, DataStages, MonitorStages
  <2>4. UNCHANGED answer
    BY <2>1, <1>0 DEF AnswerTo, Open, DataStages, MonitorStages
  <2> QED
    BY <2>1, <2>2, <2>3, <2>4 DEF Abstract!Fail
<1>5. ASSUME NEW k \in Calls, WriteTag(k) \/ WriteRequest(k)
      PROVE  UNCHANGED Abstract!vars
  <2>1. /\ status[k] \in Open
        /\ \E o \in Open : status' = [status EXCEPT ![k] = o]
        /\ UNCHANGED <<next, log, reply>>
    BY <1>5 DEF WriteTag, WriteRequest, Open, DataStages, MonitorStages
  <2>2. UNCHANGED outcome
    BY <2>1, <1>0 DEF Outcome, Open, DataStages, MonitorStages
  <2>3. UNCHANGED answer
    BY <2>1, <1>0 DEF AnswerTo, Open, DataStages, MonitorStages
  <2> QED
    BY <2>1, <2>2, <2>3 DEF Abstract!vars
<1>6. ASSUME Respond
      PROVE  UNCHANGED Abstract!vars
  <2>1. /\ cur \in Calls /\ Len(log) # 0 /\ log[Len(log)] = cur
        /\ reply' = [reply EXCEPT ![cur] = IF cur \in cut THEN @ ELSE Len(log)]
        /\ UNCHANGED <<next, status, log>>
    BY <1>6, <1>0 DEF Respond, client, ServingYoungest, Calls
  <2>2. Len(log) \in DOMAIN log /\ DOMAIN log \subseteq Nat
        /\ \A i \in DOMAIN log : log[i] \in Nat
    BY <2>1, <1>0, SeqThms!LenProperties, SeqThms!ElementOfSeq DEF Calls
  <2>3. status[cur] = "answered" => reply[cur] = Len(log)
    BY <2>1, <2>2 DEF RepliesOwn, InOrder
  <2>4. \A k \in Calls : status[k] = "answered" => reply'[k] = reply[k]
    BY <2>1, <2>3, <1>0
  <2> QED
    BY <2>1, <2>4 DEF Abstract!vars, Outcome, AnswerTo
<1> QED
  BY <1>1, <1>2, <1>3, <1>4, <1>5, <1>6, HiddenSteps, StepKinds
  DEF CallStep, Abstract!Next, Abstract!Calls, Calls

\* The client, the server and the network between them implement CallOrder.
THEOREM Refinement == Spec => AbsSpec
<1>1. Init => Abstract!Init
  BY RefinedInit
<1>2. Inductive /\ Inductive' /\ [Next]_vars => [Abstract!Next]_(Abstract!vars)
  BY RefinedStep
<1> QED
  BY <1>1, <1>2, InductiveHolds, PTL DEF Spec, AbsSpec, Abstract!Spec
=============================================================================
