------------------------------- MODULE RpcCall -------------------------------
(***************************************************************************)
(* One RPC of netfilum from end to end: RpcClient::send and                *)
(* MonitorConnection on the client, and on the server the accept loop that *)
(* reads a tag byte and serves one data connection at a time on the same   *)
(* thread.                                                                 *)
(*                                                                         *)
(* Every call opens a connection of its own, so a connection is named by   *)
(* the number of its call; numbers are given out in the order in which     *)
(* connections reach the listener.  A request's content is abstracted: a   *)
(* dispatched request is an entry of log, and an answer is the position of *)
(* that entry.                                                             *)
(***************************************************************************)
EXTENDS Naturals, Sequences, FiniteSets

CONSTANTS
  Callers,    \* threads that make calls: WinFsp dispatchers, the main thread
  Keyed,      \* the callers whose password is the server's
  NoCaller,   \* owner of a call not yet made
  MaxCalls,   \* bound on the number of calls
  MaxCrashes  \* bound on the number of times the server process dies

ASSUME CallersAssumption == Keyed \subseteq Callers /\ NoCaller \notin Callers
ASSUME BoundsAssumption == MaxCalls \in Nat /\ MaxCrashes \in Nat

VARIABLES
  next,     \* number of the next connection
  owner,    \* who made each call
  status,   \* how far the caller of each call has come
  cut,      \* connections on which nothing passes any more, in silence
  inbox,    \* what has reached the server's end of each connection
  backlog,  \* connections the listener has completed and not yet accepted
  pc,       \* where the server's only serving thread is
  cur,      \* the connection it serves, 0 for none
  watched,  \* connections held by the server's monitor threads
  log,      \* history: the requests dispatched, oldest first
  reply,    \* the answer that has reached the client's end, 0 for none
  crashes   \* how often the server process has died

vars == <<next, owner, status, cut, inbox, backlog, pc, cur, watched, log,
          reply, crashes>>

Calls == 1..MaxCalls

DataStages == {"tagging", "writing", "waiting"}
MonitorStages == {"enrolling", "watching"}
Open == DataStages \cup MonitorStages
Finished == {"answered", "timeout", "lost", "refused", "closed"}

TypeOK ==
  /\ next \in 1..(MaxCalls + 1)
  /\ owner \in [Calls -> Callers \cup {NoCaller}]
  /\ status \in [Calls -> {"unused"} \cup Open \cup Finished]
  /\ cut \in SUBSET Calls
  /\ inbox \in [Calls -> {"empty", "data", "request", "foreign", "monitor"}]
  /\ backlog \in Seq(Calls)
  /\ pc \in {"down", "accept", "tag", "request", "apply", "respond"}
  /\ cur \in 0..MaxCalls
  /\ watched \in SUBSET Calls
  /\ log \in Seq(Calls)
  /\ reply \in [Calls -> Nat]
  /\ crashes \in 0..MaxCrashes

Init ==
  /\ next = 1
  /\ owner = [k \in Calls |-> NoCaller]
  /\ status = [k \in Calls |-> "unused"]
  /\ cut = {}
  /\ inbox = [k \in Calls |-> "empty"]
  /\ backlog = <<>>
  /\ pc = "accept"
  /\ cur = 0
  /\ watched = {}
  /\ log = <<>>
  /\ reply = [k \in Calls |-> 0]
  /\ crashes = 0

-----------------------------------------------------------------------------
(* What one end of a connection can observe of the other.                  *)

\* The server process has a descriptor for connection k, or its kernel has
\* it queued.
ServerHolds(k) ==
  \/ \E i \in DOMAIN backlog : backlog[i] = k
  \/ cur = k
  \/ k \in watched

\* The client sees end of stream, a reset or a broken pipe.
ServerGone(k) == ~ServerHolds(k) /\ k \notin cut

\* The server sees the client's end of the connection closed.
ClientGone(k) == status[k] \in Finished /\ k \notin cut

\* Bytes written by the client reach the server unless the path is cut.
Deliver(k, bytes) ==
  inbox' = [inbox EXCEPT ![k] = IF k \in cut THEN @ ELSE bytes]

\* Send and wait_for_disconnect return, and drop the stream.
Return(k, outcome) == status' = [status EXCEPT ![k] = outcome]

-----------------------------------------------------------------------------
(* The client.                                                             *)

\* A caller is inside at most one call.
Idle(c) == \A k \in Calls : owner[k] = c => status[k] \notin Open

\* TcpStream::connect succeeds: the listener's queue grows by one.
Connect(c, stage) ==
  /\ next <= MaxCalls
  /\ Idle(c)
  /\ pc # "down"
  /\ next' = next + 1
  /\ owner' = [owner EXCEPT ![next] = c]
  /\ status' = [status EXCEPT ![next] = stage]
  /\ backlog' = Append(backlog, next)
  /\ UNCHANGED <<cut, inbox, pc, cur, watched, log, reply, crashes>>

\* TcpStream::connect fails: nobody listens, or the host cannot be reached.
Refused(c) ==
  /\ next <= MaxCalls
  /\ Idle(c)
  /\ next' = next + 1
  /\ owner' = [owner EXCEPT ![next] = c]
  /\ Return(next, "refused")
  /\ UNCHANGED <<cut, inbox, backlog, pc, cur, watched, log, reply, crashes>>

\* The tag byte, written before anything else.
WriteTag(k) ==
  /\ \/ /\ status[k] = "tagging"
        /\ status' = [status EXCEPT ![k] = "writing"]
        /\ Deliver(k, "data")
     \/ /\ status[k] = "enrolling"
        /\ status' = [status EXCEPT ![k] = "watching"]
        /\ Deliver(k, "monitor")
  /\ UNCHANGED <<next, owner, cut, backlog, pc, cur, watched, log, reply, crashes>>

\* The request's frame, sealed with the caller's key.
WriteRequest(k) ==
  /\ status[k] = "writing"
  /\ status' = [status EXCEPT ![k] = "waiting"]
  /\ Deliver(k, IF owner[k] \in Keyed THEN "request" ELSE "foreign")
  /\ UNCHANGED <<next, owner, cut, backlog, pc, cur, watched, log, reply, crashes>>

\* The response's frame is read, and the call returns it.
Receive(k) ==
  /\ status[k] = "waiting"
  /\ reply[k] # 0
  /\ Return(k, "answered")
  /\ UNCHANGED <<next, owner, cut, inbox, backlog, pc, cur, watched, log, reply,
                 crashes>>

\* Mutant of Lose: an error on the monitor connection is swallowed.
LoseDataOnly(k) ==
  /\ status[k] \in DataStages
  /\ reply[k] = 0
  /\ ServerGone(k)
  /\ Return(k, "lost")
  /\ UNCHANGED <<next, owner, cut, inbox, backlog, pc, cur, watched, log, reply,
                 crashes>>

\* The connection ends before a response: end of stream, reset, broken pipe.
Lose(k) ==
  /\ status[k] \in Open
  /\ reply[k] = 0
  /\ ServerGone(k)
  /\ Return(k, "lost")
  /\ UNCHANGED <<next, owner, cut, inbox, backlog, pc, cur, watched, log, reply,
                 crashes>>

\* Mutant of TimeOut: only the writes are timed, not the read of the response.
TimeOutOfWrites(k) ==
  /\ status[k] \in {"tagging", "writing"}
  /\ reply[k] = 0
  /\ Return(k, "timeout")
  /\ UNCHANGED <<next, owner, cut, inbox, backlog, pc, cur, watched, log, reply,
                 crashes>>

\* The five-second read and write timeouts of a data connection; a monitor
\* connection has none.
TimeOut(k) ==
  /\ status[k] \in DataStages
  /\ reply[k] = 0
  /\ Return(k, "timeout")
  /\ UNCHANGED <<next, owner, cut, inbox, backlog, pc, cur, watched, log, reply,
                 crashes>>

\* MonitorConnection::shutdown, when the drive has been unmounted.
Shutdown(k) ==
  /\ status[k] = "watching"
  /\ Return(k, "closed")
  /\ UNCHANGED <<next, owner, cut, inbox, backlog, pc, cur, watched, log, reply,
                 crashes>>

-----------------------------------------------------------------------------
(* The server: one thread accepts and serves, each monitor connection has  *)
(* a thread that only waits for its end.                                   *)

client == <<next, owner, status, inbox>>

\* The serving thread is done with its connection, which is closed unless a
\* monitor thread has taken it.
NextConnection == pc' = "accept" /\ cur' = 0

\* Mutant of Accept: the newest connection is served first.
AcceptNewest ==
  /\ pc = "accept"
  /\ backlog # <<>>
  /\ cur' = backlog[Len(backlog)]
  /\ backlog' = SubSeq(backlog, 1, Len(backlog) - 1)
  /\ pc' = "tag"
  /\ UNCHANGED <<client, cut, watched, log, reply, crashes>>

\* listener.accept takes the oldest connection of the queue.
Accept ==
  /\ pc = "accept"
  /\ backlog # <<>>
  /\ cur' = Head(backlog)
  /\ backlog' = Tail(backlog)
  /\ pc' = "tag"
  /\ UNCHANGED <<client, cut, watched, log, reply, crashes>>

\* The tag is CONNECTION_DATA: handle_data sets its timeouts.
ReadTag ==
  /\ pc = "tag"
  /\ inbox[cur] \in {"data", "request", "foreign"}
  /\ pc' = "request"
  /\ UNCHANGED <<client, cut, backlog, cur, watched, log, reply, crashes>>

\* The tag is CONNECTION_MONITOR: a thread of its own takes the connection.
Enrol ==
  /\ pc = "tag"
  /\ inbox[cur] = "monitor"
  /\ watched' = watched \cup {cur}
  /\ NextConnection
  /\ UNCHANGED <<client, cut, backlog, log, reply, crashes>>

\* read_exact fails: the client closed the connection without a tag.  The
\* read has no timeout, so a connection that stays silent holds the thread.
SkipTag ==
  /\ pc = "tag"
  /\ inbox[cur] = "empty"
  /\ ClientGone(cur)
  /\ NextConnection
  /\ UNCHANGED <<client, cut, backlog, watched, log, reply, crashes>>

\* Mutant of ReadRequest: the frame's authentication is not checked.
ReadUnchecked ==
  /\ pc = "request"
  /\ inbox[cur] \in {"request", "foreign"}
  /\ pc' = "apply"
  /\ UNCHANGED <<client, cut, backlog, cur, watched, log, reply, crashes>>

\* read_message returns a request.
ReadRequest ==
  /\ pc = "request"
  /\ inbox[cur] = "request"
  /\ pc' = "apply"
  /\ UNCHANGED <<client, cut, backlog, cur, watched, log, reply, crashes>>

\* Mutant of DropRequest: the error is not propagated out of handle_data.
DropAndGoOn ==
  /\ pc = "request"
  /\ inbox[cur] \in {"data", "foreign"}
  /\ pc' = "apply"
  /\ cur' = 0
  /\ UNCHANGED <<client, cut, backlog, watched, log, reply, crashes>>

\* Mutant of DropRequest: the read of a request has no timeout.
DropOnError ==
  /\ pc = "request"
  /\ \/ inbox[cur] = "foreign"
     \/ inbox[cur] = "data" /\ ClientGone(cur)
  /\ NextConnection
  /\ UNCHANGED <<client, cut, backlog, watched, log, reply, crashes>>

\* read_message fails: nothing for five seconds, end of stream, or a frame
\* that was not sealed with the server's key.  No response is written.
DropRequest ==
  /\ pc = "request"
  /\ inbox[cur] \in {"data", "foreign"}
  /\ NextConnection
  /\ UNCHANGED <<client, cut, backlog, watched, log, reply, crashes>>

\* Mutant of Apply: dispatch runs again before the response is written.
ApplyTwice ==
  /\ pc = "apply"
  /\ log' = log \o <<cur, cur>>
  /\ pc' = "respond"
  /\ UNCHANGED <<client, cut, backlog, cur, watched, reply, crashes>>

\* dispatch, with all its effects, whatever has become of the caller.
Apply ==
  /\ pc = "apply"
  /\ log' = Append(log, cur)
  /\ pc' = "respond"
  /\ UNCHANGED <<client, cut, backlog, cur, watched, reply, crashes>>

\* Mutant of Respond: a response is kept and sent again.
RespondStale ==
  /\ pc = "respond"
  /\ reply' = [reply EXCEPT ![cur] = IF cur \in cut THEN @ ELSE 1]
  /\ NextConnection
  /\ UNCHANGED <<client, cut, backlog, watched, log, crashes>>

\* write_message; bytes for a client that is gone are discarded.
Respond ==
  /\ pc = "respond"
  /\ reply' = [reply EXCEPT ![cur] = IF cur \in cut THEN @ ELSE Len(log)]
  /\ NextConnection
  /\ UNCHANGED <<client, cut, backlog, watched, log, crashes>>

\* wait_for_disconnect returns in a monitor thread, which ends.
MonitorGone(k) ==
  /\ k \in watched
  /\ ClientGone(k)
  /\ watched' = watched \ {k}
  /\ UNCHANGED <<client, cut, backlog, pc, cur, log, reply, crashes>>

\* The server process dies: it is killed, or accept returns an error, which
\* serve passes on to main.
Crash ==
  /\ pc # "down"
  /\ crashes < MaxCrashes
  /\ crashes' = crashes + 1
  /\ pc' = "down"
  /\ cur' = 0
  /\ backlog' = <<>>
  /\ watched' = {}
  /\ UNCHANGED <<client, cut, log, reply>>

\* The server is started again at the same address.
Restart ==
  /\ pc = "down"
  /\ pc' = "accept"
  /\ UNCHANGED <<client, cut, backlog, cur, watched, log, reply, crashes>>

\* The network stops carrying a connection, and tells neither end.
Cut(k) ==
  /\ k < next
  /\ k \notin cut
  /\ status[k] \in Open \/ ServerHolds(k)
  /\ cut' = cut \cup {k}
  /\ UNCHANGED <<client, backlog, pc, cur, watched, log, reply, crashes>>

-----------------------------------------------------------------------------
Client ==
  \/ \E c \in Callers :
       \/ \E stage \in {"tagging", "enrolling"} : Connect(c, stage)
       \/ Refused(c)
  \/ \E k \in Calls :
       WriteTag(k) \/ WriteRequest(k) \/ Receive(k) \/ Lose(k) \/ TimeOut(k)
         \/ Shutdown(k)

\* The steps of the serving thread.
Serve == Accept \/ ReadTag \/ Enrol \/ SkipTag \/ ReadRequest \/ DropRequest
           \/ Apply \/ Respond

Server == Serve \/ Crash \/ Restart \/ \E k \in Calls : MonitorGone(k)

Next == Client \/ Server \/ \E k \in Calls : Cut(k)

Spec == Init /\ [][Next]_vars

\* A caller goes on with its call, and is woken by a response, by the end of
\* the connection or by its timeout.  The serving thread goes on as long as
\* it has something to do.  Nothing is assumed of crashes, restarts, cuts or
\* the unmount that closes a monitor connection.
Fairness ==
  /\ WF_vars(Serve)
  /\ \A k \in Calls :
       /\ WF_vars(WriteTag(k))
       /\ WF_vars(WriteRequest(k))
       /\ WF_vars(Receive(k) \/ Lose(k) \/ TimeOut(k))
       /\ WF_vars(MonitorGone(k))

FairSpec == Spec /\ Fairness

-----------------------------------------------------------------------------
(* Safety.                                                                 *)

\* A request takes effect at most once, and requests take effect in the order
\* in which their connections were made, across timeouts and restarts of the
\* server.
InOrder == \A i, j \in DOMAIN log : i < j => log[i] < log[j]

\* A caller whose call returns a response has the response to that very call.
AnswerIsOwn ==
  \A k \in Calls :
    status[k] = "answered" => reply[k] \in DOMAIN log /\ log[reply[k]] = k

\* No request of a caller with another password is ever dispatched.
OnlyKeyedApplied == \A i \in DOMAIN log : owner[log[i]] \in Keyed

\* A request that timed out may still take effect, but not once a call made
\* after it has been answered: from then on its outcome is settled.
Settled ==
  [][\A j \in Calls : \A i \in (Len(log) + 1)..Len(log') :
       status[j] = "answered" => log'[i] > j]_vars

-----------------------------------------------------------------------------
(* The inductive invariant behind these properties.                        *)

\* The queue holds connections in the order in which they were made, all of
\* them younger than the one being served and than every request applied.
QueueOrdered ==
  /\ \A i, j \in DOMAIN backlog : i < j => backlog[i] < backlog[j]
  /\ \A i \in DOMAIN backlog : cur < backlog[i] /\ backlog[i] < next
  /\ \A i \in DOMAIN log, j \in DOMAIN backlog : log[i] < backlog[j]

\* What the serving thread has in hand is younger than every request applied,
\* until it is the youngest of them.
ServingYoungest ==
  /\ pc \in {"accept", "down"} <=> cur = 0
  /\ cur < next
  /\ \A i \in DOMAIN log : log[i] < next
  /\ pc \in {"tag", "request", "apply"} => \A i \in DOMAIN log : log[i] < cur
  /\ pc = "respond" => Len(log) # 0 /\ log[Len(log)] = cur

\* A frame the server can open came from a caller that has its key.
FramesKeyed ==
  /\ \A k \in Calls : inbox[k] = "request" => owner[k] \in Keyed
  /\ pc = "apply" => owner[cur] \in Keyed

\* A response that has reached the client is that of the call's own request.
RepliesOwn ==
  \A k \in Calls :
    /\ reply[k] # 0 => reply[k] \in DOMAIN log /\ log[reply[k]] = k
    /\ status[k] = "answered" => reply[k] # 0

\* Calls not yet made have left no trace.
FutureBlank ==
  \A k \in Calls : k >= next => status[k] = "unused" /\ inbox[k] = "empty"

\* The five parts and the first safety properties hold together, and every
\* step keeps them.
Inductive ==
  /\ TypeOK
  /\ QueueOrdered
  /\ ServingYoungest
  /\ FramesKeyed
  /\ RepliesOwn
  /\ FutureBlank
  /\ InOrder
  /\ OnlyKeyedApplied

-----------------------------------------------------------------------------
(* Refinement.                                                             *)

Outcome(k) ==
  CASE status[k] = "answered" -> "answered"
    [] status[k] \in {"unused"} \cup Open -> "none"
    [] OTHER -> "failed"

AnswerTo(k) == IF status[k] = "answered" THEN reply[k] ELSE 0

Abstract ==
  INSTANCE CallOrder WITH issued <- next - 1,
                          outcome <- [k \in Calls |-> Outcome(k)],
                          answer <- [k \in Calls |-> AnswerTo(k)]

\* The client, the serving loop and the network together do no more than the
\* calls of CallOrder.
AbsSpec == Abstract!Spec

-----------------------------------------------------------------------------
(* Liveness, under FairSpec.                                               *)

\* RpcClient::send returns, whatever the server and the network do.
CallsReturn ==
  \A k \in Calls : status[k] \in DataStages ~> status[k] \in Finished

\* A client that waits on its monitor connection learns of the death of the
\* server, also when the server is back before it looks, unless the path was
\* cut in silence: the connection has no keepalive.
ServerGoneNoticed ==
  \A k \in Calls :
    (status[k] = "watching" /\ pc = "down")
      ~> (status[k] # "watching" \/ k \in cut)

\* The serving thread always comes back to accept, except for the one wait
\* that has no timeout: a connection cut before its tag byte.
ServerReturns ==
  \/ []<>(pc \in {"accept", "down"})
  \/ <>[](pc = "tag" /\ inbox[cur] = "empty" /\ cur \in cut)
=============================================================================
