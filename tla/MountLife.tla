------------------------------ MODULE MountLife ------------------------------
(***************************************************************************)
(* The life of a client process: netfilum mount, and netfilum up, which    *)
(* starts a server in WSL first and stops it at the end.                   *)
(*                                                                         *)
(* The main thread goes through the stages of run_up and run_mount; the    *)
(* monitor thread waits on a connection of its own for the server to go    *)
(* away; WinFsp dispatcher threads make requests; a Ctrl+C handler is      *)
(* there once the drive is mounted.  What they share is MountState: a stop *)
(* flag, and the message of whoever first reported a lost connection,      *)
(* under a mutex.  Calls are RpcClient::send, seen here only as returning  *)
(* or failing.                                                             *)
(***************************************************************************)
EXTENDS Naturals, FiniteSets

CONSTANTS
  Dispatchers, \* WinFsp's threads
  Monitor,     \* the thread of spawn_connection_monitor
  None         \* no thread, and no message

ASSUME ThreadsAssumption == Monitor \notin Dispatchers
ASSUME NoneAssumption == None \notin Dispatchers \cup {Monitor}

VARIABLES
  command,     \* "up" or "mount"
  pc,          \* where the main thread is
  child,       \* the server process that up has started
  foreign,     \* a server that up did not start listens at the address
  expired,     \* the 45 seconds of wait_for_server are over
  link,        \* the monitor connection
  stage,       \* where each other thread is
  holder,      \* who holds the mutex of disconnect_message
  message,     \* whose message disconnect_message holds
  stop,        \* MountState.stop
  handler,     \* the Ctrl+C handler is installed
  reason,      \* what wait_for_shutdown returned
  drive,       \* the drive letter
  interrupted, \* history: Ctrl+C has been pressed
  broken,      \* history: a connection was lost, and not by this process
  unknown      \* history: try_wait has failed

vars == <<command, pc, child, foreign, expired, link, stage, holder, message,
          stop, handler, reason, drive, interrupted, broken, unknown>>

Reporters == Dispatchers \cup {Monitor}

Ended == {"done", "killed"}

TypeOK ==
  /\ command \in {"up", "mount"}
  /\ pc \in {"spawn", "ping", "poll", "query", "watch", "host", "drive", "handler",
             "loop", "reason", "unmount", "halt", "close", "join", "stopping",
             "kill", "reap"} \cup Ended
  /\ child \in {"none", "starting", "serving", "exited"}
  /\ link \in {"none", "up", "cut", "broken", "shut"}
  /\ stage \in [Reporters -> {"idle", "calling", "waiting", "woken", "reporting",
                              "locked", "ended"}]
  /\ holder \in Reporters \cup {None}
  /\ message \in Reporters \cup {None}
  /\ reason \in {"none", "interrupted", "disconnected"}
  /\ drive \in {"none", "mounted", "gone"}
  /\ {foreign, expired, stop, handler, interrupted, broken, unknown} \subseteq BOOLEAN

Init ==
  /\ \/ command = "up" /\ pc = "spawn"
     \/ command = "mount" /\ pc = "query"
  /\ foreign \in BOOLEAN
  /\ child = "none" /\ link = "none" /\ drive = "none" /\ reason = "none"
  /\ stage = [r \in Reporters |-> "idle"]
  /\ holder = None /\ message = None
  /\ expired = FALSE /\ stop = FALSE /\ handler = FALSE
  /\ interrupted = FALSE /\ broken = FALSE /\ unknown = FALSE

\* Somebody answers at the address.
Service == foreign \/ child = "serving"

shared == <<stage, holder, message, stop>>
history == <<interrupted, broken, unknown>>

-----------------------------------------------------------------------------
(* The main thread: run_up.                                                *)

\* Mutant of Leave: an error of run_mount leaves run_up at once.
LeaveAtOnce == pc' = "done"

\* run_up goes on to stop_wsl_server whatever run_mount returned; run_mount on
\* its own returns to main.
Leave == pc' = IF command = "up" THEN "stopping" ELSE "done"

\* spawn_wsl_server; without a daemon next to the executable, or without WSL,
\* the command ends here.
Spawn ==
  /\ pc = "spawn"
  /\ \/ pc' = "ping" /\ child' = "starting"
     \/ pc' = "done" /\ UNCHANGED child
  /\ UNCHANGED <<command, foreign, expired, link, shared, handler, reason, drive,
                 history>>

\* wait_for_server sends GetVolumeInfo.  Any answer of that kind ends the
\* wait, an answer of another kind ends the command, an error leads on to a
\* look at the child.
Ping ==
  /\ pc = "ping"
  /\ \/ Service /\ pc' \in {"query", "stopping"}
     \/ pc' = "poll"
  /\ UNCHANGED <<command, child, foreign, expired, link, shared, handler, reason,
                 drive, history>>

\* Mutant of Poll: the wait has no deadline.
PollForever ==
  /\ pc = "poll"
  /\ \/ child = "exited" /\ pc' = "stopping" /\ UNCHANGED unknown
     \/ pc' = "stopping" /\ unknown' = TRUE
     \/ child # "exited" /\ pc' = "ping" /\ UNCHANGED unknown
  /\ UNCHANGED <<command, child, foreign, expired, link, shared, handler, reason,
                 drive, interrupted, broken>>

\* The child has exited, or try_wait fails, or the deadline has passed, or
\* there is time for another attempt.
Poll ==
  /\ pc = "poll"
  /\ \/ child = "exited" /\ pc' = "stopping" /\ UNCHANGED unknown
     \/ pc' = "stopping" /\ unknown' = TRUE
     \/ /\ child # "exited"
        /\ pc' = IF expired THEN "stopping" ELSE "ping"
        /\ UNCHANGED unknown
  /\ UNCHANGED <<command, child, foreign, expired, link, shared, handler, reason,
                 drive, interrupted, broken>>

\* stop_wsl_server looks whether there is something to stop.
StopServer ==
  /\ pc = "stopping"
  /\ \/ child = "exited" /\ pc' = "done" /\ UNCHANGED unknown
     \/ pc' = "done" /\ unknown' = TRUE
     \/ child # "exited" /\ pc' = "kill" /\ UNCHANGED unknown
  /\ UNCHANGED <<command, child, foreign, expired, link, shared, handler, reason,
                 drive, interrupted, broken>>

\* The server's end of the monitor connection goes away with the server.
LinkBreaks == link' = IF link = "up" THEN "broken" ELSE link

\* child.kill.
KillServer ==
  /\ pc = "kill"
  /\ child' = "exited"
  /\ IF child = "serving" THEN LinkBreaks ELSE UNCHANGED link
  /\ pc' = "reap"
  /\ UNCHANGED <<command, foreign, expired, shared, handler, reason, drive, history>>

\* child.wait, and the end of the process.
ReapServer ==
  /\ pc = "reap"
  /\ child = "exited"
  /\ pc' = "done"
  /\ UNCHANGED <<command, child, foreign, expired, link, shared, handler, reason,
                 drive, history>>

-----------------------------------------------------------------------------
(* The main thread: run_mount.                                             *)

\* GetVolumeInfo, for the label.
Query ==
  /\ pc = "query"
  /\ \/ Service /\ pc' = "watch"
     \/ Leave
  /\ UNCHANGED <<command, child, foreign, expired, link, shared, handler, reason,
                 drive, history>>

\* MonitorConnection::connect and the thread that waits on the connection.
Watch ==
  /\ pc = "watch"
  /\ \/ /\ Service
        /\ link' = "up"
        /\ stage' = [stage EXCEPT ![Monitor] = "waiting"]
        /\ pc' = "host"
     \/ Leave /\ UNCHANGED <<link, stage>>
  /\ UNCHANGED <<command, child, foreign, expired, holder, message, stop, handler,
                 reason, drive, history>>

\* FileSystemHost::new and start.
StartHost ==
  /\ pc = "host"
  /\ pc' = "drive" \/ Leave
  /\ UNCHANGED <<command, child, foreign, expired, link, shared, handler, reason,
                 drive, history>>

\* host.mount.
MountDrive ==
  /\ pc = "drive"
  /\ \/ pc' = "handler" /\ drive' = "mounted"
     \/ Leave /\ UNCHANGED drive
  /\ UNCHANGED <<command, child, foreign, expired, link, shared, handler, reason,
                 history>>

\* No dispatcher is inside a request.
DispatchersIdle == \A d \in Dispatchers : stage[d] = "idle"

\* ctrlc::set_handler; when it fails the host is dropped, and the drive with it.
SetHandler ==
  /\ pc = "handler"
  /\ \/ pc' = "loop" /\ handler' = TRUE /\ UNCHANGED drive
     \/ DispatchersIdle /\ Leave /\ drive' = "gone" /\ UNCHANGED handler
  /\ UNCHANGED <<command, child, foreign, expired, link, shared, reason, history>>

\* The poll of the stop flag, every 200 ms.
SeeStop ==
  /\ pc = "loop"
  /\ stop
  /\ pc' = "reason"
  /\ UNCHANGED <<command, child, foreign, expired, link, shared, handler, reason,
                 drive, history>>

\* Mutant of ReadReason: the message is passed on as the reason.
ReadMessage ==
  /\ pc = "reason"
  /\ holder = None
  /\ reason' = IF message = None THEN "interrupted" ELSE message
  /\ pc' = "unmount"
  /\ UNCHANGED <<command, child, foreign, expired, link, shared, handler, drive,
                 history>>

\* The message is read under the mutex.
ReadReason ==
  /\ pc = "reason"
  /\ holder = None
  /\ reason' = IF message = None THEN "interrupted" ELSE "disconnected"
  /\ pc' = "unmount"
  /\ UNCHANGED <<command, child, foreign, expired, link, shared, handler, drive,
                 history>>

\* Mutant of Unmount: the mount point is left to the end of the process.
UnmountLater ==
  /\ pc = "unmount"
  /\ pc' = "halt"
  /\ UNCHANGED <<command, child, foreign, expired, link, shared, handler, reason,
                 drive, history>>

\* host.unmount.
Unmount ==
  /\ pc = "unmount"
  /\ drive' = "gone"
  /\ pc' = "halt"
  /\ UNCHANGED <<command, child, foreign, expired, link, shared, handler, reason,
                 history>>

\* host.stop waits for the dispatchers.
StopHost ==
  /\ pc = "halt"
  /\ DispatchersIdle
  /\ pc' = "close"
  /\ UNCHANGED <<command, child, foreign, expired, link, shared, handler, reason,
                 drive, history>>

\* Mutant of CloseLink: the watcher is joined without being stopped.
CloseNothing ==
  /\ pc = "close"
  /\ pc' = "join"
  /\ UNCHANGED <<command, child, foreign, expired, link, shared, handler, reason,
                 drive, history>>

\* watcher.stop shuts the monitor connection down, which wakes the thread.
CloseLink ==
  /\ pc = "close"
  /\ link' = IF link = "broken" THEN link ELSE "shut"
  /\ pc' = "join"
  /\ UNCHANGED <<command, child, foreign, expired, shared, handler, reason, drive,
                 history>>

\* watcher.join.
Join ==
  /\ pc = "join"
  /\ stage[Monitor] = "ended"
  /\ Leave
  /\ UNCHANGED <<command, child, foreign, expired, link, shared, handler, reason,
                 drive, history>>

-----------------------------------------------------------------------------
(* The other threads of the process.                                       *)

Alive == pc \notin Ended

main == <<command, pc, child, foreign, expired, link, handler, reason, drive>>

Move(r, s) == stage' = [stage EXCEPT ![r] = s]

\* read on the monitor connection returns: end of stream, or an error.
Wake ==
  /\ Alive
  /\ stage[Monitor] = "waiting"
  /\ link \in {"broken", "shut"}
  /\ Move(Monitor, "woken")
  /\ UNCHANGED <<main, holder, message, stop, history>>

\* Mutant of Check: every end of the connection is reported.
CheckNothing ==
  /\ Alive
  /\ stage[Monitor] = "woken"
  /\ Move(Monitor, "reporting")
  /\ UNCHANGED <<main, holder, message, stop, history>>

\* The thread reports the end of the connection unless the process is already
\* shutting down.
Check ==
  /\ Alive
  /\ stage[Monitor] = "woken"
  /\ Move(Monitor, IF stop THEN "ended" ELSE "reporting")
  /\ UNCHANGED <<main, holder, message, stop, history>>

\* A dispatcher makes a request, from the moment the host is started until it
\* is told to stop.
Call(d) ==
  /\ pc \in {"handler", "loop", "reason", "unmount"}
  /\ stage[d] = "idle"
  /\ Move(d, "calling")
  /\ UNCHANGED <<main, holder, message, stop, history>>

\* The request returns: a response, or an error that is not a disconnect, such
\* as a timeout, or any error of a request that is not Stat or ReadDir.
CallReturns(d) ==
  /\ Alive
  /\ stage[d] = "calling"
  /\ Move(d, "idle")
  /\ UNCHANGED <<main, holder, message, stop, history>>

\* fetch_attr or fetch_dir_entries fails with one of the kinds of
\* is_disconnect_error: nobody listens, or this one connection was closed
\* under the request, which a server that is alive does too.
CallDisconnects(d) ==
  /\ Alive
  /\ stage[d] = "calling"
  /\ Move(d, "reporting")
  /\ broken' = TRUE
  /\ UNCHANGED <<main, holder, message, stop, interrupted, unknown>>

\* Mutant of Lock: the flag is raised on the way in, ahead of the message.
LockLate(r) ==
  /\ Alive
  /\ stage[r] = "reporting"
  /\ stop' = TRUE
  /\ Move(r, "locked")
  /\ UNCHANGED <<main, holder, message, history>>

\* report_disconnect takes the mutex, and leaves an earlier message in place.
Lock(r) ==
  /\ Alive
  /\ stage[r] = "reporting"
  /\ holder = None
  /\ holder' = r
  /\ message' = IF message = None THEN r ELSE message
  /\ Move(r, "locked")
  /\ UNCHANGED <<main, stop, history>>

\* Mutant of Raise: the flag is left to the first reporter's message.
RaiseNothing(r) ==
  /\ Alive
  /\ stage[r] = "locked"
  /\ holder' = None
  /\ Move(r, IF r = Monitor THEN "ended" ELSE "idle")
  /\ UNCHANGED <<main, message, stop, history>>

\* It raises the flag and releases the mutex.
Raise(r) ==
  /\ Alive
  /\ stage[r] = "locked"
  /\ stop' = TRUE
  /\ holder' = None
  /\ Move(r, IF r = Monitor THEN "ended" ELSE "idle")
  /\ UNCHANGED <<main, message, history>>

-----------------------------------------------------------------------------
(* The user, the server and the network.                                   *)

\* Ctrl+C: with the handler installed it raises the flag; before that it ends
\* the process on the spot, and with the process go its threads and its drive.
Interrupt ==
  /\ Alive
  /\ interrupted' = TRUE
  /\ \/ /\ handler
        /\ stop' = TRUE
        /\ UNCHANGED <<pc, drive>>
     \/ /\ ~handler
        /\ pc' = "killed"
        /\ drive' = IF drive = "mounted" THEN "gone" ELSE drive
        /\ UNCHANGED stop
  /\ UNCHANGED <<command, child, foreign, expired, link, stage, holder, message, handler,
                 reason, broken, unknown>>

\* The deadline of wait_for_server passes.
Expire ==
  /\ pc \in {"ping", "poll"}
  /\ ~expired
  /\ expired' = TRUE
  /\ UNCHANGED <<command, pc, child, foreign, link, shared, handler, reason, drive,
                 history>>

\* The child binds the address, which a foreign server must have left free.
ChildServes ==
  /\ child = "starting"
  /\ ~foreign
  /\ child' = "serving"
  /\ UNCHANGED <<command, pc, foreign, expired, link, shared, handler, reason, drive,
                 history>>

\* The child exits: its bind fails, it dies, or it answers Ctrl+C itself.
ChildExits ==
  /\ child \in {"starting", "serving"}
  /\ child' = "exited"
  /\ IF child = "serving" THEN LinkBreaks ELSE UNCHANGED link
  /\ broken' = (broken \/ link' # link)
  /\ UNCHANGED <<command, pc, foreign, expired, shared, handler, reason, drive,
                 interrupted, unknown>>

\* The other server goes away.
ForeignExits ==
  /\ foreign
  /\ foreign' = FALSE
  /\ LinkBreaks
  /\ broken' = (broken \/ link' # link)
  /\ UNCHANGED <<command, pc, child, expired, shared, handler, reason, drive,
                 interrupted, unknown>>

\* The network resets the monitor connection, or stops carrying it in silence.
LinkFails ==
  /\ link = "up"
  /\ \/ link' = "broken" /\ broken' = TRUE
     \/ link' = "cut" /\ UNCHANGED broken
  /\ UNCHANGED <<command, pc, child, foreign, expired, shared, handler, reason,
                 drive, interrupted, unknown>>

-----------------------------------------------------------------------------
Main ==
  \/ Spawn \/ Ping \/ Poll \/ StopServer \/ KillServer
       \/ ReapServer
  \/ Query \/ Watch \/ StartHost \/ MountDrive \/ SetHandler
  \/ SeeStop \/ ReadReason \/ Unmount \/ StopHost \/ CloseLink \/ Join

Environment ==
  Interrupt \/ Expire \/ ChildServes \/ ChildExits \/ ForeignExits \/ LinkFails

Next ==
  \/ Main
  \/ Wake \/ Check
  \/ \E d \in Dispatchers : Call(d) \/ CallReturns(d) \/ CallDisconnects(d)
  \/ \E r \in Reporters : Lock(r) \/ Raise(r)
  \/ Environment

Spec == Init /\ [][Next]_vars

\* The threads of the process run, requests return (RpcCall's CallsReturn), and
\* the mutex, held for two assignments, is not withheld from a thread for ever.
\* Nothing is assumed of the user, the servers and the network.
Fairness ==
  /\ WF_vars(Main)
  /\ SF_vars(ReadReason)
  /\ WF_vars(Expire)
  /\ WF_vars(Wake)
  /\ WF_vars(Check)
  /\ \A d \in Dispatchers : WF_vars(CallReturns(d) \/ CallDisconnects(d))
  /\ \A r \in Reporters : SF_vars(Lock(r)) /\ WF_vars(Raise(r))

FairSpec == Spec /\ Fairness

-----------------------------------------------------------------------------
(* Safety.                                                                 *)

\* The reason given to the user is true: an interrupt only if Ctrl+C was
\* pressed, a lost connection only if one was lost by somebody else's doing.
ReasonTrue ==
  /\ reason = "interrupted" => interrupted
  /\ reason = "disconnected" => broken

\* Shutting down the monitor connection at the end is never taken for the loss
\* of the server.
MessageTrue == reason # "none" /\ message # None => broken

\* A server is not stopped by up while the drive that depends on it is mounted.
NoKillUnderDrive == pc \in {"stopping", "kill", "reap"} => drive # "mounted"

\* When the process ends by itself the drive is unmounted, the server it
\* started has exited, unless try_wait failed, and a monitor thread that
\* outlived the mount has been joined.
OrderlyEnd ==
  pc = "done" =>
    /\ drive # "mounted"
    /\ child \in {"none", "exited"} \/ unknown
    /\ reason # "none" => stage[Monitor] = "ended"

\* README, step 4 of up: when the process ends it stops the server.
EndStopsServer ==
  pc \in Ended => child \in {"none", "exited"} \/ unknown

\* README, steps 1 to 3 of up, and the error of wait_for_server for a server
\* that "exited before becoming ready": the drive is mounted on the server that
\* up has started, once that is ready.
ReadyIsOwn ==
  [][command = "up" /\ pc = "ping" /\ pc' = "query" => child = "serving"]_vars

-----------------------------------------------------------------------------
(* Liveness, under FairSpec.                                               *)

\* Once the drive is being served, the loss of the monitor connection ends the
\* command, with the drive unmounted.
LossEnds == (pc = "loop" /\ link = "broken") ~> pc = "done"

\* So does Ctrl+C.
InterruptEnds == (pc = "loop" /\ interrupted) ~> pc = "done"

\* Waiting for a server comes to an end, one way or another.
WaitEnds == (pc = "ping") ~> (pc \notin {"ping", "poll"})
=============================================================================
