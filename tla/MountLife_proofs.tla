--------------------------- MODULE MountLife_proofs ---------------------------
(***************************************************************************)
(* Proofs about MountLife, for any number of dispatcher threads.           *)
(*                                                                         *)
(* What a thread finds depends on how far the main thread has got: each    *)
(* part of the invariant says what is there at which of its stages.  The   *)
(* parts are kept one by one, over the groups of actions that Next has.    *)
(***************************************************************************)
EXTENDS MountLife, TLAPS

\* The stages before there is a monitor connection; while run_mount has one;
\* while the drive is there; and once the loop has seen the flag.
BeforeWatch == {"spawn", "ping", "poll", "query", "watch"}
Hosting == {"host", "drive", "handler", "loop", "reason", "unmount", "halt",
            "close", "join"}
OnDrive == {"handler", "loop", "reason", "unmount"}
Stopping == {"reason", "unmount", "halt", "close", "join"}

\* Nothing is shared before the monitor connection.
Fresh ==
  pc \in BeforeWatch =>
    /\ link = "none" /\ message = None /\ holder = None
    /\ \A r \in Reporters : stage[r] = "idle"

\* The drive is there only between its mounting and its unmounting.
DriveStage == drive = "mounted" => pc \in OnDrive

\* The reason is found behind the loop, whose end needs the flag.
ReasonStage ==
  /\ pc \in Stopping => stop
  /\ reason # "none" => pc \in Stopping \cup {"stopping", "kill", "reap"} \cup Ended

\* The mutex is held by the thread that is in its critical section, with a
\* message in place.
MutexHeld ==
  /\ \A r \in Reporters : stage[r] = "locked" <=> holder = r
  /\ holder # None => message # None

\* The flag is up for Ctrl+C or with a message.
StopCause == stop => interrupted \/ message # None

\* Only the end of the process shuts its own connection, behind the flag; any
\* other end of it, while run_mount has it, is somebody else's doing.
LinkCause ==
  /\ link = "shut" => stop
  /\ pc \in Hosting /\ link = "broken" => broken

\* A report, in the making or made, is about a connection that was lost: in
\* run_mount, and behind it if it got as far as a reason.  A monitor thread that
\* wakes for another cause finds the flag.
ReportCause ==
  pc \in Hosting \/ reason # "none" =>
    /\ message # None => broken
    /\ \A r \in Reporters : stage[r] \in {"reporting", "locked"} => broken
    /\ stage[Monitor] = "woken" => broken \/ stop

\* run_mount joins the monitor thread when it gets to its end.
Joined ==
  reason # "none" /\ pc \notin Hosting \cup {"killed"} => stage[Monitor] = "ended"

\* Only up has a server to start and to stop, and leaves none without a look.
ChildStage ==
  /\ pc \in {"spawn", "ping", "poll", "stopping", "kill", "reap"} => command = "up"
  /\ command = "mount" \/ pc = "spawn" => child = "none"
  /\ pc = "reap" => child = "exited"
  /\ pc = "done" => child \in {"none", "exited"} \/ unknown

IInv ==
  /\ TypeOK /\ Fresh /\ DriveStage /\ ReasonStage /\ MutexHeld /\ StopCause
  /\ LinkCause /\ ReportCause /\ Joined /\ ChildStage /\ ReasonTrue
-----------------------------------------------------------------------------
(* Types.                                                                  *)

Flags ==
  /\ foreign \in BOOLEAN /\ expired \in BOOLEAN /\ stop \in BOOLEAN /\ handler \in BOOLEAN
  /\ interrupted \in BOOLEAN /\ broken \in BOOLEAN /\ unknown \in BOOLEAN

\* A flag stays one, whatever raises it.
LEMMA FlagsStep == Flags /\ [Next]_vars => Flags'
<1> SUFFICES ASSUME Flags, [Next]_vars PROVE Flags'
  OBVIOUS
<1> USE DEF Flags, shared, history, main
<1>1. CASE Spawn \/ Ping \/ Poll \/ StopServer \/ KillServer \/ ReapServer
  BY <1>1 DEF Spawn, Ping, Poll, StopServer, KillServer, ReapServer
<1>2. CASE Query \/ Watch \/ StartHost \/ MountDrive \/ SetHandler
  BY <1>2 DEF Query, Watch, StartHost, MountDrive, SetHandler
<1>3. CASE SeeStop \/ ReadReason \/ Unmount \/ StopHost \/ CloseLink \/ Join
  BY <1>3 DEF SeeStop, ReadReason, Unmount, StopHost, CloseLink, Join
<1>4. CASE \E d \in Dispatchers : Call(d) \/ CallReturns(d) \/ CallDisconnects(d)
  BY <1>4 DEF Call, CallReturns, CallDisconnects
<1>5. CASE Wake \/ Check \/ \E r \in Reporters : Lock(r) \/ Raise(r)
  BY <1>5 DEF Wake, Check, Lock, Raise
<1>6. CASE Interrupt \/ Expire
  BY <1>6 DEF Interrupt, Expire
<1>7. CASE ChildServes \/ ChildExits \/ ForeignExits \/ LinkFails
  BY <1>7 DEF ChildServes, ChildExits, ForeignExits, LinkFails
<1>8. CASE UNCHANGED vars
  BY <1>8 DEF vars
<1> QED
  BY <1>1, <1>2, <1>3, <1>4, <1>5, <1>6, <1>7, <1>8 DEF Next, Main, Environment

\* What the other threads do to their own places.
LEMMA ThreadTyped ==
  ASSUME TypeOK, NEW r \in Reporters, NEW s, Move(r, s),
         s \in {"idle", "calling", "waiting", "woken", "reporting", "locked", "ended"}
  PROVE  stage' \in [Reporters -> {"idle", "calling", "waiting", "woken", "reporting",
                                   "locked", "ended"}]
BY DEF TypeOK, Move

\* Every variable stays within its type.
LEMMA TypeStep == TypeOK /\ [Next]_vars => TypeOK'
<1> SUFFICES ASSUME TypeOK, [Next]_vars PROVE TypeOK'
  OBVIOUS
<1>1. Flags'
  BY FlagsStep DEF TypeOK, Flags
<1> USE DEF Ended, shared, history, main
<1>2. CASE Spawn \/ Ping \/ Poll \/ StopServer \/ KillServer \/ ReapServer
  BY <1>1, <1>2 DEF TypeOK, Flags, Spawn, Ping, Poll, StopServer, KillServer, ReapServer, LinkBreaks
<1>3. CASE Query \/ Watch \/ StartHost \/ MountDrive \/ SetHandler
  BY <1>1, <1>3 DEF TypeOK, Flags, Query, Watch, StartHost, MountDrive, SetHandler, Leave
<1>4. CASE SeeStop \/ ReadReason \/ Unmount \/ StopHost \/ CloseLink \/ Join
  BY <1>1, <1>4 DEF TypeOK, Flags, SeeStop, ReadReason, Unmount, StopHost, CloseLink, Join, Leave
<1>5. CASE \E d \in Dispatchers : Call(d) \/ CallReturns(d) \/ CallDisconnects(d)
  BY <1>1, <1>5, ThreadTyped DEF TypeOK, Flags, Call, CallReturns, CallDisconnects, Reporters
<1>6. CASE Wake \/ Check \/ \E r \in Reporters : Lock(r) \/ Raise(r)
  BY <1>1, <1>6, ThreadTyped DEF TypeOK, Flags, Wake, Check, Lock, Raise, Reporters
<1>7. CASE Interrupt \/ Expire
  BY <1>1, <1>7 DEF TypeOK, Flags, Interrupt, Expire
<1>8. CASE ChildServes \/ ChildExits \/ ForeignExits \/ LinkFails
  BY <1>1, <1>8 DEF TypeOK, Flags, ChildServes, ChildExits, ForeignExits, LinkFails, LinkBreaks
<1>9. CASE UNCHANGED vars
  BY <1>9 DEF TypeOK, vars
<1> QED
  BY <1>2, <1>3, <1>4, <1>5, <1>6, <1>7, <1>8, <1>9 DEF Next, Main, Environment

-----------------------------------------------------------------------------
(* Every action keeps every part.                                          *)

\* No thread is started, and no connection made, ahead of its stage.
LEMMA FreshStep ==
  ASSUME Fresh, [Next]_vars
  PROVE  Fresh'
<1> USE NoneAssumption, ThreadsAssumption DEF Fresh, Reporters, BeforeWatch, Ended,
    shared, history, main
<1>1. CASE Spawn \/ Ping \/ Poll \/ StopServer \/ KillServer \/ ReapServer
  BY <1>1 DEF Spawn, Ping, Poll, StopServer, KillServer, ReapServer, LinkBreaks
<1>2. CASE Query \/ Watch \/ StartHost \/ MountDrive \/ SetHandler
  BY <1>2 DEF Query, Watch, StartHost, MountDrive, SetHandler, Leave
<1>3. CASE SeeStop \/ ReadReason \/ Unmount \/ StopHost \/ CloseLink \/ Join
  BY <1>3 DEF SeeStop, ReadReason, Unmount, StopHost, CloseLink, Join, Leave
<1>4. CASE \E d \in Dispatchers : Call(d) \/ CallReturns(d) \/ CallDisconnects(d)
  BY <1>4 DEF Alive, Move, Call, CallReturns, CallDisconnects
<1>5. CASE Wake \/ Check \/ \E r \in Reporters : Lock(r) \/ Raise(r)
  BY <1>5 DEF Alive, Move, Wake, Check, Lock, Raise
<1>6. CASE Interrupt \/ Expire
  BY <1>6 DEF Alive, Interrupt, Expire
<1>7. CASE ChildServes \/ ChildExits \/ ForeignExits \/ LinkFails
  BY <1>7 DEF ChildServes, ChildExits, ForeignExits, LinkFails, LinkBreaks
<1>8. CASE UNCHANGED vars
  BY <1>8 DEF vars
<1> QED
  BY <1>1, <1>2, <1>3, <1>4, <1>5, <1>6, <1>7, <1>8 DEF Next, Main, Environment

\* Every way out of the stages with the drive takes it away.
LEMMA DriveStageStep ==
  ASSUME DriveStage, [Next]_vars
  PROVE  DriveStage'
<1> USE NoneAssumption, ThreadsAssumption DEF DriveStage, OnDrive, shared, history,
    main
<1>1. CASE Spawn \/ Ping \/ Poll \/ StopServer \/ KillServer \/ ReapServer
  BY <1>1 DEF Spawn, Ping, Poll, StopServer, KillServer, ReapServer, LinkBreaks
<1>2. CASE Query \/ Watch \/ StartHost \/ MountDrive \/ SetHandler
  BY <1>2 DEF Query, Watch, StartHost, MountDrive, SetHandler, Leave
<1>3. CASE SeeStop \/ ReadReason \/ Unmount \/ StopHost \/ CloseLink \/ Join
  BY <1>3 DEF SeeStop, ReadReason, Unmount, StopHost, CloseLink, Join, Leave
<1>4. CASE \E d \in Dispatchers : Call(d) \/ CallReturns(d) \/ CallDisconnects(d)
  BY <1>4 DEF Alive, Move, Call, CallReturns, CallDisconnects
<1>5. CASE Wake \/ Check \/ \E r \in Reporters : Lock(r) \/ Raise(r)
  BY <1>5 DEF Alive, Move, Wake, Check, Lock, Raise
<1>6. CASE Interrupt \/ Expire
  BY <1>6 DEF Alive, Interrupt, Expire
<1>7. CASE ChildServes \/ ChildExits \/ ForeignExits \/ LinkFails
  BY <1>7 DEF ChildServes, ChildExits, ForeignExits, LinkFails, LinkBreaks
<1>8. CASE UNCHANGED vars
  BY <1>8 DEF vars
<1> QED
  BY <1>1, <1>2, <1>3, <1>4, <1>5, <1>6, <1>7, <1>8 DEF Next, Main, Environment

\* The flag, once up, is not taken down.
LEMMA ReasonStageStep ==
  ASSUME ReasonStage, [Next]_vars
  PROVE  ReasonStage'
<1> USE NoneAssumption, ThreadsAssumption DEF ReasonStage, Stopping, Ended, shared,
    history, main
<1>1. CASE Spawn \/ Ping \/ Poll \/ StopServer \/ KillServer \/ ReapServer
  BY <1>1 DEF Spawn, Ping, Poll, StopServer, KillServer, ReapServer, LinkBreaks
<1>2. CASE Query \/ Watch \/ StartHost \/ MountDrive \/ SetHandler
  BY <1>2 DEF Query, Watch, StartHost, MountDrive, SetHandler, Leave
<1>3. CASE SeeStop \/ ReadReason \/ Unmount \/ StopHost \/ CloseLink \/ Join
  BY <1>3 DEF SeeStop, ReadReason, Unmount, StopHost, CloseLink, Join, Leave
<1>4. CASE \E d \in Dispatchers : Call(d) \/ CallReturns(d) \/ CallDisconnects(d)
  BY <1>4 DEF Alive, Move, Call, CallReturns, CallDisconnects
<1>5. CASE Wake \/ Check \/ \E r \in Reporters : Lock(r) \/ Raise(r)
  BY <1>5 DEF Alive, Move, Wake, Check, Lock, Raise
<1>6. CASE Interrupt \/ Expire
  BY <1>6 DEF Alive, Interrupt, Expire
<1>7. CASE ChildServes \/ ChildExits \/ ForeignExits \/ LinkFails
  BY <1>7 DEF ChildServes, ChildExits, ForeignExits, LinkFails, LinkBreaks
<1>8. CASE UNCHANGED vars
  BY <1>8 DEF vars
<1> QED
  BY <1>1, <1>2, <1>3, <1>4, <1>5, <1>6, <1>7, <1>8 DEF Next, Main, Environment

\* The mutex is taken when it is free, and released by its holder.
LEMMA MutexHeldStep ==
  ASSUME TypeOK, Fresh, MutexHeld, [Next]_vars
  PROVE  MutexHeld'
<1> USE NoneAssumption, ThreadsAssumption DEF TypeOK, Fresh, MutexHeld, Reporters,
    BeforeWatch, shared, history, main
<1>1. CASE Spawn \/ Ping \/ Poll \/ StopServer \/ KillServer \/ ReapServer
  BY <1>1 DEF Spawn, Ping, Poll, StopServer, KillServer, ReapServer, LinkBreaks
<1>2. CASE Query \/ Watch \/ StartHost \/ MountDrive \/ SetHandler
  BY <1>2 DEF Query, Watch, StartHost, MountDrive, SetHandler, Leave
<1>3. CASE SeeStop \/ ReadReason \/ Unmount \/ StopHost \/ CloseLink \/ Join
  BY <1>3 DEF SeeStop, ReadReason, Unmount, StopHost, CloseLink, Join, Leave
<1>4. CASE \E d \in Dispatchers : Call(d) \/ CallReturns(d) \/ CallDisconnects(d)
  BY <1>4 DEF Alive, Move, Call, CallReturns, CallDisconnects
<1>5. CASE Wake \/ Check \/ \E r \in Reporters : Lock(r) \/ Raise(r)
  BY <1>5 DEF Alive, Move, Wake, Check, Lock, Raise
<1>6. CASE Interrupt \/ Expire
  BY <1>6 DEF Alive, Interrupt, Expire
<1>7. CASE ChildServes \/ ChildExits \/ ForeignExits \/ LinkFails
  BY <1>7 DEF ChildServes, ChildExits, ForeignExits, LinkFails, LinkBreaks
<1>8. CASE UNCHANGED vars
  BY <1>8 DEF vars
<1> QED
  BY <1>1, <1>2, <1>3, <1>4, <1>5, <1>6, <1>7, <1>8 DEF Next, Main, Environment

\* Both that raise the flag leave their mark first.
LEMMA StopCauseStep ==
  ASSUME MutexHeld, StopCause, [Next]_vars
  PROVE  StopCause'
<1> USE NoneAssumption, ThreadsAssumption DEF MutexHeld, StopCause, Reporters,
    shared, history, main
<1>1. CASE Spawn \/ Ping \/ Poll \/ StopServer \/ KillServer \/ ReapServer
  BY <1>1 DEF Spawn, Ping, Poll, StopServer, KillServer, ReapServer, LinkBreaks
<1>2. CASE Query \/ Watch \/ StartHost \/ MountDrive \/ SetHandler
  BY <1>2 DEF Query, Watch, StartHost, MountDrive, SetHandler, Leave
<1>3. CASE SeeStop \/ ReadReason \/ Unmount \/ StopHost \/ CloseLink \/ Join
  BY <1>3 DEF SeeStop, ReadReason, Unmount, StopHost, CloseLink, Join, Leave
<1>4. CASE \E d \in Dispatchers : Call(d) \/ CallReturns(d) \/ CallDisconnects(d)
  <2>1. UNCHANGED <<stop, interrupted, message>>
    BY <1>4 DEF Call, CallReturns, CallDisconnects
  <2> QED BY <2>1
<1>5. CASE Wake \/ Check \/ \E r \in Reporters : Lock(r) \/ Raise(r)
  BY <1>5 DEF Alive, Move, Wake, Check, Lock, Raise
<1>6. CASE Interrupt \/ Expire
  BY <1>6 DEF Alive, Interrupt, Expire
<1>7. CASE ChildServes \/ ChildExits \/ ForeignExits \/ LinkFails
  BY <1>7 DEF ChildServes, ChildExits, ForeignExits, LinkFails, LinkBreaks
<1>8. CASE UNCHANGED vars
  BY <1>8 DEF vars
<1> QED
  BY <1>1, <1>2, <1>3, <1>4, <1>5, <1>6, <1>7, <1>8 DEF Next, Main, Environment

\* The process shuts its connection behind the loop, and kills its server behind
\* run_mount.
LEMMA LinkCauseStep ==
  ASSUME Fresh, ReasonStage, LinkCause, [Next]_vars
  PROVE  LinkCause'
<1> USE NoneAssumption, ThreadsAssumption DEF Fresh, ReasonStage, LinkCause,
    Hosting, Stopping, BeforeWatch, shared, history, main
<1>1. CASE Spawn \/ Ping \/ Poll \/ StopServer \/ KillServer \/ ReapServer
  BY <1>1 DEF Spawn, Ping, Poll, StopServer, KillServer, ReapServer, LinkBreaks
<1>2. CASE Query \/ Watch \/ StartHost \/ MountDrive \/ SetHandler
  BY <1>2 DEF Query, Watch, StartHost, MountDrive, SetHandler, Leave
<1>3. CASE SeeStop \/ ReadReason \/ Unmount \/ StopHost \/ CloseLink \/ Join
  BY <1>3 DEF SeeStop, ReadReason, Unmount, StopHost, CloseLink, Join, Leave
<1>4. CASE \E d \in Dispatchers : Call(d) \/ CallReturns(d) \/ CallDisconnects(d)
  BY <1>4 DEF Alive, Move, Call, CallReturns, CallDisconnects
<1>5. CASE Wake \/ Check \/ \E r \in Reporters : Lock(r) \/ Raise(r)
  BY <1>5 DEF Alive, Move, Wake, Check, Lock, Raise
<1>6. CASE Interrupt \/ Expire
  BY <1>6 DEF Alive, Interrupt, Expire
<1>7. CASE ChildServes \/ ChildExits \/ ForeignExits \/ LinkFails
  BY <1>7 DEF ChildServes, ChildExits, ForeignExits, LinkFails, LinkBreaks
<1>8. CASE UNCHANGED vars
  BY <1>8 DEF vars
<1> QED
  BY <1>1, <1>2, <1>3, <1>4, <1>5, <1>6, <1>7, <1>8 DEF Next, Main, Environment

\* A monitor thread that wakes during run_mount has lost its connection, or finds
\* the flag; behind run_mount it has been joined.
LEMMA ReportCauseStep ==
  ASSUME TypeOK, Fresh, ReasonStage, LinkCause, ReportCause, Joined, [Next]_vars
  PROVE  ReportCause'
<1> USE NoneAssumption, ThreadsAssumption DEF TypeOK, Fresh, ReasonStage, LinkCause,
    ReportCause, Joined, Reporters, Hosting, Stopping, BeforeWatch, Ended, shared,
    history, main
<1>1. CASE Spawn \/ Ping \/ Poll \/ StopServer \/ KillServer \/ ReapServer
  BY <1>1 DEF Spawn, Ping, Poll, StopServer, KillServer, ReapServer, LinkBreaks
<1>2. CASE Query \/ Watch \/ StartHost \/ MountDrive \/ SetHandler
  BY <1>2 DEF Query, Watch, StartHost, MountDrive, SetHandler, Leave
<1>3. CASE SeeStop \/ ReadReason \/ Unmount \/ StopHost \/ CloseLink \/ Join
  BY <1>3 DEF SeeStop, ReadReason, Unmount, StopHost, CloseLink, Join, Leave
<1>4. CASE \E d \in Dispatchers : Call(d) \/ CallReturns(d) \/ CallDisconnects(d)
  BY <1>4 DEF Alive, Move, Call, CallReturns, CallDisconnects
<1>5. CASE Wake \/ Check \/ \E r \in Reporters : Lock(r) \/ Raise(r)
  BY <1>5 DEF Alive, Move, Wake, Check, Lock, Raise
<1>6. CASE Interrupt \/ Expire
  BY <1>6 DEF Alive, Interrupt, Expire
<1>7. CASE ChildServes \/ ChildExits \/ ForeignExits \/ LinkFails
  BY <1>7 DEF ChildServes, ChildExits, ForeignExits, LinkFails, LinkBreaks
<1>8. CASE UNCHANGED vars
  BY <1>8 DEF vars
<1> QED
  BY <1>1, <1>2, <1>3, <1>4, <1>5, <1>6, <1>7, <1>8 DEF Next, Main, Environment

\* The monitor thread stays ended.
LEMMA JoinedStep ==
  ASSUME TypeOK, ReasonStage, Joined, [Next]_vars
  PROVE  Joined'
<1> USE NoneAssumption, ThreadsAssumption DEF TypeOK, ReasonStage, Joined,
    Reporters, Hosting, Stopping, Ended, shared, history, main
<1>1. CASE Spawn \/ Ping \/ Poll \/ StopServer \/ KillServer \/ ReapServer
  BY <1>1 DEF Spawn, Ping, Poll, StopServer, KillServer, ReapServer, LinkBreaks
<1>2. CASE Query \/ Watch \/ StartHost \/ MountDrive \/ SetHandler
  BY <1>2 DEF Query, Watch, StartHost, MountDrive, SetHandler, Leave
<1>3. CASE SeeStop \/ ReadReason \/ Unmount \/ StopHost \/ CloseLink \/ Join
  BY <1>3 DEF SeeStop, ReadReason, Unmount, StopHost, CloseLink, Join, Leave
<1>4. CASE \E d \in Dispatchers : Call(d) \/ CallReturns(d) \/ CallDisconnects(d)
  BY <1>4 DEF Alive, Move, Call, CallReturns, CallDisconnects
<1>5. CASE Wake \/ Check \/ \E r \in Reporters : Lock(r) \/ Raise(r)
  BY <1>5 DEF Alive, Move, Wake, Check, Lock, Raise
<1>6. CASE Interrupt \/ Expire
  BY <1>6 DEF Alive, Interrupt, Expire
<1>7. CASE ChildServes \/ ChildExits \/ ForeignExits \/ LinkFails
  BY <1>7 DEF ChildServes, ChildExits, ForeignExits, LinkFails, LinkBreaks
<1>8. CASE UNCHANGED vars
  BY <1>8 DEF vars
<1> QED
  BY <1>1, <1>2, <1>3, <1>4, <1>5, <1>6, <1>7, <1>8 DEF Next, Main, Environment

\* A server that has exited is not started again.
LEMMA ChildStageStep ==
  ASSUME TypeOK, ChildStage, [Next]_vars
  PROVE  ChildStage'
<1> USE NoneAssumption, ThreadsAssumption DEF TypeOK, ChildStage, Ended, shared,
    history, main
<1>1. CASE Spawn \/ Ping \/ Poll \/ StopServer \/ KillServer \/ ReapServer
  BY <1>1 DEF Spawn, Ping, Poll, StopServer, KillServer, ReapServer, LinkBreaks
<1>2. CASE Query \/ Watch \/ StartHost \/ MountDrive \/ SetHandler
  BY <1>2 DEF Query, Watch, StartHost, MountDrive, SetHandler, Leave
<1>3. CASE SeeStop \/ ReadReason \/ Unmount \/ StopHost \/ CloseLink \/ Join
  BY <1>3 DEF SeeStop, ReadReason, Unmount, StopHost, CloseLink, Join, Leave
<1>4. CASE \E d \in Dispatchers : Call(d) \/ CallReturns(d) \/ CallDisconnects(d)
  BY <1>4 DEF Alive, Move, Call, CallReturns, CallDisconnects
<1>5. CASE Wake \/ Check \/ \E r \in Reporters : Lock(r) \/ Raise(r)
  BY <1>5 DEF Alive, Move, Wake, Check, Lock, Raise
<1>6. CASE Interrupt \/ Expire
  BY <1>6 DEF Alive, Interrupt, Expire
<1>7. CASE ChildServes \/ ChildExits \/ ForeignExits \/ LinkFails
  BY <1>7 DEF ChildServes, ChildExits, ForeignExits, LinkFails, LinkBreaks
<1>8. CASE UNCHANGED vars
  BY <1>8 DEF vars
<1> QED
  BY <1>1, <1>2, <1>3, <1>4, <1>5, <1>6, <1>7, <1>8 DEF Next, Main, Environment

\* Without a message the flag is that of Ctrl+C.
LEMMA ReasonTrueStep ==
  ASSUME ReasonStage, StopCause, ReportCause, ReasonTrue, [Next]_vars
  PROVE  ReasonTrue'
<1> USE NoneAssumption, ThreadsAssumption DEF ReasonStage, StopCause, ReportCause,
    ReasonTrue, Hosting, Stopping, Ended, shared, history, main
<1>1. CASE Spawn \/ Ping \/ Poll \/ StopServer \/ KillServer \/ ReapServer
  BY <1>1 DEF Spawn, Ping, Poll, StopServer, KillServer, ReapServer, LinkBreaks
<1>2. CASE Query \/ Watch \/ StartHost \/ MountDrive \/ SetHandler
  BY <1>2 DEF Query, Watch, StartHost, MountDrive, SetHandler, Leave
<1>3. CASE SeeStop \/ ReadReason \/ Unmount \/ StopHost \/ CloseLink \/ Join
  BY <1>3 DEF SeeStop, ReadReason, Unmount, StopHost, CloseLink, Join, Leave
<1>4. CASE \E d \in Dispatchers : Call(d) \/ CallReturns(d) \/ CallDisconnects(d)
  BY <1>4 DEF Alive, Move, Call, CallReturns, CallDisconnects
<1>5. CASE Wake \/ Check \/ \E r \in Reporters : Lock(r) \/ Raise(r)
  BY <1>5 DEF Alive, Move, Wake, Check, Lock, Raise
<1>6. CASE Interrupt \/ Expire
  BY <1>6 DEF Alive, Interrupt, Expire
<1>7. CASE ChildServes \/ ChildExits \/ ForeignExits \/ LinkFails
  BY <1>7 DEF ChildServes, ChildExits, ForeignExits, LinkFails, LinkBreaks
<1>8. CASE UNCHANGED vars
  BY <1>8 DEF vars
<1> QED
  BY <1>1, <1>2, <1>3, <1>4, <1>5, <1>6, <1>7, <1>8 DEF Next, Main, Environment

LEMMA Initially == Init => IInv
BY NoneAssumption
   DEF Init, IInv, TypeOK, Fresh, DriveStage, ReasonStage, MutexHeld, StopCause,
       LinkCause, ReportCause, Joined, ChildStage, ReasonTrue, Reporters, Ended,
       BeforeWatch, Hosting, OnDrive, Stopping

LEMMA Step == IInv /\ [Next]_vars => IInv'
BY TypeStep, FreshStep, DriveStageStep, ReasonStageStep, MutexHeldStep, StopCauseStep,
   LinkCauseStep, ReportCauseStep, JoinedStep, ChildStageStep, ReasonTrueStep DEF IInv

LEMMA Always == Spec => []IInv
BY Initially, Step, PTL DEF Spec

-----------------------------------------------------------------------------
(* The theorems.                                                           *)

\* The variables of the process and its servers keep their types.
THEOREM TypeCorrect == Spec => []TypeOK
<1>1. IInv => TypeOK
  BY DEF IInv
<1> QED BY <1>1, Always, PTL

\* What netfilum says of its end is true, whatever happened at the same time:
\* "interrupted" is after Ctrl+C, and "disconnected" after a connection lost.
THEOREM ReasonsTrue == Spec => []ReasonTrue
<1>1. IInv => ReasonTrue
  BY DEF IInv
<1> QED BY <1>1, Always, PTL

\* The process does not take the end of its own monitor connection for the loss
\* of the server.
THEOREM MessagesTrue == Spec => []MessageTrue
<1>1. IInv => MessageTrue
  BY DEF IInv, ReportCause, MessageTrue
<1> QED BY <1>1, Always, PTL

\* up does not stop its server before the drive is unmounted.
THEOREM DriveFirst == Spec => []NoKillUnderDrive
<1>1. IInv => NoKillUnderDrive
  BY DEF IInv, DriveStage, OnDrive, NoKillUnderDrive
<1> QED BY <1>1, Always, PTL

\* A process that ends by itself leaves no drive, no server it started, and no
\* thread of its own behind.
THEOREM EndsOrderly == Spec => []OrderlyEnd
<1>1. IInv => OrderlyEnd
  BY DEF IInv, DriveStage, OnDrive, Joined, Hosting, ChildStage, OrderlyEnd
<1> QED BY <1>1, Always, PTL
=============================================================================
