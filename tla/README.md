# A verification project for netfilum

netfilum exports a directory of a Linux or WSL machine to Windows as a drive.
`netfilumd` serves the directory over a small RPC protocol; `netfilum` mounts it
through WinFsp. These TLA+ modules model the program as its source describes it,
TLC checks them on small instances, and TLAPS proves the main theorems for every
value of the constants.

Paths below are relative to the repository: *server.rs* is
`crates/netfilum-server/src/server.rs`, *mount.rs* and *rpc_client.rs* are in
`crates/netfilum-client/src/`, *rpc.rs* and *protocol.rs* in `src/`.

## The system

| Component | State | Operations | Talks to |
|---|---|---|---|
| RPC client (`RpcClient`, `MonitorConnection`; rpc_client.rs) | none between calls; one TCP connection per call, one long-lived monitor connection | `send`, `connect`, `wait_for_disconnect`, `shutdown` | the server's accept loop |
| Serving loop (`RpcServer::serve`, `handle_data`; server.rs 61-94) | the kernel's queue of connections, the connection being served, detached monitor threads | accept, read the tag, read a request, dispatch, respond | the RPC client, the request handlers |
| Request handlers (`RpcServer`; server.rs 167-419) | the exported directory | stat, create, list, read, write, can-delete, remove, rename, set length, flush, set basic info | the file system |
| Frame codec (rpc.rs) | the key derived from the password | `write_message`, `read_message` | both ends |
| WinFsp callbacks (`RpcFsContext`, `RpcFileContext`; mount.rs 242-658) | per open file: path under a lock, kind, directory buffer, delete-pending flag | open, create, cleanup, rename, set_delete, read, write, list, ... | the RPC client; called by WinFsp on several threads |
| Mount lifecycle (`run_up`, `run_mount`, `MountState`; mount.rs 40-236, 660-763) | stop flag, first disconnect message under a mutex, the server child, the drive | start and await the server, mount, watch, unmount, stop the server | WSL, the monitor thread, WinFsp, Ctrl+C |
| Timestamp conversions (mount.rs 838-864, server.rs 442-472) | none | wire time to Windows time and back, wire time to file time and back | callbacks, handlers |
| Paths (server path.rs, client path.rs, mount.rs 866-872) | none | normalise, map to WSL | callbacks, handlers |
| Command line, console, security descriptor, capacity, bindings | none of interest | | |

What is hard in it:

* **One serving thread.** Data connections are served inline by the thread that
  accepts. A request whose caller has given up after five seconds is still in
  the queue and still executed. The read of the tag byte, before the timeouts
  are set, is the one wait of that thread that nothing bounds.
* **Unreliable connections.** The server can die between executing a request and
  answering it, be restarted at the same address, or be cut off in silence.
* **Threads of the client.** The main thread, the monitor thread, WinFsp's
  dispatchers and the Ctrl+C handler share a flag and a message, and the main
  thread has to unmount, stop the monitor thread and stop the server in an order
  in which none waits for ever.
* **Operations in several steps.** A rename with replacement removes its target
  and then renames; a constrained write asks for the size and then writes; a
  deletion is checked, remembered and carried out at clean-up; each step is a
  request of its own, or can fail on its own.
* **Names instead of handles.** Every request names a path, so an open file is
  whatever is at its path when the request is executed.
* **Numbers at their limits.** Windows time is unsigned, wire time is signed.

What makes each component correct:

* RPC path: at most one effect per call, effects in the order of the
  connections, an answer is the caller's own, every call returns, the loss of
  the server is noticed, the serving thread comes back to accept.
* Lifecycle: the reason reported is true, the drive is gone before its server is
  stopped, nothing is left running at an orderly end, every end is reached.
* Handlers: the directory stays a tree, a failed request changes no more than the
  half of its own work that it cannot take back, a rename does not lose its
  source, can-delete predicts remove.
* Callbacks: an operation on an open file reaches that file; a granted removal
  takes place; a constrained write respects the size it was told.
* Listing: an enumeration shows what was there when it began, each entry once.
* Conversions: round trips, monotonicity, saturation instead of overflow; a time
  nobody asked to change stays.
* Frames: nothing is taken for a frame but the whole of one; a call is taken for
  the loss of the server only if it was not answered.
* Paths: what is listed can be found.

## Modules

| Module | What it is |
|---|---|
| `CallOrder` | abstract specification of the RPC path: issue, apply, answer, fail |
| `RpcCall` | the RPC path: client calls, connection queue, serving thread, monitor threads, cuts, death and restart |
| `MCRpcCall` | instance of `RpcCall` for TLC |
| `RpcCall_proofs` | theorems about `RpcCall`, among them that it implements `CallOrder` |
| `MountLife` | the life of a client process |
| `MCMountLife` | instance of `MountLife` for TLC |
| `MountLife_proofs` | theorems about `MountLife` |
| `DirTree` | the exported directory and the system calls on it |
| `DirTree_proofs` | what the system calls preserve, for the two modules of proofs that need it |
| `Handlers` | what the handlers answer, as functions of the directory |
| `ServerFs` | the request handlers over `DirTree`, step by step |
| `ServerFs_proofs` | theorems about `ServerFs` |
| `MCServerFs` | instance of `ServerFs` for TLC |
| `HandleIdeal` | abstract specification of open files: a handle stands for a file |
| `MountHandles` | the file contexts of the WinFsp callbacks: a handle is a path |
| `MCMountHandles` | instances of `MountHandles` for TLC |
| `MountHandles_proofs` | theorems about `MountHandles`, among them that it implements `HandleIdeal` where nothing is shared |
| `Listing`, `MCListing` | the enumeration of a directory, from the application to the server's `read_dir` |
| `FileTimes`, `MCFileTimes` | the conversions of times and the request that sets them |
| `FileTimes_proofs` | theorems about `FileTimes` |
| `Exchange`, `MCExchange` | one data connection byte by byte: frames and error codes |
| `Exchange_proofs` | theorems about `Exchange` |
| `Paths` | path normalisation on both sides, as functions |
| `Browse` | `Listing` and `Paths` together: what is shown can be opened; checked with `MCListing` |
| `Browse_proofs` | theorems about `Listing`, `Paths` and `Browse` |

How they fit together: `RpcCall` has many connections and takes a frame as one
event; `Exchange` has one connection and the bytes of its frames. `ServerFs` has
the steps of each request; `MountHandles` takes a request as one step, which its
`PartlyCleared` and `RenameWorks` sum up for the one request that has several.
`Handlers` and `DirTree` are shared by both. `Listing` and `FileTimes` each take
one request of the callbacks through to the server's system calls, because that
is where their hazards are.

Beside some definitions stands a *mutant*: the same definition with a plausible
mistake in it. No specification uses a mutant. For each property one mutant is
named in PROJECT.json; substituted for the definition it varies, it makes TLC
report that property violated, which shows that the property depends on the code
it is about.

### RpcCall

A connection is named by the number of its call. `status[k]` is the position of
the caller in `RpcClient::send` (tagging, writing, waiting) or in the monitor
connection (enrolling, watching), and how it came out of it. `inbox[k]` is what
has reached the server: nothing, the tag, the tag and a frame that opens under
the server's key, the tag and one that does not, or the monitor tag. `backlog`
is the kernel's queue of completed connections, `pc` and `cur` are the serving
thread, `watched` the connections of monitor threads. `log` is the history of
dispatched requests; a response is the position of its request in `log`.

| Action | Code |
|---|---|
| `Connect`, `Refused` | `TcpStream::connect`, rpc_client.rs 24 and 43 |
| `WriteTag`, `WriteRequest`, `Receive` | rpc_client.rs 29-33, 44 |
| `TimeOut` | the two five-second timeouts, rpc_client.rs 26-27 |
| `Lose` | end of stream, reset or broken pipe, in `send` and in `wait_for_disconnect` |
| `Shutdown` | `MonitorConnection::shutdown` |
| `Accept`, `ReadTag`, `Enrol`, `SkipTag` | server.rs 65-84 |
| `ReadRequest`, `DropRequest`, `Apply`, `Respond` | `handle_data`, server.rs 87-94 |
| `MonitorGone` | `wait_for_disconnect`, server.rs 505-514 |
| `Crash`, `Restart` | death of the process, or the error of `accept` that ends `serve` |
| `Cut` | the network stops carrying a connection and tells nobody |

Abstractions: a frame arrives whole or not at all (a frame that arrives in part
is one that never arrives: the server times out in either case); tags other than
the two of the protocol are not sent by this client; a successful response and
an error response are both an answer; the effects of a request are an entry of
`log`. Two connections that reach the listener get numbers in that order.

### MountLife

`pc` is the main thread in `run_up` and `run_mount`, one stage per call that can
fail or block. `child` is the process of `wsl.exe`, taken to live and die with
the daemon in it; `foreign` is a server at the same address that this process
did not start. `link` is the monitor connection. `stage` is the position of the
monitor thread and of each dispatcher, `holder` the mutex of
`disconnect_message`. `message` records who filled it. A request is seen only as
returning, failing, or failing with one of the kinds of `is_disconnect_error`;
of the callbacks only those that go through `send_request` (Stat and ReadDir)
can report the latter.

External parts: dropping a `FileSystemHost` removes the drive; stopping it waits
for its dispatchers; the end of the process ends its threads and removes its
drive; Ctrl+C with no handler ends the process; killing the child is taken to
succeed; how `wsl.exe` reacts to the same Ctrl+C is left open.

### ServerFs and DirTree

`inode` gives each node of the exported directory its path, kind, read-only bit
and length; a path is a sequence of names, so a rename of a directory changes
the paths of all below it, and a node keeps its identity. `DirTree` is the file
system as the handlers use it: one operator per system call for the error it
returns, and one for its effect. It is external, written for Linux and for a
server that is an ordinary user and owns all files.

`pc` is the serving thread: idle, about to set the times or to take the attributes
for the response, in one of the stages of a rename, or done. Between these points
another process can act (`Local`) and the server can die (`Crash`, after which it
is started again). `before` (the directory when the request began), `lost` and
`target` are history.

| Action | Code in server.rs |
|---|---|
| `Inspect` | Stat, Open, ReadDir, Read, Flush, CanDelete, GetVolumeInfo; 167-170, 193-222, 252-282, 323-337 |
| `Create`, `Write`, `SetLen` and `Attr` | 172-191, 224-250, 311-321 |
| `SetBasicInfo`, `Times` and `Attr` | 339-344, 346-361, 363-384 |
| `RemoveFile`, `RemoveDir` | 284-292 |
| `RenameLook`, `RenameReplace`, `RenameClear`, `RenameMove` | 294-309 |

Abstractions: a file is its length, so a write is the end of its range. What
times a file has is in `FileTimes`; here `SetBasicInfo` keeps, sets or clears the
permission, which may be refused, and `Times` then reads the times, and sets them
if the request gives one, which may be refused in its turn. There are no symbolic
links, with which `ensure_within_root` has nothing to refuse; requests that only
look are one step. `remove_dir_all` follows names here, where the library holds
on to open directories.

`FailureLeavesTree` compares every node with what it was when the request began.
It has three exceptions (`LeftBehind`), and all are the code's: a write that runs
out of space has grown its file; a rename that replaces something and then fails,
for instance because the parent of its source is read-only, has removed nodes of
its target; a request that gives a time which is refused has set the permission
before it. `RenameLoss` bounds the second: nothing goes but the target and what
others have put in its way since the look, and the source survives.
`CanDeleteHonest` has the one condition `CanDelete` overlooks, a writable parent;
without it the property is false.

### MountHandles and HandleIdeal

`ctx[h]` is the `RpcFileContext` of an open file: path, kind, delete-pending.
`call[h]` is what a callback has in hand between its two steps: a constrained
write between the size and the data, a rename between the answer and `set_path`.
`file[h]` (the node the handle was opened on) and `adrift` (handles whose file
something else has moved or removed) are history; `asked` is what WinFsp
remembers of deletions.

| Action | Code in mount.rs |
|---|---|
| `Open`, `Create` | 301-353 |
| `SetDelete`, `Cleanup` | 502-519, 355-371 |
| `Write`; `WriteConstrained` and `WriteRest` | 571-611 |
| `SetSize`, `SetReadonly` | 521-545, 468-500 |
| `Rename` and `SetPath` | 448-466 |

`ConstrainedStays` is the bound that the code keeps: a constrained write does not
go beyond the size it was told. WinFsp's documentation asks for more, that the
file is not extended, and `ConstrainedKeepsSize`, which says so, is violated (see
below). `RemovalMissed` is about directories, because only they are asked about
before they are removed.

A request whose answer is lost was executed or was not. `RpcCall.Settled` is why
there is no third case here: once the same client has an answer to a later
request, the earlier one has taken effect or never will, and a request that is
executed before any later one can be taken as executed at once.

WinFsp is external, and what the model assumes of it is in the comments of the
bindings (`vendor/winfsp-sys/src/bindings.rs`): Create, Cleanup with deletion and
Rename exclude each other and Open (5938); a directory with open files below it
is not renamed, and an open file is replaced only where the file system supports
POSIX semantics (6097), which is `Sharing`; a handle has one callback at a time;
files are deleted by a flag of the clean-up and only directories ask first
(`post_disposition_only_when_necessary`, mount.rs 77); a write is constrained or
at the end of the file, never both.

`HandleIdeal` is what an application expects. `AsFiles` says that a callback is a
step of it as long as no handle is adrift, for files that are open more than once
and after anything that others have done; where no file is open twice, nobody
else changes the directory and no answer is lost, no handle ever is, and
`MountHandles` implements `HandleIdeal` (`IdealSpec`). Otherwise it does not, and
`Reaches` says how far it goes: requests reach the opened file until something
other than an answered rename by the same handle has moved or removed it.
`AsFiles` leaves out one more state (`Undisturbed`): the removal of a directory
is asked for through one of its handles and called off through another, and the
context of the first still remembers it.

### Listing

`pc` is the place of a query in `read_directory` and in the server's `read_dir`.
`must` and `may` are what the server's directory stream still has to deliver and
may deliver, as POSIX leaves it for names that come and go during the reading;
`buffer` is the `DirBuffer` of the handle, `marker` the last name that the
application has. Each query lists the directory anew, the first one fills the
buffer, and all are answered from it. A query fails where an entry has vanished
when its attributes are taken (`Attr`), where the server or the connection
refuses it for any other reason, the directory itself moved, removed or
unreadable among them (`Refuse`; server.rs 194-205, mount.rs 429-430), and where
an entry does not get into the buffer, which is left with those before it
(`FillPart`; mount.rs 432-444). `Retry` is an application that repeats a failed
query, `Restart` one that starts over with the same handle. Names are numbers,
since only their order matters; the memory for the buffer is taken to be there.
External: the buffer of WinFsp, which keeps entries in the order of their names,
in whichever order of equal ones (`Sorted` is the set of the rearrangements that
are in order), and finds the entry behind a marker.

### FileTimes

Windows times are words in ticks; wire and kernel times are seconds from 1970,
of either sign, and nanoseconds. The conversions are functions with the units,
the offset of the epochs and the greatest word as constants. The actions are the
request that sets the times: the callback asks, the handler reads the access time
and the write time and sets both (server.rs 346-358), and the response carries
what is there by then. Each of the calls can fail (`Fail`), the last of them after
the times are set. Another process sets times between these steps. A file system
is taken to store the times it is given: that it may keep them to a coarser
resolution, or move those that are too far away, is left out. `OthersKept` is
about a time that the request does not set: it is read and set again with the
other one, and comes out as it was if it is from 1970 on and nobody has set it
since the request. Without these two conditions it does not, which WinFsp's
documentation does not allow for (`ZeroKeeps`, violated; see below). The
server ignores creation and change times, and so does the model. A signed sum
that overflows for seconds near the end of their 64 bits is, in the release
build, the right unsigned one.

### Exchange

`out` and `got` are the bytes on their way and those that `read_exact` has;
`need` is what it waits for. A sealed message is as many distinct bytes as it is
long, and only all of them, in order and under the same key, open again. The
length is a prefix of `LenBytes` digits to the base `Base`, least first, each
worth its `Weight`, and a message whose length does not fit is not sent. `reply`
is the kind of error with which the handler ended, `result` the kind that `send`
returns, and `cause` is history: why the server has not answered. The two ends
give up after their timeouts, the server not while it reads the tag; the network
delivers one byte at a time, falls silent or breaks, and the server dies with any
part of its response sent.

### Paths

A string is a sequence of separators and words. `Builds` are all the strings of
up to `MaxSteps` steps that an application can put together from given words,
from the separators that Windows tolerates, and from parent components.
`NtToRelative`, `Normalize` and `ToWsl` are the three functions of the code,
`Components` is what `Path::components` does with a relative path. `ToWsl` is
given a drive in lower case and a path behind it; the refusal of anything else
(client path.rs 3-5) is left out. `Browse` lets an application use, at the end of
an enumeration, the names it has been shown.

## Checks

| Run | Module, configuration | Shows |
|---|---|---|
| `rpc` | `MCRpcCall`, `MCRpcCall.cfg` | `TypeOK`, `InOrder`, `AnswerIsOwn`, `Inductive`, `OnlyKeyedApplied`, `Settled`, `AbsSpec`, `CallsReturn`, `ServerGoneNoticed`, `ServerReturns` |
| `mount` | `MCMountLife`, `MCMountLife.cfg` | `TypeOK`, `ReasonTrue`, `MessageTrue`, `NoKillUnderDrive`, `OrderlyEnd`, `LossEnds`, `InterruptEnds`, `WaitEnds` |
| `fs_safety` | `MCServerFs`, `MCServerFs.cfg` | `TypeOK`, `FailureLeavesTree`, `RenameLoss`, `CanDeleteHonest` |
| `handles_shared` | `MCMountHandles`, `MCMountHandles.cfg` | `TypeOK`, `Reaches`, `AsFiles`, `RemovalMissed`, `ConstrainedStays` |
| `listing` | `MCListing`, `MCListing.cfg` | `ShownOnce`, `NothingInvented`; `Resolved` of `Browse` |
| `times` | `MCFileTimes`, `MCFileTimes.cfg` | `TypeOK`, `TimesSet`, `OrderKept`, `OthersKept` |
| `exchange` | `MCExchange`, `MCExchange.cfg` | `Intact`, `FramesOpen`, `ErrorTold`, `LossHasCause`, `BothEnd` |
| `handles_unlink` | `MCMountHandles`, `MCMountHandlesUnlink.cfg` | `OpenUntilClose` is violated |
| `handles_constrained` | `MCMountHandles`, `MCMountHandlesConstrained.cfg` | `ConstrainedKeepsSize` is violated |
| `times_zero` | `MCFileTimes`, `MCFileTimesZero.cfg` | `ZeroKeeps` is violated |
| `up_interrupted` | `MCMountLife`, `MCMountLifeStop.cfg` | `EndStopsServer` is violated |
| `up_foreign` | `MCMountLife`, `MCMountLifeReady.cfg` | `ReadyIsOwn` is violated |

Bounds. Two calls, by the same caller or by two, are what an answer, an effect
and a place in the queue can be mistaken for: a timed-out request is still in the
queue when its caller, or another, makes the next call, and either of the two can
be a monitor connection. One death of the server gives every position of it
relative to them, and a restart. The third caller has a key of its own. The
proofs lift these bounds from the safety properties. Two dispatchers and the
monitor thread are enough for two reports of a lost connection to meet at the
mutex while the main thread waits for it. Three nodes below the root, two levels
deep, are a rename's source and a target directory with something in it, in every
position to each other; two steps of other processes let one undo what the other
did.

Two handles are enough for one to move or remove what the other has open.
`handles_shared` has two nodes below the root, of up to two units, so that a file
can be cut, extended or replaced by one handle between the two requests of the
other, and one fault: a step of another process or a lost answer; there only
directories are made read-only (`Guarded`), which is what removals depend on.

In `times` a second has two ticks of two units, the epochs are one second apart
and the word ends in the middle of a second: small, but with times before either
epoch, at both ends of a second, and too late for a word; the proofs lift these
bounds. In `exchange` a length has two binary digits and messages have up to four
bytes, so that the order of the digits matters and one length does not fit. In
`listing` three names and room for two give an enumeration of three queries, two
changes let a name go and come back; queries fail and are repeated any number of
times. In `Browse` three steps put up to three names, one of them with a
backslash, into every position.

Deadlock checking is off for `RpcCall`, `MountLife` and `Exchange`: with a
bounded number of calls, or at the end of a process, the system stops. It is on
for the others.

Fairness. In `RpcCall` a caller goes on with its call and is woken by a
response, by the end of the connection or by its timeout, which the socket
timeouts of rpc_client.rs 26-27 guarantee for data connections; the serving
thread takes any step it can take. Its five-second timeout is the reason why
`DropRequest` is among those steps, and the absence of a timeout on the tag is
why `SkipTag` is enabled only when the client's end is closed. A handler is
assumed to end. One that opens a FIFO or a device (server.rs 216) may not, and
then the serving thread has a second wait that nothing bounds. In `MountLife`
the threads of the process run and requests return (that is `CallsReturn`); the
acquisitions of the mutex are strongly fair, because it is held for two
assignments between network calls. Nothing is assumed of the user, the network,
or servers: neither that they come up nor that they die. In `Exchange` both ends
run, and their timeouts are among their steps (server.rs 89-90, rpc_client.rs
26-27), which is why neither the network nor the peer has to be fair; the read of
the tag has no timeout, and so `BothEnd` begins behind it.

## Where the code and its documentation disagree

* `up_interrupted`. README.md, step 4 of `netfilum up`: when the process ends it
  unmounts the drive and stops the server. The Ctrl+C handler is installed only
  in `wait_for_shutdown`, after mounting (mount.rs 727). Ctrl+C while the server
  is awaited, or before that point of the mount, ends the process without
  `stop_wsl_server`.
* `up_foreign`. README.md, steps 1 to 3: start the daemon, wait until the
  service is ready, mount. `wait_for_server` asks the address before it looks at
  its child (mount.rs 210-218), so a server left over from an earlier run is
  taken for the new one, which cannot bind and exits unseen.
* `handles_unlink`. The volume is declared to support POSIX unlink (mount.rs 78),
  for which WinFsp's documentation of Cleanup (bindings.rs 6012) has a deletion
  arrive while other handles have the file open, and requires the file system to
  be ready for their operations until they are closed. A file context is a path,
  so these operations find nothing, or a newer file of the same name.
* `handles_constrained`. WinFsp's documentation of Write (bindings.rs 6036): under
  ConstrainedIo the file system must not extend the file. The callback asks for
  the size in one request and writes in another (mount.rs 582-593); a file that is
  cut, or replaced by a shorter one, between the two is extended again, up to the
  size it had.
* `times_zero`. WinFsp's documentation of SetBasicInfo (bindings.rs 6066): a time
  that is sent as 0 is not changed. The handler reads the time that is not given
  and sets it together with the one that is (server.rs 346-358): it puts back a
  stale value if another process has set it in between, and the clock if the time
  of the file is before 1970 (server.rs 463).

Properties whose exceptions are the code's own are described with their modules:
`FailureLeavesTree`, `CanDeleteHonest`, `RenameLoss` (a rename whose target is its
source, or a directory above it, removes its source), `Resolved` (names with a
backslash cannot be reached), `RemovalMissed` (the error of a removal is dropped).

## Proofs

`RpcCall_proofs` proves, for any set of callers, any number of calls and any
number of crashes, from `CallersAssumption` and `BoundsAssumption` alone:

| Theorem | Statement |
|---|---|
| `InductiveHolds` | `Spec => []Inductive` |
| `TypeCorrect` | `Spec => []TypeOK` |
| `Ordered` | `Spec => []InOrder` |
| `AnswersMatch` | `Spec => []AnswerIsOwn` |
| `KeyGuards` | `Spec => []OnlyKeyedApplied` |
| `AnswersSettle` | `Spec => Settled` |
| `Refinement` | `Spec => AbsSpec` |

The argument. `InOrder` says nothing of the queue or of what the thread has in
hand, so it is not inductive. `QueueOrdered` and `ServingYoungest` say that log,
served connection and queue are in order of age as one sequence: accepting moves
the boundary between queue and served connection, dispatching the one between
served connection and log. `RepliesOwn` follows because a response is written
only while its request is the last entry of the log. `FramesKeyed` carries the
caller's key from the frame to the dispatch, and needs `FutureBlank`: a number
given to a new call has no frame of an earlier one. The refinement uses the same
invariant; its one delicate step is `Respond` for a call already answered, which
changes nothing because the log is strictly ordered.

`MountLife_proofs` proves, for any number of dispatcher threads, from
`ThreadsAssumption` and `NoneAssumption` (the names of the threads differ):

| Theorem | Statement |
|---|---|
| `TypeCorrect` | `Spec => []TypeOK` |
| `ReasonsTrue` | `Spec => []ReasonTrue` |
| `MessagesTrue` | `Spec => []MessageTrue` |
| `DriveFirst` | `Spec => []NoKillUnderDrive` |
| `EndsOrderly` | `Spec => []OrderlyEnd` |

The argument. Most parts of the invariant say what there is at which stages of
the main thread: the drive only from its creation to its unmounting
(`DriveStage`), a child only where one was started, and none at the end
(`ChildStage`), no monitor thread once it has been joined (`Joined`). They make
`DriveFirst` and `EndsOrderly` immediate. For the reason, each report has to
carry its cause with it from the moment a thread finds a connection lost, through
the wait for the mutex, to the message (`ReportCause`, with `MutexHeld` for the
one thread that may write it): the process's own shutdown of the monitor
connection comes after the loop has seen the stop flag, and what set that flag
was Ctrl+C or an earlier report (`StopCause`, `LinkCause`). `ReasonStage` says
that a reason is given only at stages after the flag was seen.

`FileTimes_proofs` proves, for any units, any distance of the epochs, any width
of the word, any times that others set and any number of them, from
`UnitsAssumption`, `UnsetAssumption` and `StampsAssumption`:

| Theorem | Statement |
|---|---|
| `RoundTrip` | a Windows time other than the two that mean "not given" survives the way to the wire and back |
| `Monotone` | the conversion to Windows keeps the order, at and beyond its limits |
| `TypeCorrect` | `Spec => []TypeOK` |
| `SetTimesReported` | `Spec => []TimesSet` |
| `OrderReported` | `Spec => []OrderKept` |
| `OthersGivenBack` | `Spec => OthersKept` |

The argument. The two theorems about the functions rest on lemmas on division.
`Monotone` needs that what is left of a second stays below a tick's number
(`NanosBelow`), so that an earlier second cannot overtake a later one. The
invariant of the state machine says what each stage knows: behind "access" and
"write" the handler has read a time (never the missing one, which is what
`Current` is for), behind "set" the file has the wanted times unless another
process has been there, and at "done" the answer is their conversion; `TimesSet`
then is `RoundTrip` and `OrderKept` is `Monotone`. `OthersGivenBack` is about one
step, the one that sets both times, and needs to know that what it sets was read
from the file after the request began: if the file has had one value since, it is
that value.

`DirTree_proofs` has no theorem of its own. Its lemmas say, for any names, any
depth and any nodes, that each system call leaves a tree a tree (`AddTree`,
`WithoutTree`, `RemovedTree`, `ChangedTree`, `MovedTree`, `ElsewhereTree`): a path
leads to one node, every node is in a directory, and the root is there. The
hard one is the move of a directory, after which what was below the old path is
below the new one (`Place`), apart from everything else (`PlaceApart`), and
nothing is left without the directory it is in, because a directory does not go
below itself.

`ServerFs_proofs` proves, for any names, any depth of the tree, any nodes and any
number of steps of other processes, from `NodesAssumption`,
`PathBoundsAssumption` and `NowhereAssumption` (the place of what does not exist
is not a path):

| Theorem | Statement |
|---|---|
| `TypeCorrect` | `Spec => []TypeOK` |
| `RenamesLoseNothing` | `Spec => []RenameLoss` |
| `FailuresHarmless` | `Spec => []FailureLeavesTree` |
| `DeletionHonest` | `Spec => []CanDeleteHonest` |

The argument. `FailureLeavesTree` speaks of answered requests only. `Stages` says
of each stage what the request has changed by then: nothing when a rename has
only looked, something only if it is a replacing rename of an existing source
when it is about to move, and that the path is still there when the times are set
or the attributes taken and nobody has interfered, so that no change is answered
with an error there. `Effects` says which nodes these changes are at: at the
stages of a rename those it has removed, before the times are set the one whose
permission was asked for, and none when a request begins. `RenameLoss` looks back
at what has been removed; `Aimed` looks ahead: at the stages of a rename that
remove something, all that is in its reach is in `target`, which is the target,
what was below it at the look, and what others have put there since. Both need
the directory to be a tree, which is most of `TypeOK`: without it two nodes could
be at the path that is removed. `DeletionHonest` holds of every tree:
`CanDeleteError` asks for exactly the conditions of `UnlinkError` and
`RmdirError` but one, the permission of the parent.

`MountHandles_proofs` proves, for any names, depth, nodes and handles, any number
of steps of other processes and of lost answers, from the assumptions of `DirTree`,
`HandlesAssumption` and `BoundsAssumption`:

| Theorem | Statement |
|---|---|
| `TypeCorrect` | `Spec => []TypeOK` |
| `ContextsReach` | `Spec => []Reaches` |
| `ConstrainedWrites` | `Spec => ConstrainedStays` |
| `RemovalsHappen` | `Spec => RemovalMissed` |
| `ContextsMeanFiles` | `Spec => AsFiles` |
| `ContextsImplementFiles` | `~Sharing /\ MaxFaults = 0 => (Spec => IdealSpec)` |

The argument. A rename is two steps, the answer of the server and `set_path`;
between them the context has the old path and the file is at the new one.
`Expected` is the path the context is about to have, and the invariant compares
the file's place with it; with the tree, a path that agrees reaches that file and
no other. Every step by which a file moves or goes other than by its own
handle's rename puts the handles on it, and on all that is below it, among those
adrift (`Drift`). So while none is adrift, the path of a context is as good as
its file, and each callback is a step of `HandleIdeal` over the file itself, or
none (`IdealStep`); what a rename removes is no open file, because its handle
would be adrift afterwards. The last theorem has two hypotheses, because without
them it is false. Under them no handle is ever adrift and no two have the same
file (`Alone`).

`Browse_proofs` proves, for any number of names, any room in an answer, any
number of changes, any spelling of the names and any number of steps, from
`RoomAssumption`, `SpellingAssumption` and `StepsAssumption`:

| Theorem | Statement |
|---|---|
| `EntriesShownOnce` | `Spec => []ShownOnce` |
| `OnlyEntriesShown` | `Spec => []NothingInvented` |
| `PathsResolved` | `Spec => []Resolved` |
| `NothingAbove` | the names of a path that `Normalize` accepts have no parent and no separator among them |

The argument of the first two. What the server lists has every name that stays
exactly once (`Streamed`, `Listed`), but may have another name twice, if its
entry is replaced while the server reads, so the position in the buffer is not a
function of the marker. Its order is what helps (`Buffered`): `Progress` says
that a name of an entry that stays has been shown once if it is not behind the
marker and not at all if it is, which a query keeps from whichever of two equal
entries it goes on.

The argument of the last two. The functions of `Paths` do with two strings put
together what they do with each (`SlashesConcat`, `ComponentsConcat`); what
`TrimStart` cuts off is separators, so it changes no component
(`ComponentsTrimmed`), and neither end takes the path for an absolute one
(`Normalized`). A step leads to the names it stands for (`StepLeads`), hence so
does a string of steps (`BuildLeads`). A name with a backslash is missed because
`Slashes` leaves none. `Resolved` needs no invariant of the enumeration: it holds
of whatever is shown.

`Exchange_proofs` proves, for any number of values of a byte, any number of bytes
in a length, any sizes, requests and keys, from `WidthAssumption`,
`KeyAssumption` and `NothingAssumption`:

| Theorem | Statement |
|---|---|
| `LengthsAgree` | `Length(Prefix(n)) = n` for every `n` that fits |
| `RequestsIntact` | `Spec => []Intact` |
| `FramesOpenWhole` | `Spec => []FramesOpen` |
| `ErrorsTold` | `Spec => []ErrorTold` |
| `LossesCaused` | `Spec => []LossHasCause` |

The argument. `LengthsAgree` is an induction over the digits: the first `i` of
them are worth what the number leaves when it is divided by the weight of the
next. What has arrived at an end and what is on its way to it, put together
(`Flow`), is changed neither by the arrival of a byte nor by the size of the
pieces; the invariant says that it is what is left of a frame, from the place at
which the reader is (`Upward`, `Downward`). A dying server leaves a prefix of it,
and with it a cause; as long as there is no cause the whole is there (`Left`).
So a length that is read is the length that was written, what is read behind it
is the sealed message, and a client that finds the end of the stream too early
finds it for a cause. `Kind` undoes `Code` for every kind with a code, because no
two kinds have the same.

Induction. TLAPS cannot use the library's rules of induction with the provers at
hand, but where a proof needs one it can be stated with a set in the place of a
property (`SetInduction`), and follows from the pigeonhole principle. A recursive
function is there if each of its steps is (`Recursion`), which opens `Components`
and `FlattenSeq`: `Components` is written as a recursive function and not with
`SelectSeq`, whose definition the prover does not expand. Folds have not been
reasoned about in that way.

Model-checked only: the liveness properties (`CallsReturn`, `ServerGoneNoticed`,
`ServerReturns`, `LossEnds`, `InterruptEnds`, `WaitEnds`, `BothEnd`) and whatever
rests on fairness, which are beyond the prover. Every invariant and every action
property that a passing run checks is also proved.

## Plan

All that the runs check of safety is proved. What two modules assume of each other
is only described (see Modules), and could be stated and proved:

1. `MountHandles` takes a request as one step. That the steps of `ServerFs`, while
   nobody else interferes, come to what `PartlyCleared` and `RenameWorks` sum up.
2. `RpcCall` takes a frame as one event. That the bytes of `Exchange` implement a
   connection that delivers a frame whole, or not at all.

## Not modelled

* Command line, console output, `expand_root`: no state beyond the start.
* Security descriptor, volume capacity, volume label: single calls on fixed
  inputs.
* The cipher, the derivation of the key and postcard: libraries, taken to work.
* The caches of WinFsp and of Windows (mount.rs 82-85): external, and no callback
  sees them.
* Callbacks without state (`get_file_info`, `read`, `flush`, `get_security`,
  `get_security_by_name`, `get_volume_info`): they only pass an answer on; what
  the server answers them is in `Handlers`, and what they do on a lost connection
  in `MountLife`.
* Contents of files: a file is its length.
* The generated WinFsp bindings and the build scripts.
