# HYWDbg in TLA+

HYWDbg is a debugger made of processes: front ends (Qt, Tauri, Slint, a command line tool) talk
newline-delimited JSON to a core daemon, the daemon owns one backend process at a time and talks
the same protocol to it over stdin and stdout, and the backend debugs a target. This directory
models the parts of that chain whose state changes, checks them with TLC on small instances and
proves, with TLAPS and for every value of the constants, the safety properties of the core, of the titan, winapi and
simulated backends and of the front ends' calls and window.

All paths below are relative to the repository.

## 1. The system

### Components, their state and operations

| Component | State it keeps | Operations | Hard because |
|---|---|---|---|
| `crates/hywdbg-core/src/core.rs`, `CoreHandle` | one `Option<Arc<BackendProcess>>` behind a tokio mutex | hello, backendStatus, startBackend, stopBackend, `dbg.*` forwarding | every call is its own task; start keeps the mutex over two awaits, stop and forward give it up before they talk to the backend |
| `crates/hywdbg-core/src/backend_process.rs`, `BackendProcess` | next id, pending map, stdin, child, one reader task | spawn, request, kill | ids, pending entries and pipe writes of concurrent requests interleave with the reader; the process may die in between |
| `crates/hywdbg-backend-common` | none | the loop of a simple backend: read a line, handle it, answer it | sequential; ends with its stdin |
| `backends/titan-backend` | event and command channels in three global mutexes, the pending continue, process id and handle, one debug thread per launch or attach | launch, attach, go and steps, pause, kill/detach, queries, shutdown | two kinds of threads, channels replaced while threads use them, answers that come from later events |
| `backends/winapi-backend` | debuggee, thread handles, last debug event, breakpoints | launch, attach, detach, go and steps, pause, bpSet/bpClear/bpList, memory, registers, queries, shutdown | blocks in WaitForDebugEvent; breakpoints are bytes in a memory others write too |
| `backends/dbgeng-`, `lldb-`, `gdbremote-`, `frida-backend` | a simulated target: pc, breakpoints, watchpoints | the same methods | sequential bookkeeping, four copies |
| `apps/hywdbg-core-daemon` | none beyond sockets | one task per connection, and one per line of a TCP connection | answers leave in the order the calls finish |
| `apps/hywdbg-qt` | one socket, view state, breakpoint and patch lists, project file | blocking `rpc` that runs the event loop while it waits | handlers re-enter one another and share the socket |
| `apps/hywdbg-slint` | the fields of its window | buttons and console commands, a thread for each | threads make blocking calls one after another and write their results when they are done, in any order |
| `apps/hywdbg-tauri` | view state | refreshes and commands | overlapping asynchronous refreshes |
| `tools/hywctl.py` | none | one line out, one line in | not hard |

Front ends call the daemon; each call becomes one `handle_frontend_request` of the core; the core
spawns, asks and kills the backend; the backend's debug threads wait for the target and report to its
main loop. Nothing is persisted except the Qt project file. There are no retries, and the only
timeouts are those of `rpc` in the Qt front end and of launch and attach in the titan backend.

### What makes each component correct

* core: an answer reaches the front end that asked, under its own id; a backend is used only after it
  accepted hello; at most one backend is owned, and it changes only by being stopped; no backend that
  was started keeps running without an owner; calls are answered.
* titan backend: one answer per request, no event reported twice; what the client is told of the
  target is true when it is told; a kill ends the target; the main loop never waits for a thread that
  waits for the main loop.
* winapi backend: program bytes survive breakpoints; nothing is written to a process that runs; a
  process that is stopped can be let go; requests return; a listed thread handle stands for its thread and
  registers are those of the thread that stopped; a search finds exactly the first matches and ends.
* simulated backends: ids are never reused; a listing scrolls without a jump.
* daemon and front ends: an answer is matched to its request, also when calls nest, overlap, time out
  or finish out of order; what is shown belongs to the last stop; a patch can be taken back.

The hazards behind these properties are listed, each with its line, in `PROJECT.json`. Some of them are
what the code does: no property denies those, and their notes say which exception leaves them out.

## 2. The modules

| Module | Models | Used by |
|---|---|---|
| `Core` | hywdbg-core, the stdio loop, the titan backend as the core sees it | `MC_Core`, `CoreProofs` |
| `BackendSession` | what the core promises; implemented by `Core` | `Core` (`INSTANCE` with a refinement mapping) |
| `TitanBackend` | titan-backend | `MC_Titan`, `TitanProofs` |
| `WinapiBackend` | winapi-backend: debuggee, events, breakpoints, memory | `MC_Winapi`, `WinapiProofs` |
| `WinapiThreads` | winapi-backend: thread table, handles, registers | `MC_WinapiThreads`, `ThreadsProofs` |
| `WinapiSearch` | winapi-backend: memoryMap and searchMem | `MC_WinapiSearch`, `SearchProofs` |
| `SimBackends` | dbgeng-, lldb-, gdbremote- and frida-backend | `MC_SimBackends`, `SimProofs` |
| `QtRpc` | rpc of the Qt front end with the daemon's tasks behind it | `MC_QtRpc`, `QtProofs` |
| `SlintClient` | the Slint front end with the core's session and a winapi backend behind it | `MC_Slint`, `SlintProofs` |

Some modules hold small operators that no action uses (`FirstBpZero`, `CountedId`, `StillBusy` and the
like): each is a plausible mistake in the definition it stands before, and `mutants` in
`PROJECT.json` says which property finds it.

### `Core.tla`: the core and its backend processes

One call is one task (`pc[c]`), so `Next` interleaves calls at the awaits of the Rust code:

| Code | Actions |
|---|---|
| `handle_frontend_request` | `FrontendRequest`, `BackendStatus` |
| `start_backend` | `StartBackend` (takes the mutex), `Spawn` / `SpawnFails`, then a hello request, `StartFinish` (gives it back) |
| `stop_backend` | `StopBackend` (takes the backend out of the state), a shutdown request, `StopFinish` (kill) |
| `forward_to_backend` | `ForwardToBackend` (clones the Arc), a request, `ForwardFinish` |
| `BackendProcess::request` | `RequestTakeId`, `RequestRegister`, `RequestWrite`, then the task awaits its oneshot (`inbox`) |
| reader task | `ReaderTake`, `ReaderEof` |
| `run_stdio_backend` | `StdioServe`, `StdioEndOfInput` |
| main loop of the titan backend, as the core sees it | `TitanServe`, `TitanEvent`, `TitanShutdown` |
| a backend that dies | `Crash` |

The mutexes inside `BackendProcess` are held for one step each and are that step's atomicity. A call
makes at most one backend request and starts at most one process, so a process carries the name of
the call that spawned it and each call is served once. Parameters and results are abstracted to the
call they belong to (`body`): that is all `OwnAnswer` needs to tell answers apart.

Not in the model: `kind` and `path` of a start call beyond the choice of executable, and with them a start
whose parameters cannot be parsed, which is answered without any change of state (core.rs:120); the text of
errors; and a front end that disconnects (its calls run on in the code as well).

### `BackendSession.tla`: what the core promises

A session, the calls that were asked and their answers; no process, pipe, lock or id. A status answer
is the session at that moment, a start is refused exactly when there is a session, a stop takes the
session away before it works on it, a forwarded call returns the result of its own request. `Core`
implements it under the mapping at `Session` in `Core.tla` (`SessionSpec`): active backend = session,
started processes = past sessions, the process a stop or forward call holds = the session it is bound to.

### `TitanBackend.tla`: the titan backend

The main loop (`at`: a line, then an event), the three globals (`eventTx`, `cmdRx` with the thread that
holds its mutex, `cmdTx`), a channel pair per session, and a debug thread per session
(`dbg`). `Open` and `InstallChannels` are the two halves of launch and attach: between them lies the
mutex of `CMD_RX`. `FirstEvent` and `OpenTimesOut` are the two ends of `recv_timeout`. `TargetStops`,
`LockCommands`, `ReceiveCommand` are `send_event_and_wait`; `DebugEnds` is the end of the thread, with an
exit event after a launch and without one after an attach. The targets are external: they stop and exit
at will. TitanEngine keeps its debuggee in globals of its own; what two of its loops do to one another
is not modelled. go and the three steps are one request (`go`), kill and detach another (`kill`), and
everything answered at once without changing this state is `query`.

With `Polite = TRUE` the client uses what it was told: it continues, and kills, only a target that
the last answer showed stopped, sends no second continue while one is unanswered, and opens the next
target after it was told of the exit of the last. With `FALSE` it sends anything at any time.

### `WinapiBackend.tla`: the winapi backend's debuggee and breakpoints

The debuggee (`pid`, `process`, `lastEvent`), the breakpoint map and the code bytes of each process. The
backend serves one request at a time, so it is either idle or inside `WaitForDebugEvent` (`at`). Windows
is external: a debugged process that runs reports an event some time, stops, and nothing more is reported
of it until that event is continued. `code` is a history variable: the program's bytes with the client's
own writes and no int3. bpClear by address takes an arbitrary breakpoint at that address in the code and
in the model; clearing all goes through a hash map, so the byte that remains of several breakpoints
at one address is any of theirs. The continue status is left out, because it depends on the last event
alone; shutdown does what detach does. `ContinueFails` is a ContinueDebugEvent that returns an error: the event
was taken before it and is lost, and the process stays stopped. That WaitForDebugEvent itself returns an error
(winapi_impl.rs:224-226) is not modelled.

`tidy` is chosen at the start, from `Clients`. A tidy client keeps one breakpoint per address, does not write over one, clears its
breakpoints before it detaches, detaches before it opens another debuggee, and neither pauses nor
continues what has exited; the properties that need it start with `tidy =>`, the others hold for any client.

### `WinapiThreads.tla`: thread handles and registers

The same backend, seen from its table tid -> handle. `handles` is the handle table of the operating
system: a number that was closed may be given out again, and whoever closes a number closes what it stands for by
then. Three parties fill the backend's table (launch, the debug events, `refresh_threads`), and Windows
has a handle of its own for each thread it has reported (`reported`), the same number that the event
carried, which it closes when the exit of the thread is continued. `Launch`, `Attach`, `OpenFails` and `Detach`
go through `close_all`; `CreateProcess`, `CreateThread`, `ExitThread`, `ExitProcess` and `OtherEvent` are the kinds of
`wait_event`; `ContinueAndWait` is `continue_last_and_wait`, with a ContinueDebugEvent that fails; after a `Pause`, or a `Go`
without an event, nothing is left to be reported (`at = "blocked"`).

`refresh_threads` runs in every request that asks for the active thread: regs, setReg, the steps and a disassembly
without an address, and in the `threads` list (`Refresh`, `Step`). It may come at any stop, it takes a snapshot in which a thread that is
exiting may or may not still be, and OpenThread and the snapshot may fail (`Refreshes`). Which thread is then reached is an
operator (`ActiveHandle`, `Reached`), asked for every outcome by `RegistersOfStopped`.

exit_thread closes the handle that Windows will close again. A request that refreshes the table between the two, be it a list of the
threads, may open a thread under the same number and lose it at the go. This is what the code does: `closedTwice` is a history variable that says
it has happened to this debuggee, `TableIsTrue` and `RegistersOfStopped` end there, and without that exception TLC finds both violated.
The client is otherwise any client.

### `WinapiSearch.tla`: memoryMap and searchMem

One turn of the loop is one action: `VirtualQueryEx` at `addr` gives the region (`Base`, `Behind`) that
starts at that page; `MapRegion` lists it, `SearchRegion` reads the part between the bounds and takes
the matches, `GoOn` leaves when the limit is reached or the address does not advance. `Init` ranges over all
memories: each page readable, inaccessible or a guard page (which reports as readable but fails to be
read), adjacent pages in one allocation or two, and each cell's content. A match that crosses from one region into
the next is not found; `Expected` says so.

### `SimBackends.tla`: the four simulated backends

The four programs are copies of one handler with other steps, registers and disassemblers; `kind` says
which one is run. `Move` is go and the steps, `DetachOrKill`, `Launch` and `Attach` show what each of them forgets (never
breakpoints or registers). A definition they share is mapped to one of the four files. `DbgengListing`
is the disassembler with a cycle of 58 bytes before and behind an anchor, `FixedListing` the others.
A stepInto of dbgeng moves by one byte and the first pc of lldb and frida is odd, so listings are asked from inside an instruction too.

### `QtRpc.tla`: blocking calls over one socket

`MainWindow::rpc` waits, runs the event loop meanwhile, and what runs there may call `rpc` again: `stack` is the
calls that wait, and only the innermost reads. `ReadLine` takes the first line there is without
a look at its id. `ProcessEvents` is the event loop that reads the socket first: the line is then in Qt's
buffer and is not news to `waitForReadyRead`, which waits for the next one or for the timeout. `TimeOut`
aborts the socket; outer calls go on waiting and, for want of a socket, time out in turn. `tasks` is the
daemon's task per line: answers leave in the order in which the calls finish.

Nested calls do get one another's answers; that is what the code does and no property denies it.
What holds is that the damage ends with the nesting: a call that no other was open beside
gets its own line or throws (`AloneGetsOwn`), because a connection never owes more lines than calls wait (`NothingLeftOver`).

### `SlintClient.tla`: the Slint window

Every click or console line is a worker thread (`Spawn`), which makes the calls of its command in order
(`Program`), each a blocking HTTP request of its own, and hands a patch to the event loop (`Apply`). The
core is `BackendSession`'s session with a winapi backend behind it, which is busy while its debuggee
runs; the daemon may die (`DaemonDies`). What a query returns is abstracted to when it was true: the
session and the number of its last event. `fresh[w]` is a history variable: nobody but w has moved a target or the
session since w began. It is what a user could mean by "nobody disturbed this refresh".

### Proof modules and `MC_*.tla`

The proof modules extend the module they are about; see section 4. The `MC_` modules add symmetry sets
and constants that a `.cfg` cannot write; each `.cfg` gives the constants their values.

## 3. The runs

| Run | Instance | What it shows |
|---|---|---|
| `core_safety` | 4 calls of any method, stdio and titan backends that may crash | `OwnAnswer`, `AnswerHasReceiver`, `PendingIsWaited`, `HandshakeFirst`, `NoOrphans`, `StopOwnsProcess`, `NoTakeover`, and that the core implements `BackendSession` (`SessionSpec`) |
| `core_liveness` | 3 calls, stdio backends that live | `CallsAnswered`: only a forwarded call whose backend was stopped meanwhile may stay open |
| `core_closed_stdout` | 2 calls, titan backend | violated: a request whose backend closed stdout never fails, so stopping a titan backend hangs |
| `titan_safety` | 4 requests of any kind, 2 sessions, timeouts | `AnsweredOnce` |
| `titan_polite` | 6 requests of a polite client, 2 sessions, 2 stops each | `ShownIsTrue`, `EveryRequestAnswered`, `KilledTargetEnds` |
| `titan_relaunch` | 2 launches | violated: a launch while a target is stopped blocks the main loop for ever |
| `winapi_clients` | 2 processes, 2 addresses, 2 breakpoints, any client and a tidy one | `WritesOnlyWhileStopped` for any client; `BreakpointsAreExact`, `ReleasedCodeIsClean`, `FrozenCanDetach`, `EveryRequestAnswered` for a tidy one |
| `winapi_threads` | 4 threads, 9 handles, 2 launches or attaches, any client | `TableIsTrue` and `RegistersOfStopped` until Windows closes a number twice, `EventThreadListed` |
| `winapi_search` | every memory of 3 pages of 2 cells, short patterns with wildcards, a limit of 3 | `SearchIsExact`, `MapIsWhole`, `WalkReturns` |
| `slint_views` | 2 commands of any kind at once, a session that is there before or not | `ViewIsCurrent`, `LabelIsTrue`, `RunShowsExit`, `CommandsFinish` |
| `qt_nested` | 5 calls, 3 connections, 3 calls deep | `AloneGetsOwn`, `NothingLeftOver`, `CallsReturn` |
| `sim_backends` | the four backends over 256 addresses, breakpoints and watchpoints | `ListingScrolls`, `NamesAreLasting` |

A type invariant goes with the first run of most modules. The two violated properties say what an
error message of the repository says; `findings` in `PROJECT.json` quotes it.

### What the properties leave room for

The code also does the following. It is why some properties are stated for a client that takes care, or
name an exception:

* A start that comes while a stop waits for shutdown begins a second backend beside the first
  (`StopOwnsProcess` and `NoOrphans` say that both have an owner); `doc/roadmap.md:8` lists a "One active backend rule".
* A go on a target that titan attached to is never answered when that target exits: the thread of an
  attach sends no exit event (titan `main.rs:325`). `EveryRequestAnswered` of `TitanBackend` has that exception.
* The second of two breakpoints at one address remembers the first one's int3 as the program's byte. Clearing the
  first leaves the second listed without an int3; clearing the second then writes the int3 back (winapi_impl.rs:784-831).
* The breakpoints of a debuggee that is detached from before they are cleared stay in its code as int3 (winapi_impl.rs:645-662), and a
  debuggee that another is launched over stays stopped (winapi_impl.rs:587). `ReleasedCodeIsClean` and `FrozenCanDetach` are for a client that does neither.
* A go after the exit of the debuggee, or after a continue that failed, waits for ever (winapi_impl.rs:375-384).
* A thread list, registers or a step at the stop of an exit_thread may open a handle that the next go closes (winapi_impl.rs:257), and
  registers asked for at that stop may be the main thread's (winapi_impl.rs:215).
* titan reads memory through the handle of an earlier target after a kill or an attach (titan `main.rs:473`); memory reads are not modelled.
* A Slint thread that asked before a go may write its answer over the newer one, and a refresh that raced a stop writes the backend label again (slint `main.rs:92`).
* pause in the winapi backend waits for an event of a debuggee that is stopped, and so for ever (winapi_impl.rs:671).
* A call of the Qt front end that is open beside another may return the other's answer (rpc.cpp:145).
* A Slint command whose backend is killed under it, or waits for an event that cannot come, never ends (`Lost`).

### Bounds, and why they are enough

* `core_*`: the interesting races need a start, a stop, a second start and one or two forwarded calls; four
  calls have them all, in each order and with each kind of backend. Calls are interchangeable, so the
  safety run uses them as a symmetry set. Pipes and pending maps are bounded by the calls.
* `titan_*`: two sessions are what it takes for channels to be replaced under a thread; two stops are a
  stop and the next one; four unconstrained requests are two launches with a continue and a kill in
  any order; six polite ones are launch, go, kill or exit, launch, go and one more. `MaxStops` makes every
  target exit in the end.
* `winapi_clients`: two breakpoints at one address or at two, two processes for a launch over
  another, one of which may be attached to. `MaxEvents` makes every process exit in the end.
* `winapi_threads`: four threads are two in each of two debuggees, or three in one after the first; every thread
  has at most two handles of the backend and one of Windows at once, and nine numbers leave some free while old ones are given out again.
* `winapi_search`: three pages are the least with a region in the middle, two cells the least for a
  bound inside a page; the patterns are up to two cells long, the limit of three is below and above the number of matches.
* `slint_views`: each worker is one command of up to six calls; two at once are every pair. Workers are not
  a symmetry set, since liveness is checked.
* `qt_nested`: three deep is an outer, a middle and an inner call, whose answers cross in every way; five calls leave two that
  come after; three connections are a timeout and a reconnection twice.
* `sim_backends`: `Word` is a multiple of four as 2^64 is, and leaves four cycles of the dbgeng listing; the
  register values put the pc at a whole number of cycles before the anchor (58) and at the end of the address space (255).

Deadlock is checked for `SimBackends` (never stuck). Elsewhere it is not: a system whose
calls are all served, or whose client sends no more, stops. `WalkReturns` is the same question for `WinapiSearch`.

### Fairness, and why the code justifies it

* `Core`: the tokio runtime polls every task that can run and hands its mutex over in arrival order
  (`WF` of each call's steps), the reader task is such a task, and a live backend reads its stdin in a loop.
  A debug event need not come (`TitanEvent` has no fairness), nor a crash.
* `TitanBackend`: the main loop turns every 10 ms, `recv_timeout` expires, OS threads that can run do;
  a target that runs stops or exits in the end, an assumption about targets and not about the code.
* `WinapiBackend`: a debugged process that runs reports an event in the end, its exit at the latest.
* `WinapiSearch`: the loop runs on by itself (`WF` of `Next`).
* `QtRpc`: the loop in `rpc` reads what comes (`ReadLine`) or its timeout expires (`TimeOut`). The daemon's tasks
  have no fairness: an answer need not come.
* `SlintClient`: a worker thread runs, the daemon and its backend serve what they read, a debuggee that runs
  reports an event in the end (`Thread`), and a call to a daemon that is gone fails (`Offline`). A request written to a
  backend that was killed need not fail (`ForwardBreaks` has no fairness).

## 4. What is proved

| Theorem | States | Module |
|---|---|---|
| `TypeCorrect`, `AnswersAreOwn` | `TypeOK`, `OwnAnswer` of `Core` | `CoreProofs` |
| `ActiveIsNotReplaced`, `CoreImplementsSession` | `NoTakeover`, `SessionSpec` | `CoreProofs` |
| `ReceiverFirst`, `NoLeakWhileAlive`, `HelloFirst`, `NoneForgotten`, `StoppedByOne` | `AnswerHasReceiver`, `PendingIsWaited`, `HandshakeFirst`, `NoOrphans`, `StopOwnsProcess` | `CoreProofs` |
| `TypeCorrect`, `OneAnswer`, `ToldIsTrue` | `TypeOK`, `AnsweredOnce`, `ShownIsTrue` of `TitanBackend` | `TitanProofs` |
| `TypeCorrect`, `WritesFindStopped`, `ExactBreakpoints`, `CleanRelease`, `NoneLeftFrozen` | `TypeOK`, `WritesOnlyWhileStopped`, `BreakpointsAreExact`, `ReleasedCodeIsClean`, `FrozenCanDetach` of `WinapiBackend` | `WinapiProofs` |
| `TypeCorrect`, `TableStaysTrue`, `RegistersAreOfStopped`, `EventThreadStaysListed` | `TypeOK`, `TableIsTrue`, `RegistersOfStopped`, `EventThreadListed` of `WinapiThreads` | `ThreadsProofs` |
| `TypeCorrect`, `SearchFindsExactly`, `MapCoversAll` | `TypeOK`, `SearchIsExact`, `MapIsWhole` of `WinapiSearch` | `SearchProofs` |
| `NamesLast`, `AlwaysScrolls` | `NamesAreLasting`, `ListingScrolls` of `SimBackends` | `SimProofs` |
| `InStep`, `OwnWhenAlone` | `NothingLeftOver`, `AloneGetsOwn` of `QtRpc` | `QtProofs` |
| `TypeCorrect`, `RefreshRepairs`, `BackendLabelIsTrue`, `ExitIsShown` | `TypeOK`, `ViewIsCurrent`, `LabelIsTrue`, `RunShowsExit` of `SlintClient` | `SlintProofs` |

They assume only what the modules assume of their constants (`CoreAssumption`, `TitanAssumption`,
`WinapiAssumption`, `SimAssumption`, `SlintAssumption` and the like): types of the bounds, names of methods and kinds,
that `None` is nobody's name (and no event), and that no listing goes around all addresses. Sets of calls, targets and addresses may be infinite; the threads of the
Slint window are finitely many, because the bound on events counts them.

### The core

* `TypeCorrect`: the types of rid and target depend on where a task is (a task past
  `takeId` holds a process and a positive id), so the inductive invariant is `TypeInv`: `TypeOK` and `TaskOK`.
* `AnswersAreOwn`: by itself `OwnAnswer` says nothing about answers still on their way,
  so `RouteInv` follows a request through its whole trip: ids handed out by a process are below its next
  id (`IdsBelow`) and belong to one call (`IdsDistinct`); every entry of the pending map (`PendingOwn`), every
  line on a pipe or in a backend's hands (`FlightOwn`) and every delivered answer (`InboxOwn`) carries the id
  that its call was given by that process. The reader then finds, under an id, only the call that was
  given it. Lemmas about queues (what `Append`, `Tail` and `Head` leave in a sequence) carry the pipe steps.
* `ActiveIsNotReplaced`: the check for an active backend and the assignment of the new
  one are many steps apart, so `SessionInv` follows the mutex: a start call between spawn and its end is
  `lock`, and while the mutex is held nothing is active (`LockOK`); what call a task serves at each place
  (`MethodOK`), which process it holds (`TargetOK`) and that it has not answered (`OpenOK`) are what makes that inductive.
* `CoreImplementsSession`: each step of a task is one
  action of `BackendSession` or a stutter (`FrontendMaps`, `TaskMaps`), each step of a process or reader is a stutter
  (`ProcMaps`). The lock is needed for Activate (the session must still be none), the routes for
  FinishForward (the answer must be the call's own).
* `ReceiverFirst` and the four behind it share `FlowInv`, on top of the invariants above. `PlaceInv` says what the place of a
  task tells of its process, its pending entry and its inbox. `FlightInv` says that a line under way
  belongs to a call that waits for it and whose sender is in the map, and is the only line of that call: without "the only one", an
  answer could take the sender that another copy still needs. `OwnerInv` says that whatever a stop or forward call
  holds was started, that what was started has accepted hello, and which tasks may hold a process that is not active.

### The backends

* `OneAnswer`: a request is in exactly one place (unread, waiting, pending or answered: `RequestInv`), and an
  event in at most one channel and not in one once it was told (`EventInv`). `ThreadInv` and `CountInv` are there for `TypeOK`: a debug
  thread's stops stay below the bound until it has gone, and a session is left for each request that opens one.
* `ToldIsTrue` is about the polite client, and about launches that do not time out (both are hypotheses, as in `titan_polite`): after a timeout
  the client knows nothing of the target that comes up, and an event of it is taken for one of the next. The polite client makes the session a
  single loop, and `PoliteInv` is that loop: one request that waits for an event at a time, first of the unread
  ones (`LineInv`); one session at work, `evRx`, those before it over and those after it not begun (`SessionInv`); an exit is the last
  event of its channel, and the session is over unless a stop is shown (`ExitInv`). `RunInv` says where the loop is: while a request waits, either a
  command is on its way to the callback, or the target runs, or its event is on the way back (`UnderWay`); when none waits,
  the target is at rest in the very event that is shown (`AtRest`), or it was killed since. A second command in a
  channel, a second event, or an event of an older session would each break one of these before it breaks `ShownIsTrue`.
* `ExactBreakpoints` and the others of `WinapiBackend` rest on one invariant for both clients: `BpsBelow` (ids below the next one),
  `OneRuns` (pid, process and last event name one debuggee, the only debugged process that may run, and only while the backend waits) and
  `TidyInv`, which adds for a tidy client that no other process than the debuggee has an int3 in it (`OthersClean`), and that
  breakpoints have an address each and a process to be in, and `FrozenCanDetach` itself.
* `TableStaysTrue` and the others of `WinapiThreads`: a live thread that was reported is listed by the very handle that Windows keeps
  for it (`Sync`), so that nothing but its exit takes it out of the table: a refresh keeps it, whatever the snapshot shows, because it lives.
  A stop is that of a thread that was reported, and it lives unless the event is an exit (`StoppedThread`). `TableIsTrue` is inductive with these:
  its exception ends only with the debuggee, and a continue that closes a number which nobody has opened again takes nothing from the table.
  `EventThreadStaysListed` needs no exception. `RefreshedTable` says what refresh_threads may do, `LowestNumber` that the lowest free
  number is a free one.
* `SearchFindsExactly` and `MapCoversAll`: at every turn of the loop `addr` is the start of the search or the first
  cell of a region (`Boundary`, `RegionBounds`), so that no match lies across it and no region is listed in two parts. What was found
  is exact for the part below `addr` (`SearchOK`); a turn adds what begins in this region (`FoundHere`), all of it behind what was there
  (`RankBehind`, `ExactGrows`), and once the limit is reached the rest does not matter (`ExactWhenFull`). `MapOK` says
  the same of the list of regions. That all pages of a region are alike, that a region has a last page and that every rank is
  taken would be inductions; each is proved from the least number that it fails for (`Least`).
* `NamesLast`: `given` has exactly the ids below the next one (`Counted`), so that a new breakpoint never takes the id of an old one.
* `AlwaysScrolls`: each address of a dbgeng listing is the one before it plus the size of an instruction, modulo `Word`: a recursive function.
  That it exists (`AddrsExist`) and what holds of all its lines is counted up with `CountUp`, which is proved from the least number it
  fails for. `Climbs`: a listing that ends above its first line has nowhere gone around, since no listing is long enough to
  do so and come past its start (`7 * Count < Word`; the code lists at most 64 lines of at most 7 bytes, of 2^64). Then every
  line begins an instruction of the cycle (`OnTheCycle`, from `RelNext`), its own listing finds that instruction (`InstrFound`), and
  goes on with the same addresses (`GoesOn`) and instructions (`InsnOn`).

### The front end

* `InStep` is inductive with the types of the queues: a call adds one line that is owed and one call that waits, a read takes away one of
  each, and whatever empties the socket or closes it takes everything with it.
* `OwnWhenAlone` needs it: when the first call is made nothing is on the wire, so that while it is alone there is only its own
  line (`AloneOnly`), which any call beside it would end.
* The four of `SlintClient` share `Inv`, which follows each thread from its first call to its patch. `Place` says which calls a
  command may have left (`Todos`: the tails of its program, or none once a call has failed) and what the thread then holds.
  `Gotten` says that what its patch will be made from has been learned or is still to be asked for: a thread that has
  registers also has, or will have, lists, code and stack. `Undisturbed` is what makes the window true: as long as the thread is
  fresh, its call went to the session of now, what it learned is of the last event, and the event it was
  told is what the debuggee is. A step of one thread either ends the freshness of the others or changes
  nothing that these speak of (`Quiet`), so each action is looked at for its own thread alone (`StepKeeps`).
  `CountInv`, that each thread that launches or moves a debuggee adds one event, is there for `TypeOK`.

Only model-checked: all liveness. The prover has no rules for fairness and ENABLED.

## 5. Not modelled

* Qt front end beyond `rpc`: breakpoint and patch tables, the project file, the start-up of the daemon. What it
  caches is a copy of the backend's last answer kept in widgets' rows and items, and the tables are read and written by the event
  loop alone. The protocol below it is `QtRpc`.
* Tauri front end: the same overlapping refreshes over HTTP as the Slint front end's, and layout.
* hywctl sends one line and prints one answer.
* winapi backend: what disassembly, module lists and symbols answer; they read the debuggee and keep nothing. A list of threads and a
  disassembly without an address refresh the thread table and are in `WinapiThreads`. WaitForDebugEvent that returns an error (224-226).
* titan backend: breakpoints and registers, which are state of TitanEngine; the answers of its queries.
* core daemon: HTTP framing, sockets and start-up. One request per connection, no state.
* Protocol types: number parsing and payloads.
* Bridges (there are none yet), titanengine-sys (declarations), build and packaging.

A composition of `QtRpc`, the daemon and `Core` in one module would add their states without a property that
the three do not have apart: `QtRpc` assumes nothing of the order of answers, and `Core` answers every front-end call once.
