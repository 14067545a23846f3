----------------------------- MODULE TitanBackend -----------------------------
(***************************************************************************)
(* titan-backend (backends/titan-backend/src/main.rs): a stdin thread that *)
(* queues request lines, a main loop that serves one line and one debug    *)
(* event per turn, and one debug thread per launch or attach that runs the *)
(* TitanEngine loop and blocks in a callback while its target is stopped.  *)
(*                                                                         *)
(* The threads share three globals, each behind a mutex: EVENT_TX, where   *)
(* debug threads send events; CMD_RX, where a stopped target's callback    *)
(* receives the command that continues it; CMD_TX, its other end.  A       *)
(* launch or attach replaces all three with fresh channels.  A session is  *)
(* a number, and so is each of its two channels.                           *)
(*                                                                         *)
(* TitanEngine itself is external: targets stop and exit when they like,   *)
(* at most MaxStops times, and sessions do not disturb one another there.  *)
(***************************************************************************)
EXTENDS SequencesExt

CONSTANTS
  None,         \* Rust's Option::None
  Methods,      \* the methods the client uses in this instance
  MaxRequests,  \* requests the client sends
  MaxSessions,  \* launches and attaches it asks for
  MaxStops,     \* stops of one target before it runs to its exit
  Timeouts,     \* may recv_timeout expire before the first event?
  Polite        \* does the client use what it was told about the target?

ASSUME TitanAssumption ==
  /\ Methods \subseteq {"launch", "attach", "go", "kill", "query", "shutdown"}
  /\ MaxRequests \in Nat /\ MaxSessions \in Nat /\ MaxStops \in Nat
  /\ None \notin Nat /\ None \notin [session : Nat, n : Nat, what : {"stop", "exit"}]
  /\ Timeouts \in BOOLEAN /\ Polite \in BOOLEAN

Ids == 1..MaxRequests
Sessions == 1..MaxSessions

VARIABLES
  (* the client *)
  requests,  \* the methods asked for, request id -> method
  (* the pipes *)
  stdin,     \* ids of the lines that wait in stdin_rx
  stdout,    \* every answer written: [id, event], event None for a plain one
  (* the main thread *)
  at,        \* "line", "event", "lock" (on CMD_RX), "wait" (recv_timeout), "exited"
  cur,       \* the launch or attach it is in
  pendingCmd, \* pending_cmd
  evRx,      \* state.ev_rx: whose event channel it reads
  pid,       \* state.attached_pid: the session whose target it is
  hProcess,  \* state.attached_hprocess: likewise
  (* the globals *)
  eventTx, cmdRx, cmdTx,  \* the session whose channel end is installed
  cmdLock,   \* the debug thread that holds the CMD_RX mutex
  evq,       \* the event channels
  cmdq,      \* the command channels
  (* the debug threads and their targets *)
  dbg,       \* "none", "init", "running", "stopped", "waiting", "ending", "gone"
  how,       \* "launch" or "attach"
  stops      \* events of the target so far

mainVars == <<at, cur, pendingCmd, evRx, pid, hProcess>>
globalVars == <<eventTx, cmdRx, cmdTx, cmdLock, evq, cmdq>>
threadVars == <<dbg, how, stops>>
vars == <<requests, stdin, stdout, mainVars, globalVars, threadVars>>

Init ==
  /\ requests = <<>> /\ stdin = <<>> /\ stdout = <<>>
  /\ at = "line" /\ cur = None /\ pendingCmd = None
  /\ evRx = None /\ pid = None /\ hProcess = None
  /\ eventTx = None /\ cmdRx = None /\ cmdTx = None /\ cmdLock = None
  /\ evq = [s \in Sessions |-> <<>>]
  /\ cmdq = [s \in Sessions |-> <<>>]
  /\ dbg = [s \in Sessions |-> "none"]
  /\ how = [s \in Sessions |-> None]
  /\ stops = [s \in Sessions |-> 0]

Event(s, n, what) == [session |-> s, n |-> n, what |-> what]

Written(id, event) == Append(stdout, [id |-> id, event |-> event])

-------------------------------------------------------------------------------
(* the client and the stdin thread *)

Opens(m) == m \in {"launch", "attach"}

(* What the client knows about the target: the last event it was told of,  *)
(* unless it has killed the target since.                                  *)
ToldAt == {j \in DOMAIN stdout : stdout[j].event # None}
Shown == IF ToldAt = {} THEN None ELSE stdout[Max(ToldAt)].event
ShownWhat == IF Shown = None THEN "nothing" ELSE Shown.what

Unanswered == {i \in DOMAIN requests : \A j \in DOMAIN stdout : stdout[j].id # i}
Runs(m) == m \in {"launch", "attach", "go"}
RunSinceKill ==
  \E i \in DOMAIN requests :
    Runs(requests[i]) /\ \A j \in DOMAIN requests : requests[j] = "kill" => j < i
ShownStopped == ShownWhat = "stop" /\ RunSinceKill

(* A polite client continues, kills and reads only a target that it was     *)
(* told is stopped, and opens one target after the exit of the last.        *)
MayAsk(m) ==
  CASE Opens(m) -> Unanswered = {} /\ ShownWhat # "stop"
    [] m = "go" -> Unanswered = {} /\ ShownStopped
    [] m = "kill" -> ShownStopped
    [] OTHER -> TRUE

Ask(m) ==
  /\ at # "exited"
  /\ Len(requests) < MaxRequests
  /\ Opens(m) => Cardinality({i \in DOMAIN requests : Opens(requests[i])}) < MaxSessions
  /\ Polite => MayAsk(m)
  /\ requests' = Append(requests, m)
  /\ stdin' = Append(stdin, Len(requests) + 1)
  /\ UNCHANGED <<stdout, mainVars, globalVars, threadVars>>

-------------------------------------------------------------------------------
(* the main loop: a line, if there is one, then an event, if there is one *)

Line(methods) == at = "line" /\ stdin # <<>> /\ requests[Head(stdin)] \in methods

NoLine ==
  /\ at = "line" /\ stdin = <<>>
  /\ at' = "event"
  /\ UNCHANGED <<requests, stdin, stdout, cur, pendingCmd, evRx, pid, hProcess,
                 globalVars, threadVars>>

(* CMD_TX.send: the channel installed last, whichever target listens to it. *)
SendCmd(cmd) ==
  IF cmdTx = None THEN UNCHANGED cmdq
                  ELSE cmdq' = [cmdq EXCEPT ![cmdTx] = Append(@, cmd)]

(* go and the steps are answered by the next event; an earlier one that is  *)
(* still waiting is forgotten.                                              *)
ContinueSentTwice(cmd) ==
  IF cmdTx = None THEN UNCHANGED cmdq
                  ELSE cmdq' = [cmdq EXCEPT ![cmdTx] = @ \o <<cmd, cmd>>]
ContinueSent(cmd) == SendCmd(cmd)

Continue ==
  /\ Line({"go"})
  /\ ContinueSent("go")
  /\ pendingCmd' = Head(stdin)
  /\ stdin' = Tail(stdin)
  /\ at' = "event"
  /\ UNCHANGED <<requests, stdout, cur, evRx, pid, hProcess,
                 eventTx, cmdRx, cmdTx, cmdLock, evq, threadVars>>

(* kill and detach are one arm: the target is told, attached_hprocess stays. *)
KillNotSent(cmd) == UNCHANGED cmdq
KillSent(cmd) == SendCmd(cmd)

KillOrDetach ==
  /\ Line({"kill"})
  /\ KillSent("kill")
  /\ pid' = None
  /\ stdout' = Written(Head(stdin), None)
  /\ stdin' = Tail(stdin)
  /\ at' = "event"
  /\ UNCHANGED <<requests, cur, pendingCmd, evRx, hProcess,
                 eventTx, cmdRx, cmdTx, cmdLock, evq, threadVars>>

(* regs, memory, breakpoints and the lists answer from what they find.      *)
Query ==
  /\ Line({"query"})
  /\ stdout' = Written(Head(stdin), None)
  /\ stdin' = Tail(stdin)
  /\ at' = "event"
  /\ UNCHANGED <<requests, cur, pendingCmd, evRx, pid, hProcess, globalVars, threadVars>>

Shutdown ==
  /\ Line({"shutdown"})
  /\ at' = "exited"
  /\ UNCHANGED <<requests, stdin, stdout, cur, pendingCmd, evRx, pid, hProcess,
                 globalVars, threadVars>>

(* launch and attach: EVENT_TX first, then CMD_RX, whose mutex a stopped    *)
(* target's callback holds.                                                 *)
OpenedLive == Cardinality({s \in Sessions : dbg[s] \notin {"none", "gone"}})
Opened == Cardinality({s \in Sessions : dbg[s] # "none"})

Open ==
  /\ Line({"launch", "attach"})
  /\ eventTx' = Opened + 1
  /\ cur' = Head(stdin)
  /\ stdin' = Tail(stdin)
  /\ at' = "lock"
  /\ UNCHANGED <<requests, stdout, pendingCmd, evRx, pid, hProcess,
                 cmdRx, cmdTx, cmdLock, evq, cmdq, threadVars>>

InstallChannels ==
  /\ at = "lock" /\ cmdLock = None
  /\ LET s == Opened + 1
     IN /\ cmdRx' = s /\ cmdTx' = s /\ evRx' = s
        /\ dbg' = [dbg EXCEPT ![s] = "init"]
        /\ how' = [how EXCEPT ![s] = requests[cur]]
        /\ pid' = IF requests[cur] = "attach" THEN s ELSE pid
  /\ at' = "wait"
  /\ UNCHANGED <<requests, stdin, stdout, cur, pendingCmd, hProcess,
                 eventTx, cmdLock, evq, cmdq, stops>>

(* A stop event carries the process id and handle of its target; the exit   *)
(* event carries neither.                                                   *)
LearnHandle(event) == hProcess' = IF event.what = "stop" THEN event.session ELSE hProcess
LearnPid(event) == pid' = IF event.what = "stop" THEN event.session ELSE pid

(* The first event answers the launch or attach; only launch learns from it. *)
FirstEvent ==
  /\ at = "wait" /\ evq[evRx] # <<>>
  /\ LET event == Head(evq[evRx])
     IN /\ stdout' = Written(cur, event)
        /\ IF requests[cur] = "launch" THEN LearnPid(event) /\ LearnHandle(event)
                                       ELSE UNCHANGED <<pid, hProcess>>
  /\ evq' = [evq EXCEPT ![evRx] = Tail(@)]
  /\ cur' = None /\ at' = "event"
  /\ UNCHANGED <<requests, stdin, pendingCmd, evRx,
                 eventTx, cmdRx, cmdTx, cmdLock, cmdq, threadVars>>

OpenTimesOut ==
  /\ Timeouts
  /\ at = "wait" /\ evq[evRx] = <<>>
  /\ stdout' = Written(cur, None)
  /\ cur' = None /\ at' = "event"
  /\ UNCHANGED <<requests, stdin, pendingCmd, evRx, pid, hProcess,
                 globalVars, threadVars>>

Received == IF evRx = None THEN <<>> ELSE evq[evRx]

NoEvent ==
  /\ at = "event" /\ Received = <<>>
  /\ at' = "line"
  /\ UNCHANGED <<requests, stdin, stdout, cur, pendingCmd, evRx, pid, hProcess,
                 globalVars, threadVars>>

(* pending_cmd.take(): the event answers the continue that waits; without   *)
(* one it is dropped.                                                       *)
PendingKept(id) == id
PendingTaken(id) == None

TakeEvent ==
  /\ at = "event" /\ Received # <<>>
  /\ LET event == Head(Received)
     IN /\ LearnPid(event) /\ LearnHandle(event)
        /\ IF pendingCmd = None THEN UNCHANGED stdout
                                ELSE stdout' = Written(pendingCmd, event)
  /\ pendingCmd' = PendingTaken(pendingCmd)
  /\ evq' = [evq EXCEPT ![evRx] = Tail(@)]
  /\ at' = "line"
  /\ UNCHANGED <<requests, stdin, cur, evRx,
                 eventTx, cmdRx, cmdTx, cmdLock, cmdq, threadVars>>

-------------------------------------------------------------------------------
(* the debug thread of session s *)

(* EVENT_TX.send: to the channel installed last, not the thread's own.      *)
SendEvent(event) ==
  IF eventTx = None THEN UNCHANGED evq
                    ELSE evq' = [evq EXCEPT ![eventTx] = Append(@, event)]

SetDbg(s, label) == dbg' = [dbg EXCEPT ![s] = label]
CountEvent(s) == stops' = [stops EXCEPT ![s] = @ + 1]

(* InitDebugEx or AttachDebugger works, or the thread reports an exit.      *)
DebugStarts(s) ==
  /\ dbg[s] = "init"
  /\ SetDbg(s, "running")
  /\ UNCHANGED <<requests, stdin, stdout, mainVars, globalVars, how, stops>>

DebugFails(s) ==
  /\ dbg[s] = "init"
  /\ SendEvent(Event(s, stops[s] + 1, "exit"))
  /\ CountEvent(s)
  /\ SetDbg(s, "gone")
  /\ UNCHANGED <<requests, stdin, stdout, mainVars,
                 eventTx, cmdRx, cmdTx, cmdLock, cmdq, how>>

(* A callback of the engine: send_event_and_wait sends the event ...        *)
TargetStops(s) ==
  /\ dbg[s] = "running" /\ stops[s] < MaxStops
  /\ SendEvent(Event(s, stops[s] + 1, "stop"))
  /\ CountEvent(s)
  /\ SetDbg(s, "stopped")
  /\ UNCHANGED <<requests, stdin, stdout, mainVars,
                 eventTx, cmdRx, cmdTx, cmdLock, cmdq, how>>

(* ... then locks CMD_RX ...                                                *)
LockCommands(s) ==
  /\ dbg[s] = "stopped" /\ cmdLock = None
  /\ cmdLock' = s
  /\ SetDbg(s, "waiting")
  /\ UNCHANGED <<requests, stdin, stdout, mainVars,
                 eventTx, cmdRx, cmdTx, evq, cmdq, how, stops>>

(* ... and waits, with the mutex, for a command on the channel in it.       *)
LockKept == UNCHANGED cmdLock
LockReleased == cmdLock' = None

ReceiveCommand(s) ==
  /\ dbg[s] = "waiting" /\ cmdq[cmdRx] # <<>>
  /\ SetDbg(s, IF Head(cmdq[cmdRx]) = "kill" THEN "ending" ELSE "running")
  /\ cmdq' = [cmdq EXCEPT ![cmdRx] = Tail(@)]
  /\ LockReleased
  /\ UNCHANGED <<requests, stdin, stdout, mainVars,
                 eventTx, cmdRx, cmdTx, evq, how, stops>>

TargetExits(s) ==
  /\ dbg[s] = "running"
  /\ SetDbg(s, "ending")
  /\ UNCHANGED <<requests, stdin, stdout, mainVars, globalVars, how, stops>>

(* DebugLoop returned: the thread of a launch reports the exit, the thread  *)
(* of an attach just ends.                                                  *)
DebugEnds(s) ==
  /\ dbg[s] = "ending"
  /\ IF how[s] = "launch"
     THEN SendEvent(Event(s, stops[s] + 1, "exit")) /\ CountEvent(s)
     ELSE UNCHANGED <<evq, stops>>
  /\ SetDbg(s, "gone")
  /\ UNCHANGED <<requests, stdin, stdout, mainVars,
                 eventTx, cmdRx, cmdTx, cmdLock, cmdq, how>>

-------------------------------------------------------------------------------
Serve == NoLine \/ Continue \/ KillOrDetach \/ Query \/ Shutdown \/ Open
Main == Serve \/ InstallChannels \/ FirstEvent \/ NoEvent \/ TakeEvent

(* The engine's thread, without the free will of the target.                *)
Thread(s) ==
  /\ at # "exited"
  /\ \/ DebugStarts(s) \/ DebugFails(s)
     \/ LockCommands(s) \/ ReceiveCommand(s)
     \/ DebugEnds(s)
Target(s) == at # "exited" /\ (TargetStops(s) \/ TargetExits(s))

Next ==
  \/ \E m \in Methods : Ask(m)
  \/ Main \/ OpenTimesOut
  \/ \E s \in Sessions : Thread(s) \/ Target(s)

Spec == Init /\ [][Next]_vars

(* The main loop turns, threads that can run do, recv_timeout expires, and  *)
(* a target that runs stops or exits in the end (MaxStops makes it exit     *)
(* when it has stopped often enough).                                       *)
Fairness ==
  /\ WF_vars(Main) /\ WF_vars(OpenTimesOut)
  /\ \A s \in Sessions : WF_vars(Thread(s)) /\ WF_vars(Target(s))

FairSpec == Spec /\ Fairness
-------------------------------------------------------------------------------
Events == [session : Sessions, n : 1..(MaxStops + 1), what : {"stop", "exit"}]
TypeOK ==
  /\ requests \in Seq(Methods)
  /\ stdin \in Seq(Ids)
  /\ stdout \in Seq([id : Ids, event : Events \union {None}])
  /\ at \in {"line", "event", "lock", "wait", "exited"}
  /\ cur \in Ids \union {None}
  /\ pendingCmd \in Ids \union {None}
  /\ {evRx, pid, hProcess, eventTx, cmdRx, cmdTx, cmdLock} \subseteq Sessions \union {None}
  /\ evq \in [Sessions -> Seq(Events)]
  /\ cmdq \in [Sessions -> Seq({"go", "kill"})]
  /\ dbg \in [Sessions -> {"none", "init", "running", "stopped", "waiting", "ending", "gone"}]
  /\ how \in [Sessions -> {None, "launch", "attach"}]
  /\ stops \in [Sessions -> 0..(MaxStops + 1)]

(* Whatever the client sends and the targets do, a request is answered at   *)
(* most once, and one debug event answers at most one request               *)
(* (main.rs:769-776,782-804).                                               *)
AnsweredOnce ==
  \A i, j \in DOMAIN stdout :
    i # j => /\ stdout[i].id # stdout[j].id
             /\ stdout[i].event # None => stdout[i].event # stdout[j].event

(* What the client of one target at a time is told is true: when it has no  *)
(* continue or kill under way and was last told of a stop, that target is   *)
(* stopped, and that stop was its last event (main.rs:160-185,764-804).     *)
ShownIsTrue ==
  (ShownStopped /\ \A i \in Unanswered : requests[i] = "query")
    => /\ dbg[Shown.session] \in {"stopped", "waiting"}
       /\ stops[Shown.session] = Shown.n

(* A session that is asked to end does: the kill is not lost on its way to  *)
(* the callback, even behind a continue (main.rs:469-476,166-184).          *)
KillUnderWay(s) ==
  /\ evRx = s /\ dbg[s] # "gone"
  /\ \E i \in Unanswered : requests[i] = "kill"
KilledTargetEnds == \A s \in Sessions : KillUnderWay(s) ~> dbg[s] = "gone"

(* Every request of a polite client is answered, unless it has attached to  *)
(* a target that ended: nothing tells of that end (main.rs:323-325).        *)
Answered(i) == i \in DOMAIN requests \ Unanswered
SilentEnd == \E s \in Sessions : how[s] = "attach" /\ dbg[s] = "gone"
EveryRequestAnswered ==
  \A i \in Ids : i \in DOMAIN requests ~> Answered(i) \/ SilentEnd

(* "DebugLoop terminated early or timed out" (main.rs:299): a launch is      *)
(* answered in any case, by an event or by the timeout.                     *)
LaunchAnswered ==
  \A i \in Ids :
    (i \in DOMAIN requests /\ requests[i] = "launch")
      ~> (Answered(i) \/ at = "exited")
===============================================================================
