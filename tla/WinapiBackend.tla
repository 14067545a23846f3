----------------------------- MODULE WinapiBackend -----------------------------
(***************************************************************************)
(* winapi-backend (backends/winapi-backend/src/winapi_impl.rs): the        *)
(* debuggee it holds, the debug events it waits for, and the int3          *)
(* breakpoints it writes into the debuggee's memory.  run_stdio_backend    *)
(* gives it one request at a time, and go, the steps, pause, launch and    *)
(* attach sit in WaitForDebugEvent with no timeout, so the backend is      *)
(* either idle, with its debuggee stopped, or waiting.                     *)
(*                                                                         *)
(* The Windows debug API is external: a debugged process that runs reports *)
(* an event some time and stops there; nothing more is reported of it      *)
(* until that event is continued.  Threads, their handles and registers    *)
(* are left out; a byte is the program's own code, an int3 or what a       *)
(* client has written.                                                     *)
(***************************************************************************)
EXTENDS SequencesExt

CONSTANTS
  None,       \* Rust's Option::None
  Targets,    \* the processes there are
  Existing,   \* those that run before anyone debugs them
  Addrs,      \* the addresses of interest in each of them
  Methods,    \* the methods the client uses in this instance
  MaxBps,     \* breakpoints set in one behaviour
  MaxEvents,  \* events of one process before its exit
  Clients     \* FALSE for any client, TRUE for one that cleans up after itself

ASSUME WinapiAssumption ==
  /\ None \notin Targets
  /\ Existing \subseteq Targets
  /\ Methods \subseteq {"launch", "attach", "detach", "pause", "go",
                         "bpSet", "bpClear", "writeMem"}
  /\ MaxBps \in Nat /\ MaxEvents \in Nat
  /\ Clients \subseteq BOOLEAN

VARIABLES
  (* BackendState *)
  pid,        \* the debuggee's process id
  process,    \* the debuggee its process handle is open on
  lastEvent,  \* whose event waits to be continued
  nextBp,     \* the next breakpoint id
  bps,        \* breakpoint id -> [addr, original]
  at,         \* "idle", or the method that is in WaitForDebugEvent
  (* Windows *)
  ps,         \* "none", "running", "stopped", "exiting" (exit reported), "dead"
  debugged,   \* the processes this backend is the debugger of
  mem,        \* the code bytes of each process
  events,     \* events reported of each process so far
  (* the client, and what it meant the memory to be *)
  tidy,       \* does it clean up after itself?
  code        \* the program's own bytes and the client's writes, no int3

stateVars == <<pid, process, lastEvent, nextBp, bps>>
osVars == <<ps, debugged, mem, events>>
vars == <<stateVars, at, osVars, tidy, code>>

FirstBpZero == 0
FirstBp == 1

Init ==
  /\ pid = None /\ process = None /\ lastEvent = None
  /\ nextBp = FirstBp /\ bps = <<>>
  /\ at = "idle"
  /\ ps = [p \in Targets |-> IF p \in Existing THEN "running" ELSE "none"]
  /\ debugged = {}
  /\ mem = [p \in Targets |-> [a \in Addrs |-> "own"]]
  /\ events = [p \in Targets |-> 0]
  /\ tidy \in Clients /\ code = mem

BpIds == DOMAIN bps
BpsAt(a) == {id \in BpIds : bps[id].addr = a}
Readable(p) == p # None /\ ps[p] \in {"running", "stopped", "exiting"}

-------------------------------------------------------------------------------
(* the client *)

(* A tidy client opens one debuggee at a time, keeps to one breakpoint per  *)
(* address, writes elsewhere, clears its breakpoints before it detaches,    *)
(* and neither pauses nor continues what is not there to run.               *)
Ready(m) ==
  /\ at = "idle" /\ m \in Methods
  /\ tidy => CASE m \in {"launch", "attach"} -> pid = None
               [] m = "detach" -> BpIds = {}
               [] m = "go" -> lastEvent # None /\ ps[lastEvent] = "stopped"
               [] m = "pause" -> FALSE
               [] OTHER -> TRUE

-------------------------------------------------------------------------------
(* close_all: what is known of the debuggee is forgotten, its breakpoints   *)
(* with it; nothing is written to its memory.                               *)
ProcessKept == process
ProcessClosed == None

CloseAll ==
  /\ pid' = None /\ process' = ProcessClosed /\ lastEvent' = None
  /\ bps' = <<>>
  /\ UNCHANGED nextBp

(* close_all, then CreateProcessW or OpenProcess with DebugActiveProcess,   *)
(* then wait_event; a failure leaves everything closed.                     *)
OpenDebuggee(m, p) ==
  /\ Ready(m)
  /\ \/ m = "launch" /\ ps[p] = "none"
     \/ m = "attach" /\ ps[p] = "running" /\ p \notin debugged
  /\ pid' = p /\ process' = p /\ lastEvent' = None
  /\ bps' = <<>>
  /\ ps' = [ps EXCEPT ![p] = "running"]
  /\ debugged' = debugged \union {p}
  /\ at' = m
  /\ UNCHANGED <<nextBp, mem, events, tidy, code>>

OpenFails(m) ==
  /\ Ready(m) /\ m \in {"launch", "attach"}
  /\ CloseAll
  /\ UNCHANGED <<at, osVars, tidy, code>>

(* What ContinueDebugEvent, or the end of debugging, makes of a process.    *)
StaysFrozen(p) == ps[p]
Runs(p) == CASE ps[p] = "stopped" -> "running"
             [] ps[p] = "exiting" -> "dead"
             [] OTHER -> ps[p]

(* detach, and shutdown alike: DebugActiveProcessStop lets the debuggee     *)
(* run on without a debugger.                                               *)
StillDebugged(p) == debugged
ReleasedFrom(p) == debugged \ {p}

Detach ==
  /\ Ready("detach")
  /\ IF pid = None THEN UNCHANGED <<debugged, ps>>
     ELSE /\ debugged' = ReleasedFrom(pid)
          /\ ps' = IF pid \in debugged' THEN ps ELSE [ps EXCEPT ![pid] = Runs(pid)]
  /\ CloseAll
  /\ UNCHANGED <<at, mem, events, tidy, code>>

(* go and the steps: ContinueDebugEvent for the last event, if there is     *)
(* one, then wait_event.                                                    *)
ContinueAndWait ==
  /\ Ready("go")
  /\ ps' = IF lastEvent = None THEN ps ELSE [ps EXCEPT ![lastEvent] = Runs(lastEvent)]
  /\ lastEvent' = None
  /\ at' = "go"
  /\ UNCHANGED <<pid, process, nextBp, bps, debugged, mem, events, tidy, code>>

(* ContinueDebugEvent may fail: the request returns, the event is lost and  *)
(* the process stays as it is.                                              *)
ContinueFails ==
  /\ Ready("go")
  /\ lastEvent # None
  /\ lastEvent' = None
  /\ UNCHANGED <<pid, process, nextBp, bps, at, osVars, tidy, code>>

(* pause: DebugBreakProcess, then wait_event; the last event is not         *)
(* continued.                                                               *)
Pause ==
  /\ Ready("pause")
  /\ process # None
  /\ at' = "pause"
  /\ UNCHANGED <<stateVars, osVars, tidy, code>>

(* wait_event: a debugged process that runs reports something and stops.    *)
WaitEvent(p) ==
  /\ at # "idle"
  /\ p \in debugged /\ ps[p] = "running"
  /\ \E after \in {"stopped", "exiting"} :
       /\ after = "stopped" => events[p] < MaxEvents
       /\ ps' = [ps EXCEPT ![p] = after]
  /\ events' = [events EXCEPT ![p] = IF @ < MaxEvents THEN @ + 1 ELSE @]
  /\ pid' = p /\ lastEvent' = p
  /\ at' = "idle"
  /\ UNCHANGED <<process, nextBp, bps, debugged, mem, tidy, code>>

-------------------------------------------------------------------------------
(* memory and breakpoints *)

Write(a, byte) == mem' = [mem EXCEPT ![process][a] = byte]

(* bpSet: the old byte is read and kept, int3 is written, the id counts up. *)
OwnInt3(byte) == "int3"
OldByte(byte) == byte

BpSet(a) ==
  /\ Ready("bpSet")
  /\ Readable(process)
  /\ nextBp <= MaxBps
  /\ tidy => BpsAt(a) = {}
  /\ Write(a, "int3")
  /\ bps' = [id \in BpIds \union {nextBp} |->
               IF id = nextBp THEN [addr |-> a, original |-> OldByte(mem[process][a])]
                              ELSE bps[id]]
  /\ nextBp' = nextBp + 1
  /\ UNCHANGED <<pid, process, lastEvent, at, ps, debugged, events, tidy, code>>

(* bpClear of one breakpoint, by its id or as one of those at its address:  *)
(* it is taken out and its byte written back, if that can be done.          *)
NotRestored(id) == mem
Restored(id) ==
  IF Readable(process) THEN [mem EXCEPT ![process][bps[id].addr] = bps[id].original]
                       ELSE mem

BpClear(id) ==
  /\ Ready("bpClear")
  /\ id \in BpIds
  /\ mem' = Restored(id)
  /\ bps' = [i \in BpIds \ {id} |-> bps[i]]
  /\ UNCHANGED <<pid, process, lastEvent, nextBp, at, ps, debugged, events, tidy, code>>

(* bpClear {all}: the map is emptied in an order of its own; of several     *)
(* breakpoints at one address the one cleared last leaves its byte.         *)
BpClearAll ==
  /\ Ready("bpClear")
  /\ BpIds # {}
  /\ \E last \in [Addrs -> BpIds] :
       /\ \A a \in Addrs : BpsAt(a) # {} => last[a] \in BpsAt(a)
       /\ mem' = IF Readable(process)
                 THEN [mem EXCEPT ![process] =
                         [a \in Addrs |-> IF BpsAt(a) = {} THEN @[a]
                                                           ELSE bps[last[a]].original]]
                 ELSE mem
  /\ bps' = <<>>
  /\ UNCHANGED <<pid, process, lastEvent, nextBp, at, ps, debugged, events, tidy, code>>

(* writeMem knows nothing of breakpoints. *)
WriteMem(a) ==
  /\ Ready("writeMem")
  /\ Readable(process)
  /\ tidy => BpsAt(a) = {}
  /\ Write(a, "patch")
  /\ code' = [code EXCEPT ![process][a] = "patch"]
  /\ UNCHANGED <<stateVars, at, ps, debugged, events, tidy>>

-------------------------------------------------------------------------------
Next ==
  \/ \E m \in {"launch", "attach"} : OpenFails(m) \/ \E p \in Targets : OpenDebuggee(m, p)
  \/ Detach \/ ContinueAndWait \/ ContinueFails \/ Pause
  \/ \E p \in Targets : WaitEvent(p)
  \/ \E a \in Addrs : BpSet(a) \/ WriteMem(a)
  \/ \E id \in BpIds : BpClear(id)
  \/ BpClearAll

Spec == Init /\ [][Next]_vars

(* A debugged process that runs reports an event, its exit at the latest.   *)
Fairness == \A p \in Targets : WF_vars(WaitEvent(p))

FairSpec == Spec /\ Fairness
-------------------------------------------------------------------------------
Byte == {"own", "int3", "patch"}
TypeOK ==
  /\ {pid, process, lastEvent} \subseteq Targets \union {None}
  /\ nextBp \in 1..(MaxBps + 1)
  /\ BpIds \subseteq 1..MaxBps
  /\ \A id \in BpIds : bps[id] \in [addr : Addrs, original : Byte]
  /\ at \in {"idle", "launch", "attach", "go", "pause"}
  /\ ps \in [Targets -> {"none", "running", "stopped", "exiting", "dead"}]
  /\ debugged \subseteq Targets /\ tidy \in Clients
  /\ mem \in [Targets -> [Addrs -> Byte]]
  /\ code \in [Targets -> [Addrs -> {"own", "patch"}]]
  /\ events \in [Targets -> 0..MaxEvents]

(* For a tidy client the debuggee's code is what the program and the client *)
(* made it, with an int3 exactly where a breakpoint is listed, and every    *)
(* breakpoint knows the byte it covers, through any series of sets, clears, *)
(* writes, events and reopenings (winapi_impl.rs:774-831).                  *)
BreakpointsAreExact ==
  tidy /\ process # None /\ Readable(process) =>
    \A a \in Addrs :
      /\ mem[process][a] = IF BpsAt(a) = {} THEN code[process][a] ELSE "int3"
      /\ \A id \in BpsAt(a) : bps[id].original = code[process][a]

(* ... and a process that runs without its debugger has no int3 left in it, *)
(* where it would be a crash (winapi_impl.rs:645-662).                      *)
ReleasedCodeIsClean ==
  tidy => \A p \in Targets : ps[p] = "running" /\ p \notin debugged => mem[p] = code[p]

(* A tidy client leaves no process frozen out of its reach, although a go   *)
(* that fails forgets the event: one that is stopped is pid, which the next *)
(* detach lets run, and the backend is there to take it, not in wait_event  *)
(* (winapi_impl.rs:226-229,375-384,645-662).                                *)
FrozenCanDetach ==
  tidy => \A p \in debugged : ps[p] \in {"stopped", "exiting"} => p = pid /\ at = "idle"

(* Bytes are written only into a process that this backend debugs and that  *)
(* is stopped: none that runs is changed under its threads, and none after  *)
(* a detach (winapi_impl.rs:112-132,425-446).                               *)
WritesOnlyWhileStopped ==
  [][\A p \in Targets : mem'[p] # mem[p] => p \in debugged /\ ps[p] \in {"stopped", "exiting"}]_vars

(* A tidy client gets every request answered: WaitForDebugEvent returns     *)
(* (winapi_impl.rs:221-225).                                                *)
EveryRequestAnswered == tidy /\ at # "idle" ~> at = "idle"
===============================================================================
