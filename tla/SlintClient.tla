------------------------------ MODULE SlintClient ------------------------------
(***************************************************************************)
(* The Slint front end (apps/hywdbg-slint/src/main.rs) before the core's   *)
(* HTTP service.  Every click and every console line starts a thread of    *)
(* its own (with_ui); the thread makes one blocking HTTP call after        *)
(* another, each on a new connection and without a timeout, gathers the    *)
(* results in a patch, and hands the patch to the event loop, which writes *)
(* the fields that the patch has over those of the window.  Nothing orders *)
(* the threads: a user who does not wait has several of them at work.      *)
(*                                                                         *)
(* Behind the HTTP service are the core's one-session service (as in       *)
(* BackendSession) and a winapi backend that serves one request at a time  *)
(* and is busy while its debuggee runs.  What a query returns is           *)
(* abstracted to when it was true: the session and the number of its last  *)
(* debug event.                                                            *)
(***************************************************************************)
EXTENDS Integers, Sequences, FiniteSets

CONSTANTS
  Workers,   \* the threads: one click or console line each
  First,     \* the session the core may have when the window opens
  None       \* no session, nobody

ASSUME SlintAssumption ==
  IsFiniteSet(Workers) /\ First \notin Workers /\ None \notin Workers \union {First}

Sessions == Workers \union {First}

VARIABLES
  (* the core and its backends *)
  online,    \* does the daemon run?
  session,   \* the session the core owns, named after the thread that began it
  proc,      \* each session's backend process: "none", "live", "dead"
  target,    \* each session's debuggee: "none", "stopped", "exited"
  events,    \* the number of the debuggee's last event
  busy,      \* who sits in WaitForDebugEvent of each session's backend
  (* the threads *)
  at,        \* "idle", "call", "sent", "moving", "stopping", "ready", "done"
  cmd,       \* what the thread was started for
  todo,      \* the calls it still makes
  bound,     \* the session its call was forwarded to, or its stop works on
  got,       \* what it has learned: a partial function
  failed,    \* has a call failed that ends the command?
  (* the window *)
  view,      \* field -> value
  (* history *)
  fresh,     \* nobody else has moved a target or the session since it began
  last       \* the thread whose patch was applied last, and its fields

coreVars == <<online, session, proc, target, events, busy>>
threadVars == <<at, cmd, todo, bound, got, failed>>
vars == <<coreVars, threadVars, view, fresh, last>>

-------------------------------------------------------------------------------
(* The fields of f, and those of g that f has not.                          *)
Over(f, g) == [k \in DOMAIN f \union DOMAIN g |-> IF k \in DOMAIN f THEN f[k] ELSE g[k]]

(* the commands: which calls a thread makes *)

(* refresh_all; "lists" are its calls for the modules and for the threads.  *)
Refresh == <<"regs", "lists", "disasm", "readMem">>

(* The buttons; the run button stands for the step button too.              *)
Clicks ==
  [ core    |-> <<"hello">>,
    winapi  |-> <<"start">>,
    stop    |-> <<"stop">>,
    open    |-> <<"start", "launch">> \o Refresh,
    run     |-> <<"move">> \o Refresh,
    pause   |-> <<"pause">> \o Refresh,
    bp      |-> <<"regs", "bpSet">> ]

(* The console, where it is not the same as a button: launch and attach are *)
(* an open that shows "Stopped" in place of the event, a step is a go.      *)
ConsoleRefreshedFirst ==
  [ refresh |-> Refresh,
    u       |-> <<"regs", "disasm">>,
    db      |-> <<"readMem">>,
    g       |-> Refresh \o <<"move">> ]
Console ==
  [ refresh |-> Refresh,
    u       |-> <<"regs", "disasm">>,
    db      |-> <<"readMem">>,
    g       |-> <<"move">> \o Refresh ]

Program == Over(Clicks, Console)
Commands == DOMAIN Program
Refreshing == {"open", "run", "pause", "refresh", "g"}

Fields == {"status", "core", "backend", "regs", "lists", "disasm", "hex", "breakpoints"}

(* What a query answers and the format functions make of it, abstracted to  *)
(* when it was true: the session and the debuggee's last event.             *)
Now(s) == [session |-> s, event |-> events[s]]
NoTarget == [session |-> None, event |-> 0]
Empty == [session |-> None, event |-> 1]

(* set_initial *)
InitialView ==
  [f \in Fields |->
     CASE f = "status" -> "Idle"
       [] f = "core" -> "unknown"
       [] f = "backend" -> "none"
       [] OTHER -> NoTarget]

Init ==
  /\ online = TRUE
  /\ session \in {None, First}
  /\ proc = [s \in Sessions |-> IF s = session THEN "live" ELSE "none"]
  /\ target = [s \in Sessions |-> IF s = session THEN "stopped" ELSE "none"]
  /\ events = [s \in Sessions |-> 0]
  /\ busy = [s \in Sessions |-> None]
  /\ at = [w \in Workers |-> "idle"]
  /\ cmd = [w \in Workers |-> "core"]
  /\ todo = [w \in Workers |-> <<>>]
  /\ bound = [w \in Workers |-> None]
  /\ got = [w \in Workers |-> <<>>]
  /\ failed = [w \in Workers |-> FALSE]
  /\ view = InitialView
  /\ fresh = [w \in Workers |-> FALSE]
  /\ last = [by |-> None, fields |-> {}]

-------------------------------------------------------------------------------
(* one thread *)

(* Each call is one POST /rpc, served by a task of its own for as long as   *)
(* the core takes: nothing but the core orders the calls.                   *)
Calls(w, r) == at[w] = "call" /\ Head(todo[w]) = r

(* The call came back with something: on to the next, or to the event loop. *)
Learn(w, facts) ==
  /\ got' = [got EXCEPT ![w] = Over(facts, @)]
  /\ todo' = [todo EXCEPT ![w] = Tail(@)]
  /\ at' = [at EXCEPT ![w] = IF Tail(todo[w]) = <<>> THEN "ready" ELSE "call"]
  /\ UNCHANGED <<cmd, bound, failed>>

(* A refresh goes on without its lists, its code or its stack; the bp       *)
(* button without the registers.  A refresh behind a click that fails is    *)
(* dropped (unwrap_or_default) and the event is shown alone; anything else  *)
(* ends the command.                                                        *)
StartTolerated(w) ==
  \/ cmd[w] \in Refreshing /\ Head(todo[w]) \in {"lists", "disasm", "readMem"}
  \/ Head(todo[w]) = "start"
Tolerated(w) ==
  \/ cmd[w] \in Refreshing /\ Head(todo[w]) \in {"lists", "disasm", "readMem"}
  \/ cmd[w] = "bp" /\ Head(todo[w]) = "regs"
RefreshDropped(w) == cmd[w] \in {"run", "pause"} /\ Head(todo[w]) = "regs"

Fail(w) ==
  IF Tolerated(w)
  THEN Learn(w, [r \in {Head(todo[w])} |-> Empty])
  ELSE /\ failed' = [failed EXCEPT ![w] = ~RefreshDropped(w)]
       /\ todo' = [todo EXCEPT ![w] = <<>>]
       /\ at' = [at EXCEPT ![w] = "ready"]
       /\ UNCHANGED <<cmd, bound, got>>

(* History: w has changed what the others may already have asked about.     *)
Disturb(w) == fresh' = [x \in Workers |-> x = w /\ fresh[x]]

(* A click, or a line in the console: with_ui spawns a thread.              *)
Spawn(w, c) ==
  /\ at[w] = "idle"
  /\ at' = [at EXCEPT ![w] = "call"]
  /\ cmd' = [cmd EXCEPT ![w] = c]
  /\ todo' = [todo EXCEPT ![w] = Program[c]]
  /\ fresh' = [fresh EXCEPT ![w] = TRUE]
  /\ UNCHANGED <<coreVars, bound, got, failed, view, last>>

(* Without a daemon connect fails, and a connection that breaks is a bad    *)
(* HTTP response.                                                           *)
Offline(w) ==
  /\ ~online /\ at[w] \in {"call", "sent", "moving", "stopping"}
  /\ Fail(w)
  /\ UNCHANGED <<coreVars, view, fresh, last>>

-------------------------------------------------------------------------------
(* calls the core answers itself *)

Hello(w) ==
  /\ online /\ Calls(w, "hello")
  /\ Learn(w, <<>>)
  /\ UNCHANGED <<coreVars, view, fresh, last>>

StartBackend(w) ==
  /\ online /\ Calls(w, "start") /\ session = None
  /\ \/ /\ session' = w
        /\ proc' = [proc EXCEPT ![w] = "live"]
        /\ Disturb(w)
        /\ Learn(w, <<>>)
     \/ Fail(w) /\ UNCHANGED <<session, proc, fresh>>
  /\ UNCHANGED <<online, target, events, busy, view, last>>

(* rpc_ignore_already_active: whatever backend is active will do.           *)
StartAlreadyActive(w) ==
  /\ online /\ Calls(w, "start") /\ session # None
  /\ Learn(w, <<>>)
  /\ UNCHANGED <<coreVars, view, fresh, last>>

(* The session is taken away first, then the backend is asked to shut down  *)
(* and killed; a backend that waits for its debuggee lets the stop wait.    *)
StopTakes(w) ==
  /\ online /\ Calls(w, "stop") /\ session # None
  /\ session' = None
  /\ bound' = [bound EXCEPT ![w] = session]
  /\ at' = [at EXCEPT ![w] = "stopping"]
  /\ Disturb(w)
  /\ UNCHANGED <<online, proc, target, events, busy, cmd, todo, got, failed, view, last>>

StopFinishes(w) ==
  /\ online /\ at[w] = "stopping" /\ busy[bound[w]] = None
  /\ proc' = [proc EXCEPT ![bound[w]] = "dead"]
  /\ target' = [target EXCEPT ![bound[w]] = "none"]
  /\ Disturb(w)
  /\ Learn(w, <<>>)
  /\ UNCHANGED <<online, session, events, busy, view, last>>

NothingToStop(w) ==
  /\ online /\ Calls(w, "stop") /\ session = None
  /\ Learn(w, <<>>)
  /\ UNCHANGED <<coreVars, view, fresh, last>>

-------------------------------------------------------------------------------
(* calls the core forwards *)

Forwarded(w) == at[w] = "call" /\ Head(todo[w]) \notin {"hello", "start", "stop"}

Forward(w) ==
  /\ online /\ Forwarded(w) /\ session # None
  /\ bound' = [bound EXCEPT ![w] = session]
  /\ at' = [at EXCEPT ![w] = "sent"]
  /\ UNCHANGED <<coreVars, cmd, todo, got, failed, view, fresh, last>>

NoSession(w) ==
  /\ online /\ Forwarded(w) /\ session = None
  /\ Fail(w)
  /\ UNCHANGED <<coreVars, view, fresh, last>>

(* The backend reads the request: it lives and is not waiting for an event. *)
Reads(w, rs) ==
  /\ online /\ at[w] = "sent" /\ Head(todo[w]) \in rs
  /\ proc[bound[w]] = "live" /\ busy[bound[w]] = None

(* Queries: the lists of a debuggee that is stopped are always there; its   *)
(* registers, code and stack may not be readable.                           *)
Query(w) ==
  /\ Reads(w, {"regs", "lists", "disasm", "readMem", "bpSet"})
  /\ LET r == Head(todo[w])
         t == target[bound[w]]
     IN \/ t # "none" /\ Learn(w, [k \in {r} |-> Now(bound[w])])
        \/ ~(r = "lists" /\ t = "stopped") /\ Fail(w)
  /\ UNCHANGED <<coreVars, view, fresh, last>>

(* launch gives up the debuggee there is and comes back with the first      *)
(* event of the new one, or fails without any.                              *)
Launch(w) ==
  /\ Reads(w, {"launch"})
  /\ Disturb(w)
  /\ LET s == bound[w]
     IN \/ /\ target' = [target EXCEPT ![s] = "stopped"]
           /\ events' = [events EXCEPT ![s] = @ + 1]
           /\ Learn(w, [event |-> "create_process"])
        \/ /\ target' = [target EXCEPT ![s] = "none"]
           /\ Fail(w)
           /\ UNCHANGED events
  /\ UNCHANGED <<online, session, proc, busy, view, last>>

(* go and the steps let the debuggee run and come back with its next event. *)
(* A pause of a stopped debuggee never comes back, nor does a go with none  *)
(* to continue; a step or a pause of none is refused.                       *)
Move(w) ==
  /\ Reads(w, {"move", "pause"})
  /\ Head(todo[w]) = "pause" => target[bound[w]] = "stopped"
  /\ busy' = [busy EXCEPT ![bound[w]] = w]
  /\ at' = [at EXCEPT ![w] = "moving"]
  /\ Disturb(w)
  /\ UNCHANGED <<online, session, proc, target, events,
                 cmd, todo, bound, got, failed, view, last>>

MoveRefused(w) ==
  /\ Reads(w, {"move", "pause"}) /\ target[bound[w]] # "stopped"
  /\ Fail(w)
  /\ UNCHANGED <<coreVars, view, fresh, last>>

StillBusy(s) == busy
FreeAgain(s) == [busy EXCEPT ![s] = None]

MoveEnds(w) ==
  /\ online /\ at[w] = "moving" /\ Head(todo[w]) = "move"
  /\ LET s == bound[w]
     IN /\ target[s] = "stopped"
        /\ \E after \in {"stopped", "exited"} :
             /\ target' = [target EXCEPT ![s] = after]
             /\ Learn(w, [event |-> IF after = "exited" THEN "exit_process" ELSE "stop"])
        /\ events' = [events EXCEPT ![s] = @ + 1]
        /\ busy' = FreeAgain(s)
  /\ Disturb(w)
  /\ UNCHANGED <<online, session, proc, view, last>>

(* Writing to a backend that was killed may fail; a request it did not read *)
(* before is never answered.                                                *)
ForwardBreaks(w) ==
  /\ online /\ at[w] = "sent" /\ proc[bound[w]] = "dead"
  /\ Fail(w)
  /\ UNCHANGED <<coreVars, view, fresh, last>>

DaemonDies ==
  /\ online
  /\ online' = FALSE /\ session' = None
  /\ proc' = [s \in Sessions |-> IF proc[s] = "live" THEN "dead" ELSE proc[s]]
  /\ target' = [s \in Sessions |-> "none"]
  /\ fresh' = [w \in Workers |-> FALSE]
  /\ UNCHANGED <<events, busy, threadVars, view, last>>

-------------------------------------------------------------------------------
(* the event loop *)

RefreshPatch(g) ==
  [status |-> "Stopped", core |-> "online", backend |-> "winapi",
   regs |-> g["regs"], lists |-> g["lists"], disasm |-> g["disasm"], hex |-> g["readMem"],
   breakpoints |-> Empty]

Refreshed(w) == IF "regs" \in DOMAIN got[w] THEN RefreshPatch(got[w]) ELSE <<>>

(* A click writes the name of the event over the status of the refresh.     *)
EventUnderRefresh(w) == Over(Refreshed(w), [status |-> got[w]["event"]])
EventAndRefresh(w) == Over([status |-> got[w]["event"]], Refreshed(w))

SuccessPatch(w) ==
  CASE cmd[w] = "core" -> [core |-> "online", status |-> "CoreOnline"]
    [] cmd[w] = "winapi" -> [core |-> "online", backend |-> "winapi", status |-> "active"]
    [] cmd[w] = "stop" -> [backend |-> "none", status |-> "BackendStopped"]
    [] cmd[w] \in {"open", "run", "pause"} -> EventAndRefresh(w)
    [] cmd[w] \in {"refresh", "g"} -> Refreshed(w)
    [] cmd[w] = "bp" -> [breakpoints |-> got[w]["bpSet"]]
    [] cmd[w] = "u" -> [disasm |-> got[w]["disasm"]]
    [] cmd[w] = "db" -> [hex |-> got[w]["readMem"]]

(* The error arms of the buttons; those of the console say "failed" too.    *)
FailurePatch(w) ==
  CASE cmd[w] = "core" -> [core |-> "offline", status |-> "CoreOffline"]
    [] cmd[w] \in {"stop", "bp"} -> <<>>
    [] OTHER -> [status |-> "failed"]

Patch(w) == IF failed[w] THEN FailurePatch(w) ELSE SuccessPatch(w)

(* apply: the fields that are Some are written.                             *)
OnlyPatch(p) == p
Applied(p) == Over(p, view)

Apply(w) ==
  /\ at[w] = "ready"
  /\ view' = Applied(Patch(w))
  /\ at' = [at EXCEPT ![w] = "done"]
  /\ last' = [by |-> w, fields |-> DOMAIN Patch(w)]
  /\ got' = [got EXCEPT ![w] = <<>>]
  /\ UNCHANGED <<coreVars, cmd, todo, bound, failed, fresh>>

-------------------------------------------------------------------------------
Thread(w) ==
  \/ Hello(w) \/ StartBackend(w) \/ StartAlreadyActive(w)
  \/ StopTakes(w) \/ StopFinishes(w) \/ NothingToStop(w)
  \/ Forward(w) \/ NoSession(w)
  \/ Query(w) \/ Launch(w) \/ Move(w) \/ MoveRefused(w) \/ MoveEnds(w)
  \/ Apply(w)

Next ==
  \/ \E w \in Workers :
       \/ \E c \in Commands : Spawn(w, c)
       \/ Thread(w) \/ Offline(w) \/ ForwardBreaks(w)
  \/ DaemonDies

Spec == Init /\ [][Next]_vars

(* Threads run, the daemon and its backends serve what they read, and a     *)
(* debuggee that runs reports an event in the end.                          *)
Fairness == \A w \in Workers : WF_vars(Thread(w) \/ Offline(w))
FairSpec == Spec /\ Fairness
-------------------------------------------------------------------------------
Versions == [session : Sessions, event : 0..Cardinality(Workers)]
Texts == {"status", "core", "backend"}
TypeOK ==
  /\ online \in BOOLEAN /\ session \in Sessions \union {None}
  /\ proc \in [Sessions -> {"none", "live", "dead"}]
  /\ target \in [Sessions -> {"none", "stopped", "exited"}]
  /\ events \in [Sessions -> 0..Cardinality(Workers)]
  /\ busy \in [Sessions -> Workers \union {None}]
  /\ at \in [Workers -> {"idle", "call", "sent", "moving", "stopping", "ready", "done"}]
  /\ cmd \in [Workers -> Commands]
  /\ \A w \in Workers : Len(todo[w]) <= Len(Program[cmd[w]])
  /\ bound \in [Workers -> Sessions \union {None}]
  /\ failed \in [Workers -> BOOLEAN] /\ fresh \in [Workers -> BOOLEAN]
  /\ DOMAIN view = Fields
  /\ view["core"] \in {"unknown", "online", "offline"}
  /\ view["backend"] \in {"none", "winapi"}
  /\ \A f \in Fields \ Texts : view[f] \in Versions \union {NoTarget, Empty}

(* The patch applied last is w's, has field f, and nobody else moved a      *)
(* target or the session since w's command was given.                       *)
LastSays(w, f) == last.by = w /\ f \in last.fields /\ fresh[w]

(* A refresh that nobody disturbs repairs the whole window, whatever older  *)
(* threads have written there before: registers, lists, code and stack are  *)
(* of one and the same stop, the last one of the active session             *)
(* (main.rs:88-105,306-351).                                                *)
ViewIsCurrent ==
  \A w \in Workers : LastSays(w, "regs") =>
    /\ bound[w] = session
    /\ view["regs"] = Now(session)
    /\ \A f \in {"lists", "disasm", "hex"} : view[f] \in {Now(session), Empty}

(* The backend label says whether the core owns a backend, although a start *)
(* that was refused for "already active" counts as a success                *)
(* (main.rs:138-149,395-413).                                               *)
LabelIsTrue ==
  \A w \in Workers : LastSays(w, "backend") =>
    (view["backend"] = "none" <=> session = None)

(* The run button shows that the debuggee is gone, also when the refresh    *)
(* behind the event fails or still finds registers (main.rs:446-458).       *)
RunShowsExit ==
  \A w \in Workers : LastSays(w, "status") /\ cmd[w] = "run" /\ ~failed[w] =>
    (view["status"] = "exit_process" <=> target[bound[w]] = "exited")

(* Every command ends in a patch, whatever fails or dies on the way, unless *)
(* its backend is killed under it or waits for an event that cannot come:   *)
(* rpc has no timeout (main.rs:107-125).                                    *)
NeverReturns(s) ==
  busy[s] # None /\ (cmd[busy[s]] = "pause" \/ target[s] # "stopped")
Lost(w) ==
  online /\ bound[w] # None /\ (proc[bound[w]] = "dead" \/ NeverReturns(bound[w]))
CommandsFinish ==
  \A w \in Workers : []<>(at[w] \in {"idle", "done"} \/ Lost(w))
===============================================================================
