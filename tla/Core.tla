--------------------------------- MODULE Core ---------------------------------
(***************************************************************************)
(* hywdbg-core: CoreHandle (core.rs) on top of BackendProcess              *)
(* (backend_process.rs), with the backend processes it spawns.             *)
(*                                                                         *)
(* Every front-end request is served by a task of its own, so calls        *)
(* interleave at every await.  The state mutex of CoreHandle is `lock`;    *)
(* a backend is reached through its stdin pipe and answers on its stdout   *)
(* pipe, where one reader task per process matches answers to the pending  *)
(* map.  The short mutexes inside BackendProcess (next_id, pending, stdin, *)
(* child) protect one step each and are that step's atomicity.             *)
(*                                                                         *)
(* A call issues at most one backend request and a start call spawns at    *)
(* most one process, so a process is named after the call that spawned it. *)
(***************************************************************************)
EXTENDS SequencesExt

CONSTANTS
  Calls,     \* the front-end calls that will be made, each served once
  None,      \* Rust's Option::None
  Methods,   \* the methods front ends use in this instance
  Kinds,     \* the kinds of backend executable that can be started
  Crashes    \* may a backend process die on its own?

Procs == Calls

ASSUME CoreAssumption ==
  /\ None \notin Calls \union Methods
  /\ Methods \subseteq {"hello", "status", "start", "stop", "forward"}
  /\ Kinds \subseteq {"stdio", "titan"}
  /\ Crashes \in BOOLEAN

VARIABLES
  (* one task per front-end call *)
  pc,        \* where the task of the call is
  method,    \* the method called, None before the call arrives
  target,    \* the Arc<BackendProcess> the task holds
  rid,       \* the backend request id it was given, 0 before
  inbox,     \* its oneshot receiver
  reply,     \* what it answered its front end
  (* CoreHandle.inner *)
  lock,      \* the task that holds the mutex
  active,    \* CoreState.backend
  (* one BackendProcess per spawned process *)
  status,    \* "none" before the spawn, then "alive", then "exited"
  kind,      \* what executable it runs
  nextId,    \* BackendProcess.next_id
  pending,   \* BackendProcess.pending: request id -> sender
  stdin,     \* request lines the process has not read yet
  held,      \* requests the process has read and answers later
  stdout,    \* response lines the reader task has not read yet
  reader     \* the reader task: "run", then "eof"

taskVars == <<pc, method, target, rid, inbox, reply>>
stateVars == <<lock, active>>
procVars == <<status, kind, nextId, pending, stdin, held, stdout, reader>>
vars == <<taskVars, stateVars, procVars>>

NoResponse == [id |-> 0, ok |-> FALSE, body |-> None]
NoReply == [id |-> None, code |-> "none", from |-> None]

(* The first backend request id, 1 in the code; 0 is the id with which a    *)
(* backend answers a line that it cannot parse.                             *)
FirstIdZero == 0
FirstId == 1

Init ==
  /\ pc = [c \in Calls |-> "idle"]
  /\ method = [c \in Calls |-> None]
  /\ target = [c \in Calls |-> None]
  /\ rid = [c \in Calls |-> 0]
  /\ inbox = [c \in Calls |-> NoResponse]
  /\ reply = [c \in Calls |-> NoReply]
  /\ lock = None
  /\ active = None
  /\ status = [p \in Procs |-> "none"]
  /\ kind = [p \in Procs |-> None]
  /\ nextId = [p \in Procs |-> FirstId]
  /\ pending = [p \in Procs |-> {}]
  /\ stdin = [p \in Procs |-> <<>>]
  /\ held = [p \in Procs |-> {}]
  /\ stdout = [p \in Procs |-> <<>>]
  /\ reader = [p \in Procs |-> "run"]

Goto(c, label) == pc' = [pc EXCEPT ![c] = label]

(* The task answers its front end and ends.  `id` is the front end's id of *)
(* call i when i is a call, a backend's request id when it is a number.    *)
Respond(c, i, code, from) ==
  /\ reply' = [reply EXCEPT ![c] = [id |-> i, code |-> code, from |-> from]]
  /\ Goto(c, "done")

-------------------------------------------------------------------------------
(* handle_frontend_request *)

(* The call arrives and is dispatched on its method; core.hello and        *)
(* unknown methods are answered without looking at the state.              *)
FrontendRequest(c, m) ==
  /\ pc[c] = "idle"
  /\ method' = [method EXCEPT ![c] = m]
  /\ IF m = "hello" THEN Respond(c, c, "hello", None)
                    ELSE Goto(c, m) /\ UNCHANGED reply
  /\ UNCHANGED <<target, rid, inbox, stateVars, procVars>>

BackendStatus(c) ==
  /\ pc[c] = "status"
  /\ lock = None
  /\ Respond(c, c, "status", active)
  /\ UNCHANGED <<method, target, rid, inbox, stateVars, procVars>>

(* start_backend takes the mutex and keeps it until it returns: the spawn   *)
(* and the hello request happen with the state locked.                      *)
StartLockNotKept(c) == UNCHANGED lock
StartLock(c) == lock' = c

StartBackend(c) ==
  /\ pc[c] = "start"
  /\ lock = None
  /\ IF active # None
     THEN /\ Respond(c, c, "backend_already_active", active)
          /\ UNCHANGED lock
     ELSE /\ Goto(c, "spawn")
          /\ StartLock(c)
          /\ UNCHANGED reply
  /\ UNCHANGED <<method, target, rid, inbox, active, procVars>>

(* BackendProcess::spawn: the process runs or the executable cannot be run. *)
Spawn(c) ==
  /\ pc[c] = "spawn"
  /\ \E k \in Kinds :
       /\ status' = [status EXCEPT ![c] = "alive"]
       /\ kind' = [kind EXCEPT ![c] = k]
  /\ target' = [target EXCEPT ![c] = c]
  /\ Goto(c, "takeId")
  /\ UNCHANGED <<method, rid, inbox, reply, stateVars,
                 nextId, pending, stdin, held, stdout, reader>>

SpawnFails(c) ==
  /\ pc[c] = "spawn"
  /\ Respond(c, c, "core_error", None)
  /\ lock' = None
  /\ UNCHANGED <<method, target, rid, inbox, active, procVars>>

(* stop_backend takes the backend out of the state and lets go of the mutex *)
(* before it talks to the backend.                                          *)
StopKeepsState(c) == UNCHANGED active
StopTakesState(c) == active' = None

StopBackend(c) ==
  /\ pc[c] = "stop"
  /\ lock = None
  /\ IF active # None
     THEN /\ target' = [target EXCEPT ![c] = active]
          /\ StopTakesState(c)
          /\ Goto(c, "takeId")
          /\ UNCHANGED reply
     ELSE /\ Respond(c, c, "not_stopped", None)
          /\ UNCHANGED <<target, active>>
  /\ UNCHANGED <<method, rid, inbox, lock, procVars>>

(* forward_to_backend clones the Arc under the mutex and uses it without.   *)
ForwardToBackend(c) ==
  /\ pc[c] = "forward"
  /\ lock = None
  /\ IF active # None
     THEN /\ target' = [target EXCEPT ![c] = active]
          /\ Goto(c, "takeId")
          /\ UNCHANGED reply
     ELSE /\ Respond(c, c, "core_error", None)
          /\ UNCHANGED target
  /\ UNCHANGED <<method, rid, inbox, stateVars, procVars>>

-------------------------------------------------------------------------------
(* BackendProcess::request *)

(* The backend method of a call's one request. *)
BackendMethod(m) == CASE m = "start" -> "hello"
                      [] m = "stop" -> "shutdown"
                      [] OTHER -> "debug"

(* The order of the steps of a request: the sender is registered before     *)
(* the line is written.                                                     *)
AfterWriteFirst(label) == CASE label = "takeId" -> "write"
                            [] label = "write" -> "register"
                            [] label = "register" -> "await"
After(label) == CASE label = "takeId" -> "register"
                  [] label = "register" -> "write"
                  [] label = "write" -> "await"

IdNotAdvanced(id) == id
IdAfter(id) == id + 1

RequestTakeId(c) ==
  /\ pc[c] = "takeId"
  /\ rid' = [rid EXCEPT ![c] = nextId[target[c]]]
  /\ nextId' = [nextId EXCEPT ![target[c]] = IdAfter(@)]
  /\ Goto(c, After("takeId"))
  /\ UNCHANGED <<method, target, inbox, reply, stateVars,
                 status, kind, pending, stdin, held, stdout, reader>>

(* HashMap::insert *)
Insert(map, id, c) == {e \in map : e.id # id} \union {[id |-> id, call |-> c]}

RequestRegister(c) ==
  /\ pc[c] = "register"
  /\ pending' = [pending EXCEPT ![target[c]] = Insert(@, rid[c], c)]
  /\ Goto(c, After("register"))
  /\ UNCHANGED <<method, target, rid, inbox, reply, stateVars,
                 status, kind, nextId, stdin, held, stdout, reader>>

(* One line at a time, under the stdin mutex.  Writing to a process that    *)
(* is gone fails; the entry in the pending map stays.                       *)
RequestWrite(c) ==
  /\ pc[c] = "write"
  /\ IF status[target[c]] = "alive"
     THEN /\ stdin' = [stdin EXCEPT ![target[c]] =
                         Append(@, [id |-> rid[c],
                                    meth |-> BackendMethod(method[c]),
                                    body |-> c])]
          /\ Goto(c, After("write"))
     ELSE Goto(c, "failed") /\ UNCHANGED stdin
  /\ UNCHANGED <<method, target, rid, inbox, reply, stateVars,
                 status, kind, nextId, pending, held, stdout, reader>>

Answered(c) == pc[c] = "await" /\ inbox[c] # NoResponse
Failed(c) == pc[c] = "failed"

-------------------------------------------------------------------------------
(* what the three callers of request do with its outcome *)

AnyAnswerSucceeds(c) == Answered(c)
StartSucceeds(c) == Answered(c) /\ inbox[c].ok

StartFinish(c) ==
  /\ method[c] = "start"
  /\ Answered(c) \/ Failed(c)
  /\ IF StartSucceeds(c)
     THEN /\ active' = target[c]
          /\ Respond(c, c, "started", c)
     ELSE /\ Respond(c, c, IF Failed(c) THEN "core_error"
                                        ELSE "backend_hello_failed", None)
          /\ UNCHANGED active
  /\ lock' = None
  /\ UNCHANGED <<method, target, rid, inbox, procVars>>

Exit(p) ==
  /\ status' = [status EXCEPT ![p] = "exited"]
  /\ stdin' = [stdin EXCEPT ![p] = <<>>]
  /\ held' = [held EXCEPT ![p] = {}]
  /\ UNCHANGED <<kind, nextId, pending, stdout, reader>>

(* The outcome of the shutdown request is ignored; the process is killed.   *)
NoKill(p) == UNCHANGED procVars
Kill(p) == Exit(p)

StopFinish(c) ==
  /\ method[c] = "stop"
  /\ Answered(c) \/ Failed(c)
  /\ Kill(target[c])
  /\ Respond(c, c, "stopped", target[c])
  /\ UNCHANGED <<method, target, rid, inbox, stateVars>>

(* resp.id = id: the backend's id does not reach the front end, and the     *)
(* rest of the answer goes on as it came.                                   *)
ForwardedId(c) == c

ForwardFinish(c) ==
  /\ method[c] = "forward"
  /\ \/ Answered(c) /\ Respond(c, ForwardedId(c), "forwarded", inbox[c].body)
     \/ Failed(c) /\ Respond(c, c, "core_error", None)
  /\ UNCHANGED <<method, target, rid, inbox, stateVars, procVars>>

-------------------------------------------------------------------------------
(* the backend process *)

ResponseTo(req, ok) == [id |-> req.id, ok |-> ok, body |-> req.body]

(* Only an executable named by the `path` parameter may refuse hello.       *)
Verdicts(req) == IF req.meth = "hello" THEN BOOLEAN ELSE {TRUE}

(* run_stdio_backend: one line is read, handled and answered before the     *)
(* next one is read; shutdown is answered like any other method.            *)
StdioServe(p) ==
  /\ status[p] = "alive" /\ kind[p] = "stdio"
  /\ stdin[p] # <<>>
  /\ \E ok \in Verdicts(Head(stdin[p])) :
       stdout' = [stdout EXCEPT ![p] = Append(@, ResponseTo(Head(stdin[p]), ok))]
  /\ stdin' = [stdin EXCEPT ![p] = Tail(@)]
  /\ UNCHANGED <<taskVars, stateVars, status, kind, nextId, pending, held, reader>>

(* The core has let go of the process: the Arc is dropped and with it the   *)
(* write end of stdin.                                                      *)
Dropped(p) ==
  /\ active # p
  /\ \A c \in Calls : target[c] = p => pc[c] = "done"

StdioEndOfInput(p) ==
  /\ status[p] = "alive" /\ kind[p] = "stdio"
  /\ stdin[p] = <<>> /\ Dropped(p)
  /\ Exit(p)
  /\ UNCHANGED <<taskVars, stateVars>>

(* titan-backend: shutdown ends the process without an answer; go and the   *)
(* steps are answered by a later debug event, and a second one takes the    *)
(* place of the first; everything else is answered at once.                 *)
TitanShutdown(p) ==
  /\ status[p] = "alive" /\ kind[p] = "titan"
  /\ stdin[p] # <<>> /\ Head(stdin[p]).meth = "shutdown"
  /\ Exit(p)
  /\ UNCHANGED <<taskVars, stateVars>>

TitanServe(p) ==
  /\ status[p] = "alive" /\ kind[p] = "titan"
  /\ stdin[p] # <<>> /\ Head(stdin[p]).meth # "shutdown"
  /\ stdin' = [stdin EXCEPT ![p] = Tail(@)]
  /\ \/ /\ stdout' = [stdout EXCEPT ![p] = Append(@, ResponseTo(Head(stdin[p]), TRUE))]
        /\ UNCHANGED held
     \/ /\ Head(stdin[p]).meth = "debug"
        /\ held' = [held EXCEPT ![p] = {Head(stdin[p])}]
        /\ UNCHANGED stdout
  /\ UNCHANGED <<taskVars, stateVars, status, kind, nextId, pending, reader>>

TitanEvent(p) ==
  /\ status[p] = "alive"
  /\ \E req \in held[p] :
       stdout' = [stdout EXCEPT ![p] = Append(@, ResponseTo(req, TRUE))]
  /\ held' = [held EXCEPT ![p] = {}]
  /\ UNCHANGED <<taskVars, stateVars, status, kind, nextId, pending, stdin, reader>>

(* The process dies on its own, with whatever it had not read or answered.  *)
Crash(p) ==
  /\ Crashes
  /\ status[p] = "alive"
  /\ Exit(p)
  /\ UNCHANGED <<taskVars, stateVars>>

-------------------------------------------------------------------------------
(* the reader task of BackendProcess::spawn *)

(* HashMap::remove takes the sender out of the map, and the response goes   *)
(* through it to the task that waits; nobody waits for an unknown id.       *)
SendersFor(p, id) == {e \in pending[p] : e.id = id}
LookedUp(map, hits) == map
Removed(map, hits) == map \ hits

ReaderTake(p) ==
  /\ reader[p] = "run"
  /\ stdout[p] # <<>>
  /\ LET resp == Head(stdout[p])
         hits == SendersFor(p, resp.id)
     IN /\ pending' = [pending EXCEPT ![p] = Removed(@, hits)]
        /\ inbox' = [c \in Calls |-> IF \E e \in hits : e.call = c
                                       THEN resp ELSE inbox[c]]
  /\ stdout' = [stdout EXCEPT ![p] = Tail(@)]
  /\ UNCHANGED <<pc, method, target, rid, reply, stateVars,
                 status, kind, nextId, stdin, held, reader>>

(* End of stdout ends the task and leaves the pending map as it is.         *)
ReaderEof(p) ==
  /\ reader[p] = "run"
  /\ status[p] = "exited" /\ stdout[p] = <<>>
  /\ reader' = [reader EXCEPT ![p] = "eof"]
  /\ UNCHANGED <<taskVars, stateVars,
                 status, kind, nextId, pending, stdin, held, stdout>>

-------------------------------------------------------------------------------
Task(c) ==
  \/ BackendStatus(c)
  \/ StartBackend(c) \/ Spawn(c) \/ SpawnFails(c)
  \/ StopBackend(c)
  \/ ForwardToBackend(c)
  \/ RequestTakeId(c) \/ RequestRegister(c) \/ RequestWrite(c)
  \/ StartFinish(c) \/ StopFinish(c) \/ ForwardFinish(c)

Backend(p) ==
  \/ StdioServe(p) \/ StdioEndOfInput(p)
  \/ TitanShutdown(p) \/ TitanServe(p) \/ TitanEvent(p)

Reader(p) == ReaderTake(p) \/ ReaderEof(p)

Next ==
  \/ \E c \in Calls : \/ \E m \in Methods : FrontendRequest(c, m)
                      \/ Task(c)
  \/ \E p \in Procs : Backend(p) \/ Crash(p) \/ Reader(p)

Spec == Init /\ [][Next]_vars

(* The runtime polls every task that can run, the mutex is handed over in   *)
(* arrival order, and a backend that is alive serves the lines it gets; a    *)
(* debug event (TitanEvent) need not ever come.                             *)
Fairness ==
  /\ \A c \in Calls : WF_vars(Task(c))
  /\ \A p \in Procs : /\ WF_vars(StdioServe(p) \/ StdioEndOfInput(p))
                      /\ WF_vars(TitanShutdown(p) \/ TitanServe(p))
                      /\ WF_vars(Reader(p))

FairSpec == Spec /\ Fairness
-------------------------------------------------------------------------------
(* Types of the state; ids are positive, so that the id 0 of a backend's    *)
(* bad_json answer is never taken for an answer to a request.               *)
Ids == Nat \ {0}
Request == [id : Ids, meth : {"hello", "shutdown", "debug"}, body : Calls]
Response == [id : Ids, ok : BOOLEAN, body : Calls]
Sender == [id : Ids, call : Calls]
ReplyCode == {"hello", "status", "backend_already_active", "core_error", "started",
              "backend_hello_failed", "not_stopped", "stopped", "forwarded"}

Reply == [id : Calls, code : ReplyCode, from : Calls \union {None}]
Label == {"idle", "status", "start", "stop", "forward", "spawn",
          "takeId", "register", "write", "await", "failed", "done"}

TypeOK ==
  /\ pc \in [Calls -> Label]
  /\ method \in [Calls -> {None, "hello", "status", "start", "stop", "forward"}]
  /\ target \in [Calls -> Procs \union {None}]
  /\ rid \in [Calls -> Nat]
  /\ inbox \in [Calls -> Response \union {NoResponse}]
  /\ reply \in [Calls -> Reply \union {NoReply}]
  /\ lock \in Calls \union {None}
  /\ active \in Procs \union {None}
  /\ status \in [Procs -> {"none", "alive", "exited"}]
  /\ kind \in [Procs -> Kinds \union {None}]
  /\ nextId \in [Procs -> Ids]
  /\ pending \in [Procs -> SUBSET Sender]
  /\ stdin \in [Procs -> Seq(Request)]
  /\ held \in [Procs -> SUBSET Request]
  /\ stdout \in [Procs -> Seq(Response)]
  /\ reader \in [Procs -> {"run", "eof"}]

(* Every front end gets the answer to its own request, under its own id,    *)
(* however calls, pipes and reader tasks interleave (core.rs:165-168,       *)
(* backend_process.rs:40-42,58-69).                                         *)
OwnAnswer ==
  \A c \in Calls :
    /\ inbox[c] # NoResponse => inbox[c].body = c /\ inbox[c].id = rid[c]
    /\ reply[c] # NoReply => reply[c].id = c
    /\ reply[c].code = "forwarded" => reply[c].from = c

(* What is still under way between the core and process p.                  *)
InFlight(p) == ToSet(stdin[p]) \union held[p] \union ToSet(stdout[p])

(* No answer can arrive before its receiver is there: everything written    *)
(* to a process or on its way back has its sender in the pending map        *)
(* (backend_process.rs:65-79).                                              *)
AnswerHasReceiver ==
  \A p \in Procs : \A r \in InFlight(p) : [id |-> r.id, call |-> r.body] \in pending[p]

(* The pending map of a process that lives holds nothing but requests that  *)
(* are really waited for; entries leak only with a process that is gone.    *)
PendingIsWaited ==
  \A p \in Procs : \A e \in pending[p] :
    \/ pc[e.call] \in {"write", "await"} /\ inbox[e.call] = NoResponse
    \/ status[p] = "exited"

(* A process is asked to debug or to shut down only after it has accepted   *)
(* hello (core.rs:135-140), whoever sends the request.                      *)
HandshakeFirst ==
  \A p \in Procs : \A req \in ToSet(stdin[p]) : req.meth # "hello" => inbox[p].ok

Started(p) == reply[p].code = "started"

(* A backend that was started is the active one, or a stop call that has    *)
(* not yet answered is about to kill it; none is forgotten while it runs.   *)
NoOrphans ==
  \A p \in Procs :
    status[p] = "alive" /\ Started(p)
      => \/ active = p
         \/ \E c \in Calls : method[c] = "stop" /\ target[c] = p /\ pc[c] # "done"

(* A stop call owns the process it stops: no second stop call works on it,  *)
(* and it is not the active backend any more (core.rs:145-148).             *)
StopOwnsProcess ==
  \A c, d \in Calls :
    method[c] = "stop" /\ target[c] # None
      => /\ active # target[c]
         /\ method[d] = "stop" /\ target[d] = target[c] => d = c

(* No start call ever puts its backend in the place of another one: the     *)
(* active backend changes only by being stopped (core.rs:122-140).          *)
NoTakeover == [][active # None => active' \in {active, None}]_vars

(* The core keeps the promises of BackendSession: its session is the active  *)
(* backend, a stop or forward call is bound to the process it holds, and a   *)
(* call is answered when its task ends.                                      *)
PastSessions == {p \in Procs : Started(p)}
BoundTo == [c \in Calls |-> IF method[c] \in {"stop", "forward"} THEN target[c] ELSE None]
AnswerOf == [c \in Calls |-> IF pc[c] = "done"
                               THEN [code |-> reply[c].code, from |-> reply[c].from]
                               ELSE None]
Session == INSTANCE BackendSession WITH
  session <- active, past <- PastSessions, asked <- method,
  bound <- BoundTo, answer <- AnswerOf
SessionSpec == Session!Spec

(* While backends live and serve their lines every call is answered, with   *)
(* one exception: a forwarded call whose backend is stopped meanwhile.      *)
Cut(c) == method[c] = "forward" /\ target[c] # None /\ status[target[c]] = "exited"
CallsAnswered ==
  \A c \in Calls : method[c] # None ~> pc[c] = "done" \/ Cut(c)

(* What backend_process.rs:81-84 says of a request whose process closed     *)
(* stdout: it fails with "backend closed stdout before responding".         *)
ClosedStdoutFailsRequests ==
  \A c \in Calls : (pc[c] = "await" /\ reader[target[c]] = "eof") ~> pc[c] = "done"
===============================================================================
