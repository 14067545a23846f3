------------------------------ MODULE CoreProofs ------------------------------
(* Theorems about Core for every set of calls, methods and backend kinds:    *)
(* its types, that answers reach their own callers, the state mutex, that    *)
(* Core implements BackendSession, and where requests, answers and processes *)
(* are: that no answer lacks its receiver, no entry leaks, and no backend is *)
(* used before its handshake, forgotten while it runs or stopped twice.      *)
EXTENDS Core, SequenceTheorems, TLAPS

-------------------------------------------------------------------------------
(* The pipes: what Append, Head and Tail do to the set of lines in a pipe.   *)

(* A line that is written joins the lines in the pipe. *)
LEMMA ToSetAppend ==
  ASSUME NEW S, NEW s \in Seq(S), NEW e \in S
  PROVE  ToSet(Append(s, e)) = ToSet(s) \union {e}
  <1> DEFINE t == Append(s, e)
  <1>1. /\ t \in Seq(S) /\ Len(t) = Len(s) + 1 /\ t[Len(s) + 1] = e
        /\ \A i \in 1..Len(s) : t[i] = s[i]
    BY AppendProperties
  <1>2. DOMAIN t = 1..(Len(s) + 1) /\ DOMAIN s = 1..Len(s) /\ Len(s) \in Nat
    BY <1>1, LenProperties
  <1> HIDE DEF t
  <1>3. ToSet(t) \subseteq ToSet(s) \union {e}
    BY <1>1, <1>2 DEF ToSet
  <1>4. ToSet(s) \subseteq ToSet(t)
    BY <1>1, <1>2 DEF ToSet
  <1>5. e \in ToSet(t)
    BY <1>1, <1>2 DEF ToSet
  <1>6. QED
    BY <1>3, <1>4, <1>5 DEF t

(* The line that is read was in the pipe, and so were those that remain. *)
LEMMA ToSetHeadTail ==
  ASSUME NEW S, NEW s \in Seq(S), s # <<>>
  PROVE  /\ Head(s) \in S /\ Tail(s) \in Seq(S)
         /\ Head(s) \in ToSet(s)
         /\ ToSet(Tail(s)) \subseteq ToSet(s)
  <1> DEFINE t == Tail(s)
  <1>1. /\ Head(s) \in S /\ t \in Seq(S) /\ Len(t) = Len(s) - 1
        /\ \A i \in 1..Len(t) : t[i] = s[i + 1]
    BY HeadTailProperties
  <1>2. /\ DOMAIN t = 1..Len(t) /\ DOMAIN s = 1..Len(s)
        /\ Len(s) \in Nat /\ Len(s) > 0 /\ Len(t) \in Nat
    BY <1>1, LenProperties, EmptySeq
  <1>3. Head(s) \in ToSet(s)
    <2>1. Head(s) = s[1]
      OBVIOUS
    <2>2. QED
      BY <2>1, <1>2 DEF ToSet
  <1> HIDE DEF t
  <1>4. ToSet(t) \subseteq ToSet(s)
    BY <1>1, <1>2 DEF ToSet
  <1>5. QED
    BY <1>1, <1>3, <1>4 DEF t

(* An empty pipe holds no line. *)
LEMMA ToSetEmpty == ToSet(<<>>) = {}
  BY DEF ToSet

(* A pipe holds only lines of its type. *)
LEMMA ToSetType ==
  ASSUME NEW S, NEW s \in Seq(S)
  PROVE  ToSet(s) \subseteq S
  BY ElementOfSeq, LenProperties DEF ToSet

-------------------------------------------------------------------------------
(* Types.  TaskOK says which parts of a task's state its place in the code   *)
(* vouches for: a task in BackendProcess::request holds a process, and from  *)
(* the point where it has taken an id it has one.                            *)
TaskOK ==
  \A c \in Calls :
    /\ pc[c] \in {"takeId", "register", "write", "await", "failed"} => target[c] \in Procs
    /\ pc[c] \in {"register", "write", "await", "failed"} => rid[c] # 0
    /\ rid[c] # 0 => /\ pc[c] \in {"register", "write", "await", "failed", "done"}
                     /\ target[c] \in Procs

TypeInv == TypeOK /\ TaskOK

THEOREM InitType == Init => TypeInv
  BY CoreAssumption DEF Init, TypeInv, TypeOK, TaskOK, Label, Procs, FirstId, Ids, NoResponse, NoReply

USE DEF Procs

(* Going to a label, and answering, keep the types of pc and reply. *)
LEMMA RespondType ==
  ASSUME TypeOK, NEW c \in Calls, NEW code \in ReplyCode, NEW from \in Calls \union {None},
         Respond(c, c, code, from)
  PROVE  /\ pc' \in [Calls -> Label] /\ pc' = [pc EXCEPT ![c] = "done"]
         /\ reply' \in [Calls -> Reply \union {NoReply}]
  <1>1. [id |-> c, code |-> code, from |-> from] \in Reply
    BY DEF Reply
  <1>2. QED
    BY <1>1 DEF TypeOK, Respond, Goto, Label

LEMMA GotoType ==
  ASSUME TypeOK, NEW c \in Calls, NEW label \in Label, Goto(c, label)
  PROVE  pc' \in [Calls -> Label] /\ pc' = [pc EXCEPT ![c] = label]
  BY DEF TypeOK, Goto

(* Every step of a task keeps the types. *)
LEMMA TaskType ==
  ASSUME TypeInv, NEW c \in Calls, Task(c)
  PROVE  TypeInv'
  <1> USE DEF taskVars, stateVars, procVars
  <1>0. TypeOK /\ TaskOK /\ active \in Calls \union {None}
    BY DEF TypeInv, TypeOK
  <1>1. CASE BackendStatus(c)
    <2>1. /\ pc' \in [Calls -> Label] /\ pc' = [pc EXCEPT ![c] = "done"]
          /\ reply' \in [Calls -> Reply \union {NoReply}]
      BY <1>0, <1>1, RespondType DEF BackendStatus, ReplyCode
    <2>2. QED
      BY <1>0, <1>1, <2>1 DEF BackendStatus, TypeInv, TypeOK, TaskOK
  <1>2. CASE StartBackend(c)
    <2>1. CASE active # None
      <3>1. /\ pc' \in [Calls -> Label] /\ pc' = [pc EXCEPT ![c] = "done"]
            /\ reply' \in [Calls -> Reply \union {NoReply}]
        BY <1>0, <1>2, <2>1, RespondType DEF StartBackend, ReplyCode
      <3>2. QED
        BY <1>0, <1>2, <2>1, <3>1 DEF StartBackend, TypeInv, TypeOK, TaskOK
    <2>2. CASE active = None
      <3>1. pc' \in [Calls -> Label] /\ pc' = [pc EXCEPT ![c] = "spawn"]
        BY <1>0, <1>2, <2>2, GotoType DEF StartBackend, Label
      <3>2. QED
        BY <1>0, <1>2, <2>2, <3>1 DEF StartBackend, StartLock, TypeInv, TypeOK, TaskOK
    <2>3. QED
      BY <2>1, <2>2
  <1>3. CASE Spawn(c)
    <2>1. pc' \in [Calls -> Label] /\ pc' = [pc EXCEPT ![c] = "takeId"]
      BY <1>0, <1>3, GotoType DEF Spawn, Label
    <2>2. QED
      BY <1>0, <1>3, <2>1 DEF Spawn, TypeInv, TypeOK, TaskOK
  <1>4. CASE SpawnFails(c)
    <2>1. /\ pc' \in [Calls -> Label] /\ pc' = [pc EXCEPT ![c] = "done"]
          /\ reply' \in [Calls -> Reply \union {NoReply}]
      BY <1>0, <1>4, RespondType DEF SpawnFails, ReplyCode
    <2>2. QED
      BY <1>0, <1>4, <2>1 DEF SpawnFails, TypeInv, TypeOK, TaskOK
  <1>5. CASE StopBackend(c)
    <2>1. CASE active # None
      <3>1. pc' \in [Calls -> Label] /\ pc' = [pc EXCEPT ![c] = "takeId"]
        BY <1>0, <1>5, <2>1, GotoType DEF StopBackend, Label
      <3>2. active \in Calls /\ target' = [target EXCEPT ![c] = active] /\ pc[c] \notin {"done", "await"}
        BY <1>0, <1>5, <2>1 DEF StopBackend
      <3>3. TypeOK'
        BY <1>0, <1>5, <2>1, <3>1, <3>2 DEF StopBackend, StopTakesState, TypeOK
      <3>4. TaskOK'
        BY <1>0, <1>5, <2>1, <3>1, <3>2 DEF StopBackend, TypeOK, TaskOK
      <3>5. QED
        BY <3>3, <3>4 DEF TypeInv
    <2>2. CASE active = None
      <3>1. /\ pc' \in [Calls -> Label] /\ pc' = [pc EXCEPT ![c] = "done"]
            /\ reply' \in [Calls -> Reply \union {NoReply}]
        BY <1>0, <1>5, <2>2, RespondType DEF StopBackend, ReplyCode
      <3>2. QED
        BY <1>0, <1>5, <2>2, <3>1 DEF StopBackend, TypeInv, TypeOK, TaskOK
    <2>3. QED
      BY <2>1, <2>2
  <1>6. CASE ForwardToBackend(c)
    <2>1. CASE active # None
      <3>1. pc' \in [Calls -> Label] /\ pc' = [pc EXCEPT ![c] = "takeId"]
        BY <1>0, <1>6, <2>1, GotoType DEF ForwardToBackend, Label
      <3>2. active \in Calls /\ target' = [target EXCEPT ![c] = active] /\ pc[c] \notin {"done", "await"}
        BY <1>0, <1>6, <2>1 DEF ForwardToBackend
      <3>3. TypeOK'
        BY <1>0, <1>6, <2>1, <3>1, <3>2 DEF ForwardToBackend, TypeOK
      <3>4. TaskOK'
        BY <1>0, <1>6, <2>1, <3>1, <3>2 DEF ForwardToBackend, TypeOK, TaskOK
      <3>5. QED
        BY <3>3, <3>4 DEF TypeInv
    <2>2. CASE active = None
      <3>1. /\ pc' \in [Calls -> Label] /\ pc' = [pc EXCEPT ![c] = "done"]
            /\ reply' \in [Calls -> Reply \union {NoReply}]
        BY <1>0, <1>6, <2>2, RespondType DEF ForwardToBackend, ReplyCode
      <3>2. QED
        BY <1>0, <1>6, <2>2, <3>1 DEF ForwardToBackend, TypeInv, TypeOK, TaskOK
    <2>3. QED
      BY <2>1, <2>2
  <1>7. CASE RequestTakeId(c)
    <2>1. pc' \in [Calls -> Label] /\ pc' = [pc EXCEPT ![c] = "register"]
      BY <1>0, <1>7, GotoType DEF RequestTakeId, After, Label
    <2>2. target[c] \in Calls /\ nextId[target[c]] \in Ids
      BY <1>0, <1>7 DEF RequestTakeId, TypeOK, TaskOK
    <2>3. nextId[target[c]] \in Nat /\ nextId[target[c]] # 0 /\ IdAfter(nextId[target[c]]) \in Ids
      BY <2>2 DEF Ids, IdAfter
    <2>4. TypeOK'
      BY <1>0, <1>7, <2>1, <2>2, <2>3 DEF RequestTakeId, TypeOK
    <2>5. TaskOK'
      BY <1>0, <1>7, <2>1, <2>2, <2>3 DEF RequestTakeId, TaskOK, TypeOK
    <2>6. QED
      BY <2>4, <2>5 DEF TypeInv
  <1>8. CASE RequestRegister(c)
    <2>1. pc' \in [Calls -> Label] /\ pc' = [pc EXCEPT ![c] = "write"]
      BY <1>0, <1>8, GotoType DEF RequestRegister, After, Label
    <2>2. target[c] \in Calls /\ [id |-> rid[c], call |-> c] \in Sender
      BY <1>0, <1>8 DEF RequestRegister, TypeOK, TaskOK, Sender, Ids
    <2>3. Insert(pending[target[c]], rid[c], c) \subseteq Sender
      BY <1>0, <2>2 DEF TypeOK, Insert
    <2>4. QED
      BY <1>0, <1>8, <2>1, <2>2, <2>3 DEF RequestRegister, TypeInv, TypeOK, TaskOK
  <1>9. CASE RequestWrite(c)
    <2> DEFINE req == [id |-> rid[c], meth |-> BackendMethod(method[c]), body |-> c]
    <2>1. pc[c] = "write" /\ target[c] \in Calls /\ stdin[target[c]] \in Seq(Request)
      BY <1>0, <1>9 DEF RequestWrite, TypeOK, TaskOK
    <2>2. req \in Request
      BY <1>0, <2>1 DEF Request, BackendMethod, Ids, TypeOK, TaskOK
    <2>3. Append(stdin[target[c]], req) \in Seq(Request)
      BY <2>1, <2>2, AppendProperties
    <2>4. CASE status[target[c]] = "alive"
      <3>1. pc' \in [Calls -> Label] /\ pc' = [pc EXCEPT ![c] = "await"]
        BY <1>0, <1>9, <2>4, GotoType DEF RequestWrite, After, Label
      <3>2. stdin' = [stdin EXCEPT ![target[c]] = Append(stdin[target[c]], req)]
        BY <1>9, <2>4 DEF RequestWrite
      <3> HIDE DEF req
      <3>3. TypeOK'
        BY <1>0, <1>9, <2>1, <2>3, <3>1, <3>2 DEF RequestWrite, TypeOK
      <3>4. TaskOK'
        BY <1>0, <1>9, <2>1, <3>1 DEF RequestWrite, TypeOK, TaskOK
      <3>5. QED
        BY <3>3, <3>4 DEF TypeInv
    <2>5. CASE status[target[c]] # "alive"
      <3>1. pc' \in [Calls -> Label] /\ pc' = [pc EXCEPT ![c] = "failed"]
        BY <1>0, <1>9, <2>5, GotoType DEF RequestWrite, Label
      <3>2. QED
        BY <1>0, <1>9, <2>1, <2>5, <3>1 DEF RequestWrite, TypeInv, TypeOK, TaskOK
    <2>6. QED
      BY <2>4, <2>5
  <1>10. CASE StartFinish(c)
    <2>1. pc[c] \in {"await", "failed"} /\ target[c] \in Calls
      BY <1>0, <1>10 DEF StartFinish, Answered, Failed, TaskOK
    <2>2. /\ pc' \in [Calls -> Label] /\ pc' = [pc EXCEPT ![c] = "done"]
          /\ reply' \in [Calls -> Reply \union {NoReply}]
      BY <1>0, <1>10, RespondType DEF StartFinish, ReplyCode
    <2>3. active' \in Calls \union {None} /\ lock' = None
      BY <1>0, <1>10, <2>1 DEF StartFinish
    <2>4. QED
      BY <1>0, <1>10, <2>1, <2>2, <2>3 DEF StartFinish, TypeInv, TypeOK, TaskOK
  <1>11. CASE StopFinish(c)
    <2>1. pc[c] \in {"await", "failed"} /\ target[c] \in Calls
      BY <1>0, <1>11 DEF StopFinish, Answered, Failed, TaskOK
    <2>2. /\ pc' \in [Calls -> Label] /\ pc' = [pc EXCEPT ![c] = "done"]
          /\ reply' \in [Calls -> Reply \union {NoReply}]
      BY <1>0, <1>11, <2>1, RespondType DEF StopFinish, ReplyCode
    <2>3. QED
      BY <1>0, <1>11, <2>1, <2>2 DEF StopFinish, Kill, Exit, TypeInv, TypeOK, TaskOK
  <1>12. CASE ForwardFinish(c)
    <2>1. pc[c] \in {"await", "failed"} /\ target[c] \in Calls
      BY <1>0, <1>12 DEF ForwardFinish, Answered, Failed, TaskOK
    <2>2. Answered(c) => inbox[c].body \in Calls
      BY <1>0 DEF Answered, TypeOK, Response
    <2>3. /\ pc' \in [Calls -> Label] /\ pc' = [pc EXCEPT ![c] = "done"]
          /\ reply' \in [Calls -> Reply \union {NoReply}]
      BY <1>0, <1>12, <2>2, RespondType DEF ForwardFinish, ForwardedId, ReplyCode
    <2>4. QED
      BY <1>0, <1>12, <2>1, <2>3 DEF ForwardFinish, TypeInv, TypeOK, TaskOK
  <1>13. QED
    BY <1>1, <1>2, <1>3, <1>4, <1>5, <1>6, <1>7, <1>8, <1>9, <1>10, <1>11, <1>12 DEF Task

(* The answer to a request the process has read. *)
LEMMA ResponseType ==
  ASSUME NEW req \in Request, NEW ok \in BOOLEAN
  PROVE  ResponseTo(req, ok) \in Response
  BY DEF Request, Response, ResponseTo

(* Every step of a backend process or its reader task keeps the types. *)
LEMMA ProcType ==
  ASSUME TypeInv, NEW p \in Procs, Backend(p) \/ Crash(p) \/ Reader(p)
  PROVE  TypeInv'
  <1> USE DEF TypeInv, TypeOK, TaskOK, taskVars, stateVars, procVars
  <1>1. CASE StdioServe(p)
    <2>1. stdin[p] \in Seq(Request) /\ stdin[p] # <<>> /\ stdout[p] \in Seq(Response)
      BY <1>1 DEF StdioServe
    <2>2. Head(stdin[p]) \in Request /\ Tail(stdin[p]) \in Seq(Request)
      BY <2>1, ToSetHeadTail
    <2>3. \A ok \in BOOLEAN : Append(stdout[p], ResponseTo(Head(stdin[p]), ok)) \in Seq(Response)
      BY <2>1, <2>2, ResponseType, AppendProperties
    <2>4. stdout' \in [Procs -> Seq(Response)]
      <3>1. PICK ok \in Verdicts(Head(stdin[p])) :
              stdout' = [stdout EXCEPT ![p] = Append(@, ResponseTo(Head(stdin[p]), ok))]
        BY <1>1 DEF StdioServe
      <3>2. ok \in BOOLEAN
        BY DEF Verdicts
      <3>3. Append(stdout[p], ResponseTo(Head(stdin[p]), ok)) \in Seq(Response)
        BY <2>3, <3>2
      <3>4. QED
        BY <3>1, <3>3
    <2>5. QED
      BY <1>1, <2>1, <2>2, <2>4 DEF StdioServe
  <1>2. CASE StdioEndOfInput(p)
    BY <1>2 DEF StdioEndOfInput, Exit
  <1>3. CASE TitanShutdown(p)
    BY <1>3 DEF TitanShutdown, Exit
  <1>4. CASE TitanServe(p)
    <2>1. stdin[p] \in Seq(Request) /\ stdin[p] # <<>> /\ stdout[p] \in Seq(Response)
      BY <1>4 DEF TitanServe
    <2>2. Head(stdin[p]) \in Request /\ Tail(stdin[p]) \in Seq(Request)
      BY <2>1, ToSetHeadTail
    <2>3. Append(stdout[p], ResponseTo(Head(stdin[p]), TRUE)) \in Seq(Response)
      BY <2>1, <2>2, ResponseType, AppendProperties
    <2>4. stdout' \in [Procs -> Seq(Response)]
      BY <1>4, <2>3 DEF TitanServe
    <2>5. held' \in [Procs -> SUBSET Request]
      <3>1. {Head(stdin[p])} \in SUBSET Request
        BY <2>2
      <3>2. held' = [held EXCEPT ![p] = {Head(stdin[p])}] \/ held' = held
        BY <1>4 DEF TitanServe
      <3>3. QED
        BY <3>1, <3>2
    <2>6. stdin' \in [Procs -> Seq(Request)]
      BY <1>4, <2>2 DEF TitanServe
    <2>7. QED
      BY <1>4, <2>4, <2>5, <2>6 DEF TitanServe
  <1>5. CASE TitanEvent(p)
    <2>1. \A req \in held[p] : Append(stdout[p], ResponseTo(req, TRUE)) \in Seq(Response)
      BY ResponseType, AppendProperties
    <2>2. QED
      BY <1>5, <2>1 DEF TitanEvent
  <1>6. CASE Crash(p)
    BY <1>6 DEF Crash, Exit
  <1>7. CASE ReaderTake(p)
    <2>1. Head(stdout[p]) \in Response /\ Tail(stdout[p]) \in Seq(Response)
      BY <1>7, ToSetHeadTail DEF ReaderTake
    <2>2. QED
      BY <1>7, <2>1 DEF ReaderTake, Removed, SendersFor
  <1>8. CASE ReaderEof(p)
    BY <1>8 DEF ReaderEof
  <1>9. QED
    BY <1>1, <1>2, <1>3, <1>4, <1>5, <1>6, <1>7, <1>8 DEF Backend, Reader

(* Next keeps the types. *)
LEMMA NextType == TypeInv /\ [Next]_vars => TypeInv'
  <1> SUFFICES ASSUME TypeInv, [Next]_vars PROVE TypeInv'
    OBVIOUS
  <1>1. ASSUME NEW c \in Calls, NEW m \in Methods, FrontendRequest(c, m) PROVE TypeInv'
    <2>1. TypeOK /\ TaskOK /\ m \in {"hello", "status", "start", "stop", "forward"}
      BY CoreAssumption DEF TypeInv
    <2>2. CASE m = "hello"
      <3>1. /\ pc' \in [Calls -> Label] /\ pc' = [pc EXCEPT ![c] = "done"]
            /\ reply' \in [Calls -> Reply \union {NoReply}]
        BY <1>1, <2>1, <2>2, RespondType DEF FrontendRequest, ReplyCode
      <3>2. QED
        BY <1>1, <2>1, <2>2, <3>1
           DEF FrontendRequest, TypeInv, TypeOK, TaskOK, stateVars, procVars
    <2>3. CASE m # "hello"
      <3>1. pc' \in [Calls -> Label] /\ pc' = [pc EXCEPT ![c] = m]
        BY <1>1, <2>1, <2>3, GotoType DEF FrontendRequest, Label
      <3>2. QED
        BY <1>1, <2>1, <2>3, <3>1
           DEF FrontendRequest, TypeInv, TypeOK, TaskOK, stateVars, procVars
    <2>4. QED
      BY <2>2, <2>3
  <1>2. CASE UNCHANGED vars
    BY <1>2 DEF vars, taskVars, stateVars, procVars, TypeInv, TypeOK, TaskOK
  <1>3. QED
    BY <1>1, <1>2, TaskType, ProcType DEF Next

(* Every variable keeps its type (the record layouts of backend_process.rs  *)
(* and core.rs), and ids are never 0.                                       *)
THEOREM TypeCorrect == Spec => []TypeOK
  <1>1. TypeInv => TypeOK
    BY DEF TypeInv
  <1>2. QED
    BY InitType, NextType, <1>1, PTL DEF Spec

-------------------------------------------------------------------------------
(* Every front end gets its own answer.  OwnAnswer speaks of what has        *)
(* arrived; it is kept because everything on the way already carries the id  *)
(* and the call that belong together, and because two calls never share an   *)
(* id at one process: ids are handed out below a counter that only grows.    *)
IdsBelow == \A c \in Calls : rid[c] # 0 => rid[c] < nextId[target[c]]

IdsDistinct ==
  \A c, d \in Calls :
    rid[c] # 0 /\ rid[c] = rid[d] /\ target[c] = target[d] => c = d

(* Request id of process p was handed out to call c. *)
Belongs(p, id, c) == id # 0 /\ rid[c] = id /\ target[c] = p

PendingOwn == \A p \in Procs : \A e \in pending[p] : Belongs(p, e.id, e.call)
FlightOwn == \A p \in Procs : \A r \in InFlight(p) : Belongs(p, r.id, r.body)
InboxOwn ==
  \A c \in Calls : inbox[c] # NoResponse => inbox[c].body = c /\ inbox[c].id = rid[c]
ReplyOwn ==
  \A c \in Calls :
    /\ reply[c] # NoReply => reply[c].id = c
    /\ reply[c].code = "forwarded" => reply[c].from = c

RouteInv == IdsBelow /\ IdsDistinct /\ PendingOwn /\ FlightOwn /\ InboxOwn

THEOREM InitRoute == Init => RouteInv /\ ReplyOwn
  BY ToSetEmpty
     DEF Init, RouteInv, IdsBelow, IdsDistinct, PendingOwn, FlightOwn, InFlight, InboxOwn,
         ReplyOwn, NoReply

(* What is under way is a request or a response, of some call.               *)
LEMMA FlightType ==
  ASSUME TypeInv, NEW p \in Procs, NEW r \in InFlight(p)
  PROVE  r.id \in Ids /\ r.body \in Calls
  <1>1. stdin[p] \in Seq(Request) /\ held[p] \in SUBSET Request /\ stdout[p] \in Seq(Response)
    BY DEF TypeInv, TypeOK
  <1>2. ToSet(stdin[p]) \subseteq Request /\ ToSet(stdout[p]) \subseteq Response
    BY <1>1, ToSetType
  <1>3. r \in Request \/ r \in Response
    BY <1>1, <1>2 DEF InFlight
  <1>4. QED
    BY <1>3 DEF Request, Response

(* A step that hands out no id, fills no pipe or map and delivers nothing    *)
(* keeps the routes; it may give a process to a call that has no id yet.     *)
LEMMA RouteKept ==
  ASSUME TypeInv, RouteInv, UNCHANGED <<rid, nextId, inbox>>,
         \A c \in Calls : rid[c] # 0 => target'[c] = target[c],
         \A p \in Procs : \A e \in pending'[p] : e \in pending[p],
         \A p \in Procs : \A r \in InFlight(p)' :
            \E r0 \in InFlight(p) : r0.id = r.id /\ r0.body = r.body
  PROVE  RouteInv'
  <1>1. IdsBelow'
    BY DEF RouteInv, IdsBelow
  <1>2. IdsDistinct'
    BY DEF RouteInv, IdsDistinct, TypeInv, TypeOK
  <1>3. PendingOwn'
    <2>1. \A p \in Procs : \A e \in pending'[p] : e.call \in Calls /\ Belongs(p, e.id, e.call)
      BY DEF RouteInv, PendingOwn, TypeInv, TypeOK, Sender
    <2>2. QED
      BY <2>1 DEF PendingOwn, Belongs
  <1>4. FlightOwn'
    <2>1. \A p \in Procs : \A r \in InFlight(p) : r.body \in Calls
      BY FlightType
    <2>2. \A p \in Procs : \A r \in InFlight(p)' : r.body \in Calls /\ Belongs(p, r.id, r.body)
      BY <2>1 DEF RouteInv, FlightOwn
    <2>3. QED
      BY <2>2 DEF FlightOwn, Belongs
  <1>5. InboxOwn'
    BY DEF RouteInv, InboxOwn
  <1>6. QED
    BY <1>1, <1>2, <1>3, <1>4, <1>5 DEF RouteInv

(* The same when nothing at all changes in the pipes.                        *)
LEMMA RouteQuiet ==
  ASSUME TypeInv, RouteInv,
         UNCHANGED <<rid, nextId, inbox, pending, stdin, held, stdout>>,
         \A c \in Calls : rid[c] # 0 => target'[c] = target[c]
  PROVE  RouteInv'
  <1>1. \A p \in Procs : InFlight(p)' = InFlight(p)
    BY DEF InFlight
  <1>2. QED
    BY <1>1, RouteKept

(* A process that exits takes what is in its stdin pipe with it.             *)
LEMMA RouteExit ==
  ASSUME TypeInv, RouteInv, NEW p \in Procs, Exit(p), UNCHANGED <<rid, target, inbox>>
  PROVE  RouteInv'
  <1>1. \A q \in Procs : InFlight(q)' \subseteq InFlight(q)
    BY ToSetEmpty DEF Exit, InFlight, TypeInv, TypeOK
  <1>2. UNCHANGED <<rid, nextId, inbox, pending, target>>
    BY DEF Exit
  <1>3. QED
    BY <1>1, <1>2, RouteKept

(* A process that answers request req puts it from stdin or held to stdout.  *)
LEMMA RouteAnswer ==
  ASSUME TypeInv, RouteInv, NEW p \in Procs, NEW req \in InFlight(p), NEW ok \in BOOLEAN,
         req \in Request,
         stdout' = [stdout EXCEPT ![p] = Append(@, ResponseTo(req, ok))],
         \A q \in Procs : ToSet(stdin'[q]) \subseteq ToSet(stdin[q]),
         \A q \in Procs : held'[q] \subseteq held[q],
         UNCHANGED <<rid, target, inbox, nextId, pending>>
  PROVE  RouteInv'
  <1>1. ResponseTo(req, ok) \in Response /\ stdout[p] \in Seq(Response)
    BY ResponseType DEF TypeInv, TypeOK
  <1>2. ToSet(stdout'[p]) = ToSet(stdout[p]) \union {ResponseTo(req, ok)}
    BY <1>1, ToSetAppend DEF TypeInv, TypeOK
  <1>3. \A q \in Procs : q # p => stdout'[q] = stdout[q]
    BY DEF TypeInv, TypeOK
  <1>4. ASSUME NEW q \in Procs, NEW r \in InFlight(q)'
        PROVE  \E r0 \in InFlight(q) : r0.id = r.id /\ r0.body = r.body
    <2>1. r \in ToSet(stdin[q]) \/ r \in held[q] \/ r \in ToSet(stdout'[q])
      BY <1>4 DEF InFlight
    <2>2. CASE r \in InFlight(q)
      BY <2>2
    <2>3. CASE q = p /\ r = ResponseTo(req, ok)
      BY <2>3 DEF ResponseTo
    <2>4. QED
      BY <2>1, <2>2, <2>3, <1>2, <1>3 DEF InFlight
  <1>5. QED
    BY <1>4, RouteKept

(* Only a task that has no id yet is given a process or an id.               *)
LEMMA TaskRoute ==
  ASSUME TypeInv, TypeInv', RouteInv, NEW c \in Calls, Task(c)
  PROVE  RouteInv'
  <1> USE DEF taskVars, stateVars, procVars
  <1>1. CASE BackendStatus(c) \/ StartBackend(c) \/ SpawnFails(c) \/ StartFinish(c) \/ ForwardFinish(c)
    <2>1. UNCHANGED <<rid, target, nextId, inbox, pending, stdin, held, stdout>>
      BY <1>1 DEF BackendStatus, StartBackend, SpawnFails, StartFinish, ForwardFinish
    <2>2. QED
      BY <2>1, RouteQuiet
  <1>2. CASE Spawn(c) \/ StopBackend(c) \/ ForwardToBackend(c)
    <2>1. rid[c] = 0
      BY <1>2 DEF Spawn, StopBackend, ForwardToBackend, TypeInv, TaskOK
    <2>2. UNCHANGED <<rid, nextId, inbox, pending, stdin, held, stdout>>
      BY <1>2 DEF Spawn, StopBackend, ForwardToBackend
    <2>3. \A d \in Calls : d # c => target'[d] = target[d]
      BY <1>2 DEF Spawn, StopBackend, ForwardToBackend, TypeInv, TypeOK
    <2>4. QED
      BY <2>1, <2>2, <2>3, RouteQuiet
  <1>3. CASE RequestTakeId(c)
    <2> DEFINE p == target[c]
    <2>1. /\ rid[c] = 0 /\ p \in Procs
          /\ rid' = [rid EXCEPT ![c] = nextId[p]]
          /\ nextId' = [nextId EXCEPT ![p] = nextId[p] + 1]
          /\ UNCHANGED <<target, inbox, pending, stdin, held, stdout>>
      BY <1>3 DEF RequestTakeId, IdAfter, TypeInv, TaskOK
    <2>2. \A q \in Procs : nextId[q] \in Nat /\ nextId[q] # 0
      BY DEF TypeInv, TypeOK, Ids
    <2>3. \A d \in Calls : d # c => rid'[d] = rid[d]
      BY <2>1 DEF TypeInv, TypeOK
    <2>4. rid'[c] = nextId[p] /\ nextId'[p] = nextId[p] + 1
      BY <2>1 DEF TypeInv, TypeOK
    <2>5. \A q \in Procs : q # p => nextId'[q] = nextId[q]
      BY <2>1 DEF TypeInv, TypeOK
    <2>6. IdsBelow'
      <3>1. ASSUME NEW d \in Calls, rid'[d] # 0 PROVE rid'[d] < nextId'[target[d]]
        <4>1. CASE d = c
          BY <2>2, <2>4, <4>1, <2>1
        <4>2. CASE d # c
          <5>1. rid[d] # 0 /\ target[d] \in Procs /\ rid[d] < nextId[target[d]] /\ rid[d] \in Nat
            BY <2>3, <3>1, <4>2 DEF TypeInv, TypeOK, TaskOK, RouteInv, IdsBelow
          <5>2. QED
            BY <5>1, <2>2, <2>3, <2>4, <2>5, <4>2
        <4>3. QED
          BY <4>1, <4>2
      <3>2. QED
        BY <3>1, <2>1 DEF IdsBelow
    <2>7. IdsDistinct'
      <3>1. \A d \in Calls : d # c /\ rid[d] # 0 /\ target[d] = p => rid[d] # nextId[p]
        BY <2>1, <2>2 DEF RouteInv, IdsBelow, TypeInv, TypeOK
      <3>2. QED
        BY <3>1, <2>1, <2>2, <2>3, <2>4 DEF IdsDistinct, RouteInv
    <2>8. \A q, id : \A d \in Calls : Belongs(q, id, d) => Belongs(q, id, d)'
      BY <2>1, <2>3 DEF Belongs
    <2>9. PendingOwn'
      BY <2>1, <2>8 DEF PendingOwn, RouteInv, TypeInv, TypeOK, Sender
    <2>10. FlightOwn'
      <3>1. \A q \in Procs : InFlight(q)' = InFlight(q)
        BY <2>1 DEF InFlight
      <3>2. \A q \in Procs : \A r \in InFlight(q) : r.body \in Calls
        BY FlightType
      <3>3. QED
        BY <2>8, <3>1, <3>2 DEF FlightOwn, RouteInv
    <2>11. InboxOwn'
      <3>1. inbox[c] = NoResponse
        BY <2>1 DEF RouteInv, InboxOwn, TypeInv, TypeOK, Response, Ids
      <3>2. QED
        BY <2>1, <2>3, <3>1 DEF InboxOwn, RouteInv
    <2>12. QED
      BY <2>6, <2>7, <2>9, <2>10, <2>11 DEF RouteInv
  <1>4. CASE RequestRegister(c)
    <2>1. /\ rid[c] # 0 /\ target[c] \in Procs
          /\ pending' = [pending EXCEPT ![target[c]] = Insert(@, rid[c], c)]
          /\ UNCHANGED <<target, rid, nextId, inbox, stdin, held, stdout>>
      BY <1>4 DEF RequestRegister, TypeInv, TaskOK
    <2>2. \A p \in Procs : \A e \in pending'[p] :
            e \in pending[p] \/ (p = target[c] /\ e = [id |-> rid[c], call |-> c])
      BY <2>1 DEF Insert, TypeInv, TypeOK
    <2>3. PendingOwn'
      BY <2>1, <2>2 DEF PendingOwn, Belongs, RouteInv
    <2>4. FlightOwn'
      <3>1. \A q \in Procs : InFlight(q)' = InFlight(q)
        BY <2>1 DEF InFlight
      <3>2. QED
        BY <2>1, <3>1 DEF FlightOwn, RouteInv, Belongs
    <2>5. QED
      BY <2>1, <2>3, <2>4 DEF RouteInv, IdsBelow, IdsDistinct, InboxOwn
  <1>5. CASE RequestWrite(c)
    <2> DEFINE req == [id |-> rid[c], meth |-> BackendMethod(method[c]), body |-> c]
    <2>1. /\ rid[c] # 0 /\ target[c] \in Procs
          /\ UNCHANGED <<target, rid, nextId, inbox, pending, held, stdout>>
          /\ \/ UNCHANGED stdin
             \/ stdin' = [stdin EXCEPT ![target[c]] = Append(@, req)]
      BY <1>5 DEF RequestWrite, TypeInv, TaskOK
    <2>2. CASE UNCHANGED stdin
      BY <2>1, <2>2, RouteQuiet
    <2>3. CASE stdin' = [stdin EXCEPT ![target[c]] = Append(@, req)]
      <3>1. req \in Request /\ stdin[target[c]] \in Seq(Request)
        BY <2>1 DEF Request, BackendMethod, Ids, TypeInv, TypeOK
      <3> HIDE DEF req
      <3>2. ToSet(Append(stdin[target[c]], req)) = ToSet(stdin[target[c]]) \union {req}
        BY <3>1, ToSetAppend
      <3>3. \A q \in Procs : \A r \in InFlight(q)' :
              r \in InFlight(q) \/ (q = target[c] /\ r = req)
        BY <2>1, <2>3, <3>2 DEF InFlight, TypeInv, TypeOK
      <3>4. req.id = rid[c] /\ req.body = c
        BY DEF req
      <3>5. FlightOwn'
        BY <2>1, <3>3, <3>4 DEF FlightOwn, Belongs, RouteInv
      <3>6. QED
        BY <2>1, <3>5 DEF RouteInv, IdsBelow, IdsDistinct, InboxOwn, PendingOwn, Belongs
    <2>4. QED
      BY <2>1, <2>2, <2>3
  <1>6. CASE StopFinish(c)
    <2>1. target[c] \in Procs /\ Exit(target[c]) /\ UNCHANGED <<rid, target, inbox>>
      BY <1>6 DEF StopFinish, Kill, Answered, Failed, TypeInv, TaskOK
    <2>2. QED
      BY <2>1, RouteExit
  <1>7. QED
    BY <1>1, <1>2, <1>3, <1>4, <1>5, <1>6 DEF Task

(* A backend moves requests to its stdout; the reader gives a response to    *)
(* the one call whose sender has its id, and that is the call it is for.     *)
LEMMA ProcRoute ==
  ASSUME TypeInv, TypeInv', RouteInv, NEW p \in Procs, Backend(p) \/ Crash(p) \/ Reader(p)
  PROVE  RouteInv'
  <1> USE DEF taskVars, stateVars, procVars
  <1>0. stdin[p] \in Seq(Request) /\ stdout[p] \in Seq(Response) /\ held[p] \in SUBSET Request
    BY DEF TypeInv, TypeOK
  <1>1. CASE StdioServe(p)
    <2>1. stdin[p] # <<>>
      BY <1>1 DEF StdioServe
    <2>2. /\ Head(stdin[p]) \in Request /\ Head(stdin[p]) \in InFlight(p)
          /\ ToSet(Tail(stdin[p])) \subseteq ToSet(stdin[p])
      BY <1>0, <2>1, ToSetHeadTail DEF InFlight
    <2>3. \A q \in Procs : ToSet(stdin'[q]) \subseteq ToSet(stdin[q])
      BY <1>1, <2>2 DEF StdioServe, TypeInv, TypeOK
    <2>4. PICK ok \in Verdicts(Head(stdin[p])) :
            stdout' = [stdout EXCEPT ![p] = Append(@, ResponseTo(Head(stdin[p]), ok))]
      BY <1>1 DEF StdioServe
    <2>5. ok \in BOOLEAN
      BY DEF Verdicts
    <2>6. UNCHANGED <<rid, target, inbox, nextId, pending, held>>
      BY <1>1 DEF StdioServe
    <2>7. QED
      BY <2>2, <2>3, <2>4, <2>5, <2>6, RouteAnswer
  <1>2. CASE StdioEndOfInput(p) \/ TitanShutdown(p) \/ Crash(p)
    <2>1. Exit(p) /\ UNCHANGED <<rid, target, inbox>>
      BY <1>2 DEF StdioEndOfInput, TitanShutdown, Crash
    <2>2. QED
      BY <2>1, RouteExit
  <1>3. CASE TitanServe(p)
    <2> DEFINE req == Head(stdin[p])
    <2>1. stdin[p] # <<>>
      BY <1>3 DEF TitanServe
    <2>2. req \in Request /\ req \in InFlight(p) /\ ToSet(Tail(stdin[p])) \subseteq ToSet(stdin[p])
      BY <1>0, <2>1, ToSetHeadTail DEF InFlight
    <2>3. \A q \in Procs : ToSet(stdin'[q]) \subseteq ToSet(stdin[q])
      BY <1>3, <2>2 DEF TitanServe, TypeInv, TypeOK
    <2>4. UNCHANGED <<rid, target, inbox, nextId, pending>>
      BY <1>3 DEF TitanServe
    <2>5. CASE stdout' = [stdout EXCEPT ![p] = Append(@, ResponseTo(req, TRUE))] /\ UNCHANGED held
      <3> HIDE DEF req
      <3>1. QED
        BY <2>2, <2>3, <2>4, <2>5, RouteAnswer
    <2>6. CASE held' = [held EXCEPT ![p] = {req}] /\ UNCHANGED stdout
      <3> HIDE DEF req
      <3>1. \A q \in Procs : held'[q] \subseteq held[q] \/ (q = p /\ held'[q] = {req})
        BY <2>6 DEF TypeInv, TypeOK
      <3>2. \A q \in Procs : InFlight(q)' \subseteq InFlight(q)
        BY <2>2, <2>3, <2>6, <3>1 DEF InFlight
      <3>3. QED
        BY <2>4, <3>2, RouteKept
    <2>7. QED
      BY <1>3, <2>5, <2>6 DEF TitanServe
  <1>4. CASE TitanEvent(p)
    <2>1. PICK req \in held[p] :
            stdout' = [stdout EXCEPT ![p] = Append(@, ResponseTo(req, TRUE))]
      BY <1>4 DEF TitanEvent
    <2>2. req \in Request /\ req \in InFlight(p)
      BY <1>0 DEF InFlight
    <2>3. \A q \in Procs : held'[q] \subseteq held[q]
      BY <1>4 DEF TitanEvent, TypeInv, TypeOK
    <2>4. UNCHANGED <<rid, target, inbox, nextId, pending, stdin>>
      BY <1>4 DEF TitanEvent
    <2>5. QED
      BY <2>1, <2>2, <2>3, <2>4, RouteAnswer
  <1>5. CASE ReaderTake(p)
    <2> DEFINE resp == Head(stdout[p])
               hits == SendersFor(p, resp.id)
    <2>1. stdout[p] # <<>>
      BY <1>5 DEF ReaderTake
    <2>2. resp \in Response /\ resp \in InFlight(p) /\ ToSet(Tail(stdout[p])) \subseteq ToSet(stdout[p])
      BY <1>0, <2>1, ToSetHeadTail DEF InFlight
    <2>3. /\ pending' = [pending EXCEPT ![p] = @ \ hits]
          /\ inbox' = [c \in Calls |-> IF \E e \in hits : e.call = c THEN resp ELSE inbox[c]]
          /\ stdout' = [stdout EXCEPT ![p] = Tail(@)]
          /\ UNCHANGED <<rid, target, nextId, stdin, held>>
      BY <1>5 DEF ReaderTake, Removed
    <2>4. Belongs(p, resp.id, resp.body) /\ resp.body \in Calls
      BY <2>2, FlightType DEF RouteInv, FlightOwn
    <2>5. \A e \in hits : Belongs(p, resp.id, e.call) /\ e.call \in Calls
      BY DEF SendersFor, RouteInv, PendingOwn, TypeInv, TypeOK, Sender
    <2>6. \A e \in hits : e.call = resp.body /\ rid[e.call] = resp.id
      BY <2>4, <2>5 DEF Belongs, RouteInv, IdsDistinct
    <2> HIDE DEF resp, hits
    <2>7. InboxOwn'
      BY <2>3, <2>6 DEF RouteInv, InboxOwn
    <2>8. \A q \in Procs : InFlight(q)' \subseteq InFlight(q)
      BY <2>2, <2>3 DEF InFlight, TypeInv, TypeOK
    <2>9. FlightOwn'
      BY <2>3, <2>8 DEF RouteInv, FlightOwn, Belongs
    <2>10. \A q \in Procs : pending'[q] \subseteq pending[q]
      BY <2>3 DEF TypeInv, TypeOK
    <2>11. PendingOwn'
      BY <2>3, <2>10 DEF RouteInv, PendingOwn, Belongs
    <2>12. QED
      BY <2>3, <2>7, <2>9, <2>11 DEF RouteInv, IdsBelow, IdsDistinct
  <1>6. CASE ReaderEof(p)
    <2>1. UNCHANGED <<rid, target, nextId, inbox, pending, stdin, held, stdout>>
      BY <1>6 DEF ReaderEof
    <2>2. QED
      BY <2>1, RouteQuiet
  <1>7. QED
    BY <1>1, <1>2, <1>3, <1>4, <1>5, <1>6 DEF Backend, Reader

LEMMA NextRoute == TypeInv /\ TypeInv' /\ RouteInv /\ [Next]_vars => RouteInv'
  <1> SUFFICES ASSUME TypeInv, TypeInv', RouteInv, [Next]_vars PROVE RouteInv'
    OBVIOUS
  <1>1. ASSUME NEW c \in Calls, NEW m \in Methods, FrontendRequest(c, m) PROVE RouteInv'
    <2>1. UNCHANGED <<rid, target, nextId, inbox, pending, stdin, held, stdout>>
      BY <1>1 DEF FrontendRequest, stateVars, procVars
    <2>2. QED
      BY <2>1, RouteQuiet
  <1>2. CASE UNCHANGED vars
    <2>1. UNCHANGED <<rid, target, nextId, inbox, pending, stdin, held, stdout>>
      BY <1>2 DEF vars, taskVars, stateVars, procVars
    <2>2. QED
      BY <2>1, RouteQuiet
  <1>3. QED
    BY <1>1, <1>2, TaskRoute, ProcRoute DEF Next

(* A task answers under its front end's id, and a forwarded answer is what   *)
(* arrived in its inbox.                                                     *)
LEMMA RespondOwn ==
  ASSUME TypeInv, ReplyOwn, NEW c \in Calls, NEW code, NEW from, Respond(c, c, code, from),
         code = "forwarded" => from = c
  PROVE  ReplyOwn'
  <1>1. \A d \in Calls : reply'[d] = IF d = c THEN [id |-> c, code |-> code, from |-> from]
                                              ELSE reply[d]
    BY DEF Respond, TypeInv, TypeOK
  <1>2. QED
    BY <1>1 DEF ReplyOwn

LEMMA NextReply == TypeInv /\ RouteInv /\ ReplyOwn /\ [Next]_vars => ReplyOwn'
  <1> SUFFICES ASSUME TypeInv, RouteInv, ReplyOwn, [Next]_vars PROVE ReplyOwn'
    OBVIOUS
  <1>1. CASE UNCHANGED reply
    BY <1>1 DEF ReplyOwn
  <1>2. ASSUME NEW c \in Calls, NEW m \in Methods, FrontendRequest(c, m) PROVE ReplyOwn'
    BY <1>1, <1>2, RespondOwn DEF FrontendRequest
  <1>3. ASSUME NEW c \in Calls, Task(c) PROVE ReplyOwn'
    <2>1. CASE BackendStatus(c)
      BY <2>1, RespondOwn DEF BackendStatus
    <2>2. CASE StartBackend(c)
      BY <1>1, <2>2, RespondOwn DEF StartBackend
    <2>3. CASE SpawnFails(c)
      BY <2>3, RespondOwn DEF SpawnFails
    <2>4. CASE StopBackend(c)
      BY <1>1, <2>4, RespondOwn DEF StopBackend
    <2>5. CASE ForwardToBackend(c)
      BY <1>1, <2>5, RespondOwn DEF ForwardToBackend
    <2>6. CASE StartFinish(c)
      BY <2>6, RespondOwn DEF StartFinish
    <2>7. CASE StopFinish(c)
      BY <2>7, RespondOwn DEF StopFinish
    <2>8. CASE ForwardFinish(c)
      <3>1. Answered(c) => inbox[c].body = c
        BY DEF Answered, RouteInv, InboxOwn
      <3>2. QED
        BY <2>8, <3>1, RespondOwn DEF ForwardFinish, ForwardedId
    <2>9. CASE Spawn(c) \/ RequestTakeId(c) \/ RequestRegister(c) \/ RequestWrite(c)
      BY <1>1, <2>9 DEF Spawn, RequestTakeId, RequestRegister, RequestWrite
    <2>10. QED
      BY <1>3, <2>1, <2>2, <2>3, <2>4, <2>5, <2>6, <2>7, <2>8, <2>9 DEF Task
  <1>4. ASSUME NEW p \in Procs, Backend(p) \/ Crash(p) \/ Reader(p) PROVE ReplyOwn'
    BY <1>1, <1>4
       DEF Backend, Crash, Reader, StdioServe, StdioEndOfInput, TitanShutdown, TitanServe,
           TitanEvent, ReaderTake, ReaderEof, taskVars
  <1>5. CASE UNCHANGED vars
    BY <1>1, <1>5 DEF vars, taskVars
  <1>6. QED
    BY <1>2, <1>3, <1>4, <1>5 DEF Next

(* However calls, pipes and reader tasks interleave, no front end ever gets  *)
(* the answer to somebody else's request (backend_process.rs:40-42,58-69,    *)
(* core.rs:165-168).                                                         *)
THEOREM AnswersAreOwn == Spec => []OwnAnswer
  <1>1. Init => TypeInv /\ RouteInv /\ ReplyOwn
    BY InitType, InitRoute
  <1>2. TypeInv /\ RouteInv /\ ReplyOwn /\ [Next]_vars => (TypeInv /\ RouteInv /\ ReplyOwn)'
    BY NextType, NextRoute, NextReply
  <1>3. RouteInv /\ ReplyOwn => OwnAnswer
    BY DEF RouteInv, InboxOwn, ReplyOwn, OwnAnswer
  <1>4. QED
    BY <1>1, <1>2, <1>3, PTL DEF Spec

-------------------------------------------------------------------------------
(* The state mutex of CoreHandle, and that Core implements BackendSession.   *)
USE DEF Procs

(* The invariant.  A task between the two ends of start_backend holds the    *)
(* mutex, and the mutex is taken for long only while there is no backend:    *)
(* that is why the check at core.rs:123-130 still holds at core.rs:139.      *)
InRequest == {"takeId", "register", "write", "await", "failed"}

MethodOK ==
  \A c \in Calls :
    /\ pc[c] = "idle" <=> method[c] = None
    /\ pc[c] \in {"status", "start", "stop", "forward"} => method[c] = pc[c]
    /\ pc[c] = "spawn" => method[c] = "start"
    /\ pc[c] \in InRequest => method[c] \in {"start", "stop", "forward"}

LockOK ==
  /\ \A c \in Calls : method[c] = "start" /\ pc[c] \in InRequest \union {"spawn"} => lock = c
  /\ lock # None => active = None

TargetOK ==
  \A c \in Calls :
    /\ pc[c] \in {"idle", "status", "start", "stop", "forward", "spawn"} => target[c] = None
    /\ method[c] = "start" /\ pc[c] \in InRequest => target[c] = c

OpenOK == \A c \in Calls : pc[c] # "done" => reply[c] = NoReply

SessionInv == MethodOK /\ LockOK /\ TargetOK /\ OpenOK

LEMMA InitSession == Init => SessionInv
  BY CoreAssumption DEF Init, SessionInv, MethodOK, LockOK, TargetOK, OpenOK, InRequest

-------------------------------------------------------------------------------
(* The invariant is inductive.                                               *)

(* A step of call c alone: nothing of another call's state changes, and what *)
(* happens to c, the mutex and the active backend is consistent.             *)
LEMMA SessionStep ==
  ASSUME TypeInv, SessionInv, NEW c \in Calls, NEW label \in Label, label # "idle",
         pc' = [pc EXCEPT ![c] = label],
         \A d \in Calls : d # c => /\ method'[d] = method[d]
                                   /\ target'[d] = target[d]
                                   /\ reply'[d] = reply[d],
         method'[c] # None,
         label \in {"status", "start", "stop", "forward"} => method'[c] = label,
         label = "spawn" => method'[c] = "start",
         label \in InRequest => method'[c] \in {"start", "stop", "forward"},
         label \in {"status", "start", "stop", "forward", "spawn"} => target'[c] = None,
         method'[c] = "start" /\ label \in InRequest => target'[c] = c,
         method'[c] = "start" /\ label \in InRequest \union {"spawn"} => lock' = c,
         label # "done" => reply'[c] = NoReply,
         lock' # lock => lock \in {None, c},
         lock' # None => active' = None
  PROVE  SessionInv'
  <1>1. \A d \in Calls : pc'[d] = IF d = c THEN label ELSE pc[d]
    BY DEF TypeInv, TypeOK
  <1>2. MethodOK'
    BY <1>1 DEF SessionInv, MethodOK
  <1>3. LockOK'
    BY <1>1, CoreAssumption DEF SessionInv, LockOK
  <1>4. TargetOK'
    BY <1>1 DEF SessionInv, TargetOK
  <1>5. OpenOK'
    BY <1>1 DEF SessionInv, OpenOK
  <1>6. QED
    BY <1>2, <1>3, <1>4, <1>5 DEF SessionInv

LEMMA FrontendSession ==
  ASSUME TypeInv, SessionInv, NEW c \in Calls, NEW m \in Methods, FrontendRequest(c, m)
  PROVE  SessionInv'
  <1>1. /\ pc[c] = "idle" /\ method' = [method EXCEPT ![c] = m]
        /\ UNCHANGED <<target, lock, active>>
    BY DEF FrontendRequest, stateVars
  <1>2. target[c] = None /\ reply[c] = NoReply /\ m # None
    BY <1>1, CoreAssumption DEF SessionInv, TargetOK, OpenOK
  <1>3. CASE m = "hello"
    <2>1. pc' = [pc EXCEPT ![c] = "done"] /\ \A d \in Calls : d # c => reply'[d] = reply[d]
      BY <1>3 DEF FrontendRequest, Respond, Goto, TypeInv, TypeOK
    <2>2. QED
      BY <1>1, <1>2, <2>1, SessionStep DEF TypeInv, TypeOK, Label, InRequest, SessionInv, LockOK
  <1>4. CASE m # "hello"
    <2>1. pc' = [pc EXCEPT ![c] = m] /\ UNCHANGED reply
      BY <1>4 DEF FrontendRequest, Goto
    <2>2. m \in {"status", "start", "stop", "forward"}
      BY <1>4, CoreAssumption
    <2>3. QED
      BY <1>1, <1>2, <2>1, <2>2, SessionStep
         DEF TypeInv, TypeOK, Label, InRequest, SessionInv, LockOK
  <1>5. QED
    BY <1>3, <1>4

LEMMA TaskSession ==
  ASSUME TypeInv, SessionInv, NEW c \in Calls, Task(c)
  PROVE  SessionInv'
  <1> USE DEF taskVars, stateVars, procVars
  <1>0. /\ MethodOK /\ LockOK /\ TargetOK /\ OpenOK
        /\ active \in Calls \union {None} /\ lock \in Calls \union {None}
    BY DEF SessionInv, TypeInv, TypeOK
  (* an answer ends the task; nothing is asked of the rest of its state      *)
  <1>1. ASSUME NEW code, NEW from, Respond(c, c, code, from), pc[c] # "idle",
               UNCHANGED <<method, target>>,
               lock' # lock => lock = c,
               lock' # None => active' = None
        PROVE  SessionInv'
    <2>1. pc' = [pc EXCEPT ![c] = "done"] /\ \A d \in Calls : d # c => reply'[d] = reply[d]
      BY <1>1 DEF Respond, Goto, TypeInv, TypeOK
    <2>2. method[c] # None
      BY <1>0, <1>1 DEF MethodOK
    <2>3. QED
      BY <1>1, <2>1, <2>2, SessionStep DEF Label, InRequest
  (* a request goes on, with everything but its place unchanged              *)
  <1>2. ASSUME NEW label \in InRequest, pc[c] \in InRequest, pc' = [pc EXCEPT ![c] = label],
               UNCHANGED <<method, target, reply, lock, active>>
        PROVE  SessionInv'
    <2>1. reply[c] = NoReply /\ method[c] # None /\ method[c] \in {"start", "stop", "forward"}
      BY <1>0, <1>2 DEF OpenOK, MethodOK, InRequest
    <2>2. /\ method[c] = "start" => target[c] = c /\ lock = c
          /\ lock # None => active = None
      BY <1>0, <1>2 DEF TargetOK, LockOK
    <2>3. QED
      BY <1>2, <2>1, <2>2, SessionStep DEF Label, InRequest
  <1>3. CASE BackendStatus(c)
    BY <1>0, <1>1, <1>3 DEF BackendStatus, LockOK
  <1>4. CASE StartBackend(c)
    <2>1. CASE active # None
      BY <1>0, <1>1, <1>4, <2>1 DEF StartBackend, LockOK
    <2>2. CASE active = None
      <3>1. /\ pc[c] = "start" /\ pc' = [pc EXCEPT ![c] = "spawn"] /\ lock = None /\ lock' = c
            /\ UNCHANGED <<method, target, reply, active>>
        BY <1>4, <2>2 DEF StartBackend, StartLock, Goto
      <3>2. method[c] = "start" /\ method[c] # None /\ target[c] = None /\ reply[c] = NoReply
        BY <1>0, <3>1 DEF MethodOK, TargetOK, OpenOK
      <3>3. QED
        BY <2>2, <3>1, <3>2, CoreAssumption, SessionStep DEF Label, InRequest, TypeInv, TypeOK
    <2>3. QED
      BY <2>1, <2>2
  <1>5. CASE Spawn(c)
    <2>1. /\ pc[c] = "spawn" /\ pc' = [pc EXCEPT ![c] = "takeId"]
          /\ target' = [target EXCEPT ![c] = c] /\ UNCHANGED <<method, reply, lock, active>>
      BY <1>5 DEF Spawn, Goto
    <2>2. /\ method[c] = "start" /\ method[c] # None /\ lock = c
          /\ reply[c] = NoReply /\ active = None
      BY <1>0, <2>1, CoreAssumption DEF MethodOK, LockOK, OpenOK
    <2>3. QED
      BY <2>1, <2>2, CoreAssumption, SessionStep DEF Label, InRequest, TypeInv, TypeOK
  <1>6. CASE SpawnFails(c)
    <2>1. method[c] = "start" /\ lock = c
      BY <1>0, <1>6 DEF SpawnFails, MethodOK, LockOK
    <2>2. QED
      BY <1>0, <1>1, <1>6, <2>1 DEF SpawnFails
  <1>7. CASE StopBackend(c)
    <2>1. CASE active # None
      <3>1. /\ pc[c] = "stop" /\ pc' = [pc EXCEPT ![c] = "takeId"] /\ lock = None
            /\ target' = [target EXCEPT ![c] = active] /\ UNCHANGED <<method, reply, lock>>
        BY <1>7, <2>1 DEF StopBackend, Goto
      <3>2. method[c] = "stop" /\ method[c] # None /\ reply[c] = NoReply
        BY <1>0, <3>1 DEF MethodOK, OpenOK
      <3>3. QED
        BY <3>1, <3>2, CoreAssumption, SessionStep DEF Label, InRequest, TypeInv, TypeOK
    <2>2. CASE active = None
      BY <1>0, <1>1, <1>7, <2>2 DEF StopBackend, LockOK
    <2>3. QED
      BY <2>1, <2>2
  <1>8. CASE ForwardToBackend(c)
    <2>1. CASE active # None
      <3>1. /\ pc[c] = "forward" /\ pc' = [pc EXCEPT ![c] = "takeId"] /\ lock = None
            /\ target' = [target EXCEPT ![c] = active] /\ UNCHANGED <<method, reply, lock>>
        BY <1>8, <2>1 DEF ForwardToBackend, Goto
      <3>2. method[c] = "forward" /\ method[c] # None /\ reply[c] = NoReply
        BY <1>0, <3>1 DEF MethodOK, OpenOK
      <3>3. QED
        BY <3>1, <3>2, CoreAssumption, SessionStep DEF Label, InRequest, TypeInv, TypeOK
    <2>2. CASE active = None
      BY <1>0, <1>1, <1>8, <2>2 DEF ForwardToBackend, LockOK
    <2>3. QED
      BY <2>1, <2>2
  <1>9. CASE RequestTakeId(c)
    BY <1>2, <1>9 DEF RequestTakeId, Goto, After, InRequest
  <1>10. CASE RequestRegister(c)
    BY <1>2, <1>10 DEF RequestRegister, Goto, After, InRequest
  <1>11. CASE RequestWrite(c)
    BY <1>2, <1>11 DEF RequestWrite, Goto, After, InRequest
  <1>12. CASE StartFinish(c)
    <2>1. lock = c /\ lock' = None
      BY <1>0, <1>12 DEF StartFinish, Answered, Failed, LockOK, InRequest
    <2>2. QED
      BY <1>0, <1>1, <1>12, <2>1 DEF StartFinish, Answered, Failed
  <1>13. CASE StopFinish(c)
    BY <1>0, <1>1, <1>13 DEF StopFinish, Answered, Failed, LockOK
  <1>14. CASE ForwardFinish(c)
    BY <1>0, <1>1, <1>14 DEF ForwardFinish, ForwardedId, Answered, Failed, LockOK
  <1>15. QED
    BY <1>3, <1>4, <1>5, <1>6, <1>7, <1>8, <1>9, <1>10, <1>11, <1>12, <1>13, <1>14 DEF Task

(* Backends and reader tasks do not touch what the core and its tasks keep.  *)
LEMMA ProcQuiet ==
  ASSUME NEW p \in Procs, Backend(p) \/ Crash(p) \/ Reader(p)
  PROVE  UNCHANGED <<pc, method, target, reply, lock, active>>
  BY DEF Backend, Crash, Reader, StdioServe, StdioEndOfInput, TitanShutdown, TitanServe,
         TitanEvent, ReaderTake, ReaderEof, taskVars, stateVars

LEMMA NextSession == TypeInv /\ SessionInv /\ [Next]_vars => SessionInv'
  <1> SUFFICES ASSUME TypeInv, SessionInv, [Next]_vars PROVE SessionInv'
    OBVIOUS
  <1>1. CASE UNCHANGED <<pc, method, target, reply, lock, active>>
    BY <1>1 DEF SessionInv, MethodOK, LockOK, TargetOK, OpenOK
  <1>2. CASE UNCHANGED vars
    BY <1>1, <1>2 DEF vars, taskVars, stateVars
  <1>3. QED
    BY <1>1, <1>2, FrontendSession, TaskSession, ProcQuiet DEF Next

Inv == TypeInv /\ RouteInv /\ SessionInv

LEMMA SpecInv == Spec => []Inv
  <1>1. Init => Inv
    BY InitType, InitRoute, InitSession DEF Inv
  <1>2. Inv /\ [Next]_vars => Inv'
    BY NextType, NextRoute, NextSession DEF Inv
  <1>3. QED
    BY <1>1, <1>2, PTL DEF Spec

-------------------------------------------------------------------------------
(* The backend that a step of a task leaves active is the one that was       *)
(* active or none, unless there was none.                                    *)
LEMMA TaskNoTakeover ==
  ASSUME Inv, NEW c \in Calls, Task(c), active # None
  PROVE  active' \in {active, None}
  <1>1. CASE StopBackend(c)
    BY <1>1 DEF StopBackend, StopTakesState
  <1>2. CASE StartFinish(c)
    <2>1. lock = c
      BY <1>2 DEF StartFinish, Answered, Failed, Inv, SessionInv, LockOK, InRequest
    <2>2. QED
      BY <2>1, CoreAssumption DEF Inv, SessionInv, LockOK
  <1>3. CASE UNCHANGED active
    BY <1>3
  <1>4. QED
    BY <1>1, <1>2, <1>3
       DEF Task, BackendStatus, StartBackend, Spawn, SpawnFails, ForwardToBackend, RequestTakeId,
           RequestRegister, RequestWrite, StopFinish, ForwardFinish, stateVars

(* No start call ever puts its backend in the place of another one: from the *)
(* check for an active backend to the assignment the mutex stays taken       *)
(* (core.rs:122-140).                                                        *)
THEOREM ActiveIsNotReplaced == Spec => NoTakeover
  <1>1. Inv /\ [Next]_vars => [active # None => active' \in {active, None}]_vars
    <2> SUFFICES ASSUME Inv, Next, active # None PROVE active' \in {active, None}
      OBVIOUS
    <2>1. CASE UNCHANGED active
      BY <2>1
    <2>2. ASSUME NEW c \in Calls, NEW m \in Methods, FrontendRequest(c, m) PROVE UNCHANGED active
      BY <2>2 DEF FrontendRequest, stateVars
    <2>3. QED
      BY <2>1, <2>2, TaskNoTakeover, ProcQuiet DEF Next
  <1>2. QED
    BY <1>1, SpecInv, PTL DEF Spec, NoTakeover

-------------------------------------------------------------------------------
(* Core implements BackendSession: what the mapping makes of a step.         *)

(* A call that has not ended is open for the abstract service.               *)
LEMMA OpenCall ==
  ASSUME NEW c \in Calls, pc[c] # "done", method[c] # None
  PROVE  Session!Open(c)
  BY DEF Session!Open, AnswerOf

(* An answer of the core is an answer of the service.                        *)
LEMMA AnswerMaps ==
  ASSUME Inv, NEW c \in Calls, NEW code, NEW from, Respond(c, c, code, from), pc[c] # "done"
  PROVE  /\ Session!Answer(c, code, from)
         /\ code = "started" => PastSessions' = PastSessions \union {c}
         /\ code # "started" => UNCHANGED PastSessions
  <1>1. \A d \in Calls : /\ pc'[d] = IF d = c THEN "done" ELSE pc[d]
                         /\ reply'[d] = IF d = c THEN [id |-> c, code |-> code, from |-> from]
                                                 ELSE reply[d]
    BY DEF Respond, Goto, Inv, TypeInv, TypeOK
  <1>2. reply[c].code = "none"
    BY DEF Inv, SessionInv, OpenOK, NoReply
  <1>3. Session!Answer(c, code, from)
    <2>1. \A d \in Calls : (IF pc'[d] = "done" THEN [code |-> reply'[d].code, from |-> reply'[d].from]
                                               ELSE None)
                          = IF d = c THEN [code |-> code, from |-> from] ELSE AnswerOf[d]
      BY <1>1 DEF AnswerOf
    <2>2. AnswerOf' = [d \in Calls |-> IF d = c THEN [code |-> code, from |-> from]
                                               ELSE AnswerOf[d]]
      BY <2>1 DEF AnswerOf
    <2>3. DOMAIN AnswerOf = Calls /\ AnswerOf = [d \in Calls |-> AnswerOf[d]]
      BY DEF AnswerOf
    <2>4. QED
      BY <2>2, <2>3 DEF Session!Answer
  <1>4. \A d \in Calls : Started(d)' <=> IF d = c THEN code = "started" ELSE Started(d)
    BY <1>1 DEF Started
  <1>5. QED
    BY <1>2, <1>3, <1>4 DEF PastSessions, Started

(* A task that goes on without an answer shows the service nothing.          *)
LEMMA GotoMaps ==
  ASSUME Inv, NEW c \in Calls, NEW label, Goto(c, label), pc[c] # "done", label # "done",
         UNCHANGED reply
  PROVE  UNCHANGED <<AnswerOf, PastSessions>>
  <1>1. \A d \in Calls : pc'[d] = IF d = c THEN label ELSE pc[d]
    BY DEF Goto, Inv, TypeInv, TypeOK
  <1>2. QED
    BY <1>1 DEF AnswerOf, PastSessions, Started

LEMMA BoundKept == UNCHANGED <<method, target>> => UNCHANGED BoundTo
  BY DEF BoundTo

(* What a call holds before it has looked at the state, and after.           *)
LEMMA BoundBefore ==
  ASSUME Inv, NEW c \in Calls, pc[c] \in {"idle", "status", "start", "stop", "forward", "spawn"}
  PROVE  BoundTo[c] = None
  BY DEF BoundTo, Inv, SessionInv, TargetOK

LEMMA BoundAfter ==
  ASSUME Inv, NEW c \in Calls, pc[c] \in InRequest, method[c] \in {"stop", "forward"}
  PROVE  BoundTo[c] = target[c] /\ BoundTo[c] # None
  BY CoreAssumption DEF BoundTo, InRequest, Inv, TypeInv, TaskOK

(* The service binds a stop or forward call to a session when the core puts  *)
(* a process in the call's hands.                                            *)
LEMMA BindMaps ==
  ASSUME Inv, NEW c \in Calls, method[c] \in {"stop", "forward"}, NEW p,
         target' = [target EXCEPT ![c] = p], UNCHANGED method
  PROVE  BoundTo' = [BoundTo EXCEPT ![c] = p]
  <1>1. \A d \in Calls : target'[d] = IF d = c THEN p ELSE target[d]
    BY DEF Inv, TypeInv, TypeOK
  <1>2. QED
    BY <1>1 DEF BoundTo

LEMMA InitMaps == Init => Session!Init
  <1> SUFFICES ASSUME Init PROVE Session!Init
    OBVIOUS
  <1>1. PastSessions = {}
    BY DEF Init, PastSessions, Started, NoReply
  <1>2. BoundTo = [c \in Calls |-> None] /\ AnswerOf = [c \in Calls |-> None]
    BY DEF Init, BoundTo, AnswerOf
  <1>3. QED
    BY <1>1, <1>2 DEF Init, Session!Init

LEMMA FrontendMaps ==
  ASSUME Inv, NEW c \in Calls, NEW m \in Methods, FrontendRequest(c, m)
  PROVE  Session!Next
  <1>1. /\ pc[c] = "idle" /\ method' = [method EXCEPT ![c] = m]
        /\ UNCHANGED <<target, active>>
    BY DEF FrontendRequest, stateVars
  <1>2. method[c] = None /\ BoundTo[c] = None /\ target[c] = None
    BY <1>1, BoundBefore DEF Inv, SessionInv, MethodOK, TargetOK
  <1>3. UNCHANGED BoundTo
    <2>1. \A d \in Calls : method'[d] = IF d = c THEN m ELSE method[d]
      BY <1>1 DEF Inv, TypeInv, TypeOK
    <2>2. QED
      BY <1>1, <1>2, <2>1, CoreAssumption DEF BoundTo
  <1>4. CASE m = "hello"
    <2>1. Respond(c, c, "hello", None)
      BY <1>4 DEF FrontendRequest
    <2>2. Session!Answer(c, "hello", None) /\ UNCHANGED PastSessions
      BY <1>1, <2>1, AnswerMaps
    <2>3. Session!AskAnsweredAtOnce(c)
      BY <1>1, <1>2, <1>3, <1>4, <2>2 DEF Session!AskAnsweredAtOnce
    <2>4. QED
      BY <2>3 DEF Session!Next
  <1>5. CASE m # "hello"
    <2>1. Goto(c, m) /\ UNCHANGED reply /\ m \in {"status", "start", "stop", "forward"}
      BY <1>5, CoreAssumption DEF FrontendRequest
    <2>2. UNCHANGED <<AnswerOf, PastSessions>>
      BY <1>1, <2>1, GotoMaps
    <2>3. Session!Ask(c, m)
      BY <1>1, <1>2, <1>3, <2>2 DEF Session!Ask
    <2>4. QED
      BY <2>1, <2>3 DEF Session!Next
  <1>6. QED
    BY <1>4, <1>5

LEMMA TaskMaps ==
  ASSUME Inv, NEW c \in Calls, Task(c)
  PROVE  Session!Next \/ UNCHANGED Session!vars
  <1> USE DEF taskVars, stateVars, procVars
  <1>0. MethodOK /\ LockOK /\ TargetOK /\ OpenOK /\ InboxOwn
    BY DEF Inv, SessionInv, RouteInv
  (* while it waits for its request a task shows the service nothing         *)
  <1>1. CASE RequestTakeId(c) \/ RequestRegister(c) \/ RequestWrite(c)
    <2>1. /\ pc[c] # "done" /\ \E label \in Label \ {"done"} : Goto(c, label)
          /\ UNCHANGED <<method, target, reply, active>>
      BY <1>1 DEF RequestTakeId, RequestRegister, RequestWrite, After, Label
    <2>2. QED
      BY <2>1, GotoMaps, BoundKept DEF Session!vars
  <1>2. CASE BackendStatus(c)
    <2>1. pc[c] = "status" /\ Respond(c, c, "status", active) /\ UNCHANGED <<method, target, active>>
      BY <1>2 DEF BackendStatus
    <2>2. method[c] = "status" /\ Session!Open(c)
      BY <1>0, <2>1, OpenCall DEF MethodOK
    <2>3. Session!Answer(c, "status", active) /\ UNCHANGED PastSessions
      BY <2>1, AnswerMaps
    <2>4. Session!ReportStatus(c)
      BY <2>1, <2>2, <2>3, BoundKept DEF Session!ReportStatus
    <2>5. QED
      BY <2>4 DEF Session!Next
  <1>3. CASE StartBackend(c)
    <2>1. pc[c] = "start" /\ UNCHANGED <<method, target, active>>
      BY <1>3 DEF StartBackend
    <2>2. method[c] = "start" /\ Session!Open(c)
      BY <1>0, <2>1, OpenCall DEF MethodOK
    <2>3. CASE active # None
      <3>1. Respond(c, c, "backend_already_active", active)
        BY <1>3, <2>3 DEF StartBackend
      <3>2. Session!Answer(c, "backend_already_active", active) /\ UNCHANGED PastSessions
        BY <2>1, <3>1, AnswerMaps
      <3>3. Session!RefuseStart(c)
        BY <2>1, <2>2, <2>3, <3>2, BoundKept DEF Session!RefuseStart
      <3>4. QED
        BY <3>3 DEF Session!Next
    <2>4. CASE active = None
      <3>1. Goto(c, "spawn") /\ UNCHANGED reply
        BY <1>3, <2>4 DEF StartBackend
      <3>2. QED
        BY <2>1, <3>1, GotoMaps, BoundKept DEF Session!vars
    <2>5. QED
      BY <2>3, <2>4
  <1>4. CASE Spawn(c)
    <2>1. /\ pc[c] = "spawn" /\ Goto(c, "takeId") /\ target' = [target EXCEPT ![c] = c]
          /\ UNCHANGED <<method, reply, active>>
      BY <1>4 DEF Spawn
    <2>2. method[c] = "start"
      BY <1>0, <2>1 DEF MethodOK
    <2>3. \A d \in Calls : d # c => target'[d] = target[d]
      BY <2>1 DEF Inv, TypeInv, TypeOK
    <2>4. UNCHANGED BoundTo
      BY <2>1, <2>2, <2>3 DEF BoundTo
    <2>5. QED
      BY <2>1, <2>4, GotoMaps DEF Session!vars
  <1>5. CASE SpawnFails(c)
    <2>1. /\ pc[c] = "spawn" /\ Respond(c, c, "core_error", None)
          /\ UNCHANGED <<method, target, active>>
      BY <1>5 DEF SpawnFails
    <2>2. method[c] = "start" /\ Session!Open(c)
      BY <1>0, <2>1, OpenCall DEF MethodOK
    <2>3. Session!Answer(c, "core_error", None) /\ UNCHANGED PastSessions
      BY <2>1, AnswerMaps
    <2>4. Session!FailStart(c, "core_error")
      BY <2>1, <2>2, <2>3, BoundKept DEF Session!FailStart
    <2>5. QED
      BY <2>4 DEF Session!Next
  <1>6. CASE StopBackend(c)
    <2>1. pc[c] = "stop" /\ UNCHANGED method
      BY <1>6 DEF StopBackend
    <2>2. method[c] = "stop" /\ Session!Open(c) /\ BoundTo[c] = None
      BY <1>0, <2>1, OpenCall, BoundBefore DEF MethodOK
    <2>3. CASE active # None
      <3>1. /\ Goto(c, "takeId") /\ UNCHANGED reply /\ active' = None
            /\ target' = [target EXCEPT ![c] = active]
        BY <1>6, <2>3 DEF StopBackend, StopTakesState
      <3>2. BoundTo' = [BoundTo EXCEPT ![c] = active] /\ UNCHANGED <<AnswerOf, PastSessions>>
        BY <2>1, <2>2, <3>1, BindMaps, GotoMaps
      <3>3. Session!TakeForStop(c)
        BY <2>1, <2>2, <2>3, <3>1, <3>2 DEF Session!TakeForStop
      <3>4. QED
        BY <3>3 DEF Session!Next
    <2>4. CASE active = None
      <3>1. Respond(c, c, "not_stopped", None) /\ UNCHANGED <<target, active>>
        BY <1>6, <2>4 DEF StopBackend
      <3>2. Session!Answer(c, "not_stopped", None) /\ UNCHANGED PastSessions
        BY <2>1, <3>1, AnswerMaps
      <3>3. Session!NothingToStop(c)
        BY <2>1, <2>2, <2>4, <3>1, <3>2, BoundKept DEF Session!NothingToStop
      <3>4. QED
        BY <3>3 DEF Session!Next
    <2>5. QED
      BY <2>3, <2>4
  <1>7. CASE ForwardToBackend(c)
    <2>1. pc[c] = "forward" /\ UNCHANGED <<method, active>>
      BY <1>7 DEF ForwardToBackend
    <2>2. method[c] = "forward" /\ Session!Open(c) /\ BoundTo[c] = None
      BY <1>0, <2>1, OpenCall, BoundBefore DEF MethodOK
    <2>3. CASE active # None
      <3>1. Goto(c, "takeId") /\ UNCHANGED reply /\ target' = [target EXCEPT ![c] = active]
        BY <1>7, <2>3 DEF ForwardToBackend
      <3>2. BoundTo' = [BoundTo EXCEPT ![c] = active] /\ UNCHANGED <<AnswerOf, PastSessions>>
        BY <2>1, <2>2, <3>1, BindMaps, GotoMaps
      <3>3. Session!BindForward(c)
        BY <2>1, <2>2, <2>3, <3>1, <3>2 DEF Session!BindForward
      <3>4. QED
        BY <3>3 DEF Session!Next
    <2>4. CASE active = None
      <3>1. Respond(c, c, "core_error", None) /\ UNCHANGED target
        BY <1>7, <2>4 DEF ForwardToBackend
      <3>2. Session!Answer(c, "core_error", None) /\ UNCHANGED PastSessions
        BY <2>1, <3>1, AnswerMaps
      <3>3. Session!FailForward(c)
        BY <2>1, <2>2, <2>4, <3>1, <3>2, BoundKept DEF Session!FailForward
      <3>4. QED
        BY <3>3 DEF Session!Next
    <2>5. QED
      BY <2>3, <2>4
  <1>8. CASE StartFinish(c)
    <2>1. method[c] = "start" /\ pc[c] \in {"await", "failed"} /\ UNCHANGED <<method, target>>
      BY <1>8 DEF StartFinish, Answered, Failed
    <2>2. Session!Open(c) /\ target[c] = c /\ active = None
      BY <1>0, <2>1, OpenCall, CoreAssumption DEF MethodOK, LockOK, TargetOK, InRequest
    <2>3. CASE StartSucceeds(c)
      <3>1. Respond(c, c, "started", c) /\ active' = c
        BY <1>8, <2>2, <2>3 DEF StartFinish
      <3>2. Session!Answer(c, "started", c) /\ PastSessions' = PastSessions \union {c}
        BY <2>1, <3>1, AnswerMaps
      <3>3. c \notin PastSessions
        BY <1>0, <2>1 DEF PastSessions, Started, OpenOK, NoReply
      <3>4. Session!Activate(c)
        BY <2>1, <2>2, <3>1, <3>2, <3>3, BoundKept DEF Session!Activate
      <3>5. QED
        BY <3>4 DEF Session!Next
    <2>4. CASE ~ StartSucceeds(c)
      <3>1. PICK code \in {"backend_hello_failed", "core_error"} :
              Respond(c, c, code, None) /\ UNCHANGED active
        BY <1>8, <2>4 DEF StartFinish
      <3>2. Session!Answer(c, code, None) /\ UNCHANGED PastSessions
        BY <2>1, <3>1, AnswerMaps
      <3>3. Session!FailStart(c, code)
        BY <2>1, <2>2, <3>1, <3>2, BoundKept DEF Session!FailStart
      <3>4. QED
        BY <3>3 DEF Session!Next
    <2>5. QED
      BY <2>3, <2>4
  <1>9. CASE StopFinish(c)
    <2>1. /\ method[c] = "stop" /\ pc[c] \in {"await", "failed"}
          /\ Respond(c, c, "stopped", target[c]) /\ UNCHANGED <<method, target, active>>
      BY <1>9 DEF StopFinish, Answered, Failed
    <2>2. Session!Open(c) /\ BoundTo[c] = target[c] /\ BoundTo[c] # None
      BY <1>0, <2>1, OpenCall, BoundAfter DEF MethodOK, InRequest
    <2>3. Session!Answer(c, "stopped", BoundTo[c]) /\ UNCHANGED PastSessions
      BY <2>1, <2>2, AnswerMaps
    <2>4. Session!FinishStop(c)
      BY <2>1, <2>2, <2>3, BoundKept DEF Session!FinishStop
    <2>5. QED
      BY <2>4 DEF Session!Next
  <1>10. CASE ForwardFinish(c)
    <2>1. /\ method[c] = "forward" /\ pc[c] \in {"await", "failed"}
          /\ UNCHANGED <<method, target, active>>
      BY <1>10 DEF ForwardFinish, Answered, Failed
    <2>2. Session!Open(c) /\ BoundTo[c] # None
      BY <1>0, <2>1, OpenCall, BoundAfter DEF MethodOK, InRequest
    <2>3. CASE Answered(c) /\ Respond(c, c, "forwarded", inbox[c].body)
      <3>1. inbox[c].body = c
        BY <1>0, <2>3 DEF Answered, InboxOwn
      <3>2. Session!Answer(c, "forwarded", c) /\ UNCHANGED PastSessions
        BY <2>1, <2>3, <3>1, AnswerMaps
      <3>3. Session!FinishForward(c)
        BY <2>1, <2>2, <3>2, BoundKept DEF Session!FinishForward
      <3>4. QED
        BY <3>3 DEF Session!Next
    <2>4. CASE Respond(c, c, "core_error", None)
      <3>1. Session!Answer(c, "core_error", None) /\ UNCHANGED PastSessions
        BY <2>1, <2>4, AnswerMaps
      <3>2. Session!FailForward(c)
        BY <2>1, <2>2, <3>1, BoundKept DEF Session!FailForward
      <3>3. QED
        BY <3>2 DEF Session!Next
    <2>5. QED
      BY <1>10, <2>3, <2>4 DEF ForwardFinish, ForwardedId
  <1>11. QED
    BY <1>1, <1>2, <1>3, <1>4, <1>5, <1>6, <1>7, <1>8, <1>9, <1>10 DEF Task

(* What backends and reader tasks do is invisible to the service.            *)
LEMMA ProcMaps ==
  ASSUME UNCHANGED <<pc, method, target, reply, active>>
  PROVE  UNCHANGED Session!vars
  BY DEF Session!vars, PastSessions, Started, BoundTo, AnswerOf

(* The core keeps what BackendSession promises to front ends: one session at *)
(* a time, and every call answered once, with an answer that is true of the  *)
(* session while the call is open (core.rs:93-170).                          *)
THEOREM CoreImplementsSession == Spec => SessionSpec
  <1>1. Inv /\ [Next]_vars => [Session!Next]_(Session!vars)
    <2> SUFFICES ASSUME Inv, [Next]_vars PROVE Session!Next \/ UNCHANGED Session!vars
      OBVIOUS
    <2>1. CASE UNCHANGED vars
      BY <2>1, ProcMaps DEF vars, taskVars, stateVars
    <2>2. QED
      BY <2>1, FrontendMaps, TaskMaps, ProcQuiet, ProcMaps DEF Next
  <1>2. QED
    BY <1>1, InitMaps, SpecInv, PTL DEF Spec, SessionSpec, Session!Spec
-------------------------------------------------------------------------------
(* Places: what the place of a task in the code says of its process, of its  *)
(* entry in the pending map and of its inbox.                                *)
SpawnPlace == \A c \in Calls : pc[c] \in {"idle", "start", "spawn"} => status[c] = "none"
HeldSpawned ==
  /\ active # None => status[active] # "none"
  /\ \A c \in Calls : target[c] # None => status[target[c]] # "none"
FailedGone == \A c \in Calls : pc[c] = "failed" => status[target[c]] = "exited"

Entry(c) == [id |-> rid[c], call |-> c]
WritePlace == \A c \in Calls : pc[c] = "write" => Entry(c) \in pending[target[c]]
InboxPlace == \A c \in Calls : inbox[c] # NoResponse => pc[c] \in {"await", "done"}
PendingPlace ==
  \A p \in Procs : \A e \in pending[p] :
    /\ inbox[e.call] = NoResponse
    /\ pc[e.call] \in {"write", "await"} \/ status[p] = "exited"

PlaceInv ==
  SpawnPlace /\ HeldSpawned /\ FailedGone /\ WritePlace /\ InboxPlace /\ PendingPlace

(* Flight: a line between the core and a process belongs to a call that      *)
(* waits, has its sender in the pending map, and is the only one of it.      *)
Once(s) == \A i, j \in DOMAIN s : s[i].body = s[j].body => i = j

FlightWaits == \A p \in Procs : \A r \in InFlight(p) : pc[r.body] = "await"
FlightOnce ==
  \A p \in Procs :
    /\ Once(stdin[p]) /\ Once(stdout[p])
    /\ \A r, s \in held[p] : r.body = s.body => r = s
    /\ \A r \in ToSet(stdin[p]) : \A s \in held[p] \union ToSet(stdout[p]) : r.body # s.body
    /\ \A r \in held[p] : \A s \in ToSet(stdout[p]) : r.body # s.body

FlightInv == FlightWaits /\ AnswerHasReceiver /\ FlightOnce

(* Ownership: a process that a stop or forward call holds, or that is the    *)
(* active one, was started, and what was started has accepted hello.         *)
UsedStarted ==
  /\ active # None => Started(active)
  /\ \A c \in Calls : method[c] \in {"stop", "forward"} /\ target[c] # None => Started(target[c])
StartedAccepted == \A p \in Procs : Started(p) => inbox[p].ok

OwnerInv == UsedStarted /\ StartedAccepted /\ HandshakeFirst /\ StopOwnsProcess /\ NoOrphans

LEMMA InitFlow == Init => PlaceInv /\ FlightInv /\ OwnerInv
  <1> SUFFICES ASSUME Init PROVE PlaceInv /\ FlightInv /\ OwnerInv
    OBVIOUS
  <1>1. PlaceInv
    BY DEF Init, PlaceInv, SpawnPlace, HeldSpawned, FailedGone, WritePlace, InboxPlace, PendingPlace
  <1>2. \A p \in Procs : InFlight(p) = {}
    BY ToSetEmpty DEF Init, InFlight
  <1>3. FlightInv
    <2>1. FlightOnce
      BY ToSetEmpty DEF Init, FlightOnce, Once
    <2>2. QED
      BY <1>2, <2>1 DEF FlightInv, FlightWaits, AnswerHasReceiver
  <1>4. OwnerInv
    BY <1>2 DEF Init, OwnerInv, UsedStarted, StartedAccepted, HandshakeFirst, StopOwnsProcess,
                NoOrphans, Started, NoReply, InFlight
  <1>5. QED
    BY <1>1, <1>3, <1>4

-------------------------------------------------------------------------------
(* Places.                                                                   *)

(* A step of call c that does not touch pending maps or inboxes.             *)
LEMMA PlaceStep ==
  ASSUME TypeInv, PlaceInv, NEW c \in Calls, NEW label,
         \A d \in Calls : pc'[d] = IF d = c THEN label ELSE pc[d],
         \A d \in Calls : d # c => target'[d] = target[d] /\ rid'[d] = rid[d],
         UNCHANGED <<pending, inbox>>,
         \A p \in Procs : /\ status[p] # "none" => status'[p] # "none"
                          /\ status[p] = "exited" => status'[p] = "exited"
                          /\ p # c /\ status[p] = "none" => status'[p] = "none",
         label \in {"idle", "start", "spawn"} => status'[c] = "none",
         active' # None => status'[active'] # "none",
         target'[c] \in Procs \union {None},
         target'[c] # None => status'[target'[c]] # "none",
         label = "failed" => status'[target'[c]] = "exited",
         label # "write",
         inbox[c] # NoResponse => label \in {"await", "done"},
         pc[c] \in {"write", "await"} =>
            \/ label = "await" \/ inbox[c] # NoResponse \/ status'[target[c]] = "exited",
         PendingOwn
  PROVE  PlaceInv'
  <1>0. \A d \in Calls : target[d] \in Procs \union {None}
    BY DEF TypeInv, TypeOK
  <1>1. SpawnPlace'
    BY DEF PlaceInv, SpawnPlace
  <1>2. HeldSpawned'
    BY <1>0 DEF PlaceInv, HeldSpawned
  <1>3. FailedGone'
    BY <1>0 DEF PlaceInv, FailedGone, TypeInv, TaskOK
  <1>4. WritePlace'
    BY DEF PlaceInv, WritePlace, Entry
  <1>5. InboxPlace'
    BY DEF PlaceInv, InboxPlace
  <1>6. PendingPlace'
    <2>1. ASSUME NEW p \in Procs, NEW e \in pending[p]
          PROVE  pc'[e.call] \in {"write", "await"} \/ status'[p] = "exited"
      <3>1. /\ e.call \in Calls /\ target[e.call] = p /\ inbox[e.call] = NoResponse
            /\ pc[e.call] \in {"write", "await"} \/ status[p] = "exited"
        BY DEF PendingOwn, Belongs, PlaceInv, PendingPlace, TypeInv, TypeOK, Sender
      <3>2. QED
        BY <3>1
    <2>2. QED
      BY <2>1 DEF PlaceInv, PendingPlace
  <1>7. QED
    BY <1>1, <1>2, <1>3, <1>4, <1>5, <1>6 DEF PlaceInv

(* Processes exit and read and write their pipes.                            *)
LEMMA PlaceProc ==
  ASSUME TypeInv, PlaceInv, UNCHANGED <<pc, target, rid, inbox, pending, active>>,
         \A p \in Procs : status'[p] = status[p] \/ (status[p] = "alive" /\ status'[p] = "exited")
  PROVE  PlaceInv'
  <1>0. active \in Procs \union {None} /\ \A d \in Calls : target[d] \in Procs \union {None}
    BY DEF TypeInv, TypeOK
  <1>1. SpawnPlace' /\ HeldSpawned' /\ WritePlace' /\ InboxPlace'
    BY <1>0 DEF PlaceInv, SpawnPlace, HeldSpawned, WritePlace, InboxPlace, Entry
  <1>2. FailedGone'
    BY DEF PlaceInv, FailedGone, TypeInv, TaskOK
  <1>3. PendingPlace'
    BY DEF PlaceInv, PendingPlace
  <1>4. QED
    BY <1>1, <1>2, <1>3 DEF PlaceInv

(* An answer that ends the task of c.                                        *)
LEMMA PlaceRespond ==
  ASSUME TypeInv, PlaceInv, PendingOwn, NEW c \in Calls, NEW code, NEW from,
         Respond(c, c, code, from), UNCHANGED <<target, rid, inbox, procVars>>,
         active' \in {active, None, target[c]},
         pc[c] \in {"write", "await"} => inbox[c] # NoResponse
  PROVE  PlaceInv'
  <1>1. \A d \in Calls : pc'[d] = IF d = c THEN "done" ELSE pc[d]
    BY DEF Respond, Goto, TypeInv, TypeOK
  <1>2. /\ target[c] \in Procs \union {None}
        /\ target[c] # None => status[target[c]] # "none"
        /\ active' # None => status[active'] # "none"
    BY DEF TypeInv, TypeOK, PlaceInv, HeldSpawned
  <1>3. UNCHANGED <<pending, inbox, status, target, rid>>
    BY DEF procVars
  <1> HIDE DEF Respond
  <1>4. QED
    BY <1>1, <1>2, <1>3, PlaceStep

LEMMA TaskPlace ==
  ASSUME TypeInv, RouteInv, SessionInv, PlaceInv, NEW c \in Calls, Task(c)
  PROVE  PlaceInv'
  <1> USE DEF taskVars, stateVars
  <1>0. /\ PendingOwn /\ active \in Calls \union {None} /\ SpawnPlace /\ HeldSpawned
        /\ FailedGone /\ WritePlace /\ InboxPlace /\ PendingPlace
        /\ \A d \in Calls : target[d] \in Procs \union {None}
    BY DEF RouteInv, TypeInv, TypeOK, PlaceInv
  <1>1. CASE BackendStatus(c)
    BY <1>0, <1>1, PlaceRespond DEF BackendStatus
  <1>2. CASE StartBackend(c)
    <2>1. CASE active # None
      BY <1>0, <1>2, <2>1, PlaceRespond DEF StartBackend
    <2>2. CASE active = None
      <3>1. /\ pc[c] = "start" /\ pc' = [pc EXCEPT ![c] = "spawn"] /\ target[c] = None
            /\ UNCHANGED <<target, rid, inbox, active, pending, status>>
        BY <1>2, <2>2 DEF StartBackend, Goto, procVars, SessionInv, TargetOK
      <3>2. \A d \in Calls : pc'[d] = IF d = c THEN "spawn" ELSE pc[d]
        BY <3>1 DEF TypeInv, TypeOK
      <3>3. QED
        BY <1>0, <2>2, <3>1, <3>2, PlaceStep DEF SpawnPlace, InboxPlace
    <2>3. QED
      BY <2>1, <2>2
  <1>3. CASE Spawn(c)
    <2>1. /\ pc[c] = "spawn" /\ pc' = [pc EXCEPT ![c] = "takeId"] /\ status[c] = "none"
          /\ target' = [target EXCEPT ![c] = c] /\ status' = [status EXCEPT ![c] = "alive"]
          /\ UNCHANGED <<rid, inbox, active, pending>>
      BY <1>0, <1>3 DEF Spawn, Goto, SpawnPlace
    <2>a. \A d \in Calls : pc'[d] = IF d = c THEN "takeId" ELSE pc[d]
      BY <2>1 DEF TypeInv, TypeOK
    <2>b. \A d \in Calls : target'[d] = IF d = c THEN c ELSE target[d]
      BY <2>1 DEF TypeInv, TypeOK
    <2>2. \A d \in Calls : status'[d] = IF d = c THEN "alive" ELSE status[d]
      BY <2>1 DEF TypeInv, TypeOK
    <2>3. inbox[c] = NoResponse
      BY <1>0, <2>1 DEF InboxPlace
    <2>4. active' # None => status'[active'] # "none"
      BY <1>0, <2>1, <2>2 DEF HeldSpawned
    <2>5. QED
      BY <1>0, <2>1, <2>a, <2>b, <2>2, <2>3, <2>4, PlaceStep
  <1>4. CASE SpawnFails(c)
    BY <1>0, <1>4, PlaceRespond DEF SpawnFails
  <1>5. CASE StopBackend(c) \/ ForwardToBackend(c)
    <2>1. CASE active # None
      <3>1. /\ pc[c] \in {"stop", "forward"} /\ pc' = [pc EXCEPT ![c] = "takeId"]
            /\ target' = [target EXCEPT ![c] = active] /\ active' \in {active, None}
            /\ UNCHANGED <<rid, inbox, pending, status>>
        BY <1>5, <2>1 DEF StopBackend, StopTakesState, ForwardToBackend, Goto, procVars
      <3>a. \A d \in Calls : pc'[d] = IF d = c THEN "takeId" ELSE pc[d]
        BY <3>1 DEF TypeInv, TypeOK
      <3>2. \A d \in Calls : target'[d] = IF d = c THEN active ELSE target[d]
        BY <3>1 DEF TypeInv, TypeOK
      <3>3. inbox[c] = NoResponse
        BY <1>0, <3>1 DEF InboxPlace
      <3>4. QED
        BY <1>0, <2>1, <3>1, <3>a, <3>2, <3>3, PlaceStep DEF HeldSpawned
    <2>2. CASE active = None
      BY <1>0, <1>5, <2>2, PlaceRespond DEF StopBackend, ForwardToBackend
    <2>3. QED
      BY <2>1, <2>2
  <1>6. CASE RequestTakeId(c)
    <2>1. /\ pc[c] = "takeId" /\ pc' = [pc EXCEPT ![c] = "register"]
          /\ \A d \in Calls : d # c => rid'[d] = rid[d]
          /\ UNCHANGED <<target, inbox, active, pending, status>>
      BY <1>6 DEF RequestTakeId, After, Goto, TypeInv, TypeOK
    <2>2. \A d \in Calls : pc'[d] = IF d = c THEN "register" ELSE pc[d]
      BY <2>1 DEF TypeInv, TypeOK
    <2>3. inbox[c] = NoResponse
      BY <1>0, <2>1 DEF InboxPlace
    <2>4. QED
      BY <1>0, <2>1, <2>2, <2>3, PlaceStep DEF HeldSpawned
  <1>7. CASE RequestRegister(c)
    <2>1. /\ pc[c] = "register" /\ target[c] \in Procs
          /\ UNCHANGED <<target, rid, inbox, active, status>>
      BY <1>7 DEF RequestRegister, TypeInv, TaskOK
    <2>2. \A d \in Calls : pc'[d] = IF d = c THEN "write" ELSE pc[d]
      BY <1>7 DEF RequestRegister, After, Goto, TypeInv, TypeOK
    <2>3. \A p \in Procs : pending'[p] = IF p = target[c] THEN Insert(pending[p], rid[c], c)
                                                           ELSE pending[p]
      BY <1>7, <2>1 DEF RequestRegister, TypeInv, TypeOK
    <2>4. inbox[c] = NoResponse
      BY <1>0, <2>1 DEF InboxPlace
    <2>5. SpawnPlace' /\ HeldSpawned' /\ FailedGone' /\ InboxPlace'
      BY <1>0, <2>1, <2>2, <2>4 DEF SpawnPlace, HeldSpawned, FailedGone, InboxPlace
    <2>6. WritePlace'
      <3>1. Entry(c) \in pending'[target[c]]
        BY <2>1, <2>3 DEF Insert, Entry
      <3>2. ASSUME NEW d \in Calls, d # c, pc[d] = "write" PROVE Entry(d) \in pending'[target[d]]
        <4>1. Entry(d) \in pending[target[d]] /\ target[d] \in Procs /\ rid[d] # 0
          BY <1>0, <3>2 DEF WritePlace, TypeInv, TaskOK
        <4>2. target[d] = target[c] => rid[d] # rid[c]
          BY <3>2, <4>1 DEF RouteInv, IdsDistinct
        <4>3. QED
          BY <2>3, <4>1, <4>2 DEF Insert, Entry
      <3>3. QED
        BY <2>1, <2>2, <3>1, <3>2 DEF WritePlace, Entry
    <2>7. PendingPlace'
      <3>1. \A p \in Procs : \A e \in pending'[p] :
              e \in pending[p] \/ e = [id |-> rid[c], call |-> c]
        BY <2>3 DEF Insert
      <3>2. \A p \in Procs : \A e \in pending[p] : e.call \in Calls
        BY DEF TypeInv, TypeOK, Sender
      <3>3. QED
        BY <1>0, <2>1, <2>2, <2>4, <3>1, <3>2 DEF PendingPlace
    <2>8. QED
      BY <2>5, <2>6, <2>7 DEF PlaceInv
  <1>8. CASE RequestWrite(c)
    <2>1. /\ pc[c] = "write" /\ target[c] \in Procs
          /\ UNCHANGED <<target, rid, inbox, active, status, pending>>
      BY <1>8 DEF RequestWrite, TypeInv, TaskOK
    <2>2. inbox[c] = NoResponse
      BY <1>0, <2>1 DEF InboxPlace
    <2>3. CASE status[target[c]] = "alive"
      <3>1. \A d \in Calls : pc'[d] = IF d = c THEN "await" ELSE pc[d]
        BY <1>8, <2>3 DEF RequestWrite, After, Goto, TypeInv, TypeOK
      <3>2. QED
        BY <1>0, <2>1, <2>2, <3>1, PlaceStep DEF HeldSpawned
    <2>4. CASE status[target[c]] # "alive"
      <3>1. \A d \in Calls : pc'[d] = IF d = c THEN "failed" ELSE pc[d]
        BY <1>8, <2>4 DEF RequestWrite, Goto, TypeInv, TypeOK
      <3>2. status[target[c]] = "exited"
        BY <1>0, <2>1, <2>4, CoreAssumption DEF HeldSpawned, TypeInv, TypeOK
      <3>3. QED
        BY <1>0, <2>1, <2>2, <3>1, <3>2, PlaceStep DEF HeldSpawned
    <2>5. QED
      BY <2>3, <2>4
  <1>9. CASE StartFinish(c)
    BY <1>0, <1>9, PlaceRespond DEF StartFinish, Answered, Failed
  <1>10. CASE StopFinish(c)
    <2>1. /\ target[c] \in Procs /\ pc[c] \in {"await", "failed"}
          /\ pc[c] = "await" => inbox[c] # NoResponse
          /\ UNCHANGED <<target, rid, inbox, active, pending>>
          /\ status' = [status EXCEPT ![target[c]] = "exited"]
      BY <1>10 DEF StopFinish, Kill, Exit, Answered, Failed, TypeInv, TaskOK
    <2>2. \A d \in Calls : pc'[d] = IF d = c THEN "done" ELSE pc[d]
      BY <1>10 DEF StopFinish, Respond, Goto, TypeInv, TypeOK
    <2>3. /\ status[target[c]] # "none"
          /\ \A p \in Procs : status'[p] = IF p = target[c] THEN "exited" ELSE status[p]
      BY <1>0, <2>1, CoreAssumption DEF HeldSpawned, TypeInv, TypeOK
    <2>4. QED
      BY <1>0, <2>1, <2>2, <2>3, PlaceStep DEF HeldSpawned
  <1>11. CASE ForwardFinish(c)
    BY <1>0, <1>11, PlaceRespond DEF ForwardFinish, ForwardedId, Answered, Failed
  <1>12. QED
    BY <1>1, <1>2, <1>3, <1>4, <1>5, <1>6, <1>7, <1>8, <1>9, <1>10, <1>11 DEF Task

(* The reader hands an answer to the one call whose entry it takes out.      *)
LEMMA ReaderDelivers ==
  ASSUME TypeInv, RouteInv, FlightInv, NEW p \in Procs, ReaderTake(p)
  PROVE  LET resp == Head(stdout[p]) IN
         /\ resp.body \in Calls /\ resp.id = rid[resp.body] /\ target[resp.body] = p
         /\ resp \in InFlight(p) /\ resp \in Response
         /\ \A d \in Calls : inbox'[d] = IF d = resp.body THEN resp ELSE inbox[d]
         /\ \A q \in Procs : pending'[q] = IF q = p THEN pending[p] \ {Entry(resp.body)}
                                                    ELSE pending[q]
         /\ Entry(resp.body) \in pending[p]
  <1> DEFINE resp == Head(stdout[p])
             hits == SendersFor(p, resp.id)
  <1>1. stdout[p] # <<>> /\ stdout[p] \in Seq(Response)
    BY DEF ReaderTake, TypeInv, TypeOK
  <1>2. resp \in Response /\ resp \in InFlight(p)
    BY <1>1, ToSetHeadTail DEF InFlight
  <1> HIDE DEF resp
  <1>3. resp.body \in Calls /\ resp.id = rid[resp.body] /\ target[resp.body] = p
    BY <1>2 DEF RouteInv, FlightOwn, Belongs, Response
  <1>4. Entry(resp.body) \in pending[p]
    BY <1>2, <1>3 DEF FlightInv, AnswerHasReceiver, Entry
  <1>5. hits = {Entry(resp.body)}
    <2>1. Entry(resp.body) \in hits
      BY <1>3, <1>4 DEF SendersFor, Entry
    <2>2. ASSUME NEW e \in hits PROVE e = Entry(resp.body)
      <3>1. e \in pending[p] /\ e.id = resp.id /\ e \in Sender /\ e.call \in Calls
        BY DEF SendersFor, TypeInv, TypeOK, Sender
      <3>2. rid[e.call] = e.id /\ target[e.call] = p /\ e.id # 0
        BY <3>1 DEF RouteInv, PendingOwn, Belongs
      <3>3. e.call = resp.body
        BY <1>3, <3>1, <3>2 DEF RouteInv, IdsDistinct
      <3>4. QED
        BY <1>3, <3>1, <3>3 DEF Entry, Sender
    <2>3. QED
      BY <2>1, <2>2
  <1>6. /\ pending' = [pending EXCEPT ![p] = @ \ hits]
        /\ inbox' = [d \in Calls |-> IF \E e \in hits : e.call = d THEN resp ELSE inbox[d]]
    BY DEF ReaderTake, Removed, resp
  <1> HIDE DEF hits
  <1>7. \A d \in Calls : inbox'[d] = IF d = resp.body THEN resp ELSE inbox[d]
    BY <1>5, <1>6 DEF Entry
  <1>8. \A q \in Procs : pending'[q] = IF q = p THEN pending[p] \ {Entry(resp.body)} ELSE pending[q]
    BY <1>5, <1>6 DEF TypeInv, TypeOK
  <1>9. QED
    BY <1>2, <1>3, <1>4, <1>7, <1>8 DEF resp

LEMMA ProcPlace ==
  ASSUME TypeInv, RouteInv, PlaceInv, FlightInv, NEW p \in Procs,
         Backend(p) \/ Crash(p) \/ Reader(p)
  PROVE  PlaceInv'
  <1> USE DEF taskVars, stateVars
  <1>1. CASE StdioServe(p) \/ TitanServe(p) \/ TitanEvent(p) \/ ReaderEof(p)
    BY <1>1, PlaceProc DEF StdioServe, TitanServe, TitanEvent, ReaderEof
  <1>2. CASE StdioEndOfInput(p) \/ TitanShutdown(p) \/ Crash(p)
    <2>1. /\ status[p] = "alive" /\ status' = [status EXCEPT ![p] = "exited"]
          /\ UNCHANGED <<pc, target, rid, inbox, pending, active>>
      BY <1>2 DEF StdioEndOfInput, TitanShutdown, Crash, Exit
    <2>2. \A q \in Procs : status'[q] = status[q] \/ (status[q] = "alive" /\ status'[q] = "exited")
      BY <2>1 DEF TypeInv, TypeOK
    <2>3. QED
      BY <2>1, <2>2, PlaceProc
  <1>3. CASE ReaderTake(p)
    <2> DEFINE resp == Head(stdout[p])
    <2>1. UNCHANGED <<pc, target, rid, active, status>>
      BY <1>3 DEF ReaderTake
    <2>2. /\ resp.body \in Calls /\ resp \in InFlight(p) /\ target[resp.body] = p
          /\ \A d \in Calls : inbox'[d] = IF d = resp.body THEN resp ELSE inbox[d]
          /\ \A q \in Procs : pending'[q] = IF q = p THEN pending[p] \ {Entry(resp.body)}
                                                     ELSE pending[q]
      BY <1>3, ReaderDelivers
    <2> HIDE DEF resp
    <2>3. pc[resp.body] = "await"
      BY <2>2 DEF FlightInv, FlightWaits
    <2>4. SpawnPlace' /\ HeldSpawned' /\ FailedGone' /\ InboxPlace'
      BY <2>1, <2>2, <2>3
         DEF PlaceInv, SpawnPlace, HeldSpawned, FailedGone, InboxPlace
    <2>5. WritePlace'
      <3>1. ASSUME NEW d \in Calls, pc[d] = "write" PROVE Entry(d) \in pending'[target[d]]
        <4>1. Entry(d) \in pending[target[d]] /\ target[d] \in Procs
          BY <3>1 DEF PlaceInv, WritePlace, TypeInv, TaskOK
        <4>2. Entry(d) # Entry(resp.body)
          BY <2>3, <3>1 DEF Entry
        <4>3. QED
          BY <2>2, <4>1, <4>2
      <3>2. QED
        BY <2>1, <3>1 DEF WritePlace, Entry
    <2>6. PendingPlace'
      <3>1. ASSUME NEW q \in Procs, NEW e \in pending'[q] PROVE e \in pending[q] /\ e.call # resp.body
        <4>1. e \in pending[q] /\ (q = p => e # Entry(resp.body))
          BY <2>2
        <4>2. /\ e \in Sender /\ e.call \in Calls
              /\ rid[e.call] = e.id /\ target[e.call] = q
          BY <4>1 DEF TypeInv, TypeOK, Sender, RouteInv, PendingOwn, Belongs
        <4>3. e = Entry(e.call)
          BY <4>2 DEF Entry, Sender
        <4>4. QED
          BY <2>2, <4>1, <4>2, <4>3
      <3>2. \A q \in Procs : \A e \in pending[q] : e.call \in Calls
        BY DEF TypeInv, TypeOK, Sender
      <3>3. QED
        BY <2>1, <2>2, <3>1, <3>2 DEF PlaceInv, PendingPlace
    <2>7. QED
      BY <2>4, <2>5, <2>6 DEF PlaceInv
  <1>4. QED
    BY <1>1, <1>2, <1>3 DEF Backend, Reader

LEMMA NextPlace ==
  TypeInv /\ RouteInv /\ SessionInv /\ PlaceInv /\ FlightInv /\ [Next]_vars => PlaceInv'
  <1> SUFFICES ASSUME TypeInv, RouteInv, SessionInv, PlaceInv, FlightInv, [Next]_vars
               PROVE  PlaceInv'
    OBVIOUS
  <1>1. ASSUME NEW c \in Calls, NEW m \in Methods, FrontendRequest(c, m) PROVE PlaceInv'
    <2>1. /\ pc[c] = "idle" /\ UNCHANGED <<target, rid, inbox, stateVars, procVars>> /\ PendingOwn
      BY <1>1 DEF FrontendRequest, RouteInv
    <2>2. CASE m = "hello"
      BY <1>1, <2>1, <2>2, PlaceRespond DEF FrontendRequest, stateVars
    <2>3. CASE m # "hello"
      <3>1. \A d \in Calls : pc'[d] = IF d = c THEN m ELSE pc[d]
        BY <1>1, <2>3 DEF FrontendRequest, Goto, TypeInv, TypeOK
      <3>2. m \in {"status", "start", "stop", "forward"} /\ inbox[c] = NoResponse
        BY <2>1, <2>3, CoreAssumption DEF PlaceInv, InboxPlace
      <3>3. /\ UNCHANGED <<target, rid, inbox, active, pending, status>>
            /\ target[c] \in Procs \union {None} /\ status[c] = "none"
            /\ active # None => status[active] # "none"
            /\ target[c] # None => status[target[c]] # "none"
        BY <2>1 DEF stateVars, procVars, TypeInv, TypeOK, PlaceInv, SpawnPlace, HeldSpawned
      <3>4. QED
        BY <2>1, <3>1, <3>2, <3>3, PlaceStep
    <2>4. QED
      BY <2>2, <2>3
  <1>2. CASE UNCHANGED vars
    BY <1>2, PlaceProc DEF vars, taskVars, stateVars, procVars
  <1>3. QED
    BY <1>1, <1>2, TaskPlace, ProcPlace DEF Next

-------------------------------------------------------------------------------
(* Flight.                                                                   *)

(* A pipe with one line per call: reading and writing keep it so.            *)
LEMMA OnceTail ==
  ASSUME NEW S, NEW s \in Seq(S), s # <<>>, Once(s)
  PROVE  /\ Once(Tail(s))
         /\ \A r \in ToSet(Tail(s)) : r.body # Head(s).body
  <1> DEFINE t == Tail(s)
  <1>1. /\ t \in Seq(S) /\ Len(t) = Len(s) - 1 /\ Head(s) = s[1]
        /\ \A i \in 1..Len(t) : t[i] = s[i + 1]
    BY HeadTailProperties
  <1>2. /\ DOMAIN t = 1..Len(t) /\ DOMAIN s = 1..Len(s)
        /\ Len(s) \in Nat /\ Len(s) > 0 /\ Len(t) \in Nat
    BY <1>1, LenProperties, EmptySeq
  <1> HIDE DEF t
  <1>3. \A i \in DOMAIN t : i + 1 \in DOMAIN s /\ t[i] = s[i + 1] /\ i \in Nat /\ i # 0
    BY <1>1, <1>2
  <1>4. Once(t)
    BY <1>3 DEF Once
  <1>5. \A i \in DOMAIN t : t[i].body # Head(s).body
    <2>1. 1 \in DOMAIN s
      BY <1>2
    <2>2. \A i \in DOMAIN t : s[i + 1].body # s[1].body
      BY <1>3, <2>1 DEF Once
    <2>3. QED
      BY <1>1, <1>3, <2>2
  <1>6. QED
    BY <1>4, <1>5 DEF ToSet, t

LEMMA OnceAppend ==
  ASSUME NEW S, NEW s \in Seq(S), NEW e \in S, Once(s), \A r \in ToSet(s) : r.body # e.body
  PROVE  Once(Append(s, e))
  <1> DEFINE t == Append(s, e)
  <1>1. /\ t \in Seq(S) /\ Len(t) = Len(s) + 1 /\ t[Len(s) + 1] = e
        /\ \A i \in 1..Len(s) : t[i] = s[i]
    BY AppendProperties
  <1>2. DOMAIN t = 1..(Len(s) + 1) /\ DOMAIN s = 1..Len(s) /\ Len(s) \in Nat
    BY <1>1, LenProperties
  <1>3. \A i \in DOMAIN s : s[i].body # e.body
    BY DEF ToSet
  <1> HIDE DEF t
  <1>4. \A i \in DOMAIN t : (i \in DOMAIN s /\ t[i] = s[i]) \/ (i = Len(s) + 1 /\ t[i] = e)
    BY <1>1, <1>2
  <1>5. Once(t)
    BY <1>3, <1>4 DEF Once
  <1>6. QED
    BY <1>5 DEF t

LEMMA OnceEmpty == Once(<<>>)
  BY DEF Once

(* No step of a task but a write, and none of a backend but an answer, puts  *)
(* anything new under way; a call that waits for its answer stays where it   *)
(* is.                                                                       *)
LEMMA FlightKept ==
  ASSUME TypeInv, PlaceInv, FlightInv, FlightOnce',
         \A c \in Calls : pc[c] = "await" /\ inbox[c] = NoResponse => pc'[c] = "await",
         \A p \in Procs : pending[p] \subseteq pending'[p],
         \A p \in Procs : \A r \in InFlight(p)' :
            \E r0 \in InFlight(p) : r0.id = r.id /\ r0.body = r.body
  PROVE  FlightInv'
  <1>1. ASSUME NEW p \in Procs, NEW r \in InFlight(p)'
        PROVE  pc'[r.body] = "await" /\ [id |-> r.id, call |-> r.body] \in pending'[p]
    <2>1. PICK r0 \in InFlight(p) : r0.id = r.id /\ r0.body = r.body
      OBVIOUS
    <2>2. /\ pc[r.body] = "await" /\ [id |-> r.id, call |-> r.body] \in pending[p]
          /\ r.body \in Calls
      BY <2>1, FlightType DEF FlightInv, FlightWaits, AnswerHasReceiver
    <2>3. inbox[r.body] = NoResponse
      BY <2>2 DEF PlaceInv, PendingPlace
    <2>4. QED
      BY <2>2, <2>3
  <1>2. QED
    BY <1>1 DEF FlightInv, FlightWaits, AnswerHasReceiver

LEMMA FlightQuiet ==
  ASSUME TypeInv, PlaceInv, FlightInv, UNCHANGED <<stdin, held, stdout>>,
         \A c \in Calls : pc[c] = "await" /\ inbox[c] = NoResponse => pc'[c] = "await",
         \A p \in Procs : pending[p] \subseteq pending'[p]
  PROVE  FlightInv'
  <1>1. \A p \in Procs : InFlight(p)' = InFlight(p)
    BY DEF InFlight
  <1>2. FlightOnce'
    BY DEF FlightInv, FlightOnce
  <1>3. QED
    BY <1>1, <1>2, FlightKept

LEMMA FlightExit ==
  ASSUME TypeInv, PlaceInv, FlightInv, NEW p \in Procs, Exit(p),
         \A c \in Calls : pc[c] = "await" /\ inbox[c] = NoResponse => pc'[c] = "await"
  PROVE  FlightInv'
  <1>1. /\ \A q \in Procs : /\ stdin'[q] = IF q = p THEN <<>> ELSE stdin[q]
                            /\ held'[q] = IF q = p THEN {} ELSE held[q]
        /\ UNCHANGED <<pending, stdout>>
    BY DEF Exit, TypeInv, TypeOK
  <1>2. \A q \in Procs : InFlight(q)' \subseteq InFlight(q)
    BY <1>1, ToSetEmpty DEF InFlight
  <1>3. FlightOnce'
    BY <1>1, ToSetEmpty, OnceEmpty DEF FlightInv, FlightOnce
  <1>4. QED
    BY <1>1, <1>2, <1>3, FlightKept

(* A process answers one of the requests it holds.                           *)
LEMMA FlightAnswer ==
  ASSUME TypeInv, PlaceInv, FlightInv, NEW p \in Procs, NEW req \in Request, NEW ok \in BOOLEAN,
         stdout' = [stdout EXCEPT ![p] = Append(@, ResponseTo(req, ok))],
         \A q \in Procs : q # p => stdin'[q] = stdin[q] /\ held'[q] = held[q],
         \/ /\ stdin[p] # <<>> /\ req = Head(stdin[p])
            /\ stdin'[p] = Tail(stdin[p]) /\ held'[p] = held[p]
         \/ /\ req \in held[p]
            /\ stdin'[p] = stdin[p] /\ held'[p] = {},
         UNCHANGED <<pc, inbox, pending>>
  PROVE  FlightInv'
  <1> DEFINE resp == ResponseTo(req, ok)
  <1>0. /\ stdin[p] \in Seq(Request) /\ stdout[p] \in Seq(Response) /\ resp \in Response
        /\ resp.id = req.id /\ resp.body = req.body
    BY ResponseType DEF TypeInv, TypeOK, ResponseTo
  <1>1. /\ stdout'[p] = Append(stdout[p], resp)
        /\ \A q \in Procs : q # p => stdout'[q] = stdout[q]
    BY DEF TypeInv, TypeOK
  <1> HIDE DEF resp
  <1>2. ToSet(stdout'[p]) = ToSet(stdout[p]) \union {resp}
    BY <1>0, <1>1, ToSetAppend
  <1>3. /\ Once(stdin[p]) /\ Once(stdout[p])
        /\ \A r, s \in held[p] : r.body = s.body => r = s
        /\ \A r \in ToSet(stdin[p]) : \A s \in held[p] \union ToSet(stdout[p]) : r.body # s.body
        /\ \A r \in held[p] : \A s \in ToSet(stdout[p]) : r.body # s.body
    BY DEF FlightInv, FlightOnce
  (* what is left to answer is of other calls                                *)
  <1>4. /\ req \in InFlight(p) /\ \A s \in ToSet(stdout[p]) : s.body # req.body
        /\ ToSet(stdin'[p]) \subseteq ToSet(stdin[p]) /\ held'[p] \subseteq held[p]
        /\ Once(stdin'[p])
        /\ \A r \in ToSet(stdin'[p]) \union held'[p] : r.body # req.body
    <2>1. CASE /\ stdin[p] # <<>> /\ req = Head(stdin[p])
               /\ stdin'[p] = Tail(stdin[p]) /\ held'[p] = held[p]
      <3>1. req \in ToSet(stdin[p]) /\ ToSet(stdin'[p]) \subseteq ToSet(stdin[p])
        BY <1>0, <2>1, ToSetHeadTail
      <3>2. Once(stdin'[p]) /\ \A r \in ToSet(stdin'[p]) : r.body # req.body
        BY <1>0, <1>3, <2>1, OnceTail
      <3>3. QED
        BY <1>3, <2>1, <3>1, <3>2 DEF InFlight
    <2>2. CASE req \in held[p] /\ stdin'[p] = stdin[p] /\ held'[p] = {}
      BY <1>3, <2>2 DEF InFlight
    <2>3. QED
      BY <2>1, <2>2
  <1>5. Once(stdout'[p])
    BY <1>0, <1>1, <1>3, <1>4, OnceAppend
  <1>6. FlightOnce'
    <2>1. /\ \A r, s \in held'[p] : r.body = s.body => r = s
          /\ \A r \in ToSet(stdin'[p]) : \A s \in held'[p] \union ToSet(stdout'[p]) : r.body # s.body
          /\ \A r \in held'[p] : \A s \in ToSet(stdout'[p]) : r.body # s.body
      BY <1>0, <1>2, <1>3, <1>4
    <2>2. QED
      BY <1>1, <1>4, <1>5, <2>1 DEF FlightInv, FlightOnce
  <1>7. ASSUME NEW q \in Procs, NEW r \in InFlight(q)'
        PROVE  \E r0 \in InFlight(q) : r0.id = r.id /\ r0.body = r.body
    <2>1. CASE q # p
      BY <1>1, <1>7, <2>1 DEF InFlight
    <2>2. CASE q = p
      <3>1. r \in InFlight(p) \/ r = resp
        BY <1>2, <1>4, <1>7, <2>2 DEF InFlight
      <3>2. QED
        BY <1>0, <1>4, <2>2, <3>1
    <2>3. QED
      BY <2>1, <2>2
  <1>8. QED
    BY <1>6, <1>7, FlightKept

(* The titan backend keeps a request until a debug event.                    *)
LEMMA FlightHold ==
  ASSUME TypeInv, PlaceInv, FlightInv, NEW p \in Procs, stdin[p] # <<>>,
         \A q \in Procs : /\ stdin'[q] = IF q = p THEN Tail(stdin[p]) ELSE stdin[q]
                          /\ held'[q] = IF q = p THEN {Head(stdin[p])} ELSE held[q],
         UNCHANGED <<pc, inbox, pending, stdout>>
  PROVE  FlightInv'
  <1> DEFINE req == Head(stdin[p])
  <1>1. /\ Once(stdin[p]) /\ Once(stdout[p])
        /\ \A r \in ToSet(stdin[p]) : \A s \in ToSet(stdout[p]) : r.body # s.body
    BY DEF FlightInv, FlightOnce
  <1>2. /\ req \in ToSet(stdin[p]) /\ ToSet(Tail(stdin[p])) \subseteq ToSet(stdin[p])
        /\ Once(Tail(stdin[p])) /\ \A r \in ToSet(Tail(stdin[p])) : r.body # req.body
    BY <1>1, ToSetHeadTail, OnceTail DEF TypeInv, TypeOK
  <1> HIDE DEF req
  <1>3. FlightOnce'
    <2>1. /\ Once(stdin'[p]) /\ Once(stdout'[p])
          /\ \A r, s \in held'[p] : r.body = s.body => r = s
          /\ \A r \in ToSet(stdin'[p]) : \A s \in held'[p] \union ToSet(stdout'[p]) : r.body # s.body
          /\ \A r \in held'[p] : \A s \in ToSet(stdout'[p]) : r.body # s.body
      BY <1>1, <1>2 DEF req
    <2>2. QED
      BY <2>1 DEF FlightInv, FlightOnce
  <1>4. \A q \in Procs : InFlight(q)' \subseteq InFlight(q)
    BY <1>2 DEF InFlight, req
  <1>5. QED
    BY <1>3, <1>4, FlightKept

(* A request is written: its sender has been in the pending map since the    *)
(* step before, and the call has no other line under way.                    *)
LEMMA FlightWrite ==
  ASSUME TypeInv, PlaceInv, FlightInv, NEW c \in Calls, RequestWrite(c)
  PROVE  FlightInv'
  <1> DEFINE req == [id |-> rid[c], meth |-> BackendMethod(method[c]), body |-> c]
  <1>1. /\ pc[c] = "write" /\ target[c] \in Procs /\ rid[c] # 0 /\ inbox' = inbox
        /\ UNCHANGED <<pending, held, stdout>> /\ Entry(c) \in pending[target[c]]
    BY DEF RequestWrite, TypeInv, TaskOK, PlaceInv, WritePlace
  <1>2. \A d \in Calls : d # c => pc'[d] = pc[d]
    BY DEF RequestWrite, Goto, TypeInv, TypeOK
  <1>3. CASE status[target[c]] # "alive"
    <2>1. UNCHANGED stdin
      BY <1>3 DEF RequestWrite
    <2>2. QED
      BY <1>1, <1>2, <2>1, FlightQuiet
  <1>4. CASE status[target[c]] = "alive"
    <2> DEFINE p == target[c]
    <2>1. /\ stdin' = [stdin EXCEPT ![p] = Append(stdin[p], req)] /\ pc'[c] = "await"
          /\ req \in Request /\ stdin[p] \in Seq(Request)
      BY <1>1, <1>4
         DEF RequestWrite, After, Goto, TypeInv, TypeOK, Request, BackendMethod, Ids
    <2>2. req.id = rid[c] /\ req.body = c
      OBVIOUS
    <2> HIDE DEF req
    <2>3. \A q \in Procs : stdin'[q] = IF q = p THEN Append(stdin[p], req) ELSE stdin[q]
      BY <1>1, <2>1 DEF TypeInv, TypeOK
    <2>4. ToSet(stdin'[p]) = ToSet(stdin[p]) \union {req}
      BY <1>1, <2>1, <2>3, ToSetAppend
    <2>5. \A q \in Procs : \A r \in InFlight(q) : r.body # c
      BY <1>1 DEF FlightInv, FlightWaits
    <2>6. FlightOnce'
      <3>1. Once(stdin'[p])
        <4>1. Once(stdin[p]) /\ \A r \in ToSet(stdin[p]) : r.body # req.body
          BY <1>1, <2>2, <2>5 DEF FlightInv, FlightOnce, InFlight
        <4>2. QED
          BY <1>1, <2>1, <2>3, <4>1, OnceAppend
      <3>2. \A r \in ToSet(stdin'[p]) : \A s \in held[p] \union ToSet(stdout[p]) : r.body # s.body
        BY <1>1, <2>2, <2>4, <2>5 DEF FlightInv, FlightOnce, InFlight
      <3>3. QED
        BY <1>1, <2>3, <3>1, <3>2 DEF FlightInv, FlightOnce
    <2>7. \A q \in Procs : \A r \in InFlight(q)' : r \in InFlight(q) \/ (q = p /\ r = req)
      BY <1>1, <2>3, <2>4 DEF InFlight
    <2>8. FlightWaits'
      BY <1>2, <2>1, <2>2, <2>5, <2>7, FlightType DEF FlightInv, FlightWaits
    <2>9. AnswerHasReceiver'
      BY <1>1, <2>2, <2>7 DEF FlightInv, AnswerHasReceiver, Entry
    <2>10. QED
      BY <2>6, <2>8, <2>9 DEF FlightInv
  <1>5. QED
    BY <1>3, <1>4

(* The reader takes a line; no other line of that call is left.              *)
LEMMA FlightTake ==
  ASSUME TypeInv, RouteInv, PlaceInv, FlightInv, NEW p \in Procs, ReaderTake(p)
  PROVE  FlightInv'
  <1> DEFINE resp == Head(stdout[p])
  <1>1. /\ stdout[p] # <<>> /\ stdout[p] \in Seq(Response)
        /\ UNCHANGED <<pc, stdin, held>>
        /\ \A q \in Procs : stdout'[q] = IF q = p THEN Tail(stdout[p]) ELSE stdout[q]
    BY DEF ReaderTake, TypeInv, TypeOK
  <1>2. /\ resp \in ToSet(stdout[p]) /\ ToSet(Tail(stdout[p])) \subseteq ToSet(stdout[p])
        /\ Once(Tail(stdout[p])) /\ \A r \in ToSet(Tail(stdout[p])) : r.body # resp.body
    BY <1>1, ToSetHeadTail, OnceTail DEF FlightInv, FlightOnce
  <1>3. \A q \in Procs : pending'[q] = IF q = p THEN pending[p] \ {Entry(resp.body)}
                                                ELSE pending[q]
    BY ReaderDelivers
  <1> HIDE DEF resp
  <1>4. FlightOnce'
    BY <1>1, <1>2 DEF FlightInv, FlightOnce
  <1>5. \A q \in Procs : InFlight(q)' \subseteq InFlight(q)
    BY <1>1, <1>2 DEF InFlight
  <1>6. FlightWaits'
    BY <1>1, <1>5 DEF FlightInv, FlightWaits
  <1>7. AnswerHasReceiver'
    <2>1. ASSUME NEW q \in Procs, NEW r \in InFlight(q)'
          PROVE  [id |-> r.id, call |-> r.body] \in pending'[q]
      <3>1. [id |-> r.id, call |-> r.body] \in pending[q]
        BY <1>5, <2>1 DEF FlightInv, AnswerHasReceiver
      <3>2. CASE q # p
        BY <1>3, <3>1, <3>2
      <3>3. CASE q = p
        <4>1. r.body # resp.body
          BY <1>1, <1>2, <2>1, <3>3 DEF InFlight, FlightInv, FlightOnce
        <4>2. [id |-> r.id, call |-> r.body] # Entry(resp.body)
          BY <4>1 DEF Entry
        <4>3. QED
          BY <1>3, <3>1, <3>3, <4>2
      <3>4. QED
        BY <3>2, <3>3
    <2>2. QED
      BY <2>1 DEF AnswerHasReceiver
  <1>8. QED
    BY <1>4, <1>6, <1>7 DEF FlightInv

LEMMA TaskFlight ==
  ASSUME TypeInv, RouteInv, PlaceInv, FlightInv, NEW c \in Calls, Task(c)
  PROVE  FlightInv'
  <1> USE DEF taskVars, stateVars, procVars
  <1>1. ASSUME NEW label, pc' = [pc EXCEPT ![c] = label], UNCHANGED <<stdin, held, stdout, pending>>,
               pc[c] # "await" \/ inbox[c] # NoResponse
        PROVE  FlightInv'
    <2>1. \A d \in Calls : d # c => pc'[d] = pc[d]
      BY <1>1 DEF TypeInv, TypeOK
    <2>2. QED
      BY <1>1, <2>1, FlightQuiet
  <1>2. CASE BackendStatus(c) \/ StartBackend(c) \/ Spawn(c) \/ SpawnFails(c) \/ StopBackend(c)
               \/ ForwardToBackend(c) \/ RequestTakeId(c) \/ StartFinish(c) \/ ForwardFinish(c)
    BY <1>1, <1>2
       DEF BackendStatus, StartBackend, Spawn, SpawnFails, StopBackend, ForwardToBackend,
           RequestTakeId, StartFinish, ForwardFinish, Respond, Goto, Answered, Failed
  <1>3. CASE RequestRegister(c)
    <2>1. /\ pc[c] = "register" /\ target[c] \in Procs /\ UNCHANGED <<stdin, held, stdout>>
          /\ \A d \in Calls : d # c => pc'[d] = pc[d]
          /\ \A p \in Procs : pending'[p] = IF p = target[c] THEN Insert(pending[p], rid[c], c)
                                                             ELSE pending[p]
      BY <1>3 DEF RequestRegister, Goto, TypeInv, TypeOK, TaskOK
    <2>2. ASSUME NEW e \in pending[target[c]] PROVE e \in Insert(pending[target[c]], rid[c], c)
      <3>1. /\ e \in Sender /\ e.call \in Calls /\ e.id # 0
            /\ rid[e.call] = e.id /\ target[e.call] = target[c]
        BY <2>1 DEF TypeInv, TypeOK, Sender, RouteInv, PendingOwn, Belongs
      <3>2. e.id = rid[c] => e.call = c
        BY <3>1 DEF RouteInv, IdsDistinct
      <3>3. QED
        BY <3>1, <3>2 DEF Insert, Sender
    <2>3. QED
      BY <2>1, <2>2, FlightQuiet
  <1>4. CASE RequestWrite(c)
    BY <1>4, FlightWrite
  <1>5. CASE StopFinish(c)
    <2>1. /\ target[c] \in Procs /\ Exit(target[c])
          /\ pc[c] = "await" => inbox[c] # NoResponse
          /\ \A d \in Calls : d # c => pc'[d] = pc[d]
      BY <1>5 DEF StopFinish, Kill, Respond, Goto, Answered, Failed, TypeInv, TypeOK, TaskOK
    <2>2. QED
      BY <2>1, FlightExit
  <1>6. QED
    BY <1>2, <1>3, <1>4, <1>5 DEF Task

LEMMA ProcFlight ==
  ASSUME TypeInv, RouteInv, PlaceInv, FlightInv, NEW p \in Procs,
         Backend(p) \/ Crash(p) \/ Reader(p)
  PROVE  FlightInv'
  <1> USE DEF taskVars, stateVars, procVars
  <1>0. stdin[p] \in Seq(Request)
    BY DEF TypeInv, TypeOK
  <1>1. CASE StdioServe(p)
    <2>1. /\ stdin[p] # <<>> /\ Head(stdin[p]) \in Request
          /\ UNCHANGED <<pc, inbox, pending, held>>
          /\ \A q \in Procs : stdin'[q] = IF q = p THEN Tail(stdin[p]) ELSE stdin[q]
      BY <1>0, <1>1, ToSetHeadTail DEF StdioServe, TypeInv, TypeOK
    <2>2. PICK ok \in BOOLEAN :
            stdout' = [stdout EXCEPT ![p] = Append(@, ResponseTo(Head(stdin[p]), ok))]
      BY <1>1 DEF StdioServe, Verdicts
    <2>3. QED
      BY <2>1, <2>2, FlightAnswer
  <1>2. CASE StdioEndOfInput(p) \/ TitanShutdown(p) \/ Crash(p)
    <2>1. Exit(p) /\ UNCHANGED pc
      BY <1>2 DEF StdioEndOfInput, TitanShutdown, Crash
    <2>2. QED
      BY <2>1, FlightExit
  <1>3. CASE TitanServe(p)
    <2>1. /\ stdin[p] # <<>> /\ Head(stdin[p]) \in Request
          /\ UNCHANGED <<pc, inbox, pending>>
          /\ \A q \in Procs : stdin'[q] = IF q = p THEN Tail(stdin[p]) ELSE stdin[q]
      BY <1>0, <1>3, ToSetHeadTail DEF TitanServe, TypeInv, TypeOK
    <2>2. CASE /\ stdout' = [stdout EXCEPT ![p] = Append(@, ResponseTo(Head(stdin[p]), TRUE))]
               /\ UNCHANGED held
      BY <2>1, <2>2, FlightAnswer
    <2>3. CASE held' = [held EXCEPT ![p] = {Head(stdin[p])}] /\ UNCHANGED stdout
      <3>1. \A q \in Procs : held'[q] = IF q = p THEN {Head(stdin[p])} ELSE held[q]
        BY <2>3 DEF TypeInv, TypeOK
      <3>2. QED
        BY <2>1, <2>3, <3>1, FlightHold
    <2>4. QED
      BY <1>3, <2>2, <2>3 DEF TitanServe
  <1>4. CASE TitanEvent(p)
    <2>1. /\ UNCHANGED <<pc, inbox, pending, stdin>>
          /\ \A q \in Procs : held'[q] = IF q = p THEN {} ELSE held[q]
      BY <1>4 DEF TitanEvent, TypeInv, TypeOK
    <2>2. PICK req \in held[p] :
            stdout' = [stdout EXCEPT ![p] = Append(@, ResponseTo(req, TRUE))]
      BY <1>4 DEF TitanEvent
    <2>3. req \in Request
      BY <2>2 DEF TypeInv, TypeOK
    <2>4. QED
      BY <2>1, <2>2, <2>3, FlightAnswer
  <1>5. CASE ReaderTake(p)
    BY <1>5, FlightTake
  <1>6. CASE ReaderEof(p)
    BY <1>6, FlightQuiet DEF ReaderEof
  <1>7. QED
    BY <1>1, <1>2, <1>3, <1>4, <1>5, <1>6 DEF Backend, Reader

LEMMA NextFlight ==
  TypeInv /\ RouteInv /\ PlaceInv /\ FlightInv /\ [Next]_vars => FlightInv'
  <1> SUFFICES ASSUME TypeInv, RouteInv, PlaceInv, FlightInv, [Next]_vars PROVE FlightInv'
    OBVIOUS
  <1>1. ASSUME NEW c \in Calls, NEW m \in Methods, FrontendRequest(c, m) PROVE FlightInv'
    <2>1. /\ pc[c] = "idle" /\ UNCHANGED <<stdin, held, stdout, pending>>
          /\ \A d \in Calls : d # c => pc'[d] = pc[d]
      BY <1>1 DEF FrontendRequest, Respond, Goto, procVars, TypeInv, TypeOK
    <2>2. QED
      BY <2>1, FlightQuiet
  <1>2. CASE UNCHANGED vars
    BY <1>2, FlightQuiet DEF vars, taskVars, stateVars, procVars
  <1>3. QED
    BY <1>1, <1>2, TaskFlight, ProcFlight DEF Next

-------------------------------------------------------------------------------
(* Ownership.                                                                *)

(* A step that moves no process between the calls and the state of the core: *)
(* processes may end, pipes may be read, a call may arrive or answer.        *)
LEMMA OwnerQuiet ==
  ASSUME TypeInv, OwnerInv, UNCHANGED <<target, active>>,
         \A c \in Calls : method'[c] = method[c] \/ target[c] = None,
         \A p \in Procs : /\ Started(p)' <=> Started(p)
                          /\ inbox[p].ok => inbox'[p].ok
                          /\ status'[p] = "alive" => status[p] = "alive"
                          /\ ToSet(stdin'[p]) \subseteq ToSet(stdin[p]),
         \A c \in Calls : \/ pc'[c] # "done" \/ pc[c] = "done" \/ method[c] # "stop"
                          \/ target[c] = None \/ status'[target[c]] # "alive"
  PROVE  OwnerInv'
  <1>0. /\ active \in Procs \union {None} /\ None \notin Procs
        /\ \A c \in Calls : target[c] \in Procs \union {None}
    BY CoreAssumption DEF TypeInv, TypeOK
  <1>1. UsedStarted'
    <2>1. active' # None => reply'[active].code = "started"
      BY <1>0 DEF OwnerInv, UsedStarted, Started
    <2>2. ASSUME NEW c \in Calls, method'[c] \in {"stop", "forward"}, target'[c] # None
          PROVE  reply'[target[c]].code = "started"
      BY <1>0, <2>2 DEF OwnerInv, UsedStarted, Started
    <2>3. QED
      BY <2>1, <2>2 DEF UsedStarted, Started
  <1>2. StartedAccepted'
    BY DEF OwnerInv, StartedAccepted, Started
  <1>3. HandshakeFirst'
    BY DEF OwnerInv, HandshakeFirst
  <1>4. StopOwnsProcess'
    <2>1. ASSUME NEW c \in Calls, NEW d \in Calls, method'[c] = "stop", target'[c] # None
          PROVE  active' # target'[c] /\ (method'[d] = "stop" /\ target'[d] = target'[c] => d = c)
      BY <2>1 DEF OwnerInv, StopOwnsProcess
    <2>2. QED
      BY <2>1 DEF StopOwnsProcess
  <1>5. NoOrphans'
    <2>1. ASSUME NEW p \in Procs, status'[p] = "alive", Started(p)', active' # p
          PROVE  \E c \in Calls : method'[c] = "stop" /\ target'[c] = p /\ pc'[c] # "done"
      <3>1. PICK c \in Calls : method[c] = "stop" /\ target[c] = p /\ pc[c] # "done"
        BY <2>1 DEF OwnerInv, NoOrphans
      <3>2. QED
        BY <1>0, <2>1, <3>1
    <2>2. QED
      BY <2>1 DEF NoOrphans, Started
  <1>6. QED
    BY <1>1, <1>2, <1>3, <1>4, <1>5 DEF OwnerInv

(* A task that answers with anything but "started", or goes on.              *)
LEMMA StartedKept ==
  ASSUME TypeInv, SessionInv, NEW c \in Calls, pc[c] # "done", NEW code, NEW from, code # "started",
         Respond(c, c, code, from)
  PROVE  \A p \in Procs : Started(p)' <=> Started(p)
  <1>1. /\ reply[c].code # "started"
        /\ \A d \in Calls : reply'[d] = IF d = c THEN [id |-> c, code |-> code, from |-> from]
                                                 ELSE reply[d]
    BY DEF SessionInv, OpenOK, NoReply, Respond, TypeInv, TypeOK
  <1>2. QED
    BY <1>1 DEF Started

LEMMA TaskOwner ==
  ASSUME Inv, PlaceInv, OwnerInv, NEW c \in Calls, Task(c)
  PROVE  OwnerInv'
  <1> USE DEF taskVars, stateVars
  <1>0. /\ TypeInv /\ SessionInv /\ UsedStarted /\ StartedAccepted /\ HandshakeFirst
        /\ StopOwnsProcess /\ NoOrphans /\ None \notin Procs
        /\ active \in Procs \union {None} /\ lock \in Calls \union {None}
        /\ \A d \in Calls : target[d] \in Procs \union {None}
        /\ MethodOK /\ LockOK /\ TargetOK /\ OpenOK
    BY CoreAssumption DEF Inv, OwnerInv, TypeInv, TypeOK, SessionInv
  (* an answer by which no process changes hands                             *)
  <1>1. ASSUME NEW code, NEW from, Respond(c, c, code, from), pc[c] # "done", code # "started",
               UNCHANGED <<method, target, inbox, active, procVars>>,
               method[c] # "stop" \/ target[c] = None
        PROVE  OwnerInv'
    <2>1. /\ \A p \in Procs : Started(p)' <=> Started(p)
          /\ UNCHANGED <<method, target, inbox, active, status, stdin>>
          /\ \A d \in Calls : d # c => pc'[d] = pc[d]
      BY <1>0, <1>1, StartedKept DEF procVars, Respond, Goto, TypeInv, TypeOK
    <2> HIDE DEF Respond
    <2>2. QED
      BY <1>0, <1>1, <2>1, OwnerQuiet
  (* a task goes on, and no process changes hands                            *)
  <1>2. ASSUME NEW label, label # "done", Goto(c, label),
               UNCHANGED <<method, target, inbox, reply, active, status, stdin>>
        PROVE  OwnerInv'
    <2>1. \A d \in Calls : pc'[d] # "done" \/ pc[d] = "done"
      BY <1>0, <1>2 DEF Goto, TypeInv, TypeOK
    <2>2. \A p \in Procs : Started(p)' <=> Started(p)
      BY <1>2 DEF Started
    <2>3. QED
      BY <1>0, <1>2, <2>1, <2>2, OwnerQuiet
  <1>3. CASE BackendStatus(c)
    BY <1>0, <1>1, <1>3 DEF BackendStatus, MethodOK
  <1>4. CASE StartBackend(c)
    <2>1. CASE active # None
      BY <1>0, <1>1, <1>4, <2>1 DEF StartBackend, MethodOK
    <2>2. CASE active = None
      BY <1>2, <1>4, <2>2 DEF StartBackend, procVars
    <2>3. QED
      BY <2>1, <2>2
  <1>5. CASE Spawn(c)
    <2>1. /\ pc[c] = "spawn" /\ method[c] = "start" /\ ~Started(c)
          /\ UNCHANGED <<method, inbox, reply, active, stdin>>
      BY <1>0, <1>5 DEF Spawn, MethodOK, OpenOK, NoReply, Started
    <2>2. /\ \A d \in Calls : target'[d] = IF d = c THEN c ELSE target[d]
          /\ \A d \in Calls : pc'[d] = IF d = c THEN "takeId" ELSE pc[d]
          /\ \A p \in Procs : p # c => status'[p] = status[p]
      BY <1>0, <1>5 DEF Spawn, Goto, TypeInv, TypeOK
    <2>3. UsedStarted' /\ StartedAccepted' /\ HandshakeFirst'
      BY <1>0, <2>1, <2>2 DEF UsedStarted, StartedAccepted, HandshakeFirst, Started
    <2>4. StopOwnsProcess'
      BY <1>0, <2>1, <2>2 DEF StopOwnsProcess
    <2>5. NoOrphans'
      <3>1. ASSUME NEW p \in Procs, status'[p] = "alive", Started(p), active # p
            PROVE  \E d \in Calls : method'[d] = "stop" /\ target'[d] = p /\ pc'[d] # "done"
        <4>1. PICK d \in Calls : method[d] = "stop" /\ target[d] = p /\ pc[d] # "done"
          BY <1>0, <2>1, <2>2, <3>1 DEF NoOrphans
        <4>2. QED
          BY <2>1, <2>2, <4>1
      <3>2. QED
        BY <2>1, <3>1 DEF NoOrphans, Started
    <2>6. QED
      BY <2>3, <2>4, <2>5 DEF OwnerInv
  <1>6. CASE SpawnFails(c)
    BY <1>0, <1>1, <1>6 DEF SpawnFails, MethodOK
  <1>7. CASE StopBackend(c)
    <2>1. CASE active # None
      <3>1. /\ pc[c] = "stop" /\ method[c] = "stop" /\ active \in Procs /\ active' = None
            /\ UNCHANGED <<method, inbox, reply, status, stdin>>
        BY <1>0, <1>7, <2>1 DEF StopBackend, StopTakesState, MethodOK, procVars
      <3>2. /\ \A d \in Calls : target'[d] = IF d = c THEN active ELSE target[d]
            /\ \A d \in Calls : pc'[d] = IF d = c THEN "takeId" ELSE pc[d]
        BY <1>0, <1>7, <2>1 DEF StopBackend, Goto, TypeInv, TypeOK
      <3>3. UsedStarted' /\ StartedAccepted' /\ HandshakeFirst'
        BY <1>0, <2>1, <3>1, <3>2 DEF UsedStarted, StartedAccepted, HandshakeFirst, Started
      <3>4. StopOwnsProcess'
        BY <1>0, <3>1, <3>2 DEF StopOwnsProcess
      <3>5. NoOrphans'
        <4>1. ASSUME NEW p \in Procs, status[p] = "alive", Started(p)
              PROVE  \E d \in Calls : method'[d] = "stop" /\ target'[d] = p /\ pc'[d] # "done"
          <5>1. CASE active = p
            BY <3>1, <3>2, <5>1
          <5>2. CASE active # p
            <6>1. PICK d \in Calls : method[d] = "stop" /\ target[d] = p /\ pc[d] # "done"
              BY <1>0, <4>1, <5>2 DEF NoOrphans
            <6>2. target[c] = None
              BY <1>0, <3>1 DEF TargetOK
            <6>3. QED
              BY <1>0, <3>1, <3>2, <6>1, <6>2
          <5>3. QED
            BY <5>1, <5>2
        <4>2. QED
          BY <3>1, <4>1 DEF NoOrphans, Started
      <3>6. QED
        BY <3>3, <3>4, <3>5 DEF OwnerInv
    <2>2. CASE active = None
      BY <1>0, <1>1, <1>7, <2>2 DEF StopBackend, TargetOK
    <2>3. QED
      BY <2>1, <2>2
  <1>8. CASE ForwardToBackend(c)
    <2>1. CASE active # None
      <3>1. /\ method[c] = "forward" /\ target[c] = None /\ active \in Procs
            /\ UNCHANGED <<method, inbox, reply, active, status, stdin>>
        BY <1>0, <1>8, <2>1 DEF ForwardToBackend, MethodOK, TargetOK, procVars
      <3>2. /\ \A d \in Calls : target'[d] = IF d = c THEN active ELSE target[d]
            /\ \A d \in Calls : pc'[d] = IF d = c THEN "takeId" ELSE pc[d]
        BY <1>0, <1>8, <2>1 DEF ForwardToBackend, Goto, TypeInv, TypeOK
      <3>3. UsedStarted' /\ StartedAccepted' /\ HandshakeFirst'
        BY <1>0, <2>1, <3>1, <3>2 DEF UsedStarted, StartedAccepted, HandshakeFirst, Started
      <3>4. StopOwnsProcess'
        BY <1>0, <3>1, <3>2 DEF StopOwnsProcess
      <3>5. NoOrphans'
        <4>1. ASSUME NEW p \in Procs, status[p] = "alive", Started(p), active # p
              PROVE  \E d \in Calls : method'[d] = "stop" /\ target'[d] = p /\ pc'[d] # "done"
          <5>1. PICK d \in Calls : method[d] = "stop" /\ target[d] = p /\ pc[d] # "done"
            BY <1>0, <4>1 DEF NoOrphans
          <5>2. QED
            BY <3>1, <3>2, <5>1
        <4>2. QED
          BY <3>1, <4>1 DEF NoOrphans, Started
      <3>6. QED
        BY <3>3, <3>4, <3>5 DEF OwnerInv
    <2>2. CASE active = None
      BY <1>0, <1>1, <1>8, <2>2 DEF ForwardToBackend, MethodOK
    <2>3. QED
      BY <2>1, <2>2
  <1>9. CASE RequestTakeId(c) \/ RequestRegister(c)
    BY <1>2, <1>9 DEF RequestTakeId, RequestRegister, After
  <1>10. CASE RequestWrite(c)
    <2>1. CASE status[target[c]] # "alive"
      BY <1>2, <1>10, <2>1 DEF RequestWrite
    <2>2. CASE status[target[c]] = "alive"
      <3> DEFINE p == target[c]
                 req == [id |-> rid[c], meth |-> BackendMethod(method[c]), body |-> c]
      <3>1. /\ p \in Procs /\ rid[c] \in Ids /\ pc[c] = "write"
            /\ UNCHANGED <<method, target, inbox, reply, active, status>>
        BY <1>0, <1>10, <2>2 DEF RequestWrite, TypeInv, TypeOK, TaskOK, Ids
      <3>2. method[c] \in {"start", "stop", "forward"} /\ (req.meth # "hello" => method[c] # "start")
        BY <1>0, <3>1 DEF MethodOK, InRequest, BackendMethod
      <3>3. req \in Request
        BY <3>1, <3>2 DEF Request, BackendMethod
      <3>4. stdin[p] \in Seq(Request)
        BY <1>0, <3>1 DEF TypeInv, TypeOK
      <3>5. req.meth # "hello" => inbox[p].ok
        BY <1>0, <3>1, <3>2 DEF UsedStarted, StartedAccepted
      <3>6. \A d \in Calls : pc'[d] = IF d = c THEN "await" ELSE pc[d]
        BY <1>0, <1>10, <2>2 DEF RequestWrite, After, Goto, TypeInv, TypeOK
      <3>7. stdin' = [stdin EXCEPT ![p] = Append(stdin[p], req)]
        BY <1>10, <2>2 DEF RequestWrite
      <3> HIDE DEF req
      <3>8. \A q \in Procs : stdin'[q] = IF q = p THEN Append(stdin[p], req) ELSE stdin[q]
        BY <1>0, <3>1, <3>7 DEF TypeInv, TypeOK
      <3>9. ToSet(stdin'[p]) = ToSet(stdin[p]) \union {req}
        BY <3>1, <3>3, <3>4, <3>8, ToSetAppend
      <3>10. HandshakeFirst'
        BY <1>0, <3>1, <3>5, <3>8, <3>9 DEF HandshakeFirst
      <3>11. UsedStarted' /\ StartedAccepted' /\ StopOwnsProcess'
        BY <1>0, <3>1 DEF UsedStarted, StartedAccepted, StopOwnsProcess, Started
      <3>12. NoOrphans'
        BY <1>0, <3>1, <3>6 DEF NoOrphans, Started
      <3>13. QED
        BY <3>10, <3>11, <3>12 DEF OwnerInv
    <2>3. QED
      BY <2>1, <2>2
  <1>11. CASE StartFinish(c)
    <2>1. /\ method[c] = "start" /\ pc[c] \in {"await", "failed"}
          /\ UNCHANGED <<method, target, inbox, procVars>>
      BY <1>11 DEF StartFinish, Answered, Failed
    <2>2. CASE ~StartSucceeds(c)
      BY <1>1, <1>11, <2>1, <2>2 DEF StartFinish
    <2>3. CASE StartSucceeds(c)
      <3>1. /\ active' = c /\ target[c] = c /\ inbox[c].ok /\ active = None
            /\ ~Started(c) /\ Respond(c, c, "started", c)
        BY <1>0, <1>11, <2>1, <2>3
           DEF StartFinish, StartSucceeds, TargetOK, InRequest, LockOK, OpenOK, NoReply, Started
      <3>2. /\ \A d \in Calls : Started(d)' <=> (d = c \/ Started(d))
            /\ \A d \in Calls : d # c => pc'[d] = pc[d]
            /\ UNCHANGED <<status, stdin>>
        BY <1>0, <2>1, <3>1 DEF Respond, Goto, Started, TypeInv, TypeOK, procVars
      <3>3. UsedStarted'
        <4>1. ASSUME NEW d \in Calls, method[d] \in {"stop", "forward"}, target[d] # None
              PROVE  reply'[target[d]].code = "started"
          BY <1>0, <3>2, <4>1 DEF UsedStarted, Started
        <4>2. QED
          BY <2>1, <3>1, <3>2, <4>1 DEF UsedStarted, Started
      <3>4. StartedAccepted' /\ HandshakeFirst'
        BY <1>0, <2>1, <3>1, <3>2 DEF StartedAccepted, HandshakeFirst, Started
      <3>5. StopOwnsProcess'
        <4>1. \A d \in Calls : method[d] = "stop" /\ target[d] # None => target[d] # c
          BY <1>0, <3>1 DEF UsedStarted
        <4>2. QED
          BY <1>0, <2>1, <3>1, <4>1 DEF StopOwnsProcess
      <3>6. NoOrphans'
        <4>1. ASSUME NEW p \in Procs, status[p] = "alive", Started(p)
              PROVE  \E d \in Calls : method'[d] = "stop" /\ target'[d] = p /\ pc'[d] # "done"
          <5>1. PICK d \in Calls : method[d] = "stop" /\ target[d] = p /\ pc[d] # "done"
            BY <1>0, <3>1, <4>1 DEF NoOrphans
          <5>2. QED
            BY <2>1, <3>2, <5>1
        <4>2. QED
          BY <3>1, <3>2, <4>1 DEF NoOrphans, Started
      <3>7. QED
        BY <3>3, <3>4, <3>5, <3>6 DEF OwnerInv
    <2>4. QED
      BY <2>2, <2>3
  <1>12. CASE StopFinish(c)
    <2>1. /\ pc[c] \in {"await", "failed"} /\ target[c] \in Procs /\ Exit(target[c])
          /\ Respond(c, c, "stopped", target[c]) /\ UNCHANGED <<method, target, inbox, active>>
      BY <1>0, <1>12 DEF StopFinish, Kill, Answered, Failed, TypeInv, TaskOK
    <2>2. /\ \A p \in Procs : Started(p)' <=> Started(p)
          /\ \A d \in Calls : d # c => pc'[d] = pc[d]
      BY <1>0, <2>1, StartedKept DEF Respond, Goto, TypeInv, TypeOK
    <2>3. /\ \A p \in Procs : status'[p] = IF p = target[c] THEN "exited" ELSE status[p]
          /\ \A p \in Procs : stdin'[p] = IF p = target[c] THEN <<>> ELSE stdin[p]
      BY <1>0, <2>1 DEF Exit, TypeInv, TypeOK
    <2>4. \A p \in Procs : ToSet(stdin'[p]) \subseteq ToSet(stdin[p])
      BY <2>3, ToSetEmpty
    <2>5. \A d \in Calls : \/ pc'[d] # "done" \/ pc[d] = "done" \/ method[d] # "stop"
                           \/ target[d] = None \/ status'[target[d]] # "alive"
      BY <2>1, <2>2, <2>3
    <2>6. QED
      BY <1>0, <2>1, <2>2, <2>3, <2>4, <2>5, OwnerQuiet
  <1>13. CASE ForwardFinish(c)
    <2>1. method[c] = "forward" /\ pc[c] # "done"
      BY <1>13 DEF ForwardFinish, Answered, Failed
    <2>2. QED
      BY <1>1, <1>13, <2>1 DEF ForwardFinish, ForwardedId
  <1>14. QED
    BY <1>3, <1>4, <1>5, <1>6, <1>7, <1>8, <1>9, <1>10, <1>11, <1>12, <1>13 DEF Task

(* Backends and reader tasks: an inbox is filled once, an answer that is in  *)
(* it stays.                                                                 *)
LEMMA ProcOwner ==
  ASSUME Inv, PlaceInv, FlightInv, OwnerInv, NEW p \in Procs, Backend(p) \/ Crash(p) \/ Reader(p)
  PROVE  OwnerInv'
  <1>1. TypeInv /\ RouteInv /\ stdin[p] \in Seq(Request)
    BY DEF Inv, TypeInv, TypeOK
  <1>2. UNCHANGED <<pc, method, target, reply, active>>
    BY ProcQuiet
  <1>3. \A q \in Procs : ToSet(stdin'[q]) \subseteq ToSet(stdin[q])
    <2>1. CASE UNCHANGED stdin
      BY <2>1
    <2>2. CASE StdioServe(p) \/ TitanServe(p)
      <3>1. /\ stdin[p] # <<>>
            /\ \A q \in Procs : stdin'[q] = IF q = p THEN Tail(stdin[p]) ELSE stdin[q]
        BY <1>1, <2>2 DEF StdioServe, TitanServe, TypeInv, TypeOK
      <3>2. QED
        BY <1>1, <3>1, ToSetHeadTail
    <2>3. CASE Exit(p)
      <3>1. \A q \in Procs : stdin'[q] = IF q = p THEN <<>> ELSE stdin[q]
        BY <1>1, <2>3 DEF Exit, TypeInv, TypeOK
      <3>2. QED
        BY <3>1, ToSetEmpty
    <2>4. QED
      BY <2>1, <2>2, <2>3
         DEF Backend, Crash, Reader, StdioEndOfInput, TitanShutdown, TitanEvent, ReaderTake, ReaderEof
  <1>4. \A q \in Procs : status'[q] = "alive" => status[q] = "alive"
    <2>1. CASE UNCHANGED status
      BY <2>1
    <2>2. CASE Exit(p)
      BY <1>1, <2>2 DEF Exit, TypeInv, TypeOK
    <2>3. QED
      BY <2>1, <2>2
         DEF Backend, Crash, Reader, StdioServe, StdioEndOfInput, TitanShutdown, TitanServe,
             TitanEvent, ReaderTake, ReaderEof
  <1>5. \A q \in Procs : inbox[q].ok => inbox'[q].ok
    <2>1. CASE UNCHANGED inbox
      BY <2>1
    <2>2. CASE ReaderTake(p)
      <3> DEFINE resp == Head(stdout[p])
      <3>1. /\ resp.body \in Calls /\ Entry(resp.body) \in pending[p]
            /\ \A d \in Calls : inbox'[d] = IF d = resp.body THEN resp ELSE inbox[d]
        BY <1>1, <2>2, ReaderDelivers
      <3> HIDE DEF resp
      <3>2. inbox[resp.body] = NoResponse
        BY <3>1 DEF PlaceInv, PendingPlace, Entry
      <3>3. QED
        BY <3>1, <3>2 DEF NoResponse
    <2>3. QED
      BY <2>1, <2>2
         DEF Backend, Crash, Reader, StdioServe, StdioEndOfInput, TitanShutdown, TitanServe,
             TitanEvent, ReaderEof, taskVars
  <1>6. QED
    BY <1>1, <1>2, <1>3, <1>4, <1>5, OwnerQuiet DEF Started

LEMMA NextOwner == Inv /\ PlaceInv /\ FlightInv /\ OwnerInv /\ [Next]_vars => OwnerInv'
  <1> SUFFICES ASSUME Inv, PlaceInv, FlightInv, OwnerInv, [Next]_vars PROVE OwnerInv'
    OBVIOUS
  <1>0. TypeInv /\ SessionInv
    BY DEF Inv
  <1>1. ASSUME NEW c \in Calls, NEW m \in Methods, FrontendRequest(c, m) PROVE OwnerInv'
    <2>1. /\ pc[c] = "idle" /\ target[c] = None /\ UNCHANGED <<target, inbox, active, status, stdin>>
          /\ \A d \in Calls : d # c => method'[d] = method[d] /\ pc'[d] = pc[d]
      BY <1>0, <1>1
         DEF FrontendRequest, Respond, Goto, stateVars, procVars, SessionInv, TargetOK, TypeInv, TypeOK
    <2>2. \A q \in Procs : Started(q)' <=> Started(q)
      <3>1. CASE UNCHANGED reply
        BY <3>1 DEF Started
      <3>2. CASE Respond(c, c, "hello", None)
        BY <1>0, <2>1, <3>2, StartedKept
      <3>3. QED
        BY <1>1, <3>1, <3>2 DEF FrontendRequest
    <2>3. QED
      BY <1>0, <2>1, <2>2, OwnerQuiet
  <1>2. CASE UNCHANGED vars
    BY <1>0, <1>2, OwnerQuiet DEF vars, taskVars, stateVars, procVars, Started
  <1>3. QED
    BY <1>1, <1>2, TaskOwner, ProcOwner DEF Next

-------------------------------------------------------------------------------
(* What holds in every state.                                                *)
FlowInv == Inv /\ PlaceInv /\ FlightInv /\ OwnerInv

LEMMA SpecFlow == Spec => []FlowInv
  <1>1. Init => FlowInv
    BY InitType, InitRoute, InitSession, InitFlow DEF FlowInv, Inv
  <1>2. FlowInv /\ [Next]_vars => FlowInv'
    BY NextType, NextRoute, NextSession, NextPlace, NextFlight, NextOwner DEF FlowInv, Inv
  <1>3. QED
    BY <1>1, <1>2, PTL DEF Spec

(* No answer arrives before its receiver is there: what was written to a     *)
(* process, or is on its way back, has its sender in the pending map         *)
(* (backend_process.rs:65-79).                                               *)
THEOREM ReceiverFirst == Spec => []AnswerHasReceiver
  <1>1. FlowInv => AnswerHasReceiver
    BY DEF FlowInv, FlightInv
  <1>2. QED
    BY <1>1, SpecFlow, PTL

(* The pending map of a process that lives holds nothing but requests whose  *)
(* task is still there for the answer (backend_process.rs:40-42,65-79).      *)
THEOREM NoLeakWhileAlive == Spec => []PendingIsWaited
  <1>1. FlowInv => PendingIsWaited
    BY DEF FlowInv, PlaceInv, PendingPlace, PendingIsWaited
  <1>2. QED
    BY <1>1, SpecFlow, PTL

(* Nobody debugs or shuts down a process that has not accepted hello         *)
(* (core.rs:135-140).                                                        *)
THEOREM HelloFirst == Spec => []HandshakeFirst
  <1>1. FlowInv => HandshakeFirst
    BY DEF FlowInv, OwnerInv
  <1>2. QED
    BY <1>1, SpecFlow, PTL

(* A started backend that runs is the active one or in the hands of a stop   *)
(* call that is not through (core.rs:139,145-152).                           *)
THEOREM NoneForgotten == Spec => []NoOrphans
  <1>1. FlowInv => NoOrphans
    BY DEF FlowInv, OwnerInv
  <1>2. QED
    BY <1>1, SpecFlow, PTL

(* Two stop calls never work on one process, nor a stop call on the active   *)
(* backend (core.rs:145-148).                                                *)
THEOREM StoppedByOne == Spec => []StopOwnsProcess
  <1>1. FlowInv => StopOwnsProcess
    BY DEF FlowInv, OwnerInv
  <1>2. QED
    BY <1>1, SpecFlow, PTL
===============================================================================
