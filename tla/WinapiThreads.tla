----------------------------- MODULE WinapiThreads -----------------------------
(***************************************************************************)
(* The thread handles of winapi-backend (winapi_impl.rs).  Registers and    *)
(* single steps go to "the active thread" through a table tid -> handle     *)
(* that three parties fill: launch and the debug events put in handles      *)
(* that they were given, refresh_threads opens the ones it misses.  A       *)
(* handle is a number in a table of the operating system that is given out  *)
(* again after it was closed, and whoever closes a number closes whatever   *)
(* it stands for by then.                                                   *)
(*                                                                         *)
(* Windows is external: it reports the events of a debuggee one at a time,  *)
(* keeps a handle of its own for each thread it has reported, and closes    *)
(* that one when the event of the thread's exit is continued.  Breakpoints  *)
(* and memory are in WinapiBackend.  The client may ask for anything at any *)
(* stop.                                                                    *)
(***************************************************************************)
EXTENDS FiniteSetsExt

CONSTANTS
  Tids,        \* the threads there are, in all debuggees
  MaxHandles,  \* numbers in the handle table
  MaxOpens,    \* launches and attaches of one behaviour
  None

ASSUME ThreadsAssumption ==
  MaxHandles \in Nat /\ MaxOpens \in Nat /\ None \notin Tids \union Nat

Handles == 1..MaxHandles

VARIABLES
  (* BackendState *)
  threads,     \* tid -> handle
  mainThread,  \* main_thread
  activeTid,   \* active_tid
  lastEvent,   \* the event that waits to be continued: [kind, tid]
  at,          \* "none" (no debuggee), "stopped", or in wait_event: "opening"
               \* for launch and attach, "waiting" for a debuggee that runs,
               \* "blocked" when none can report anything
  (* Windows *)
  handles,     \* handle -> the thread it stands for
  live,        \* the threads of the debuggee
  reported,    \* tid -> the handle that Windows keeps for it
  (* history and bounds *)
  closedTwice, \* has Windows closed a number that the backend had opened again?
  used, opens

stateVars == <<threads, mainThread, activeTid, lastEvent, at>>
osVars == <<handles, live, reported>>
vars == <<stateVars, osVars, closedTwice, used, opens>>

NoEvent == [kind |-> "none", tid |-> None]

Init ==
  /\ threads = <<>> /\ mainThread = None /\ activeTid = None
  /\ lastEvent = NoEvent /\ at = "none"
  /\ handles = <<>> /\ live = {} /\ reported = <<>>
  /\ closedTwice = FALSE /\ used = {} /\ opens = 0

Without(f, keys) == [k \in DOMAIN f \ keys |-> f[k]]
With(f, key, v) == [k \in DOMAIN f \union {key} |-> IF k = key THEN v ELSE f[k]]
Over(f, g) == [k \in DOMAIN f \union DOMAIN g |-> IF k \in DOMAIN f THEN f[k] ELSE g[k]]

(* A new handle is the lowest number that is free.                          *)
Free(os) == Handles \ DOMAIN os
NewHandle(os) == Min(Free(os))

-------------------------------------------------------------------------------
(* refresh_threads *)

(* OpenThread for some threads: each gets one of the lowest free numbers.   *)
Openings(new, os) ==
  LET numbers == {h \in Free(os) : Cardinality({g \in Free(os) : g <= h}) <= Cardinality(new)}
  IN {f \in [new -> numbers] : \A s, t \in new : s # t => f[s] # f[t]}
Named(f) == [h \in {f[t] : t \in DOMAIN f} |-> CHOOSE t \in DOMAIN f : f[t] = h]

(* What may become of a table and of the handles: the threads of a snapshot *)
(* that are not listed are opened, as far as OpenThread succeeds, then the  *)
(* listed ones that are not in it are closed; nothing without a snapshot.   *)
Compared(table, os, snapshot) ==
  LET gone == DOMAIN table \ snapshot
  IN UNION { { [threads |-> Over(f, Without(table, gone)),
                handles |-> Without(Over(Named(f), os), {table[t] : t \in gone})]
               : f \in Openings(new, os) } : new \in SUBSET (snapshot \ DOMAIN table) }
Refreshes(table, os, snapshots) ==
  {[threads |-> table, handles |-> os]} \union
  UNION {Compared(table, os, snapshot) : snapshot \in snapshots}

(* At a stop, the active thread may still be in the snapshot if it exits.   *)
Refreshed == Refreshes(threads, handles, {live, live \union {activeTid}})

(* active_thread_handle, and the thread that GetThreadContext and           *)
(* SetThreadContext then reach: None if the number stands for nothing.      *)
MainFirst(table) ==
  IF mainThread # None \/ activeTid \notin DOMAIN table THEN mainThread ELSE table[activeTid]
ActiveHandle(table) == IF activeTid \in DOMAIN table THEN table[activeTid] ELSE mainThread
Reached(h, os) == IF h \in DOMAIN os THEN os[h] ELSE None

-------------------------------------------------------------------------------
(* opening and closing a debuggee *)

(* close_all: every number in the table is closed, and the main thread's.   *)
CloseAll == Without(handles, {threads[t] : t \in DOMAIN threads} \union {mainThread})

Idle == at \in {"none", "stopped"}

Opened(ts) ==
  /\ Idle /\ opens < MaxOpens /\ ts # {} /\ ts \intersect used = {}
  /\ lastEvent' = NoEvent /\ at' = "opening"
  /\ live' = ts /\ reported' = <<>> /\ closedTwice' = FALSE
  /\ used' = used \union ts /\ opens' = opens + 1

Launch(t) ==
  /\ Opened({t})
  /\ Free(CloseAll) # {}
  /\ LET h == NewHandle(CloseAll)
     IN /\ handles' = With(CloseAll, h, t)
        /\ threads' = [k \in {t} |-> h] /\ mainThread' = h
  /\ activeTid' = t

(* attach: refresh_threads opens the threads, before any event.             *)
Attach(ts) ==
  /\ Opened(ts)
  /\ \E r \in Refreshes(<<>>, CloseAll, {ts}) :
       /\ threads' = r.threads /\ handles' = r.handles
       /\ IF DOMAIN r.threads = {} THEN activeTid' = None ELSE activeTid' \in DOMAIN r.threads
  /\ mainThread' = None

(* detach and shutdown, and a launch or attach that fails: all is forgotten.*)
(* At a detach Windows closes the handles it kept, by number.               *)
Closed(os) ==
  /\ handles' = os
  /\ threads' = <<>> /\ mainThread' = None /\ activeTid' = None
  /\ lastEvent' = NoEvent /\ at' = "none"
  /\ live' = {} /\ reported' = <<>> /\ closedTwice' = FALSE
  /\ UNCHANGED <<used, opens>>

Detach ==
  /\ at = "stopped"
  /\ Closed(Without(CloseAll, {reported[t] : t \in DOMAIN reported}))

OpenFails ==
  /\ at = "stopped"
  /\ Closed(CloseAll)

-------------------------------------------------------------------------------
(* wait_event *)

Stop(kind, t) ==
  /\ lastEvent' = [kind |-> kind, tid |-> t]
  /\ at' = "stopped"
  /\ UNCHANGED <<closedTwice, used, opens>>

ActiveIsProcess(t) == 0
ActiveIs(t) == t

NotInserted(t, h) == threads
Inserted(t, h) == With(threads, t, h)

(* create_process: the handle that comes with it takes the place of the one *)
(* in the table, which is not closed.                                       *)
CreateProcess(t) ==
  /\ at = "opening" /\ t \in live /\ Free(handles) # {}
  /\ Stop("create_process", t)
  /\ activeTid' = ActiveIs(t)
  /\ LET h == NewHandle(handles)
     IN /\ handles' = With(handles, h, t)
        /\ reported' = [k \in {t} |-> h]
        /\ threads' = Inserted(t, h)
        /\ mainThread' = IF mainThread = None THEN h ELSE mainThread
  /\ UNCHANGED live

(* create_thread, likewise.                                                 *)
CreateThread(t) ==
  /\ at = "waiting" /\ t \in live \ DOMAIN reported /\ Free(handles) # {}
  /\ Stop("create_thread", t)
  /\ activeTid' = ActiveIs(t)
  /\ LET h == NewHandle(handles)
     IN /\ handles' = With(handles, h, t)
        /\ reported' = With(reported, t, h)
        /\ threads' = Inserted(t, h)
  /\ UNCHANGED <<mainThread, live>>

(* exit_thread: its handle leaves the table and is closed, although it is   *)
(* Windows that closes it at the next continue.                             *)
ClosedOnExit(t) == IF t \in DOMAIN threads THEN {threads[t]} ELSE {}

ExitKeptInTable(t) == threads
ExitTakenOut(t) == Without(threads, {t})

ExitThread(t) ==
  /\ at = "waiting" /\ t \in live \intersect DOMAIN reported /\ live # {t}
  /\ Stop("exit_thread", t)
  /\ activeTid' = ActiveIs(t)
  /\ handles' = Without(handles, ClosedOnExit(t))
  /\ threads' = ExitTakenOut(t)
  /\ live' = live \ {t}
  /\ UNCHANGED <<mainThread, reported>>

(* exit_process is reported by the last thread and leaves the table alone.  *)
ExitProcess(t) ==
  /\ at = "waiting" /\ t \in DOMAIN reported /\ live = {t}
  /\ Stop("exit_process", t)
  /\ activeTid' = ActiveIs(t)
  /\ live' = {}
  /\ UNCHANGED <<threads, mainThread, handles, reported>>

(* Exceptions, DLLs and debug output leave the handles alone.               *)
OtherEvent(t) ==
  /\ at = "waiting" /\ t \in live \intersect DOMAIN reported
  /\ Stop("other", t)
  /\ activeTid' = ActiveIs(t)
  /\ UNCHANGED <<threads, mainThread, osVars>>

(* The debuggee runs and starts a thread, which is reported later.          *)
ThreadStarts(t) ==
  /\ at = "waiting" /\ t \notin used
  /\ live' = live \union {t} /\ used' = used \union {t}
  /\ UNCHANGED <<stateVars, handles, reported, closedTwice, opens>>

-------------------------------------------------------------------------------
(* requests *)

Exits == {"exit_thread", "exit_process"}

(* The last event is taken and continued: Windows closes the handle of a    *)
(* thread that has exited, and after exit_process there is no one to wait   *)
(* for.  ContinueDebugEvent may fail; then the event is lost and the        *)
(* debuggee stays as it is.  Without an event nothing is continued.         *)
ContinueAndWait(os) ==
  /\ lastEvent' = NoEvent
  /\ \/ /\ lastEvent.kind \in Exits
        /\ LET t == lastEvent.tid
           IN /\ handles' = Without(os, {reported[t]})
              /\ reported' = Without(reported, {t})
              /\ closedTwice' = (closedTwice \/
                                 (lastEvent.kind = "exit_thread" /\ reported[t] \in DOMAIN os))
        /\ at' = IF lastEvent.kind = "exit_process" THEN "blocked" ELSE "waiting"
     \/ /\ lastEvent.kind \notin Exits
        /\ at' = IF lastEvent = NoEvent THEN "blocked" ELSE "waiting"
        /\ handles' = os /\ UNCHANGED <<reported, closedTwice>>
     \/ /\ lastEvent # NoEvent /\ UNCHANGED at
        /\ handles' = os /\ UNCHANGED <<reported, closedTwice>>

Go ==
  /\ Idle
  /\ ContinueAndWait(handles)
  /\ UNCHANGED <<threads, mainThread, activeTid, live, used, opens>>

(* pause: the debuggee that is to break in is stopped, and stays so.        *)
Pause ==
  /\ at = "stopped"
  /\ at' = "blocked"
  /\ UNCHANGED <<threads, mainThread, activeTid, lastEvent, osVars, closedTwice, used, opens>>

(* threads, regs, setReg and a disasm without an address refresh the table, *)
(* and so does a step that finds no registers; what they reach is said in   *)
(* RegistersOfStopped.                                                      *)
Refresh ==
  /\ at = "stopped"
  /\ \E r \in Refreshed : threads' = r.threads /\ handles' = r.handles
  /\ UNCHANGED <<mainThread, activeTid, lastEvent, at, live, reported, closedTwice, used, opens>>

(* The steps set the trap flag, then continue.                              *)
Step ==
  /\ at = "stopped"
  /\ \E r \in Refreshed :
       /\ Reached(ActiveHandle(r.threads), r.handles) # None
       /\ threads' = r.threads
       /\ ContinueAndWait(r.handles)
  /\ UNCHANGED <<mainThread, activeTid, live, used, opens>>

-------------------------------------------------------------------------------
Next ==
  \/ \E t \in Tids : Launch(t) \/ ThreadStarts(t)
  \/ \E ts \in SUBSET Tids : Attach(ts)
  \/ \E t \in Tids : CreateProcess(t) \/ CreateThread(t) \/ OtherEvent(t)
  \/ \E t \in Tids : ExitThread(t) \/ ExitProcess(t)
  \/ Detach \/ OpenFails \/ Go \/ Pause \/ Refresh \/ Step

Spec == Init /\ [][Next]_vars
-------------------------------------------------------------------------------
TypeOK ==
  /\ DOMAIN threads \subseteq Tids /\ \A t \in DOMAIN threads : threads[t] \in Handles
  /\ mainThread \in Handles \union {None} /\ activeTid \in Tids \union {None}
  /\ lastEvent.tid \in Tids \union {None}
  /\ at \in {"none", "stopped", "opening", "waiting", "blocked"}
  /\ DOMAIN handles \subseteq Handles /\ \A h \in DOMAIN handles : handles[h] \in Tids
  /\ live \subseteq used /\ used \subseteq Tids
  /\ DOMAIN reported \subseteq Tids

(* Every handle in the table is open and stands for the thread it is listed *)
(* under, for any client, although three parties close handles by number    *)
(* and numbers are given out again; until Windows, at a go from an          *)
(* exit_thread, closes the number of the exited thread and that number was  *)
(* opened again at that stop (winapi_impl.rs:160-206,236-259).              *)
TableIsTrue ==
  at # "blocked" /\ ~closedTwice => \A t \in DOMAIN threads : Reached(threads[t], handles) = t

(* Registers that are read or written at a stop, trap flags included, are   *)
(* those of the thread that reported the event if it lives, whatever        *)
(* refresh_threads finds and fails to open by then; the same exception      *)
(* (winapi_impl.rs:208-219,386-406,505-509).                                *)
RegistersOfStopped ==
  at = "stopped" /\ lastEvent.tid \in live /\ ~closedTwice =>
    \A r \in Refreshed : Reached(ActiveHandle(r.threads), r.handles) = lastEvent.tid

(* A live thread that is stopped in an event is active and in the table,    *)
(* also after a go that failed, whatever was closed in between              *)
(* (winapi_impl.rs:227,236-259,375-384).                                    *)
EventThreadListed ==
  at = "stopped" =>
    /\ lastEvent # NoEvent => activeTid = lastEvent.tid
    /\ activeTid \in live => activeTid \in DOMAIN threads
===============================================================================
