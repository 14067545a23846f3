------------------------------ MODULE WinapiProofs ------------------------------
(* Theorems about WinapiBackend, for every set of processes and addresses    *)
(* and any number of breakpoints and events.                                 *)
EXTENDS WinapiBackend, TLAPS

LEMMA EmptyMap == DOMAIN <<>> = {}
  OBVIOUS

-------------------------------------------------------------------------------
(* The invariant.                                                            *)

(* Ids of breakpoints are below the counter, so that a new one is new.       *)
BpsBelow == \A id \in BpIds : id < nextBp

(* The backend holds one debuggee, and of those it debugs only this one may  *)
(* run, and only while the backend waits: a relaunch leaves the earlier one  *)
(* frozen (winapi_impl.rs:375-384,587-650).                                  *)
OneRuns ==
  /\ pid = process
  /\ lastEvent \in {None, process}
  /\ process # None => process \in debugged
  /\ \A p \in debugged : /\ ps[p] # "none"
                         /\ ps[p] = "running" => p = process /\ at # "idle"

(* What a tidy client can rely on.                                           *)
OnePerAddr == \A i, j \in BpIds : bps[i].addr = bps[j].addr => i = j
NoneWithoutProcess == process = None => BpIds = {}
OthersClean ==
  \A p \in Targets : p # process /\ ps[p] \in {"none", "running"} => mem[p] = code[p]

TidyInv ==
  tidy => /\ OnePerAddr /\ NoneWithoutProcess /\ OthersClean
          /\ BreakpointsAreExact /\ FrozenCanDetach

Inv == TypeOK /\ BpsBelow /\ OneRuns /\ TidyInv

LEMMA InitInv == Init => Inv
  <1> SUFFICES ASSUME Init PROVE Inv
    OBVIOUS
  <1>1. BpIds = {}
    BY EmptyMap DEF Init, BpIds
  <1>2. TypeOK
    BY <1>1, WinapiAssumption DEF Init, TypeOK, Byte, FirstBp
  <1>3. BpsBelow /\ OneRuns
    BY <1>1 DEF Init, BpsBelow, OneRuns
  <1>4. TidyInv
    BY <1>1 DEF Init, TidyInv, OnePerAddr, NoneWithoutProcess, OthersClean,
                BreakpointsAreExact, FrozenCanDetach
  <1>5. QED
    BY <1>2, <1>3, <1>4 DEF Inv

-------------------------------------------------------------------------------
(* Types.                                                                    *)
LEMMA NextType == TypeOK /\ [Next]_vars => TypeOK'
  <1> SUFFICES ASSUME TypeOK, [Next]_vars PROVE TypeOK'
    OBVIOUS
  <1> USE DEF TypeOK, BpIds, stateVars, osVars
  <1>1. ASSUME NEW m \in {"launch", "attach"}, OpenFails(m) PROVE TypeOK'
    BY <1>1, EmptyMap DEF OpenFails, CloseAll, ProcessClosed
  <1>2. ASSUME NEW m \in {"launch", "attach"}, NEW p \in Targets, OpenDebuggee(m, p) PROVE TypeOK'
    BY <1>2, EmptyMap DEF OpenDebuggee
  <1>3. CASE Detach
    <2>1. /\ debugged' \subseteq Targets
          /\ ps' \in [Targets -> {"none", "running", "stopped", "exiting", "dead"}]
      BY <1>3 DEF Detach, ReleasedFrom, Runs
    <2>2. QED
      BY <1>3, <2>1, EmptyMap DEF Detach, CloseAll, ProcessClosed
  <1>4. CASE ContinueAndWait
    <2>1. ps' \in [Targets -> {"none", "running", "stopped", "exiting", "dead"}]
      BY <1>4 DEF ContinueAndWait, Runs
    <2>2. QED
      BY <1>4, <2>1 DEF ContinueAndWait
  <1>5. CASE ContinueFails \/ Pause
    BY <1>5 DEF ContinueFails, Pause
  <1>6. ASSUME NEW p \in Targets, WaitEvent(p) PROVE TypeOK'
    <2>1. events' \in [Targets -> 0..MaxEvents]
      BY <1>6, WinapiAssumption DEF WaitEvent
    <2>2. QED
      BY <1>6, <2>1 DEF WaitEvent
  <1>7. ASSUME NEW a \in Addrs, BpSet(a) PROVE TypeOK'
    <2>1. process \in Targets
      BY <1>7 DEF BpSet, Readable
    <2>2. [addr |-> a, original |-> OldByte(mem[process][a])] \in [addr : Addrs, original : Byte]
      BY <2>1 DEF OldByte
    <2>3. nextBp \in 1..MaxBps /\ nextBp' \in 1..(MaxBps + 1)
      BY <1>7, WinapiAssumption DEF BpSet
    <2>4. mem' \in [Targets -> [Addrs -> Byte]]
      BY <1>7, <2>1 DEF BpSet, Write, Byte
    <2>5. QED
      BY <1>7, <2>2, <2>3, <2>4 DEF BpSet
  <1>8. ASSUME NEW a \in Addrs, WriteMem(a) PROVE TypeOK'
    <2>1. process \in Targets
      BY <1>8 DEF WriteMem, Readable
    <2>2. /\ mem' \in [Targets -> [Addrs -> Byte]]
          /\ code' \in [Targets -> [Addrs -> {"own", "patch"}]]
      BY <1>8, <2>1 DEF WriteMem, Write, Byte
    <2>3. QED
      BY <1>8, <2>2 DEF WriteMem
  <1>9. ASSUME NEW id \in BpIds, BpClear(id) PROVE TypeOK'
    <2>1. mem' \in [Targets -> [Addrs -> Byte]]
      BY <1>9 DEF BpClear, Restored, Readable
    <2>2. QED
      BY <1>9, <2>1 DEF BpClear
  <1>10. CASE BpClearAll
    <2>1. PICK last \in [Addrs -> BpIds] :
            mem' = IF Readable(process)
                   THEN [mem EXCEPT ![process] =
                           [a \in Addrs |-> IF BpsAt(a) = {} THEN @[a]
                                                             ELSE bps[last[a]].original]]
                   ELSE mem
      BY <1>10 DEF BpClearAll
    <2>2. \A a \in Addrs : bps[last[a]].original \in Byte
      OBVIOUS
    <2>3. mem' \in [Targets -> [Addrs -> Byte]]
      BY <2>1, <2>2 DEF Readable
    <2>4. QED
      BY <1>10, <2>3, EmptyMap DEF BpClearAll
  <1>11. CASE UNCHANGED vars
    BY <1>11 DEF vars
  <1>12. QED
    BY <1>1, <1>2, <1>3, <1>4, <1>5, <1>6, <1>7, <1>8, <1>9, <1>10, <1>11 DEF Next

-------------------------------------------------------------------------------
(* One debuggee at a time.                                                   *)
LEMMA NextBelow == TypeOK /\ BpsBelow /\ [Next]_vars => BpsBelow'
  <1> SUFFICES ASSUME TypeOK, BpsBelow, [Next]_vars PROVE BpsBelow'
    OBVIOUS
  <1> USE DEF BpsBelow, BpIds
  <1>1. CASE UNCHANGED <<bps, nextBp>>
    BY <1>1
  <1>2. CASE bps' = <<>>
    BY <1>2, EmptyMap
  <1>3. ASSUME NEW a \in Addrs, BpSet(a) PROVE BpsBelow'
    <2>1. \A id \in BpIds : id \in Int
      BY DEF TypeOK
    <2>2. nextBp \in Int /\ nextBp' = nextBp + 1 /\ DOMAIN bps' = BpIds \union {nextBp}
      BY <1>3 DEF BpSet, TypeOK
    <2>3. QED
      BY <2>1, <2>2
  <1>4. ASSUME NEW id \in BpIds, BpClear(id) PROVE BpsBelow'
    BY <1>4 DEF BpClear
  <1>5. QED
    BY <1>1, <1>2, <1>3, <1>4
       DEF Next, OpenFails, CloseAll, OpenDebuggee, Detach, ContinueAndWait, ContinueFails, Pause, WaitEvent,
           WriteMem, BpClearAll, vars, stateVars

(* Nothing but opening, closing, continuing and waiting touches what OneRuns *)
(* speaks of.                                                                *)
LEMMA OneRunsKept ==
  ASSUME OneRuns, UNCHANGED <<pid, process, lastEvent, at, ps, debugged>>
  PROVE  OneRuns'
  BY DEF OneRuns

LEMMA NextOneRuns == TypeOK /\ OneRuns /\ [Next]_vars => OneRuns'
  <1> SUFFICES ASSUME TypeOK, OneRuns, [Next]_vars PROVE OneRuns'
    OBVIOUS
  <1>1. ASSUME NEW m \in {"launch", "attach"}, OpenFails(m) PROVE OneRuns'
    BY <1>1 DEF OneRuns, OpenFails, CloseAll, ProcessClosed, Ready, osVars
  <1>2. ASSUME NEW m \in {"launch", "attach"}, NEW p \in Targets, OpenDebuggee(m, p) PROVE OneRuns'
    <2>1. \A q \in Targets : ps'[q] = IF q = p THEN "running" ELSE ps[q]
      BY <1>2 DEF OpenDebuggee, TypeOK
    <2>2. /\ at = "idle" /\ at' = m /\ m # "idle" /\ pid' = p /\ process' = p
          /\ lastEvent' = None /\ debugged' = debugged \union {p} /\ debugged \subseteq Targets
      BY <1>2 DEF OpenDebuggee, Ready, TypeOK
    <2>3. QED
      BY <2>1, <2>2 DEF OneRuns
  <1>3. CASE Detach
    <2>1. at = "idle" /\ UNCHANGED at
      BY <1>3 DEF Detach, Ready
    <2>2. /\ pid' = None /\ process' = None /\ lastEvent' = None
          /\ debugged' \subseteq debugged
          /\ \A q \in debugged' : ps'[q] = ps[q]
      BY <1>3 DEF Detach, CloseAll, ProcessClosed, ReleasedFrom, TypeOK
    <2>3. QED
      BY <2>1, <2>2 DEF OneRuns
  <1>4. CASE ContinueAndWait
    <2>1. /\ \A q \in Targets : q # lastEvent => ps'[q] = ps[q]
          /\ lastEvent # None => ps'[lastEvent] = Runs(lastEvent)
          /\ at' = "go" /\ at = "idle" /\ lastEvent' = None
          /\ UNCHANGED <<pid, process, debugged>>
      BY <1>4 DEF ContinueAndWait, TypeOK, Ready
    <2>2. \A q \in Targets : ps[q] # "none" => Runs(q) # "none"
      BY DEF Runs
    <2>3. QED
      BY <2>1, <2>2, WinapiAssumption DEF OneRuns, TypeOK
  <1>5. CASE ContinueFails \/ Pause
    BY <1>5 DEF ContinueFails, Pause, OneRuns, Ready, stateVars, osVars
  <1>6. ASSUME NEW p \in Targets, WaitEvent(p) PROVE OneRuns'
    <2>1. p = process
      BY <1>6 DEF WaitEvent, OneRuns
    <2>2. /\ \A q \in Targets : q # p => ps'[q] = ps[q]
          /\ ps'[p] \in {"stopped", "exiting"}
          /\ pid' = p /\ lastEvent' = p /\ UNCHANGED <<process, debugged>>
      BY <1>6 DEF WaitEvent, TypeOK
    <2>3. QED
      BY <2>1, <2>2 DEF OneRuns, TypeOK
  <1>7. ASSUME NEW a \in Addrs, BpSet(a) \/ WriteMem(a) PROVE OneRuns'
    BY <1>7, OneRunsKept DEF BpSet, WriteMem, stateVars
  <1>8. ASSUME NEW id \in BpIds, BpClear(id) PROVE OneRuns'
    BY <1>8, OneRunsKept DEF BpClear
  <1>9. CASE BpClearAll
    BY <1>9, OneRunsKept DEF BpClearAll
  <1>10. CASE UNCHANGED vars
    BY <1>10, OneRunsKept DEF vars, stateVars, osVars
  <1>11. QED
    BY <1>1, <1>2, <1>3, <1>4, <1>5, <1>6, <1>7, <1>8, <1>9, <1>10 DEF Next

(* Bytes change only in the one debuggee, and only while the backend is      *)
(* idle: then it does not run (winapi_impl.rs:112-132,425-446).              *)
THEOREM WritesFindStopped == Spec => WritesOnlyWhileStopped
  <1>1. TypeOK /\ OneRuns /\ [Next]_vars =>
          [\A p \in Targets :
             mem'[p] # mem[p] => p \in debugged /\ ps[p] \in {"stopped", "exiting"}]_vars
    <2> SUFFICES ASSUME TypeOK, OneRuns, Next, NEW p \in Targets, mem'[p] # mem[p]
                 PROVE  p \in debugged /\ ps[p] \in {"stopped", "exiting"}
      OBVIOUS
    <2>1. at = "idle" /\ Readable(process) => process \in debugged /\ ps[process] \in {"stopped", "exiting"}
      BY DEF OneRuns, Readable
    <2>2. ASSUME NEW a \in Addrs, BpSet(a) \/ WriteMem(a)
          PROVE  at = "idle" /\ Readable(process) /\ p = process
      BY <2>2 DEF BpSet, WriteMem, Ready, Write, TypeOK
    <2>3. ASSUME NEW id \in BpIds, BpClear(id)
          PROVE  at = "idle" /\ Readable(process) /\ p = process
      BY <2>3 DEF BpClear, Ready, Restored, TypeOK
    <2>4. CASE BpClearAll
      <3>1. at = "idle" /\ Readable(process) /\ p = process
        BY <2>4 DEF BpClearAll, Ready, TypeOK
      <3>2. QED
        BY <2>1, <3>1
    <2>5. mem' = mem \/ BpClearAll \/ (\E a \in Addrs : BpSet(a) \/ WriteMem(a))
            \/ (\E id \in BpIds : BpClear(id))
      BY DEF Next, OpenFails, OpenDebuggee, Detach, ContinueAndWait, ContinueFails, Pause, WaitEvent, osVars
    <2>6. QED
      BY <2>1, <2>2, <2>3, <2>4, <2>5
  <1>2. Init => TypeOK /\ OneRuns
    BY InitInv DEF Inv
  <1>3. QED
    BY <1>1, <1>2, NextType, NextOneRuns, PTL DEF Spec, WritesOnlyWhileStopped

-------------------------------------------------------------------------------
(* The tidy client.                                                          *)

(* A process and a map of breakpoints that match: every byte of the process  *)
(* is as it should be.                                                       *)
Exact(p) ==
  \A a \in Addrs :
    /\ mem[p][a] = IF BpsAt(a) = {} THEN code[p][a] ELSE "int3"
    /\ \A id \in BpsAt(a) : bps[id].original = code[p][a]

LEMMA ExactIs == tidy /\ BreakpointsAreExact /\ Readable(process) => Exact(process)
  BY DEF BreakpointsAreExact, Readable, Exact

LEMMA ExactMakes ==
  ASSUME process' # None /\ Readable(process)' => Exact(process)'
  PROVE  BreakpointsAreExact'
  BY DEF BreakpointsAreExact, Exact

(* Without breakpoints an exact process is clean.                            *)
LEMMA ExactIsClean ==
  ASSUME TypeOK, NEW p \in Targets, Exact(p), BpIds = {}
  PROVE  mem[p] = code[p]
  <1>1. \A a \in Addrs : mem[p][a] = code[p][a]
    BY DEF Exact, BpsAt
  <1>2. QED
    BY <1>1 DEF TypeOK

(* A step that writes nothing, leaves the breakpoints and the debuggee, and  *)
(* lets no other process run.                                                *)
LEMMA TidyQuiet ==
  ASSUME TypeOK, TidyInv, tidy, UNCHANGED <<process, bps, mem, code>>,
         Readable(process)' => Readable(process),
         \A p \in Targets : p # process /\ ps'[p] \in {"none", "running"} => ps[p] = ps'[p],
         FrozenCanDetach'
  PROVE  TidyInv'
  <1>1. OnePerAddr' /\ NoneWithoutProcess'
    BY DEF TidyInv, OnePerAddr, NoneWithoutProcess, BpIds
  <1>2. OthersClean'
    BY DEF TidyInv, OthersClean
  <1>3. BreakpointsAreExact'
    BY DEF TidyInv, BreakpointsAreExact, BpsAt, BpIds
  <1>4. QED
    BY <1>1, <1>2, <1>3 DEF TidyInv

(* Opening and closing start from and end in an empty map.                   *)
LEMMA TidyOpens ==
  ASSUME Inv, NEW m \in {"launch", "attach"}, tidy, NEW p \in Targets, OpenDebuggee(m, p)
  PROVE  TidyInv'
  <1>1. /\ process = None /\ OthersClean /\ FrozenCanDetach
        /\ mem[p] = code[p]
    <2>1. process = None /\ ps[p] \in {"none", "running"} /\ p # process
      BY WinapiAssumption DEF OpenDebuggee, Ready, Inv, OneRuns
    <2>2. QED
      BY <2>1 DEF Inv, TidyInv, OthersClean
  <1>2. /\ process' = p /\ pid' = p /\ bps' = <<>> /\ UNCHANGED <<mem, code, tidy>>
        /\ debugged' = debugged \union {p}
        /\ \A q \in Targets : ps'[q] = IF q = p THEN "running" ELSE ps[q]
    BY DEF OpenDebuggee, Inv, TypeOK
  <1>3. BpIds' = {} /\ \A a \in Addrs : BpsAt(a)' = {}
    BY <1>2, EmptyMap DEF BpIds, BpsAt
  <1>4. OnePerAddr' /\ NoneWithoutProcess'
    BY <1>3 DEF OnePerAddr, NoneWithoutProcess
  <1>5. OthersClean'
    BY <1>1, <1>2, WinapiAssumption DEF OthersClean
  <1>6. BreakpointsAreExact'
    BY <1>1, <1>2, <1>3 DEF BreakpointsAreExact
  <1>7. FrozenCanDetach'
    <2>1. \A q \in debugged : ps[q] \notin {"stopped", "exiting"}
      BY <1>1, WinapiAssumption DEF FrozenCanDetach, Inv, OneRuns, TypeOK
    <2>2. QED
      BY <1>2, <2>1 DEF FrozenCanDetach, Inv, TypeOK
  <1>8. QED
    BY <1>4, <1>5, <1>6, <1>7 DEF TidyInv

LEMMA TidyDetaches ==
  ASSUME Inv, tidy, Detach
  PROVE  TidyInv'
  <1>1. /\ BpIds = {} /\ pid = process /\ OthersClean /\ FrozenCanDetach
        /\ process' = None /\ bps' = <<>> /\ UNCHANGED <<mem, code, tidy>>
    BY DEF Detach, Ready, CloseAll, ProcessClosed, Inv, OneRuns, TidyInv
  <1>2. BpIds' = {}
    BY <1>1, EmptyMap DEF BpIds
  <1>3. OnePerAddr' /\ NoneWithoutProcess' /\ BreakpointsAreExact'
    BY <1>1, <1>2 DEF OnePerAddr, NoneWithoutProcess, BreakpointsAreExact
  <1>4. CASE pid = None
    <2>1. UNCHANGED <<ps, debugged>> /\ process = None
      BY <1>1, <1>4 DEF Detach
    <2>2. OthersClean'
      BY <1>1, <2>1 DEF OthersClean
    <2>3. FrozenCanDetach'
      BY <1>1, <1>4, <2>1, WinapiAssumption DEF FrozenCanDetach, Inv, TypeOK
    <2>4. QED
      BY <1>3, <2>2, <2>3 DEF TidyInv
  <1>5. CASE pid # None
    <2>1. /\ pid \in Targets /\ debugged' = debugged \ {pid}
          /\ \A q \in Targets : ps'[q] = IF q = pid THEN Runs(pid) ELSE ps[q]
      BY <1>5 DEF Detach, ReleasedFrom, Inv, TypeOK
    <2>2. ps'[pid] \in {"none", "running"} => mem[pid] = code[pid]
      <3>1. ASSUME ps'[pid] \in {"none", "running"} PROVE Readable(process)
        <4>1. ps[pid] # "none" /\ process # None /\ ps[pid] # "dead"
          BY <1>1, <1>5, <2>1, <3>1 DEF Inv, OneRuns, Runs
        <4>2. QED
          BY <1>1, <4>1, <2>1 DEF Readable, Inv, TypeOK
      <3>2. QED
        BY <1>1, <2>1, <3>1, ExactIs, ExactIsClean DEF Inv, TidyInv
    <2>3. OthersClean'
      BY <1>1, <2>1, <2>2 DEF OthersClean
    <2>4. FrozenCanDetach'
      BY <1>1, <2>1 DEF FrozenCanDetach, Inv, TypeOK
    <2>5. QED
      BY <1>3, <2>3, <2>4 DEF TidyInv
  <1>6. QED
    BY <1>4, <1>5

LEMMA TidyContinues ==
  ASSUME Inv, tidy, ContinueAndWait
  PROVE  TidyInv'
  <1>1. /\ lastEvent # None /\ lastEvent = process /\ ps[process] = "stopped"
        /\ UNCHANGED <<process, bps, mem, code, tidy, debugged>>
        /\ lastEvent \in Targets
    BY DEF ContinueAndWait, Ready, Inv, OneRuns, TypeOK
  <1>2. \A q \in Targets : ps'[q] = IF q = process THEN "running" ELSE ps[q]
    BY <1>1 DEF ContinueAndWait, Runs, Inv, TypeOK
  <1>3. Readable(process)
    BY <1>1 DEF Readable
  <1>4. FrozenCanDetach'
    <2>1. \A q \in debugged : q # process => ps[q] \notin {"stopped", "exiting"}
      BY DEF FrozenCanDetach, Inv, TidyInv, OneRuns
    <2>2. \A q \in debugged : ps'[q] \notin {"stopped", "exiting"}
      BY <1>2, <2>1 DEF Inv, TypeOK
    <2>3. QED
      BY <1>1, <2>2 DEF FrozenCanDetach
  <1>5. QED
    BY <1>1, <1>2, <1>3, <1>4, TidyQuiet DEF Inv

LEMMA TidyWaits ==
  ASSUME Inv, tidy, NEW p \in Targets, WaitEvent(p)
  PROVE  TidyInv'
  <1>1. /\ p = process /\ ps[p] = "running" /\ pid' = p /\ lastEvent' = p
        /\ UNCHANGED <<process, bps, mem, code, tidy, debugged>>
    BY DEF WaitEvent, Inv, OneRuns
  <1>2. /\ \A q \in Targets : q # p => ps'[q] = ps[q]
        /\ ps'[p] \in {"stopped", "exiting"}
    BY DEF WaitEvent, Inv, TypeOK
  <1>3. Readable(process)
    BY <1>1, WinapiAssumption DEF Readable
  <1>4. FrozenCanDetach'
    <2>1. \A q \in debugged : q # p => ps[q] \notin {"stopped", "exiting"}
      BY <1>1, WinapiAssumption DEF FrozenCanDetach, Inv, TidyInv, OneRuns
    <2>2. \A q \in debugged : q # p => ps'[q] \notin {"stopped", "exiting"}
      BY <1>2, <2>1 DEF Inv, TypeOK
    <2>3. pid' = p /\ at' = "idle" /\ debugged' = debugged
      BY DEF WaitEvent
    <2>4. QED
      BY <2>2, <2>3 DEF FrozenCanDetach
  <1>5. QED
    BY <1>1, <1>2, <1>3, <1>4, TidyQuiet DEF Inv

(* A step of the idle backend that touches only breakpoints and bytes of its *)
(* debuggee.                                                                 *)
LEMMA TidyBytes ==
  ASSUME Inv, tidy, process # None,
         UNCHANGED <<pid, process, at, ps, debugged>>,
         \A q \in Targets : q # process => mem'[q] = mem[q] /\ code'[q] = code[q],
         OnePerAddr', Readable(process) => Exact(process)'
  PROVE  TidyInv'
  <1>1. NoneWithoutProcess'
    BY DEF NoneWithoutProcess
  <1>2. OthersClean'
    BY DEF OthersClean, Inv, TidyInv
  <1>3. BreakpointsAreExact'
    BY ExactMakes DEF Readable
  <1>4. FrozenCanDetach'
    BY DEF FrozenCanDetach, Inv, TidyInv
  <1>5. QED
    BY <1>1, <1>2, <1>3, <1>4 DEF TidyInv

LEMMA TidySets ==
  ASSUME Inv, tidy, NEW a \in Addrs, BpSet(a)
  PROVE  TidyInv'
  <1>1. /\ Readable(process) /\ process \in Targets /\ BpsAt(a) = {} /\ nextBp \notin BpIds
        /\ UNCHANGED <<pid, process, at, ps, debugged, code>>
    BY DEF BpSet, Readable, Inv, TypeOK, BpsBelow
  <1>2. Exact(process)
    BY <1>1, ExactIs DEF Inv, TidyInv
  <1>3. mem[process][a] = code[process][a]
    BY <1>1, <1>2 DEF Exact
  <1>4. /\ BpIds' = BpIds \union {nextBp}
        /\ bps'[nextBp].addr = a /\ bps'[nextBp].original = code[process][a]
        /\ \A id \in BpIds : bps'[id] = bps[id]
    BY <1>1, <1>3 DEF BpSet, BpIds, OldByte
  <1>5. OnePerAddr'
    BY <1>1, <1>4 DEF OnePerAddr, BpsAt, Inv, TidyInv
  <1>6. \A b \in Addrs : BpsAt(b)' = IF b = a THEN {nextBp} ELSE BpsAt(b)
    BY <1>1, <1>4 DEF BpsAt
  <1>7. /\ \A q \in Targets : q # process => mem'[q] = mem[q]
        /\ \A b \in Addrs : mem'[process][b] = IF b = a THEN "int3" ELSE mem[process][b]
    BY <1>1 DEF BpSet, Write, Inv, TypeOK
  <1>8. Exact(process)'
    <2>1. ASSUME NEW b \in Addrs
          PROVE  /\ mem'[process][b] = IF BpsAt(b)' = {} THEN code[process][b] ELSE "int3"
                 /\ \A id \in BpsAt(b)' : bps'[id].original = code[process][b]
      <3>1. CASE b = a
        BY <1>4, <1>6, <1>7, <3>1
      <3>2. CASE b # a
        <4>1. BpsAt(b)' = BpsAt(b) /\ mem'[process][b] = mem[process][b]
          BY <1>6, <1>7, <3>2
        <4>2. \A id \in BpsAt(b) : bps'[id] = bps[id]
          BY <1>4 DEF BpsAt
        <4>3. QED
          BY <1>2, <4>1, <4>2 DEF Exact
      <3>3. QED
        BY <3>1, <3>2
    <2>2. QED
      BY <1>1, <2>1 DEF Exact
  <1>9. QED
    BY <1>1, <1>5, <1>7, <1>8, WinapiAssumption, TidyBytes

LEMMA TidyWrites ==
  ASSUME Inv, tidy, NEW a \in Addrs, WriteMem(a)
  PROVE  TidyInv'
  <1>1. /\ Readable(process) /\ process \in Targets /\ BpsAt(a) = {}
        /\ UNCHANGED <<pid, process, at, ps, debugged, bps>>
    BY DEF WriteMem, Readable, Inv, TypeOK, stateVars
  <1>2. Exact(process)
    BY <1>1, ExactIs DEF Inv, TidyInv
  <1>3. /\ \A q \in Targets : q # process => mem'[q] = mem[q] /\ code'[q] = code[q]
        /\ \A b \in Addrs : /\ mem'[process][b] = IF b = a THEN "patch" ELSE mem[process][b]
                            /\ code'[process][b] = IF b = a THEN "patch" ELSE code[process][b]
    BY <1>1 DEF WriteMem, Write, Inv, TypeOK
  <1>4. /\ OnePerAddr'
        /\ \A b \in Addrs : BpsAt(b)' = BpsAt(b)
    BY <1>1 DEF OnePerAddr, BpsAt, BpIds, Inv, TidyInv
  <1>5. Exact(process)'
    BY <1>1, <1>2, <1>3, <1>4 DEF Exact
  <1>6. QED
    BY <1>1, <1>3, <1>4, <1>5, WinapiAssumption, TidyBytes

LEMMA TidyClears ==
  ASSUME Inv, tidy, NEW id \in BpIds, BpClear(id)
  PROVE  TidyInv'
  <1> DEFINE a == bps[id].addr
  <1>1. /\ a \in Addrs /\ id \in BpsAt(a) /\ process # None /\ process \in Targets
        /\ UNCHANGED <<pid, process, at, ps, debugged, code>>
    BY DEF BpClear, BpsAt, Inv, TypeOK, TidyInv, NoneWithoutProcess
  <1>2. BpIds' = BpIds \ {id} /\ \A i \in BpIds \ {id} : bps'[i] = bps[i]
    BY DEF BpClear, BpIds
  <1>3. OnePerAddr'
    BY <1>2 DEF OnePerAddr, Inv, TidyInv
  <1>4. \A i \in BpIds : bps[i].addr = a => i = id
    BY DEF Inv, TidyInv, OnePerAddr
  <1>5. \A b \in Addrs : BpsAt(b)' = IF b = a THEN {} ELSE BpsAt(b)
    BY <1>1, <1>2, <1>4 DEF BpsAt
  <1>6. \A q \in Targets : q # process => mem'[q] = mem[q]
    BY DEF BpClear, Restored, Inv, TypeOK
  <1>7. ASSUME Readable(process) PROVE Exact(process)'
    <2>1. Exact(process)
      BY <1>7, ExactIs DEF Inv, TidyInv
    <2>2. \A b \in Addrs : mem'[process][b] = IF b = a THEN bps[id].original ELSE mem[process][b]
      BY <1>1, <1>7 DEF BpClear, Restored, Inv, TypeOK
    <2>3. bps[id].original = code[process][a]
      BY <1>1, <2>1 DEF Exact
    <2> HIDE DEF a
    <2>4. \A b \in Addrs : \A i \in BpsAt(b)' : bps'[i] = bps[i]
      BY <1>2 DEF BpsAt
    <2>5. QED
      BY <1>1, <1>5, <2>1, <2>2, <2>3, <2>4 DEF Exact
  <1>8. QED
    BY <1>1, <1>3, <1>6, <1>7, TidyBytes

LEMMA TidyClearsAll ==
  ASSUME Inv, tidy, BpClearAll
  PROVE  TidyInv'
  <1>1. /\ process # None /\ process \in Targets /\ bps' = <<>>
        /\ UNCHANGED <<pid, process, at, ps, debugged, code>>
    BY DEF BpClearAll, Inv, TypeOK, TidyInv, NoneWithoutProcess
  <1>2. BpIds' = {} /\ OnePerAddr' /\ \A b \in Addrs : BpsAt(b)' = {}
    BY <1>1, EmptyMap DEF BpIds, OnePerAddr, BpsAt
  <1>3. PICK last \in [Addrs -> BpIds] :
          /\ \A a \in Addrs : BpsAt(a) # {} => last[a] \in BpsAt(a)
          /\ mem' = IF Readable(process)
                    THEN [mem EXCEPT ![process] =
                            [a \in Addrs |-> IF BpsAt(a) = {} THEN @[a]
                                                              ELSE bps[last[a]].original]]
                    ELSE mem
    BY DEF BpClearAll
  <1>4. \A q \in Targets : q # process => mem'[q] = mem[q]
    BY <1>3 DEF Inv, TypeOK
  <1>5. ASSUME Readable(process) PROVE Exact(process)'
    <2>1. Exact(process)
      BY <1>5, ExactIs DEF Inv, TidyInv
    <2>2. \A a \in Addrs : mem'[process][a] = IF BpsAt(a) = {} THEN mem[process][a]
                                                               ELSE bps[last[a]].original
      BY <1>1, <1>3, <1>5 DEF Inv, TypeOK
    <2>3. \A a \in Addrs : mem'[process][a] = code[process][a]
      BY <1>3, <2>1, <2>2 DEF Exact
    <2>4. QED
      BY <1>1, <1>2, <2>3 DEF Exact
  <1>6. QED
    BY <1>1, <1>2, <1>4, <1>5, TidyBytes

LEMMA NextTidy == Inv /\ [Next]_vars => TidyInv'
  <1> SUFFICES ASSUME Inv, [Next]_vars, tidy' PROVE TidyInv'
    BY DEF TidyInv
  <1>1. tidy
    BY DEF Next, OpenFails, OpenDebuggee, Detach, ContinueAndWait, ContinueFails, Pause, WaitEvent, BpSet,
           WriteMem, BpClear, BpClearAll, vars
  <1>2. CASE UNCHANGED <<pid, process, at, bps, ps, debugged, mem, code>>
    BY <1>1, <1>2
       DEF Inv, TidyInv, OnePerAddr, NoneWithoutProcess, OthersClean, BreakpointsAreExact,
           FrozenCanDetach, BpIds, BpsAt, Readable
  <1>3. ASSUME NEW m \in {"launch", "attach"}, OpenFails(m)
        PROVE  TidyInv'
    <2>1. /\ process = None /\ pid = None /\ lastEvent = None /\ BpIds = {} /\ bps' = <<>>
          /\ UNCHANGED <<pid, process, at, ps, debugged, mem, code>>
      BY <1>1, <1>3 DEF OpenFails, Ready, CloseAll, ProcessClosed, osVars, Inv, OneRuns,
                        TidyInv, NoneWithoutProcess
    <2>2. BpIds' = {}
      BY <2>1, EmptyMap DEF BpIds
    <2>3. OnePerAddr' /\ NoneWithoutProcess' /\ OthersClean' /\ BreakpointsAreExact' /\ FrozenCanDetach'
      BY <1>1, <2>1, <2>2
         DEF Inv, TidyInv, OnePerAddr, NoneWithoutProcess, OthersClean, BreakpointsAreExact,
             FrozenCanDetach
    <2>4. QED
      BY <2>3 DEF TidyInv
  <1>4. CASE ContinueFails \/ Pause
    BY <1>1, <1>2, <1>4 DEF ContinueFails, Pause, Ready, osVars
  <1>5. CASE UNCHANGED vars
    BY <1>2, <1>5 DEF vars, stateVars, osVars
  <1>6. QED
    BY <1>1, <1>2, <1>3, <1>4, <1>5, TidyOpens, TidyDetaches, TidyContinues, TidyWaits,
       TidySets, TidyWrites, TidyClears, TidyClearsAll DEF Next

-------------------------------------------------------------------------------
LEMMA SpecInv == Spec => []Inv
  <1>1. Inv /\ [Next]_vars => Inv'
    BY NextType, NextBelow, NextOneRuns, NextTidy DEF Inv
  <1>2. QED
    BY <1>1, InitInv, PTL DEF Spec

(* Every variable keeps its type.                                            *)
THEOREM TypeCorrect == Spec => []TypeOK
  <1>1. Inv => TypeOK
    BY DEF Inv
  <1>2. QED
    BY <1>1, SpecInv, PTL

(* For a client that keeps to one breakpoint per address and clears before   *)
(* it detaches, int3 bytes and listed breakpoints are the same at any time   *)
(* (winapi_impl.rs:774-831).                                                 *)
THEOREM ExactBreakpoints == Spec => []BreakpointsAreExact
  <1>1. Inv => BreakpointsAreExact
    BY DEF Inv, TidyInv, BreakpointsAreExact
  <1>2. QED
    BY <1>1, SpecInv, PTL

(* ... and it leaves no int3 in a process that runs on without its debugger  *)
(* (winapi_impl.rs:645-662).                                                 *)
THEOREM CleanRelease == Spec => []ReleasedCodeIsClean
  <1>1. Inv => ReleasedCodeIsClean
    BY WinapiAssumption DEF Inv, OneRuns, TidyInv, OthersClean, ReleasedCodeIsClean
  <1>2. QED
    BY <1>1, SpecInv, PTL

(* ... nor a process frozen out of its reach, also after a go that failed    *)
(* and forgot the event: the next detach lets it run                         *)
(* (winapi_impl.rs:226-229,375-384,645-662).                                 *)
THEOREM NoneLeftFrozen == Spec => []FrozenCanDetach
  <1>1. Inv => FrozenCanDetach
    BY DEF Inv, TidyInv, FrozenCanDetach
  <1>2. QED
    BY <1>1, SpecInv, PTL
===============================================================================
