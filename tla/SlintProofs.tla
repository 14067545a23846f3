------------------------------ MODULE SlintProofs ------------------------------
(* What the Slint window shows is true as long as nobody has moved a target  *)
(* or the session since the command was given that wrote it, for any number  *)
(* of threads, sessions and events.                                          *)
EXTENDS SlintClient, FiniteSetTheorems, SequenceTheorems, TLAPS

-------------------------------------------------------------------------------
(* The calls a thread may still have to make, for each command.              *)
RefreshTodos ==
  {<<"regs", "lists", "disasm", "readMem">>, <<"lists", "disasm", "readMem">>,
   <<"disasm", "readMem">>, <<"readMem">>, <<>>}
Before(r) == <<r, "regs", "lists", "disasm", "readMem">>
Todos(c) ==
  CASE c = "core" -> {<<"hello">>, <<>>}
    [] c = "winapi" -> {<<"start">>, <<>>}
    [] c = "stop" -> {<<"stop">>, <<>>}
    [] c = "open" -> {<<"start", "launch", "regs", "lists", "disasm", "readMem">>, Before("launch")}
                     \union RefreshTodos
    [] c \in {"run", "g"} -> {Before("move")} \union RefreshTodos
    [] c = "pause" -> {Before("pause")} \union RefreshTodos
    [] c = "bp" -> {<<"regs", "bpSet">>, <<"bpSet">>, <<>>}
    [] c = "refresh" -> RefreshTodos
    [] c = "u" -> {<<"regs", "disasm">>, <<"disasm">>, <<>>}
    [] c = "db" -> {<<"readMem">>, <<>>}

In(t) == {t[i] : i \in DOMAIN t}
Left(w) == In(todo[w])
Found == {"lists", "disasm", "readMem"}

(* Where a thread is: it has calls to make as long as it is under way, and a *)
(* session while one of them is in its hands.                                *)
Place(w) ==
  /\ todo[w] \in Todos(cmd[w])
  /\ at[w] \in {"call", "sent", "moving", "stopping"} <=> todo[w] # <<>>
  /\ at[w] = "sent" => Head(todo[w]) \notin {"hello", "start", "stop"}
  /\ at[w] = "moving" => Head(todo[w]) \in {"move", "pause"}
  /\ at[w] = "stopping" => Head(todo[w]) = "stop"
  /\ at[w] \in {"sent", "moving", "stopping"} => bound[w] \in Sessions
  /\ at[w] = "idle" => got[w] = <<>>
  /\ failed[w] => at[w] \in {"ready", "done"}

(* What a thread has learned: what its patch is made from, once it has made  *)
(* the calls for it.                                                         *)
Gathered(w) == DOMAIN got[w] \union Left(w)
Gotten(w) ==
  /\ DOMAIN got[w] \intersect Left(w) = {}
  /\ \A k \in DOMAIN got[w] \ {"event"} : got[w][k] \in Versions \union {Empty}
  /\ ~failed[w] /\ at[w] # "idle" /\ at[w] # "done" =>
       /\ cmd[w] = "bp" => "bpSet" \in Gathered(w)
       /\ cmd[w] = "u" => "disasm" \in Gathered(w)
       /\ cmd[w] = "db" => "readMem" \in Gathered(w)
       /\ cmd[w] \in Refreshing /\ "regs" \in Gathered(w) => Found \subseteq Gathered(w)
       /\ cmd[w] = "run" => "event" \in DOMAIN got[w] \/ "move" \in Left(w)

(* What is still true of it if nobody else has moved anything.               *)
Undisturbed(w) ==
  fresh[w] =>
    /\ at[w] \in {"sent", "moving"} => bound[w] = session /\ session # None
    /\ at[w] = "stopping" => session = None
    /\ at[w] = "ready" /\ ~failed[w] => /\ cmd[w] = "winapi" => session # None
                                        /\ cmd[w] = "stop" => session = None
    /\ cmd[w] \in Refreshing /\ "regs" \in DOMAIN got[w] =>
         /\ bound[w] = session /\ session # None
         /\ got[w]["regs"] = Now(session)
         /\ \A f \in Found \intersect DOMAIN got[w] : got[w][f] \in {Now(session), Empty}
    /\ cmd[w] = "run" /\ "event" \in DOMAIN got[w] =>
         /\ bound[w] = session /\ session # None
         /\ got[w]["event"] = "exit_process" <=> target[session] = "exited"

(* Events: each thread that moves a debuggee does it once.                   *)
Moved == {w \in Workers : at[w] # "idle" /\ {"launch", "move"} \intersect Left(w) = {}}
CountInv == \A s \in Sessions : events[s] <= Cardinality(Moved)

WindowInv == last.by # None => last.by \in Workers /\ at[last.by] = "done"

WorkerInv(w) == Place(w) /\ Gotten(w) /\ Undisturbed(w)
Inv ==
  /\ TypeOK /\ DOMAIN todo = Workers /\ DOMAIN got = Workers
  /\ \A w \in Workers : WorkerInv(w)
  /\ CountInv /\ WindowInv
  /\ ViewIsCurrent /\ LabelIsTrue /\ RunShowsExit

-------------------------------------------------------------------------------
(* The calls of a command, one after another.                                *)
LEMMA CommandNames ==
  Commands = {"core", "winapi", "stop", "open", "run", "pause", "bp", "refresh", "u", "db", "g"}
  BY DEF Commands, Program, Over, Clicks, Console

(* What is left when a call has been made.                                   *)
LEMMA RefreshRest ==
  ASSUME NEW t \in RefreshTodos, t # <<>>
  PROVE  /\ Tail(t) \in RefreshTodos
         /\ In(t) = In(Tail(t)) \union {Head(t)} /\ Head(t) \notin In(Tail(t))
         /\ In(t) \subseteq {"regs", "lists", "disasm", "readMem"}
         /\ "regs" \in In(t) <=> Head(t) = "regs"
         /\ "regs" \in In(t) => Found \subseteq In(t)
  <1>1. CASE t = <<"regs", "lists", "disasm", "readMem">>
    BY <1>1 DEF RefreshTodos, In, Found
  <1>2. CASE t = <<"lists", "disasm", "readMem">>
    BY <1>2 DEF RefreshTodos, In, Found
  <1>3. CASE t = <<"disasm", "readMem">>
    BY <1>3 DEF RefreshTodos, In, Found
  <1>4. CASE t = <<"readMem">>
    BY <1>4 DEF RefreshTodos, In, Found
  <1>5. QED
    BY <1>1, <1>2, <1>3, <1>4 DEF RefreshTodos

LEMMA BeforeRest ==
  ASSUME NEW r \in {"launch", "move", "pause"}
  PROVE  /\ Tail(Before(r)) \in RefreshTodos /\ Head(Before(r)) = r /\ Before(r) # <<>>
         /\ In(Before(r)) = {r, "regs", "lists", "disasm", "readMem"}
         /\ In(Tail(Before(r))) = {"regs", "lists", "disasm", "readMem"}
  BY DEF Before, RefreshTodos, In

(* Which command makes the next call, and what it still makes after that.    *)
Orderly(c, t) ==
  LET r == Head(t)
  IN /\ r = "hello" => c = "core"
     /\ r = "start" => c \in {"winapi", "open"}
     /\ r = "stop" => c = "stop"
     /\ r = "launch" => c = "open"
     /\ r = "move" => c \in {"run", "g"}
     /\ r = "pause" => c = "pause"
     /\ r = "bpSet" => c = "bp"
     /\ r = "regs" => c \in Refreshing \union {"bp", "u"}
     /\ r = "lists" => c \in Refreshing
     /\ r = "disasm" => c \in Refreshing \union {"u"}
     /\ r = "readMem" => c \in Refreshing \union {"db"}
     /\ c \in {"core", "winapi", "stop"} => Tail(t) = <<>>
     /\ r \in {"start", "launch", "move", "pause"} /\ c # "winapi" => "regs" \in In(t)
     /\ c \in Refreshing /\ "regs" \in In(t) => Found \subseteq In(t)
     /\ c \in Refreshing /\ r \in Found => "regs" \notin In(t)
     /\ r # "start" => {"launch", "move"} \intersect In(Tail(t)) = {}
     /\ c = "run" /\ r # "move" => "move" \notin In(t)
     /\ "event" \notin In(t)

LEMMA RestOfRefresh ==
  ASSUME NEW c \in Refreshing, NEW t \in RefreshTodos, t # <<>>
  PROVE  Orderly(c, t)
  <1>1. /\ Tail(t) \in RefreshTodos
        /\ In(t) = In(Tail(t)) \union {Head(t)} /\ Head(t) \notin In(Tail(t))
        /\ In(t) \subseteq {"regs", "lists", "disasm", "readMem"}
        /\ "regs" \in In(t) <=> Head(t) = "regs"
        /\ "regs" \in In(t) => Found \subseteq In(t)
    BY RefreshRest
  <1>2. Head(t) \in {"regs", "lists", "disasm", "readMem"}
    BY <1>1
  <1>3. QED
    BY <1>1, <1>2 DEF Orderly, Refreshing, Found

LEMMA RestOfMove ==
  ASSUME NEW c, NEW r, \/ c = "open" /\ r = "launch"
                       \/ c \in {"run", "g"} /\ r = "move"
                       \/ c = "pause" /\ r = "pause"
  PROVE  Orderly(c, Before(r))
  <1>1. r \in {"launch", "move", "pause"}
    OBVIOUS
  <1>2. /\ Head(Before(r)) = r
        /\ In(Before(r)) = {r, "regs", "lists", "disasm", "readMem"}
        /\ In(Tail(Before(r))) = {"regs", "lists", "disasm", "readMem"}
    BY <1>1, BeforeRest
  <1>3. QED
    BY <1>2 DEF Orderly, Refreshing, Found

LEMMA Rest ==
  ASSUME NEW c \in Commands, NEW t \in Todos(c), t # <<>>
  PROVE  /\ Tail(t) \in Todos(c)
         /\ In(t) = In(Tail(t)) \union {Head(t)} /\ Head(t) \notin In(Tail(t))
         /\ Orderly(c, t)
  <1>1. CASE c \in {"core", "winapi", "stop"}
    <2>1. CASE c = "core"
      <3>1. t = <<"hello">>
        BY <2>1 DEF Todos
      <3>2. QED
        BY <2>1, <3>1 DEF Todos, Orderly, Refreshing, Found, In
    <2>2. CASE c = "winapi"
      <3>1. t = <<"start">>
        BY <2>2 DEF Todos
      <3>2. QED
        BY <2>2, <3>1 DEF Todos, Orderly, Refreshing, Found, In
    <2>3. CASE c = "stop"
      <3>1. t = <<"stop">>
        BY <2>3 DEF Todos
      <3>2. QED
        BY <2>3, <3>1 DEF Todos, Orderly, Refreshing, Found, In
    <2>4. QED
      BY <1>1, <2>1, <2>2, <2>3
  <1>2. CASE c \in Refreshing /\ t \in RefreshTodos
    <2>1. RefreshTodos \subseteq Todos(c)
      BY <1>2 DEF Refreshing, Todos
    <2>2. QED
      BY <1>2, <2>1, RefreshRest, RestOfRefresh
  <1>3. CASE t \in {Before("launch"), Before("move"), Before("pause")} /\ c \in Refreshing
    <2>1. PICK r \in {"launch", "move", "pause"} : t = Before(r)
      BY <1>3
    <2>2. \/ c = "open" /\ r = "launch"
          \/ c \in {"run", "g"} /\ r = "move"
          \/ c = "pause" /\ r = "pause"
      BY <1>3, <2>1 DEF Todos, Refreshing, RefreshTodos, Before
    <2>3. RefreshTodos \subseteq Todos(c)
      BY <1>3 DEF Refreshing, Todos
    <2>4. QED
      BY <2>1, <2>2, <2>3, BeforeRest, RestOfMove
  <1>4. CASE c = "open" /\ t = <<"start", "launch", "regs", "lists", "disasm", "readMem">>
    <2>1. /\ Tail(t) = Before("launch") /\ Head(t) = "start"
          /\ In(t) = {"start", "launch", "regs", "lists", "disasm", "readMem"}
      BY <1>4 DEF Before, In
    <2>2. In(Tail(t)) = {"launch", "regs", "lists", "disasm", "readMem"}
      BY <2>1, BeforeRest
    <2>3. QED
      BY <1>4, <2>1, <2>2 DEF Todos, Orderly, Refreshing, Found
  <1>5. CASE c = "bp"
    <2>1. CASE t = <<"regs", "bpSet">>
      BY <1>5, <2>1 DEF Todos, Orderly, Refreshing, Found, In
    <2>2. CASE t = <<"bpSet">>
      BY <1>5, <2>2 DEF Todos, Orderly, Refreshing, Found, In
    <2>3. QED
      BY <1>5, <2>1, <2>2 DEF Todos
  <1>6. CASE c = "u"
    <2>1. CASE t = <<"regs", "disasm">>
      BY <1>6, <2>1 DEF Todos, Orderly, Refreshing, Found, In
    <2>2. CASE t = <<"disasm">>
      BY <1>6, <2>2 DEF Todos, Orderly, Refreshing, Found, In
    <2>3. QED
      BY <1>6, <2>1, <2>2 DEF Todos
  <1>7. CASE c = "db"
    <2>1. t = <<"readMem">>
      BY <1>7 DEF Todos
    <2>2. QED
      BY <1>7, <2>1 DEF Todos, Orderly, Refreshing, Found, In
  <1>8. QED
    BY <1>1, <1>2, <1>3, <1>4, <1>5, <1>6, <1>7, CommandNames DEF Todos, Refreshing

(* What a command starts with.                                               *)
LEMMA OneBeforeRefresh ==
  ASSUME NEW r
  PROVE  <<r>> \o Refresh = Before(r)
  <1> DEFINE u == <<r>> \o Refresh
             t == Before(r)
  <1>1. /\ Len(u) = 5 /\ u \in Seq({r, "regs", "lists", "disasm", "readMem"})
        /\ u[1] = r /\ u[2] = "regs" /\ u[3] = "lists" /\ u[4] = "disasm" /\ u[5] = "readMem"
    BY DEF Refresh
  <1>2. /\ t = [i \in 1..5 |-> t[i]]
        /\ t[1] = r /\ t[2] = "regs" /\ t[3] = "lists" /\ t[4] = "disasm" /\ t[5] = "readMem"
    BY DEF Before
  <1> HIDE DEF u, t
  <1>3. u = [i \in 1..5 |-> u[i]]
    BY <1>1
  <1>4. \A i \in 1..5 : i = 1 \/ i = 2 \/ i = 3 \/ i = 4 \/ i = 5
    OBVIOUS
  <1>5. \A i \in 1..5 : u[i] = t[i]
    BY <1>1, <1>2, <1>4
  <1>6. u = t
    BY <1>2, <1>3, <1>5
  <1>7. QED
    BY <1>6 DEF u, t

LEMMA TwoBeforeRefresh ==
  <<"start", "launch">> \o Refresh = <<"start", "launch", "regs", "lists", "disasm", "readMem">>
  <1> DEFINE u == <<"start", "launch">> \o Refresh
             t == <<"start", "launch", "regs", "lists", "disasm", "readMem">>
  <1>1. /\ Len(u) = 6 /\ u \in Seq({"start", "launch", "regs", "lists", "disasm", "readMem"})
        /\ u[1] = "start" /\ u[2] = "launch"
        /\ u[3] = "regs" /\ u[4] = "lists" /\ u[5] = "disasm" /\ u[6] = "readMem"
    BY DEF Refresh
  <1>2. /\ t = [i \in 1..6 |-> t[i]]
        /\ t[1] = "start" /\ t[2] = "launch"
        /\ t[3] = "regs" /\ t[4] = "lists" /\ t[5] = "disasm" /\ t[6] = "readMem"
    OBVIOUS
  <1> HIDE DEF u, t
  <1>3. u = [i \in 1..6 |-> u[i]]
    BY <1>1
  <1>4. \A i \in 1..6 : i = 1 \/ i = 2 \/ i = 3 \/ i = 4 \/ i = 5 \/ i = 6
    OBVIOUS
  <1>5. \A i \in 1..6 : u[i] = t[i]
    BY <1>1, <1>2, <1>4
  <1>6. u = t
    BY <1>2, <1>3, <1>5
  <1>7. QED
    BY <1>6 DEF u, t

LEMMA RefreshLength ==
  ASSUME NEW t \in RefreshTodos
  PROVE  Len(t) <= 4
  <1>1. CASE t = <<"regs", "lists", "disasm", "readMem">>
    BY <1>1
  <1>2. CASE t = <<"lists", "disasm", "readMem">>
    BY <1>2
  <1>3. CASE t = <<"disasm", "readMem">>
    BY <1>3
  <1>4. CASE t = <<"readMem">>
    BY <1>4
  <1>5. CASE t = <<>>
    BY <1>5
  <1>6. QED
    BY <1>1, <1>2, <1>3, <1>4, <1>5 DEF RefreshTodos

LEMMA ProgramOf ==
  /\ Program["core"] = <<"hello">> /\ Program["winapi"] = <<"start">>
  /\ Program["stop"] = <<"stop">>
  /\ Program["open"] = <<"start", "launch", "regs", "lists", "disasm", "readMem">>
  /\ Program["run"] = Before("move") /\ Program["g"] = Before("move")
  /\ Program["pause"] = Before("pause")
  /\ Program["bp"] = <<"regs", "bpSet">> /\ Program["u"] = <<"regs", "disasm">>
  /\ Program["refresh"] = <<"regs", "lists", "disasm", "readMem">>
  /\ Program["db"] = <<"readMem">>
  <1>1. /\ Program["core"] = <<"hello">> /\ Program["winapi"] = <<"start">>
        /\ Program["stop"] = <<"stop">> /\ Program["open"] = <<"start", "launch">> \o Refresh
        /\ Program["run"] = <<"move">> \o Refresh /\ Program["pause"] = <<"pause">> \o Refresh
        /\ Program["bp"] = <<"regs", "bpSet">>
    BY DEF Program, Over, Clicks, Console
  <1>2. /\ Program["refresh"] = Refresh /\ Program["u"] = <<"regs", "disasm">>
        /\ Program["db"] = <<"readMem">> /\ Program["g"] = <<"move">> \o Refresh
    BY DEF Program, Over, Clicks, Console
  <1>3. QED
    BY <1>1, <1>2, OneBeforeRefresh, TwoBeforeRefresh DEF Refresh

LEMMA TodoLength ==
  ASSUME NEW c \in Commands, NEW t \in Todos(c)
  PROVE  Len(t) <= Len(Program[c])
  <1>1. CASE t = <<>>
    <2>1. Len(Program[c]) \in Nat /\ Len(t) = 0
      <3>1. \A r : Len(Before(r)) = 5
        BY DEF Before
      <3>2. QED
        BY <1>1, <3>1, ProgramOf, CommandNames
    <2>2. QED
      BY <2>1
  <1>2. CASE t # <<>> /\ t = Program[c]
    BY <1>2
  <1>3. CASE t \in RefreshTodos /\ c \in Refreshing
    <2>1. Len(Program[c]) >= 4
      <3>1. /\ Program["run"] = Before("move") /\ Program["g"] = Before("move")
            /\ Program["pause"] = Before("pause")
        BY ProgramOf
      <3>2. CASE c = "open"
        BY <3>2, ProgramOf
      <3>3. CASE c = "refresh"
        BY <3>3, ProgramOf
      <3>4. CASE c \in {"run", "g", "pause"}
        <4>1. Program[c] = Before("move") \/ Program[c] = Before("pause")
          BY <3>1, <3>4
        <4>2. CASE Program[c] = Before("move")
          BY <4>2 DEF Before
        <4>3. CASE Program[c] = Before("pause")
          BY <4>3 DEF Before
        <4>4. QED
          BY <4>1, <4>2, <4>3
      <3>5. QED
        BY <1>3, <3>2, <3>3, <3>4 DEF Refreshing
    <2>2. QED
      BY <1>3, <2>1, RefreshLength
  <1>4. CASE c \in {"bp", "u"} /\ t # <<>> /\ t # Program[c]
    <2>1. t = <<"bpSet">> \/ t = <<"disasm">>
      BY <1>4, ProgramOf DEF Todos
    <2>2. Len(t) = 1
      BY <2>1
    <2>3. Len(Program[c]) = 2
      <3>1. Len(Program["bp"]) = 2
        BY ProgramOf
      <3>2. Len(Program["u"]) = 2
        BY ProgramOf
      <3>3. QED
        BY <1>4, <3>1, <3>2
    <2>4. QED
      BY <2>2, <2>3
  <1>5. CASE c = "open" /\ t = Before("launch")
    <2>1. Len(t) = 5
      BY <1>5 DEF Before
    <2>2. Len(Program[c]) = 6
      BY <1>5, ProgramOf
    <2>3. QED
      BY <2>1, <2>2
  <1>6. QED
    BY <1>1, <1>2, <1>3, <1>4, <1>5, ProgramOf, CommandNames DEF Todos, Refreshing

LEMMA Programs ==
  ASSUME NEW c \in Commands
  PROVE  /\ Program[c] \in Todos(c) /\ Program[c] # <<>>
         /\ c = "bp" => "bpSet" \in In(Program[c])
         /\ c = "u" => "disasm" \in In(Program[c])
         /\ c = "db" => "readMem" \in In(Program[c])
         /\ c \in Refreshing => {"regs"} \union Found \subseteq In(Program[c])
         /\ c = "run" => "move" \in In(Program[c])
  <1>1. CASE c \in {"core", "winapi", "stop"}
    <2>1. CASE c = "core"
      BY <2>1, ProgramOf DEF Todos, Refreshing
    <2>2. CASE c = "winapi"
      BY <2>2, ProgramOf DEF Todos, Refreshing
    <2>3. CASE c = "stop"
      BY <2>3, ProgramOf DEF Todos, Refreshing
    <2>4. QED
      BY <1>1, <2>1, <2>2, <2>3
  <1>2. CASE c = "bp"
    BY <1>2, ProgramOf DEF Todos, Refreshing, In
  <1>3. CASE c = "u"
    BY <1>3, ProgramOf DEF Todos, Refreshing, In
  <1>4. CASE c = "db"
    BY <1>4, ProgramOf DEF Todos, Refreshing, In
  <1>5. CASE c = "refresh"
    <2>1. In(Program[c]) = {"regs", "lists", "disasm", "readMem"}
      BY <1>5, ProgramOf DEF In
    <2>2. QED
      BY <1>5, <2>1, ProgramOf DEF Todos, RefreshTodos, Found
  <1>6. CASE c = "open"
    <2>1. In(Program[c]) = {"start", "launch", "regs", "lists", "disasm", "readMem"}
      BY <1>6, ProgramOf DEF In
    <2>2. QED
      BY <1>6, <2>1, ProgramOf DEF Todos, Found
  <1>7. CASE c \in {"run", "g", "pause"}
    <2>1. PICK r \in {"move", "pause"} : Program[c] = Before(r) /\ (c = "run" => r = "move")
      BY <1>7, ProgramOf
    <2>2. Before(r) # <<>> /\ In(Before(r)) = {r, "regs", "lists", "disasm", "readMem"}
      BY BeforeRest
    <2>3. Program[c] \in Todos(c)
      BY <1>7, ProgramOf DEF Todos
    <2>4. QED
      BY <1>7, <2>1, <2>2, <2>3 DEF Found
  <1>8. QED
    BY <1>1, <1>2, <1>3, <1>4, <1>5, <1>6, <1>7, CommandNames

-------------------------------------------------------------------------------
(* A step of one thread: what it leaves to the others.                       *)
ThreadTypes ==
  /\ at \in [Workers -> {"idle", "call", "sent", "moving", "stopping", "ready", "done"}]
  /\ cmd \in [Workers -> Commands]
  /\ bound \in [Workers -> Sessions \union {None}]
  /\ failed \in [Workers -> BOOLEAN] /\ fresh \in [Workers -> BOOLEAN]
  /\ DOMAIN todo = Workers /\ DOMAIN got = Workers
CoreTypes ==
  /\ online \in BOOLEAN /\ session \in Sessions \union {None}
  /\ proc \in [Sessions -> {"none", "live", "dead"}]
  /\ target \in [Sessions -> {"none", "stopped", "exited"}]
  /\ events \in [Sessions -> Nat]
  /\ busy \in [Sessions -> Workers \union {None}]
UnderWay(w) == at[w] \in {"call", "sent", "moving", "stopping"}

OnlyMoves(w) ==
  \A x \in Workers \ {w} :
    /\ at'[x] = at[x] /\ cmd'[x] = cmd[x] /\ todo'[x] = todo[x]
    /\ bound'[x] = bound[x] /\ got'[x] = got[x] /\ failed'[x] = failed[x]
Quiet(w) ==
  \A x \in Workers \ {w} :
    fresh'[x] => fresh[x] /\ UNCHANGED <<session, target, events>>

LEMMA Finite ==
  ASSUME NEW S \in SUBSET Workers
  PROVE  IsFiniteSet(S) /\ Cardinality(S) \in Nat /\ Cardinality(S) <= Cardinality(Workers)
         /\ Cardinality(Workers) \in Nat
  BY SlintAssumption, FS_Subset, FS_CardinalityType

LEMMA InvTypes ==
  ASSUME Inv
  PROVE  ThreadTypes /\ CoreTypes
  <1>1. 0..Cardinality(Workers) \subseteq Nat
    OBVIOUS
  <1>2. QED
    BY <1>1 DEF Inv, TypeOK, ThreadTypes, CoreTypes

LEMMA OthersKeep ==
  ASSUME Inv, NEW w \in Workers, OnlyMoves(w), Quiet(w), NEW x \in Workers \ {w}
  PROVE  WorkerInv(x)'
  <1>1. /\ at'[x] = at[x] /\ cmd'[x] = cmd[x] /\ todo'[x] = todo[x]
        /\ bound'[x] = bound[x] /\ got'[x] = got[x] /\ failed'[x] = failed[x]
    BY DEF OnlyMoves
  <1>2. WorkerInv(x)
    BY DEF Inv
  <1>3. Left(x)' = Left(x) /\ Gathered(x)' = Gathered(x)
    BY <1>1 DEF Left, Gathered
  <1>4. Place(x)'
    BY <1>1, <1>2 DEF WorkerInv, Place
  <1>5. Gotten(x)'
    BY <1>1, <1>2, <1>3 DEF WorkerInv, Gotten
  <1>6. Undisturbed(x)'
    BY <1>1, <1>2 DEF WorkerInv, Undisturbed, Quiet, Now
  <1>7. QED
    BY <1>4, <1>5, <1>6 DEF WorkerInv

(* The window stays as it is while the thread that wrote it is done.         *)
LEMMA WindowKept ==
  ASSUME Inv, NEW w \in Workers, at[w] # "done", OnlyMoves(w), Quiet(w), UNCHANGED <<view, last>>
  PROVE  WindowInv' /\ ViewIsCurrent' /\ LabelIsTrue' /\ RunShowsExit'
  <1>1. ASSUME last.by # None
        PROVE  /\ last.by \in Workers \ {w} /\ at[last.by] = "done" /\ at'[last.by] = "done"
               /\ cmd'[last.by] = cmd[last.by] /\ bound'[last.by] = bound[last.by]
               /\ failed'[last.by] = failed[last.by]
    BY <1>1 DEF Inv, WindowInv, OnlyMoves
  <1>2. WindowInv'
    BY <1>1 DEF WindowInv
  <1>3. ASSUME NEW x \in Workers, NEW f, LastSays(x, f)'
        PROVE  /\ LastSays(x, f) /\ UNCHANGED <<session, target, events>>
               /\ cmd'[x] = cmd[x] /\ bound'[x] = bound[x] /\ failed'[x] = failed[x]
    <2>1. last.by = x /\ f \in last.fields /\ fresh'[x]
      BY <1>3 DEF LastSays
    <2>2. x # None
      BY SlintAssumption
    <2>3. x \in Workers \ {w}
      BY <1>1, <2>1, <2>2
    <2>4. QED
      BY <1>1, <2>1, <2>2, <2>3 DEF LastSays, Quiet
  <1>4. ViewIsCurrent'
    BY <1>3 DEF Inv, ViewIsCurrent, Now
  <1>5. LabelIsTrue'
    BY <1>3 DEF Inv, LabelIsTrue
  <1>6. RunShowsExit'
    BY <1>3 DEF Inv, RunShowsExit
  <1>7. QED
    BY <1>2, <1>4, <1>5, <1>6

LEMMA TypesKept ==
  ASSUME ThreadTypes', CoreTypes', CountInv', \A x \in Workers : Place(x)',
         DOMAIN view' = Fields, view'["core"] \in {"unknown", "online", "offline"},
         view'["backend"] \in {"none", "winapi"},
         \A f \in Fields \ Texts : view'[f] \in Versions \union {NoTarget, Empty}
  PROVE  TypeOK'
  <1>1. \A s \in Sessions : events'[s] \in 0..Cardinality(Workers)
    <2>1. Moved' \subseteq Workers
      BY DEF Moved
    <2>2. /\ Cardinality(Moved') \in Nat /\ Cardinality(Moved') <= Cardinality(Workers)
          /\ Cardinality(Workers) \in Nat
      BY <2>1, Finite
    <2>3. ASSUME NEW s \in Sessions PROVE events'[s] \in Nat /\ events'[s] <= Cardinality(Moved')
      BY DEF CoreTypes, CountInv
    <2>4. QED
      BY <2>2, <2>3
  <1>2. \A w \in Workers : Len(todo'[w]) <= Len(Program[cmd'[w]])
    <2>1. ASSUME NEW w \in Workers PROVE cmd'[w] \in Commands /\ todo'[w] \in Todos(cmd'[w])
      BY DEF ThreadTypes, Place
    <2>2. QED
      BY <2>1, TodoLength
  <1>3. events' \in [Sessions -> 0..Cardinality(Workers)]
    BY <1>1 DEF CoreTypes
  <1>4. QED
    BY <1>2, <1>3 DEF TypeOK, ThreadTypes, CoreTypes

(* So that a step of a thread needs only be looked at for that thread.       *)
LEMMA StepKeeps ==
  ASSUME Inv, NEW w \in Workers, at[w] # "done", OnlyMoves(w), Quiet(w), UNCHANGED <<view, last>>,
         ThreadTypes', CoreTypes', WorkerInv(w)', CountInv'
  PROVE  Inv'
  <1>1. \A x \in Workers : WorkerInv(x)'
    BY OthersKeep
  <1>2. TypeOK'
    <2>1. \A x \in Workers : Place(x)'
      BY <1>1 DEF WorkerInv
    <2>2. QED
      BY <2>1, TypesKept DEF Inv, TypeOK
  <1>3. QED
    BY <1>1, <1>2, WindowKept DEF Inv, ThreadTypes

-------------------------------------------------------------------------------
(* Events are counted.                                                       *)
LEMMA CountKept ==
  ASSUME Inv, NEW w \in Workers, OnlyMoves(w), w \in Moved => w \in Moved', UNCHANGED events
  PROVE  CountInv'
  <1>1. Moved \subseteq Moved'
    BY DEF Moved, OnlyMoves, Left
  <1>2. Cardinality(Moved) <= Cardinality(Moved')
    <2>1. Moved' \in SUBSET Workers
      BY DEF Moved
    <2>2. QED
      BY <1>1, <2>1, Finite, FS_Subset
  <1>3. /\ Moved \in SUBSET Workers /\ Moved' \in SUBSET Workers
        /\ \A s \in Sessions : events[s] \in Nat
    BY InvTypes DEF Moved, CoreTypes
  <1>4. Cardinality(Moved) \in Nat /\ Cardinality(Moved') \in Nat
    BY <1>3, Finite
  <1>5. QED
    BY <1>2, <1>3, <1>4 DEF Inv, CountInv

LEMMA CountGrows ==
  ASSUME Inv, NEW w \in Workers, OnlyMoves(w), w \notin Moved, w \in Moved',
         NEW s \in Sessions, events' = [events EXCEPT ![s] = @ + 1]
  PROVE  CountInv'
  <1>1. Moved \union {w} \subseteq Moved'
    BY DEF Moved, OnlyMoves, Left
  <1>2. Moved \in SUBSET Workers /\ Moved' \in SUBSET Workers
    BY DEF Moved
  <1>3. /\ IsFiniteSet(Moved) /\ IsFiniteSet(Moved')
        /\ Cardinality(Moved) \in Nat /\ Cardinality(Moved') \in Nat
    BY <1>2, Finite
  <1>4. Cardinality(Moved \union {w}) = Cardinality(Moved) + 1
    BY <1>3, FS_AddElement
  <1>5. Cardinality(Moved \union {w}) <= Cardinality(Moved')
    BY <1>1, <1>3, FS_Subset
  <1>6. ASSUME NEW t \in Sessions PROVE events'[t] <= Cardinality(Moved')
    <2>1. events[t] \in Nat /\ events[t] <= Cardinality(Moved)
      BY InvTypes DEF CoreTypes, Inv, CountInv
    <2>2. events'[t] = events[t] + 1 \/ events'[t] = events[t]
      BY InvTypes DEF CoreTypes
    <2>3. QED
      BY <1>3, <1>4, <1>5, <2>1, <2>2
  <1>7. QED
    BY <1>6 DEF CountInv

-------------------------------------------------------------------------------
(* Calls that come back.                                                     *)
Asked == {"regs", "lists", "disasm", "readMem", "bpSet"}

(* The next call of a thread that is under way.                              *)
LEMMA NextCall ==
  ASSUME Inv, NEW w \in Workers, UnderWay(w)
  PROVE  /\ ThreadTypes /\ Place(w) /\ Gotten(w) /\ Undisturbed(w)
         /\ cmd[w] \in Commands /\ failed[w] = FALSE /\ at[w] \notin {"idle", "ready", "done"}
         /\ todo[w] \in Todos(cmd[w]) /\ todo[w] # <<>>
         /\ Tail(todo[w]) \in Todos(cmd[w])
         /\ Left(w) = In(Tail(todo[w])) \union {Head(todo[w])}
         /\ Head(todo[w]) \notin In(Tail(todo[w]))
         /\ Orderly(cmd[w], todo[w])
         /\ w \in Moved => {"launch", "move"} \intersect Left(w) = {}
  <1>1. ThreadTypes /\ WorkerInv(w)
    BY InvTypes DEF Inv
  <1>2. /\ cmd[w] \in Commands /\ todo[w] \in Todos(cmd[w]) /\ todo[w] # <<>>
        /\ at[w] \notin {"idle", "ready", "done"} /\ failed[w] = FALSE
    BY <1>1 DEF ThreadTypes, WorkerInv, Place, UnderWay
  <1>3. /\ Tail(todo[w]) \in Todos(cmd[w])
        /\ In(todo[w]) = In(Tail(todo[w])) \union {Head(todo[w])}
        /\ Head(todo[w]) \notin In(Tail(todo[w]))
        /\ Orderly(cmd[w], todo[w])
    BY <1>2, Rest
  <1>4. QED
    BY <1>1, <1>2, <1>3 DEF WorkerInv, Left, Moved

Learned(w, facts) ==
  /\ at'[w] = (IF Tail(todo[w]) = <<>> THEN "ready" ELSE "call")
  /\ cmd'[w] = cmd[w] /\ bound'[w] = bound[w] /\ failed'[w] = FALSE
  /\ DOMAIN got'[w] = DOMAIN facts \union DOMAIN got[w]
  /\ \A k \in DOMAIN facts : got'[w][k] = facts[k]
  /\ \A k \in DOMAIN got[w] \ DOMAIN facts : got'[w][k] = got[w][k]

LEMMA Answered ==
  ASSUME Inv, NEW w \in Workers, UnderWay(w), NEW facts, Learn(w, facts),
         DOMAIN facts \subseteq {Head(todo[w]), "event"},
         \A k \in DOMAIN facts \ {"event"} : facts[k] \in Versions \union {Empty},
         Head(todo[w]) \in Asked => Head(todo[w]) \in DOMAIN facts,
         cmd[w] = "run" /\ Head(todo[w]) = "move" => "event" \in DOMAIN facts,
         fresh' \in [Workers -> BOOLEAN]
  PROVE  /\ OnlyMoves(w) /\ ThreadTypes' /\ Place(w)' /\ Gotten(w)'
         /\ Learned(w, facts)
         /\ w \in Moved => w \in Moved'
         /\ Head(todo[w]) # "start" => w \in Moved'
  <1> DEFINE r == Head(todo[w])
  <1>1. /\ ThreadTypes /\ Place(w) /\ Gotten(w)
        /\ cmd[w] \in Commands /\ failed[w] = FALSE /\ at[w] \notin {"idle", "ready", "done"}
        /\ todo[w] \in Todos(cmd[w]) /\ todo[w] # <<>>
        /\ Tail(todo[w]) \in Todos(cmd[w])
        /\ Left(w) = In(Tail(todo[w])) \union {r} /\ r \notin In(Tail(todo[w]))
        /\ Orderly(cmd[w], todo[w])
        /\ w \in Moved => {"launch", "move"} \intersect Left(w) = {}
    BY NextCall
  <1>2. /\ \A x \in Workers \ {w} : at'[x] = at[x] /\ todo'[x] = todo[x] /\ got'[x] = got[x]
        /\ at'[w] = (IF Tail(todo[w]) = <<>> THEN "ready" ELSE "call")
        /\ todo'[w] = Tail(todo[w]) /\ got'[w] = Over(facts, got[w])
        /\ cmd' = cmd /\ bound' = bound /\ failed' = failed
        /\ at' \in [Workers -> {"idle", "call", "sent", "moving", "stopping", "ready", "done"}]
        /\ DOMAIN todo' = Workers /\ DOMAIN got' = Workers
    BY <1>1 DEF Learn, ThreadTypes
  <1>3. OnlyMoves(w) /\ ThreadTypes'
    BY <1>1, <1>2 DEF OnlyMoves, ThreadTypes
  <1>4. /\ DOMAIN got'[w] = DOMAIN facts \union DOMAIN got[w]
        /\ \A k \in DOMAIN facts : got'[w][k] = facts[k]
        /\ \A k \in DOMAIN got[w] \ DOMAIN facts : got'[w][k] = got[w][k]
    BY <1>2 DEF Over
  <1>5. Left(w)' = In(Tail(todo[w]))
    BY <1>2 DEF Left
  <1> HIDE DEF r
  <1>6. Place(w)'
    BY <1>1, <1>2 DEF Place
  <1>7. Gotten(w)'
    <2>1. "event" \notin Left(w)
      BY <1>1 DEF Orderly, Left
    <2>2. DOMAIN got'[w] \intersect Left(w)' = {}
      BY <1>1, <1>4, <1>5, <2>1 DEF Gotten, r
    <2>3. \A k \in DOMAIN got'[w] \ {"event"} : got'[w][k] \in Versions \union {Empty}
      BY <1>1, <1>4 DEF Gotten
    <2>4. /\ \A k \in Asked : k \in Gathered(w) => k \in Gathered(w)'
          /\ \A k \in Gathered(w)' : k \in Gathered(w) \/ k = "event"
      BY <1>1, <1>4, <1>5 DEF Gathered, r
    <2>5. cmd[w] = "run" => "event" \in DOMAIN got'[w] \/ "move" \in Left(w)'
      BY <1>1, <1>4, <1>5 DEF Gotten, r
    <2>6. cmd[w] \in Refreshing /\ "regs" \in Gathered(w)' => Found \subseteq Gathered(w)'
      BY <1>1, <2>4 DEF Gotten, Asked, Found
    <2>7. /\ cmd[w] = "bp" => "bpSet" \in Gathered(w)'
          /\ cmd[w] = "u" => "disasm" \in Gathered(w)'
          /\ cmd[w] = "db" => "readMem" \in Gathered(w)'
      BY <1>1, <2>4 DEF Gotten, Asked
    <2>8. QED
      BY <1>2, <2>2, <2>3, <2>5, <2>6, <2>7 DEF Gotten
  <1>8. /\ w \in Moved => w \in Moved'
        /\ r # "start" => w \in Moved'
    BY <1>1, <1>2, <1>5 DEF Moved, Orderly, r
  <1>9. QED
    BY <1>1, <1>2, <1>3, <1>4, <1>6, <1>7, <1>8 DEF r, Learned

(* A call that failed, and what the thread makes of it.                      *)
LEMMA FailedCall ==
  ASSUME Inv, NEW w \in Workers, UnderWay(w), Fail(w),
         fresh' \in [Workers -> BOOLEAN], fresh'[w] => fresh[w],
         UNCHANGED <<session, events>>, cmd[w] = "run" => UNCHANGED target
  PROVE  /\ OnlyMoves(w) /\ ThreadTypes' /\ WorkerInv(w)'
         /\ w \in Moved => w \in Moved'
  <1>1. /\ ThreadTypes /\ Place(w) /\ Gotten(w) /\ Undisturbed(w)
        /\ cmd[w] \in Commands /\ failed[w] = FALSE /\ at[w] \notin {"idle", "ready", "done"}
        /\ todo[w] \in Todos(cmd[w]) /\ todo[w] # <<>>
        /\ Left(w) = In(Tail(todo[w])) \union {Head(todo[w])}
        /\ Orderly(cmd[w], todo[w])
    BY NextCall
  <1>2. CASE Tolerated(w)
    <2>0. PICK facts : facts = [r \in {Head(todo[w])} |-> Empty]
      OBVIOUS
    <2>1. Learn(w, facts)
      BY <1>2, <2>0 DEF Fail
    <2>2. DOMAIN facts = {Head(todo[w])} /\ facts[Head(todo[w])] = Empty
      BY <2>0
    <2>3. Head(todo[w]) \in {"lists", "disasm", "readMem", "regs"}
          /\ cmd[w] \in Refreshing \union {"bp"}
          /\ (cmd[w] \in Refreshing => Head(todo[w]) \in Found)
      BY <1>2 DEF Tolerated, Refreshing, Found
    <2>4. /\ OnlyMoves(w) /\ ThreadTypes' /\ Place(w)' /\ Gotten(w)'
          /\ Learned(w, facts)
          /\ w \in Moved => w \in Moved'
      <3>1. DOMAIN facts \subseteq {Head(todo[w]), "event"}
        BY <2>2
      <3>2. \A k \in DOMAIN facts \ {"event"} : facts[k] \in Versions \union {Empty}
        BY <2>2
      <3>3. Head(todo[w]) \in Asked => Head(todo[w]) \in DOMAIN facts
        BY <2>2
      <3>4. cmd[w] = "run" /\ Head(todo[w]) = "move" => "event" \in DOMAIN facts
        BY <2>3
      <3>5. QED
        BY <2>1, <3>1, <3>2, <3>3, <3>4, Answered
    <2>5. Undisturbed(w)'
      <3>1. ASSUME fresh'[w], cmd[w] \in Refreshing, "regs" \in DOMAIN got'[w]
            PROVE  /\ bound'[w] = session' /\ session' # None
                   /\ got'[w]["regs"] = Now(session)'
                   /\ \A f \in Found \intersect DOMAIN got'[w] : got'[w][f] \in {Now(session)', Empty}
        <4>1. "regs" \in DOMAIN got[w] /\ "regs" \notin DOMAIN facts
          BY <2>2, <2>3, <2>4, <3>1 DEF Found, Learned
        <4>2. /\ bound[w] = session /\ session # None /\ got[w]["regs"] = Now(session)
              /\ \A f \in Found \intersect DOMAIN got[w] : got[w][f] \in {Now(session), Empty}
          BY <1>1, <3>1, <4>1 DEF Undisturbed
        <4>3. Now(session)' = Now(session) /\ session' = session
          BY DEF Now
        <4>4. QED
          BY <2>2, <2>4, <4>1, <4>2, <4>3 DEF Learned
      <3>2. ASSUME fresh'[w], cmd[w] = "run", "event" \in DOMAIN got'[w]
            PROVE  /\ bound'[w] = session' /\ session' # None
                   /\ got'[w]["event"] = "exit_process" <=> target'[session'] = "exited"
        <4>1. "event" \in DOMAIN got[w] /\ "event" \notin DOMAIN facts
          BY <2>2, <2>3, <2>4, <3>2 DEF Learned
        <4>2. /\ bound[w] = session /\ session # None
              /\ got[w]["event"] = "exit_process" <=> target[session] = "exited"
          BY <1>1, <3>2, <4>1 DEF Undisturbed
        <4>3. QED
          BY <2>4, <3>2, <4>1, <4>2 DEF Learned
      <3>3. cmd'[w] \notin {"winapi", "stop"} /\ at'[w] \in {"call", "ready"}
        BY <2>3, <2>4 DEF Refreshing, Learned
      <3>4. QED
        BY <2>4, <3>1, <3>2, <3>3 DEF Undisturbed, Learned
    <2>6. QED
      BY <2>4, <2>5 DEF WorkerInv
  <1>3. CASE ~Tolerated(w)
    <2>1. /\ failed' = [failed EXCEPT ![w] = ~RefreshDropped(w)]
          /\ todo' = [todo EXCEPT ![w] = <<>>] /\ at' = [at EXCEPT ![w] = "ready"]
          /\ cmd' = cmd /\ bound' = bound /\ got' = got
      BY <1>3 DEF Fail
    <2>2. RefreshDropped(w) \in BOOLEAN
      BY DEF RefreshDropped
    <2>3. OnlyMoves(w) /\ ThreadTypes' /\ at'[w] = "ready" /\ todo'[w] = <<>>
          /\ failed'[w] = ~RefreshDropped(w)
      BY <1>1, <2>1, <2>2 DEF OnlyMoves, ThreadTypes
    <2>4. Left(w)' = {}
      BY <2>3 DEF Left, In
    <2>5. <<>> \in Todos(cmd[w])
      BY <1>1, CommandNames DEF Todos, RefreshTodos
    <2>6. Place(w)'
      BY <2>1, <2>3, <2>5 DEF Place
    <2>7. ~failed'[w] => cmd[w] \in {"run", "pause"} /\ Head(todo[w]) = "regs"
      BY <2>2, <2>3 DEF RefreshDropped
    <2>8. Gotten(w)'
      <3>1. ~failed'[w] => "regs" \notin DOMAIN got[w]
        BY <1>1, <2>7 DEF Gotten
      <3>2. ~failed'[w] /\ cmd[w] = "run" => "event" \in DOMAIN got[w]
        BY <1>1, <2>7 DEF Gotten, Orderly, Left
      <3>3. Gathered(w)' = DOMAIN got[w]
        BY <2>1, <2>4 DEF Gathered
      <3>4. QED
        BY <1>1, <2>1, <2>3, <2>4, <2>7, <3>1, <3>2, <3>3 DEF Gotten
    <2>9. Undisturbed(w)'
      <3>1. Now(session)' = Now(session)
        BY DEF Now
      <3>2. QED
        BY <1>1, <2>1, <2>3, <2>7, <3>1 DEF Undisturbed
    <2>10. w \in Moved'
      BY <2>3, <2>4 DEF Moved
    <2>11. QED
      BY <2>3, <2>6, <2>8, <2>9, <2>10 DEF WorkerInv
  <1>4. QED
    BY <1>2, <1>3

LEMMA FailedKeeps ==
  ASSUME Inv, NEW w \in Workers, UnderWay(w), Fail(w),
         fresh' \in [Workers -> BOOLEAN], fresh'[w] => fresh[w],
         UNCHANGED <<session, events>>, cmd[w] = "run" => UNCHANGED target,
         Quiet(w), CoreTypes', UNCHANGED <<view, last>>
  PROVE  Inv'
  <1>1. OnlyMoves(w) /\ ThreadTypes' /\ WorkerInv(w)' /\ (w \in Moved => w \in Moved')
    BY FailedCall
  <1>2. CountInv'
    BY <1>1, CountKept
  <1>3. at[w] # "done"
    BY DEF UnderWay
  <1>4. QED
    BY <1>1, <1>2, <1>3, StepKeeps

(* The calls the core answers itself bring nothing for a patch.              *)
LEMMA PlainAnswer ==
  ASSUME Inv, NEW w \in Workers, UnderWay(w), Learn(w, <<>>),
         Head(todo[w]) \in {"hello", "start", "stop"},
         fresh' \in [Workers -> BOOLEAN],
         fresh'[w] /\ cmd[w] = "winapi" => session' # None,
         fresh'[w] /\ cmd[w] = "stop" => session' = None,
         Quiet(w), CoreTypes', UNCHANGED <<events, view, last>>
  PROVE  Inv'
  <1>1. PICK facts : facts = <<>>
    OBVIOUS
  <1>2. Learn(w, facts) /\ DOMAIN facts = {}
    BY <1>1
  <1>3. /\ ThreadTypes /\ Place(w) /\ Gotten(w)
        /\ cmd[w] \in Commands /\ Orderly(cmd[w], todo[w])
    BY NextCall
  <1>4. /\ DOMAIN facts \subseteq {Head(todo[w]), "event"}
        /\ \A k \in DOMAIN facts \ {"event"} : facts[k] \in Versions \union {Empty}
        /\ Head(todo[w]) \in Asked => Head(todo[w]) \in DOMAIN facts
        /\ cmd[w] = "run" /\ Head(todo[w]) = "move" => "event" \in DOMAIN facts
    BY <1>2 DEF Asked
  <1>5. /\ OnlyMoves(w) /\ ThreadTypes' /\ Place(w)' /\ Gotten(w)'
        /\ Learned(w, facts)
        /\ w \in Moved => w \in Moved'
    BY <1>2, <1>4, Answered
  <1>6. cmd[w] \in {"core", "winapi", "open", "stop"}
    BY <1>3 DEF Orderly
  <1>7. cmd[w] \in Refreshing => "regs" \notin DOMAIN got[w]
    <2>1. SUFFICES ASSUME cmd[w] \in Refreshing PROVE "regs" \notin DOMAIN got[w]
      OBVIOUS
    <2>2. cmd[w] = "open" /\ Head(todo[w]) = "start"
      BY <1>3, <1>6, <2>1 DEF Orderly, Refreshing
    <2>3. QED
      BY <1>3, <2>2 DEF Orderly, Gotten, Left
  <1>8. Undisturbed(w)'
    BY <1>2, <1>5, <1>6, <1>7 DEF Undisturbed, Learned
  <1>9. CountInv' /\ at[w] # "done" /\ WorkerInv(w)'
    BY <1>5, <1>8, CountKept DEF UnderWay, WorkerInv
  <1>10. QED
    BY <1>5, <1>9, StepKeeps

-------------------------------------------------------------------------------
(* Each step.                                                                *)
LEMMA QuietSteps ==
  ASSUME Inv, NEW w \in Workers
  PROVE  /\ UNCHANGED <<coreVars, fresh>> =>
              Quiet(w) /\ CoreTypes' /\ fresh' \in [Workers -> BOOLEAN] /\ (fresh'[w] => fresh[w])
         /\ Disturb(w) => Quiet(w) /\ fresh' \in [Workers -> BOOLEAN] /\ fresh'[w] = fresh[w]
  <1>1. CoreTypes /\ fresh \in [Workers -> BOOLEAN]
    BY InvTypes DEF ThreadTypes
  <1>2. ASSUME UNCHANGED <<coreVars, fresh>>
        PROVE  Quiet(w) /\ CoreTypes' /\ fresh' \in [Workers -> BOOLEAN] /\ (fresh'[w] => fresh[w])
    BY <1>1, <1>2 DEF Quiet, coreVars, CoreTypes
  <1>3. ASSUME Disturb(w)
        PROVE  Quiet(w) /\ fresh' \in [Workers -> BOOLEAN] /\ fresh'[w] = fresh[w]
    BY <1>1, <1>3 DEF Quiet, Disturb
  <1>4. QED
    BY <1>2, <1>3

LEMMA SpawnKeeps ==
  ASSUME Inv, NEW w \in Workers, NEW c \in Commands, Spawn(w, c)
  PROVE  Inv'
  <1>1. ThreadTypes /\ CoreTypes /\ Place(w) /\ Gotten(w) /\ at[w] = "idle" /\ got[w] = <<>>
    BY InvTypes DEF Inv, WorkerInv, Spawn, Place
  <1>2. /\ at'[w] = "call" /\ cmd'[w] = c /\ todo'[w] = Program[c] /\ fresh'[w] = TRUE
        /\ got' = got /\ bound' = bound /\ failed' = failed
        /\ \A x \in Workers \ {w} : /\ at'[x] = at[x] /\ cmd'[x] = cmd[x] /\ todo'[x] = todo[x]
                                    /\ fresh'[x] = fresh[x]
    BY <1>1 DEF Spawn, ThreadTypes
  <1>3. OnlyMoves(w) /\ ThreadTypes' /\ CoreTypes'
    BY <1>1, <1>2 DEF Spawn, OnlyMoves, ThreadTypes, CoreTypes, coreVars
  <1>4. Quiet(w)
    BY <1>2 DEF Quiet, Spawn, coreVars
  <1>5. failed'[w] = FALSE /\ DOMAIN got'[w] = {}
    BY <1>1, <1>2 DEF Place, ThreadTypes
  <1>6. /\ Program[c] \in Todos(c) /\ Program[c] # <<>>
        /\ c = "bp" => "bpSet" \in In(Program[c])
        /\ c = "u" => "disasm" \in In(Program[c])
        /\ c = "db" => "readMem" \in In(Program[c])
        /\ c \in Refreshing => {"regs"} \union Found \subseteq In(Program[c])
        /\ c = "run" => "move" \in In(Program[c])
    BY Programs
  <1>7. Place(w)'
    BY <1>2, <1>5, <1>6 DEF Place
  <1>8. Gotten(w)'
    BY <1>2, <1>5, <1>6 DEF Gotten, Gathered, Left
  <1>9. Undisturbed(w)'
    BY <1>2, <1>5 DEF Undisturbed
  <1>10. CountInv'
    BY <1>1, <1>3, CountKept DEF Moved, Spawn, coreVars
  <1>11. QED
    BY <1>1, <1>3, <1>4, <1>7, <1>8, <1>9, <1>10, StepKeeps DEF WorkerInv, Spawn

LEMMA OfflineKeeps ==
  ASSUME Inv, NEW w \in Workers, Offline(w)
  PROVE  Inv'
  <1>1. UnderWay(w) /\ Fail(w) /\ UNCHANGED <<coreVars, fresh, view, last>>
    BY DEF Offline, UnderWay
  <1>2. UNCHANGED <<session, events, target>>
    BY <1>1 DEF coreVars
  <1>3. QED
    BY <1>1, <1>2, QuietSteps, FailedKeeps

LEMMA HelloKeeps ==
  ASSUME Inv, NEW w \in Workers, Hello(w)
  PROVE  Inv'
  <1>1. UnderWay(w) /\ Learn(w, <<>>) /\ Head(todo[w]) = "hello"
    BY DEF Hello, Calls, UnderWay
  <1>2. UNCHANGED <<coreVars, fresh>> /\ UNCHANGED <<events, view, last>>
    BY DEF Hello, coreVars
  <1>3. cmd[w] \notin {"winapi", "stop"}
    BY <1>1, NextCall DEF Orderly
  <1>4. QED
    BY <1>1, <1>2, <1>3, QuietSteps, PlainAnswer

LEMMA StartBackendKeeps ==
  ASSUME Inv, NEW w \in Workers, StartBackend(w)
  PROVE  Inv'
  <1>1. UnderWay(w) /\ Head(todo[w]) = "start" /\ UNCHANGED <<view, last>> /\ CoreTypes
    BY InvTypes DEF StartBackend, Calls, UnderWay
  <1>2. CASE Fail(w) /\ UNCHANGED <<session, proc, fresh>>
    <2>1. UNCHANGED <<coreVars, fresh>> /\ UNCHANGED <<session, events, target>>
      BY <1>2 DEF coreVars, StartBackend
    <2>2. QED
      BY <1>1, <1>2, <2>1, QuietSteps, FailedKeeps
  <1>3. CASE /\ session' = w /\ proc' = [proc EXCEPT ![w] = "live"]
             /\ Disturb(w) /\ Learn(w, <<>>)
    <2>1. CoreTypes' /\ UNCHANGED events
      BY <1>1, <1>3 DEF CoreTypes, StartBackend, Sessions
    <2>2. session' # None /\ cmd[w] # "stop"
      <3>1. Orderly(cmd[w], todo[w])
        BY <1>1, NextCall
      <3>2. QED
        BY <1>1, <1>3, <3>1, SlintAssumption DEF Orderly
    <2>3. QED
      BY <1>1, <1>3, <2>1, <2>2, QuietSteps, PlainAnswer
  <1>4. QED
    BY <1>2, <1>3 DEF StartBackend

LEMMA StartAlreadyActiveKeeps ==
  ASSUME Inv, NEW w \in Workers, StartAlreadyActive(w)
  PROVE  Inv'
  <1>1. UnderWay(w) /\ Learn(w, <<>>) /\ Head(todo[w]) = "start" /\ session # None
    BY DEF StartAlreadyActive, Calls, UnderWay
  <1>2. UNCHANGED <<coreVars, fresh>> /\ UNCHANGED <<session, events, view, last>>
    BY DEF StartAlreadyActive, coreVars
  <1>3. cmd[w] # "stop"
    BY <1>1, NextCall DEF Orderly
  <1>4. QED
    BY <1>1, <1>2, <1>3, QuietSteps, PlainAnswer

LEMMA StopTakesKeeps ==
  ASSUME Inv, NEW w \in Workers, StopTakes(w)
  PROVE  Inv'
  <1>1. UnderWay(w) /\ at[w] = "call" /\ Head(todo[w]) = "stop" /\ session # None
    BY DEF StopTakes, Calls, UnderWay
  <1>2. /\ ThreadTypes /\ CoreTypes /\ Place(w) /\ Gotten(w) /\ todo[w] # <<>> /\ cmd[w] = "stop"
        /\ failed[w] = FALSE
    BY <1>1, InvTypes, NextCall DEF Orderly
  <1>3. /\ at'[w] = "stopping" /\ bound'[w] = session /\ session' = None
        /\ cmd' = cmd /\ todo' = todo /\ got' = got /\ failed' = failed
        /\ \A x \in Workers \ {w} : at'[x] = at[x] /\ bound'[x] = bound[x]
    BY <1>2 DEF StopTakes, ThreadTypes
  <1>4. Quiet(w) /\ fresh' \in [Workers -> BOOLEAN]
    BY QuietSteps DEF StopTakes
  <1>5. OnlyMoves(w) /\ ThreadTypes' /\ CoreTypes'
    BY <1>2, <1>3, <1>4 DEF StopTakes, OnlyMoves, ThreadTypes, CoreTypes
  <1>6. Place(w)'
    BY <1>1, <1>2, <1>3 DEF Place, CoreTypes
  <1>7. Gotten(w)'
    BY <1>2, <1>3 DEF Gotten, Gathered, Left, Refreshing
  <1>8. Undisturbed(w)'
    BY <1>2, <1>3 DEF Undisturbed, Refreshing
  <1>9. CountInv'
    BY <1>1, <1>3, <1>5, CountKept DEF Moved, StopTakes, Left
  <1>10. QED
    BY <1>1, <1>4, <1>5, <1>6, <1>7, <1>8, <1>9, StepKeeps DEF WorkerInv, StopTakes

LEMMA StopFinishesKeeps ==
  ASSUME Inv, NEW w \in Workers, StopFinishes(w)
  PROVE  Inv'
  <1>1. UnderWay(w) /\ at[w] = "stopping" /\ Learn(w, <<>>)
    BY DEF StopFinishes, UnderWay
  <1>2. /\ CoreTypes /\ Place(w) /\ Undisturbed(w) /\ Orderly(cmd[w], todo[w])
    BY <1>1, InvTypes, NextCall
  <1>3. Head(todo[w]) = "stop" /\ bound[w] \in Sessions
    BY <1>1, <1>2 DEF Place
  <1>4. cmd[w] = "stop"
    BY <1>2, <1>3 DEF Orderly
  <1>5. CoreTypes' /\ UNCHANGED <<events, view, last>>
    BY <1>2, <1>3 DEF CoreTypes, StopFinishes
  <1>6. Disturb(w) /\ session' = session
    BY DEF StopFinishes
  <1>7. fresh'[w] => session' = None
    BY <1>1, <1>2, <1>6, QuietSteps DEF Undisturbed
  <1>8. QED
    BY <1>1, <1>3, <1>4, <1>5, <1>6, <1>7, QuietSteps, PlainAnswer

LEMMA NothingToStopKeeps ==
  ASSUME Inv, NEW w \in Workers, NothingToStop(w)
  PROVE  Inv'
  <1>1. UnderWay(w) /\ Learn(w, <<>>) /\ Head(todo[w]) = "stop" /\ session = None
    BY DEF NothingToStop, Calls, UnderWay
  <1>2. UNCHANGED <<coreVars, fresh>> /\ UNCHANGED <<session, events, view, last>>
    BY DEF NothingToStop, coreVars
  <1>3. cmd[w] # "winapi"
    BY <1>1, NextCall DEF Orderly
  <1>4. QED
    BY <1>1, <1>2, <1>3, QuietSteps, PlainAnswer

LEMMA ForwardKeeps ==
  ASSUME Inv, NEW w \in Workers, Forward(w)
  PROVE  Inv'
  <1>1. UnderWay(w) /\ at[w] = "call" /\ session # None
        /\ Head(todo[w]) \notin {"hello", "start", "stop"}
    BY DEF Forward, Forwarded, UnderWay
  <1>2. /\ ThreadTypes /\ CoreTypes /\ Place(w) /\ Gotten(w) /\ Undisturbed(w)
        /\ todo[w] # <<>> /\ failed[w] = FALSE
    BY <1>1, InvTypes, NextCall
  <1>3. /\ at'[w] = "sent" /\ bound'[w] = session
        /\ cmd' = cmd /\ todo' = todo /\ got' = got /\ failed' = failed
        /\ \A x \in Workers \ {w} : at'[x] = at[x] /\ bound'[x] = bound[x]
        /\ UNCHANGED <<coreVars, fresh>> /\ UNCHANGED <<session, events, target, view, last>>
    BY <1>2 DEF Forward, ThreadTypes, coreVars
  <1>4. Quiet(w) /\ CoreTypes' /\ fresh' \in [Workers -> BOOLEAN] /\ (fresh'[w] => fresh[w])
    BY <1>3, QuietSteps
  <1>5. OnlyMoves(w) /\ ThreadTypes'
    BY <1>2, <1>3, <1>4 DEF Forward, OnlyMoves, ThreadTypes, CoreTypes
  <1>6. Place(w)'
    BY <1>1, <1>2, <1>3 DEF Place, CoreTypes
  <1>7. Gotten(w)'
    BY <1>1, <1>2, <1>3 DEF Gotten, Gathered, Left
  <1>8. Undisturbed(w)'
    <2>1. Now(session)' = Now(session)
      BY <1>3 DEF Now
    <2>2. QED
      BY <1>1, <1>2, <1>3, <1>4, <2>1 DEF Undisturbed
  <1>9. CountInv'
    BY <1>1, <1>3, <1>5, CountKept DEF Moved, Left
  <1>10. QED
    BY <1>1, <1>3, <1>4, <1>5, <1>6, <1>7, <1>8, <1>9, StepKeeps DEF WorkerInv

LEMMA NoSessionKeeps ==
  ASSUME Inv, NEW w \in Workers, NoSession(w)
  PROVE  Inv'
  <1>1. UnderWay(w) /\ Fail(w) /\ UNCHANGED <<coreVars, fresh>>
        /\ UNCHANGED <<session, events, target>> /\ UNCHANGED <<view, last>>
    BY DEF NoSession, Forwarded, UnderWay, coreVars
  <1>2. QED
    BY <1>1, QuietSteps, FailedKeeps

LEMMA ForwardBreaksKeeps ==
  ASSUME Inv, NEW w \in Workers, ForwardBreaks(w)
  PROVE  Inv'
  <1>1. UnderWay(w) /\ Fail(w) /\ UNCHANGED <<coreVars, fresh>>
        /\ UNCHANGED <<session, events, target>> /\ UNCHANGED <<view, last>>
    BY DEF ForwardBreaks, UnderWay, coreVars
  <1>2. QED
    BY <1>1, QuietSteps, FailedKeeps

LEMMA MoveRefusedKeeps ==
  ASSUME Inv, NEW w \in Workers, MoveRefused(w)
  PROVE  Inv'
  <1>1. UnderWay(w) /\ Fail(w) /\ UNCHANGED <<coreVars, fresh>>
        /\ UNCHANGED <<session, events, target>> /\ UNCHANGED <<view, last>>
    BY DEF MoveRefused, Reads, UnderWay, coreVars
  <1>2. QED
    BY <1>1, QuietSteps, FailedKeeps

LEMMA QueryKeeps ==
  ASSUME Inv, NEW w \in Workers, Query(w)
  PROVE  Inv'
  <1>1. UnderWay(w) /\ at[w] = "sent" /\ Head(todo[w]) \in Asked
        /\ UNCHANGED <<coreVars, fresh>> /\ UNCHANGED <<session, events, target>>
        /\ UNCHANGED <<view, last>>
    BY DEF Query, Reads, UnderWay, Asked, coreVars
  <1>2. CASE Fail(w)
    BY <1>1, <1>2, QuietSteps, FailedKeeps
  <1>3. CASE Learn(w, [k \in {Head(todo[w])} |-> Now(bound[w])])
    <2>1. PICK facts : facts = [k \in {Head(todo[w])} |-> Now(bound[w])]
      OBVIOUS
    <2>2. /\ Learn(w, facts) /\ DOMAIN facts = {Head(todo[w])}
          /\ facts[Head(todo[w])] = Now(bound[w])
      BY <1>3, <2>1
    <2>3. /\ ThreadTypes /\ CoreTypes /\ Place(w) /\ Gotten(w) /\ Undisturbed(w)
          /\ Left(w) = In(Tail(todo[w])) \union {Head(todo[w])}
          /\ Orderly(cmd[w], todo[w])
      BY <1>1, InvTypes, NextCall
    <2>4. Now(bound[w]) \in Versions
      <3>1. bound[w] \in Sessions
        BY <1>1, <2>3 DEF Place
      <3>2. events[bound[w]] \in 0..Cardinality(Workers)
        BY <3>1 DEF Inv, TypeOK
      <3>3. QED
        BY <3>1, <3>2 DEF Now, Versions
    <2>5. /\ DOMAIN facts \subseteq {Head(todo[w]), "event"}
          /\ \A k \in DOMAIN facts \ {"event"} : facts[k] \in Versions \union {Empty}
          /\ Head(todo[w]) \in Asked => Head(todo[w]) \in DOMAIN facts
          /\ cmd[w] = "run" /\ Head(todo[w]) = "move" => "event" \in DOMAIN facts
      BY <1>1, <2>2, <2>4 DEF Asked
    <2>6. Quiet(w) /\ CoreTypes' /\ fresh' \in [Workers -> BOOLEAN] /\ (fresh'[w] => fresh[w])
      BY <1>1, QuietSteps
    <2>7. /\ OnlyMoves(w) /\ ThreadTypes' /\ Place(w)' /\ Gotten(w)'
          /\ Learned(w, facts)
          /\ w \in Moved => w \in Moved'
      BY <1>1, <2>2, <2>5, <2>6, Answered
    <2>8. ASSUME fresh'[w]
          PROVE  /\ fresh[w] /\ bound[w] = session /\ session # None
                 /\ bound'[w] = session /\ session' = session
                 /\ Now(session)' = Now(session)
      BY <1>1, <2>3, <2>6, <2>7, <2>8 DEF Undisturbed, Learned, Now
    <2>9. cmd[w] \notin {"winapi", "stop"} /\ cmd'[w] = cmd[w]
          /\ at'[w] \in {"call", "ready"}
      BY <1>1, <2>3, <2>7 DEF Orderly, Refreshing, Asked, Learned
    <2>10. ASSUME fresh'[w], cmd[w] \in Refreshing, "regs" \in DOMAIN got'[w]
           PROVE  /\ got'[w]["regs"] = Now(session)
                  /\ \A f \in Found \intersect DOMAIN got'[w] : got'[w][f] \in {Now(session), Empty}
      <3>1. CASE Head(todo[w]) = "regs"
        <4>1. Found \subseteq Left(w)
          BY <2>3, <2>10, <3>1 DEF Orderly, Left
        <4>2. Found \intersect DOMAIN got[w] = {}
          BY <2>3, <4>1 DEF Gotten
        <4>3. Found \intersect DOMAIN got'[w] = {}
          BY <2>2, <2>7, <3>1, <4>2 DEF Learned, Found
        <4>4. QED
          BY <2>2, <2>7, <2>8, <2>10, <3>1, <4>3 DEF Learned
      <3>2. CASE Head(todo[w]) # "regs"
        <4>1. "regs" \in DOMAIN got[w] /\ "regs" \notin DOMAIN facts
          BY <2>2, <2>7, <2>10, <3>2 DEF Learned
        <4>2. /\ got[w]["regs"] = Now(session)
              /\ \A f \in Found \intersect DOMAIN got[w] : got[w][f] \in {Now(session), Empty}
          BY <2>3, <2>8, <2>10, <4>1 DEF Undisturbed
        <4>3. QED
          BY <2>2, <2>7, <2>8, <2>10, <4>1, <4>2 DEF Learned
      <3>3. QED
        BY <3>1, <3>2
    <2>11. ASSUME fresh'[w], cmd[w] = "run", "event" \in DOMAIN got'[w]
           PROVE  got'[w]["event"] = "exit_process" <=> target'[session] = "exited"
      <3>1. "event" \in DOMAIN got[w] /\ "event" \notin DOMAIN facts
        BY <1>1, <2>2, <2>7, <2>11 DEF Learned, Asked
      <3>2. got[w]["event"] = "exit_process" <=> target[session] = "exited"
        BY <2>3, <2>8, <2>11, <3>1 DEF Undisturbed
      <3>3. QED
        BY <1>1, <2>7, <3>1, <3>2 DEF Learned
    <2>12. Undisturbed(w)'
      BY <2>8, <2>9, <2>10, <2>11 DEF Undisturbed
    <2>13. CountInv' /\ at[w] # "done" /\ WorkerInv(w)'
      BY <1>1, <2>7, <2>12, CountKept DEF WorkerInv
    <2>14. QED
      BY <1>1, <2>6, <2>7, <2>13, StepKeeps
  <1>4. QED
    BY <1>2, <1>3 DEF Query

(* launch, go and the steps bring an event, and no event before.             *)
LEMMA EventAnswer ==
  ASSUME Inv, NEW w \in Workers, at[w] \in {"sent", "moving"}, NEW e, Learn(w, [event |-> e]),
         Head(todo[w]) \in {"launch", "move"},
         Disturb(w), CoreTypes', UNCHANGED <<session, view, last>>,
         events' = [events EXCEPT ![bound[w]] = @ + 1],
         e = "exit_process" <=> target'[bound[w]] = "exited"
  PROVE  Inv'
  <1>1. PICK facts : facts = [event |-> e]
    OBVIOUS
  <1>2. Learn(w, facts) /\ DOMAIN facts = {"event"} /\ facts["event"] = e
    BY <1>1
  <1>3. UnderWay(w)
    BY DEF UnderWay
  <1>4. /\ ThreadTypes /\ CoreTypes /\ Place(w) /\ Gotten(w) /\ Undisturbed(w)
        /\ Left(w) = In(Tail(todo[w])) \union {Head(todo[w])}
        /\ Orderly(cmd[w], todo[w])
        /\ w \in Moved => {"launch", "move"} \intersect Left(w) = {}
    BY <1>3, InvTypes, NextCall
  <1>5. /\ DOMAIN facts \subseteq {Head(todo[w]), "event"}
        /\ \A k \in DOMAIN facts \ {"event"} : facts[k] \in Versions \union {Empty}
        /\ Head(todo[w]) \in Asked => Head(todo[w]) \in DOMAIN facts
        /\ cmd[w] = "run" /\ Head(todo[w]) = "move" => "event" \in DOMAIN facts
    BY <1>2 DEF Asked
  <1>6. Quiet(w) /\ fresh' \in [Workers -> BOOLEAN] /\ fresh'[w] = fresh[w]
    BY QuietSteps
  <1>7. /\ OnlyMoves(w) /\ ThreadTypes' /\ Place(w)' /\ Gotten(w)'
        /\ Learned(w, facts)
        /\ w \in Moved'
    BY <1>2, <1>3, <1>5, <1>6, Answered
  <1>8. w \notin Moved /\ bound[w] \in Sessions
    BY <1>4 DEF Place
  <1>9. CountInv'
    BY <1>7, <1>8, CountGrows
  <1>10. cmd[w] \in {"open", "run", "g"} /\ "regs" \notin DOMAIN got[w]
    BY <1>4 DEF Orderly, Gotten, Left
  <1>11. "regs" \notin DOMAIN got'[w] /\ got'[w]["event"] = e
    BY <1>2, <1>7, <1>10 DEF Learned
  <1>12. fresh'[w] => bound[w] = session /\ session # None
    BY <1>4, <1>6 DEF Undisturbed
  <1>13. Undisturbed(w)'
    BY <1>7, <1>10, <1>11, <1>12 DEF Undisturbed, Learned
  <1>14. at[w] # "done" /\ WorkerInv(w)'
    BY <1>7, <1>13 DEF WorkerInv
  <1>15. QED
    BY <1>6, <1>7, <1>9, <1>14, StepKeeps

LEMMA LaunchKeeps ==
  ASSUME Inv, NEW w \in Workers, Launch(w)
  PROVE  Inv'
  <1>1. /\ UnderWay(w) /\ at[w] = "sent" /\ Head(todo[w]) = "launch"
        /\ Disturb(w) /\ UNCHANGED <<online, session, proc, busy, view, last>>
    BY DEF Launch, Reads, UnderWay
  <1>2. CoreTypes /\ bound[w] \in Sessions /\ cmd[w] # "run"
    <2>1. Place(w) /\ Orderly(cmd[w], todo[w])
      BY <1>1, NextCall
    <2>2. QED
      BY <1>1, <2>1, InvTypes DEF Place, Orderly
  <1>3. CASE /\ target' = [target EXCEPT ![bound[w]] = "stopped"]
             /\ events' = [events EXCEPT ![bound[w]] = @ + 1]
             /\ Learn(w, [event |-> "create_process"])
    <2>1. CoreTypes' /\ target'[bound[w]] = "stopped"
      BY <1>1, <1>2, <1>3 DEF CoreTypes
    <2>2. QED
      BY <1>1, <1>3, <2>1, EventAnswer
  <1>4. CASE /\ target' = [target EXCEPT ![bound[w]] = "none"]
             /\ Fail(w) /\ UNCHANGED events
    <2>1. CoreTypes'
      BY <1>1, <1>2, <1>4 DEF CoreTypes
    <2>2. QED
      BY <1>1, <1>2, <1>4, <2>1, QuietSteps, FailedKeeps
  <1>5. QED
    BY <1>3, <1>4 DEF Launch

LEMMA MoveKeeps ==
  ASSUME Inv, NEW w \in Workers, Move(w)
  PROVE  Inv'
  <1>1. UnderWay(w) /\ at[w] = "sent" /\ Head(todo[w]) \in {"move", "pause"}
    BY DEF Move, Reads, UnderWay
  <1>2. /\ ThreadTypes /\ CoreTypes /\ Place(w) /\ Gotten(w) /\ Undisturbed(w)
        /\ todo[w] # <<>> /\ failed[w] = FALSE
    BY <1>1, InvTypes, NextCall
  <1>3. bound[w] \in Sessions
    BY <1>1, <1>2 DEF Place
  <1>4. /\ at'[w] = "moving" /\ \A x \in Workers \ {w} : at'[x] = at[x]
        /\ cmd' = cmd /\ todo' = todo /\ got' = got /\ failed' = failed /\ bound' = bound
        /\ UNCHANGED <<online, session, proc, target, events>> /\ UNCHANGED <<view, last>>
    BY <1>2 DEF Move, ThreadTypes
  <1>5. Quiet(w) /\ fresh' \in [Workers -> BOOLEAN] /\ fresh'[w] = fresh[w]
    BY QuietSteps DEF Move
  <1>6. OnlyMoves(w) /\ ThreadTypes' /\ CoreTypes'
    BY <1>2, <1>3, <1>4, <1>5 DEF Move, OnlyMoves, ThreadTypes, CoreTypes
  <1>7. Place(w)'
    BY <1>1, <1>2, <1>3, <1>4 DEF Place
  <1>8. Gotten(w)'
    BY <1>1, <1>2, <1>4 DEF Gotten, Gathered, Left
  <1>9. Undisturbed(w)'
    <2>1. Now(session)' = Now(session)
      BY <1>4 DEF Now
    <2>2. QED
      BY <1>1, <1>2, <1>4, <1>5, <2>1 DEF Undisturbed
  <1>10. CountInv'
    BY <1>1, <1>4, <1>6, CountKept DEF Moved, Left
  <1>11. QED
    BY <1>1, <1>4, <1>5, <1>6, <1>7, <1>8, <1>9, <1>10, StepKeeps DEF WorkerInv

LEMMA MoveEndsKeeps ==
  ASSUME Inv, NEW w \in Workers, MoveEnds(w)
  PROVE  Inv'
  <1>1. /\ UnderWay(w) /\ at[w] = "moving" /\ Head(todo[w]) = "move"
        /\ Disturb(w) /\ UNCHANGED <<online, session, proc, view, last>>
        /\ events' = [events EXCEPT ![bound[w]] = @ + 1]
        /\ busy' = FreeAgain(bound[w])
    BY DEF MoveEnds, UnderWay
  <1>2. PICK after \in {"stopped", "exited"} :
          /\ target' = [target EXCEPT ![bound[w]] = after]
          /\ Learn(w, [event |-> IF after = "exited" THEN "exit_process" ELSE "stop"])
    BY DEF MoveEnds
  <1>3. PICK e : e = IF after = "exited" THEN "exit_process" ELSE "stop"
    OBVIOUS
  <1>4. CoreTypes /\ bound[w] \in Sessions
    BY <1>1, InvTypes, NextCall DEF Place
  <1>5. CoreTypes' /\ target'[bound[w]] = after
    BY <1>1, <1>2, <1>4 DEF CoreTypes, FreeAgain
  <1>6. e = "exit_process" <=> target'[bound[w]] = "exited"
    BY <1>3, <1>5
  <1>7. Learn(w, [event |-> e])
    BY <1>2, <1>3
  <1>8. QED
    BY <1>1, <1>5, <1>6, <1>7, EventAnswer

LEMMA DaemonDiesKeeps ==
  ASSUME Inv, DaemonDies
  PROVE  Inv'
  <1>1. ThreadTypes /\ CoreTypes
    BY InvTypes
  <1>2. UNCHANGED <<at, cmd, todo, bound, got, failed, events, view, last>>
        /\ \A w \in Workers : fresh'[w] = FALSE
    BY DEF DaemonDies, threadVars
  <1>3. ThreadTypes' /\ CoreTypes'
    BY <1>1 DEF DaemonDies, threadVars, ThreadTypes, CoreTypes
  <1>4. ASSUME NEW w \in Workers PROVE WorkerInv(w)'
    <2>1. WorkerInv(w)
      BY DEF Inv
    <2>2. Place(w)' /\ Gotten(w)'
      BY <1>2, <2>1 DEF WorkerInv, Place, Gotten, Gathered, Left
    <2>3. QED
      BY <1>2, <2>2 DEF WorkerInv, Undisturbed
  <1>5. CountInv' /\ WindowInv'
    BY <1>2 DEF Inv, CountInv, WindowInv, Moved, Left
  <1>6. \A w \in Workers : \A f : ~LastSays(w, f)'
    BY <1>2 DEF LastSays
  <1>7. ViewIsCurrent' /\ LabelIsTrue' /\ RunShowsExit'
    BY <1>6 DEF ViewIsCurrent, LabelIsTrue, RunShowsExit
  <1>8. TypeOK'
    <2>1. \A w \in Workers : Place(w)'
      BY <1>4 DEF WorkerInv
    <2>2. /\ DOMAIN view' = Fields /\ view'["core"] \in {"unknown", "online", "offline"}
          /\ view'["backend"] \in {"none", "winapi"}
          /\ \A f \in Fields \ Texts : view'[f] \in Versions \union {NoTarget, Empty}
      BY <1>2 DEF Inv, TypeOK
    <2>3. QED
      BY <1>3, <1>5, <2>1, <2>2, TypesKept
  <1>9. QED
    BY <1>3, <1>4, <1>5, <1>7, <1>8 DEF Inv, ThreadTypes

-------------------------------------------------------------------------------
(* What a patch has in it.                                                   *)
Good(p) ==
  /\ DOMAIN p \subseteq Fields
  /\ "core" \in DOMAIN p => p["core"] \in {"unknown", "online", "offline"}
  /\ "backend" \in DOMAIN p => p["backend"] \in {"none", "winapi"}
  /\ \A f \in DOMAIN p \ Texts : p[f] \in Versions \union {NoTarget, Empty}

LEMMA RefreshFits ==
  ASSUME NEW w \in Workers, Gotten(w),
         "regs" \in DOMAIN got[w] => Found \subseteq DOMAIN got[w]
  PROVE  /\ Good(Refreshed(w))
         /\ "regs" \in DOMAIN Refreshed(w) =>
              /\ "regs" \in DOMAIN got[w]
              /\ {"lists", "disasm", "hex"} \subseteq DOMAIN Refreshed(w)
              /\ Refreshed(w)["regs"] = got[w]["regs"]
              /\ Refreshed(w)["lists"] = got[w]["lists"]
              /\ Refreshed(w)["disasm"] = got[w]["disasm"]
              /\ Refreshed(w)["hex"] = got[w]["readMem"]
         /\ "backend" \in DOMAIN Refreshed(w) =>
              "regs" \in DOMAIN Refreshed(w) /\ Refreshed(w)["backend"] = "winapi"
  <1>1. CASE "regs" \notin DOMAIN got[w]
    <2>1. Refreshed(w) = <<>>
      BY <1>1 DEF Refreshed
    <2>2. QED
      BY <2>1 DEF Good
  <1>2. CASE "regs" \in DOMAIN got[w]
    <2>1. Refreshed(w) = RefreshPatch(got[w])
      BY <1>2 DEF Refreshed
    <2>2. \A k \in {"regs", "lists", "disasm", "readMem"} : got[w][k] \in Versions \union {Empty}
      BY <1>2 DEF Gotten, Found
    <2>3. DOMAIN RefreshPatch(got[w]) = Fields
      BY DEF RefreshPatch, Fields
    <2>4. /\ RefreshPatch(got[w])["core"] = "online" /\ RefreshPatch(got[w])["backend"] = "winapi"
          /\ RefreshPatch(got[w])["regs"] = got[w]["regs"]
          /\ RefreshPatch(got[w])["lists"] = got[w]["lists"]
          /\ RefreshPatch(got[w])["disasm"] = got[w]["disasm"]
          /\ RefreshPatch(got[w])["hex"] = got[w]["readMem"]
          /\ RefreshPatch(got[w])["breakpoints"] = Empty
      BY DEF RefreshPatch
    <2>5. \A f \in Fields \ Texts : f \in {"regs", "lists", "disasm", "hex", "breakpoints"}
      BY DEF Fields, Texts
    <2>6. Good(RefreshPatch(got[w]))
      BY <2>2, <2>3, <2>4, <2>5 DEF Good
    <2>7. QED
      BY <1>2, <2>1, <2>3, <2>4, <2>6 DEF Fields
  <1>3. QED
    BY <1>1, <1>2

LEMMA EventFits ==
  ASSUME NEW w \in Workers, Gotten(w),
         "regs" \in DOMAIN got[w] => Found \subseteq DOMAIN got[w]
  PROVE  /\ Good(EventAndRefresh(w))
         /\ DOMAIN EventAndRefresh(w) = DOMAIN Refreshed(w) \union {"status"}
         /\ EventAndRefresh(w)["status"] = got[w]["event"]
         /\ \A f \in DOMAIN Refreshed(w) \ {"status"} : EventAndRefresh(w)[f] = Refreshed(w)[f]
  <1>1. PICK p, q : p = [status |-> got[w]["event"]] /\ q = Refreshed(w)
    OBVIOUS
  <1>2. DOMAIN p = {"status"} /\ p["status"] = got[w]["event"] /\ Good(q)
    BY <1>1, RefreshFits
  <1>3. /\ DOMAIN Over(p, q) = DOMAIN q \union {"status"}
        /\ Over(p, q)["status"] = p["status"]
        /\ \A f \in DOMAIN q \ {"status"} : Over(p, q)[f] = q[f]
    BY <1>2 DEF Over
  <1>4. Good(Over(p, q))
    BY <1>2, <1>3 DEF Good, Fields, Texts
  <1>5. EventAndRefresh(w) = Over(p, q)
    BY <1>1 DEF EventAndRefresh
  <1>6. QED
    BY <1>1, <1>2, <1>3, <1>4, <1>5

(* The patch of a thread that is ready: registers are from a refresh, and    *)
(* then so are the lists, the code and the stack.                            *)
LEMMA PatchFits ==
  ASSUME Inv, NEW w \in Workers, at[w] = "ready"
  PROVE  /\ Good(Patch(w))
         /\ "regs" \in DOMAIN Patch(w) =>
              /\ ~failed[w] /\ cmd[w] \in Refreshing
              /\ {"regs"} \union Found \subseteq DOMAIN got[w]
              /\ {"lists", "disasm", "hex"} \subseteq DOMAIN Patch(w)
              /\ Patch(w)["regs"] = got[w]["regs"] /\ Patch(w)["lists"] = got[w]["lists"]
              /\ Patch(w)["disasm"] = got[w]["disasm"] /\ Patch(w)["hex"] = got[w]["readMem"]
         /\ "backend" \in DOMAIN Patch(w) =>
              \/ ~failed[w] /\ cmd[w] = "winapi" /\ Patch(w)["backend"] = "winapi"
              \/ ~failed[w] /\ cmd[w] = "stop" /\ Patch(w)["backend"] = "none"
              \/ "regs" \in DOMAIN Patch(w) /\ Patch(w)["backend"] = "winapi"
         /\ cmd[w] = "run" /\ ~failed[w] =>
              "event" \in DOMAIN got[w] /\ Patch(w)["status"] = got[w]["event"]
  <1>1. Place(w) /\ Gotten(w) /\ cmd[w] \in Commands /\ failed[w] \in BOOLEAN
    BY InvTypes DEF Inv, WorkerInv, ThreadTypes
  <1>2. Left(w) = {} /\ Gathered(w) = DOMAIN got[w]
    <2>1. todo[w] = <<>>
      BY <1>1 DEF Place
    <2>2. Left(w) = {}
      BY <2>1 DEF Left, In
    <2>3. QED
      BY <2>2 DEF Gathered
  <1>3. CASE failed[w] = TRUE
    <2>1. Patch(w) = FailurePatch(w)
      BY <1>3 DEF Patch
    <2>2. CASE cmd[w] = "core"
      <3>1. Patch(w) = [core |-> "offline", status |-> "CoreOffline"]
        BY <2>1, <2>2 DEF FailurePatch
      <3>2. QED
        BY <1>3, <3>1 DEF Good, Fields, Texts
    <2>3. CASE cmd[w] \in {"stop", "bp"}
      <3>1. FailurePatch(w) = <<>>
        BY <2>3 DEF FailurePatch
      <3>2. QED
        BY <1>3, <2>1, <3>1 DEF Good
    <2>4. CASE cmd[w] \notin {"core", "stop", "bp"}
      <3>1. FailurePatch(w) = [status |-> "failed"]
        BY <2>4 DEF FailurePatch
      <3>2. QED
        BY <1>3, <2>1, <3>1 DEF Good, Fields, Texts
    <2>5. QED
      BY <2>2, <2>3, <2>4
  <1>4. CASE failed[w] = FALSE
    <2>1. Patch(w) = SuccessPatch(w)
      BY <1>4 DEF Patch
    <2>2. CASE cmd[w] = "core"
      <3>1. Patch(w) = [core |-> "online", status |-> "CoreOnline"]
        BY <2>1, <2>2 DEF SuccessPatch
      <3>2. QED
        BY <2>2, <3>1 DEF Good, Fields, Texts
    <2>3. CASE cmd[w] = "winapi"
      <3>1. SuccessPatch(w) = [core |-> "online", backend |-> "winapi", status |-> "active"]
        BY <2>3 DEF SuccessPatch
      <3>2. QED
        BY <1>4, <2>1, <2>3, <3>1 DEF Good, Fields, Texts
    <2>4. CASE cmd[w] = "stop"
      <3>1. Patch(w) = [backend |-> "none", status |-> "BackendStopped"]
        BY <2>1, <2>4 DEF SuccessPatch
      <3>2. QED
        BY <1>4, <2>4, <3>1 DEF Good, Fields, Texts
    <2>5. CASE cmd[w] \in Refreshing
      <3>1. "regs" \in DOMAIN got[w] => Found \subseteq DOMAIN got[w]
        BY <1>1, <1>2, <1>4, <2>5 DEF Gotten
      <3>2. cmd[w] = "run" => "event" \in DOMAIN got[w]
        BY <1>1, <1>2, <1>4 DEF Gotten
      <3>3. CASE cmd[w] \in {"refresh", "g"}
        <4>1. SuccessPatch(w) = Refreshed(w)
          BY <3>3 DEF SuccessPatch
        <4>2. QED
          BY <1>1, <1>4, <2>1, <2>5, <3>1, <3>3, <4>1, RefreshFits
      <3>4. CASE cmd[w] \in {"open", "run", "pause"}
        <4>1. Patch(w) = EventAndRefresh(w)
          BY <2>1, <3>4 DEF SuccessPatch
        <4>2. /\ Good(EventAndRefresh(w))
              /\ DOMAIN EventAndRefresh(w) = DOMAIN Refreshed(w) \union {"status"}
              /\ EventAndRefresh(w)["status"] = got[w]["event"]
              /\ \A f \in DOMAIN Refreshed(w) \ {"status"} :
                   EventAndRefresh(w)[f] = Refreshed(w)[f]
          BY <1>1, <3>1, EventFits
        <4>3. ASSUME "regs" \in DOMAIN Patch(w)
              PROVE  /\ {"regs"} \union Found \subseteq DOMAIN got[w]
                     /\ {"lists", "disasm", "hex"} \subseteq DOMAIN Patch(w)
                     /\ Patch(w)["regs"] = got[w]["regs"] /\ Patch(w)["lists"] = got[w]["lists"]
                     /\ Patch(w)["disasm"] = got[w]["disasm"]
                     /\ Patch(w)["hex"] = got[w]["readMem"]
          <5>1. "regs" \in DOMAIN Refreshed(w)
            BY <4>1, <4>2, <4>3
          <5>2. /\ "regs" \in DOMAIN got[w]
                /\ {"lists", "disasm", "hex"} \subseteq DOMAIN Refreshed(w)
                /\ Refreshed(w)["regs"] = got[w]["regs"]
                /\ Refreshed(w)["lists"] = got[w]["lists"]
                /\ Refreshed(w)["disasm"] = got[w]["disasm"]
                /\ Refreshed(w)["hex"] = got[w]["readMem"]
            BY <1>1, <3>1, <5>1, RefreshFits
          <5>3. QED
            BY <3>1, <4>1, <4>2, <5>1, <5>2
        <4>4. ASSUME "backend" \in DOMAIN Patch(w)
              PROVE  "regs" \in DOMAIN Patch(w) /\ Patch(w)["backend"] = "winapi"
          <5>1. "backend" \in DOMAIN Refreshed(w)
            BY <4>1, <4>2, <4>4
          <5>2. "regs" \in DOMAIN Refreshed(w) /\ Refreshed(w)["backend"] = "winapi"
            BY <1>1, <3>1, <5>1, RefreshFits
          <5>3. QED
            BY <4>1, <4>2, <5>1, <5>2
        <4>5. QED
          BY <1>4, <2>5, <3>2, <4>1, <4>2, <4>3, <4>4
      <3>5. QED
        BY <2>5, <3>3, <3>4 DEF Refreshing
    <2>6. CASE cmd[w] = "bp"
      <3>1. SuccessPatch(w) = [breakpoints |-> got[w]["bpSet"]]
        BY <2>6 DEF SuccessPatch
      <3>2. got[w]["bpSet"] \in Versions \union {Empty}
        BY <1>1, <1>2, <1>4, <2>6 DEF Gotten
      <3>3. QED
        BY <2>1, <2>6, <3>1, <3>2 DEF Good, Fields, Texts
    <2>7. CASE cmd[w] = "u"
      <3>1. SuccessPatch(w) = [disasm |-> got[w]["disasm"]]
        BY <2>7 DEF SuccessPatch
      <3>2. got[w]["disasm"] \in Versions \union {Empty}
        BY <1>1, <1>2, <1>4, <2>7 DEF Gotten
      <3>3. QED
        BY <2>1, <2>7, <3>1, <3>2 DEF Good, Fields, Texts
    <2>8. CASE cmd[w] = "db"
      <3>1. SuccessPatch(w) = [hex |-> got[w]["readMem"]]
        BY <2>8 DEF SuccessPatch
      <3>2. got[w]["readMem"] \in Versions \union {Empty}
        BY <1>1, <1>2, <1>4, <2>8 DEF Gotten
      <3>3. QED
        BY <2>1, <2>8, <3>1, <3>2 DEF Good, Fields, Texts
    <2>9. QED
      BY <1>1, <2>2, <2>3, <2>4, <2>5, <2>6, <2>7, <2>8, CommandNames DEF Refreshing
  <1>5. QED
    BY <1>1, <1>3, <1>4

LEMMA ApplyKeeps ==
  ASSUME Inv, NEW w \in Workers, Apply(w)
  PROVE  Inv'
  <1> DEFINE p == Patch(w)
  <1>1. at[w] = "ready" /\ ThreadTypes /\ CoreTypes /\ WorkerInv(w)
    BY InvTypes DEF Inv, Apply
  <1>2. /\ view' = Over(p, view) /\ last'.by = w /\ last'.fields = DOMAIN p
        /\ UNCHANGED <<coreVars, cmd, todo, bound, failed, fresh>>
        /\ UNCHANGED <<session, events, target>>
        /\ at'[w] = "done" /\ DOMAIN got'[w] = {}
        /\ \A x \in Workers \ {w} : at'[x] = at[x] /\ got'[x] = got[x]
    BY <1>1 DEF Apply, Applied, ThreadTypes, Inv, coreVars
  <1>3. OnlyMoves(w) /\ ThreadTypes' /\ CoreTypes' /\ Quiet(w)
    BY <1>1, <1>2 DEF Apply, OnlyMoves, ThreadTypes, CoreTypes, coreVars, Quiet
  <1>4. WorkerInv(w)'
    <2>1. Place(w)'
      BY <1>1, <1>2 DEF WorkerInv, Place
    <2>2. Gotten(w)'
      BY <1>2 DEF Gotten
    <2>3. Undisturbed(w)'
      BY <1>2 DEF Undisturbed
    <2>4. QED
      BY <2>1, <2>2, <2>3 DEF WorkerInv
  <1>5. \A x \in Workers : WorkerInv(x)'
    BY <1>3, <1>4, OthersKeep
  <1>6. CountInv'
    BY <1>2, <1>3, CountKept DEF Moved, Left
  <1>7. WindowInv'
    BY <1>2 DEF WindowInv
  <1>8. /\ Good(p)
        /\ DOMAIN view' = DOMAIN p \union DOMAIN view
        /\ \A f \in DOMAIN p : view'[f] = p[f]
        /\ \A f \in DOMAIN view \ DOMAIN p : view'[f] = view[f]
    BY <1>1, <1>2, PatchFits DEF Over
  <1>9. TypeOK'
    <2>1. \A x \in Workers : Place(x)'
      BY <1>5 DEF WorkerInv
    <2>2. /\ DOMAIN view = Fields /\ view["core"] \in {"unknown", "online", "offline"}
          /\ view["backend"] \in {"none", "winapi"}
          /\ \A f \in Fields \ Texts : view[f] \in Versions \union {NoTarget, Empty}
      BY DEF Inv, TypeOK
    <2> HIDE DEF p
    <2>3. DOMAIN view' = Fields
      BY <1>8, <2>2 DEF Good
    <2>4. view'["core"] \in {"unknown", "online", "offline"} /\ view'["backend"] \in {"none", "winapi"}
      BY <1>8, <2>2 DEF Good, Fields
    <2>5. \A f \in Fields \ Texts : view'[f] \in Versions \union {NoTarget, Empty}
      BY <1>8, <2>2 DEF Good
    <2>6. QED
      BY <1>3, <1>6, <2>1, <2>3, <2>4, <2>5, TypesKept
  <1>10. ASSUME NEW x \in Workers, NEW f, LastSays(x, f)'
         PROVE  x = w /\ f \in DOMAIN p /\ fresh[w]
    BY <1>2, <1>10 DEF LastSays
  <1>11. ASSUME fresh[w], "regs" \in DOMAIN p
         PROVE  /\ bound[w] = session /\ session # None /\ p["regs"] = Now(session)
                /\ {"lists", "disasm", "hex"} \subseteq DOMAIN p
                /\ \A f \in {"lists", "disasm", "hex"} : p[f] \in {Now(session), Empty}
    <2>1. /\ cmd[w] \in Refreshing
          /\ {"regs"} \union Found \subseteq DOMAIN got[w]
          /\ {"lists", "disasm", "hex"} \subseteq DOMAIN p
          /\ p["regs"] = got[w]["regs"] /\ p["lists"] = got[w]["lists"]
          /\ p["disasm"] = got[w]["disasm"] /\ p["hex"] = got[w]["readMem"]
      BY <1>1, <1>11, PatchFits
    <2>2. /\ bound[w] = session /\ session # None /\ got[w]["regs"] = Now(session)
          /\ \A f \in Found \intersect DOMAIN got[w] : got[w][f] \in {Now(session), Empty}
      BY <1>1, <1>11, <2>1 DEF WorkerInv, Undisturbed
    <2>3. \A f \in {"lists", "disasm", "readMem"} : got[w][f] \in {Now(session), Empty}
      BY <2>1, <2>2 DEF Found
    <2> HIDE DEF p
    <2>4. QED
      BY <2>1, <2>2, <2>3
  <1>12. ViewIsCurrent'
    <2>1. Now(session)' = Now(session)
      BY <1>2 DEF Now
    <2> HIDE DEF p
    <2>2. ASSUME NEW x \in Workers, LastSays(x, "regs")'
          PROVE  /\ bound'[x] = session' /\ view'["regs"] = Now(session)'
                 /\ \A f \in {"lists", "disasm", "hex"} : view'[f] \in {Now(session)', Empty}
      <3>1. x = w /\ "regs" \in DOMAIN p /\ fresh[w]
        BY <1>10, <2>2
      <3>2. QED
        BY <1>2, <1>8, <1>11, <2>1, <3>1
    <2>3. QED
      BY <2>2 DEF ViewIsCurrent
  <1>13. LabelIsTrue'
    <2>1. ASSUME NEW x \in Workers, LastSays(x, "backend")'
          PROVE  view'["backend"] = "none" <=> session' = None
      <3>1. x = w /\ "backend" \in DOMAIN p /\ fresh[w] /\ view'["backend"] = p["backend"]
        BY <1>8, <1>10, <2>1
      <3>2. \/ ~failed[w] /\ cmd[w] = "winapi" /\ p["backend"] = "winapi"
            \/ ~failed[w] /\ cmd[w] = "stop" /\ p["backend"] = "none"
            \/ "regs" \in DOMAIN p /\ p["backend"] = "winapi"
        BY <1>1, <3>1, PatchFits
      <3> HIDE DEF p
      <3>3. CASE ~failed[w] /\ cmd[w] = "winapi" /\ p["backend"] = "winapi"
        BY <1>1, <1>2, <3>1, <3>3 DEF WorkerInv, Undisturbed
      <3>4. CASE ~failed[w] /\ cmd[w] = "stop" /\ p["backend"] = "none"
        BY <1>1, <1>2, <3>1, <3>4 DEF WorkerInv, Undisturbed
      <3>5. CASE "regs" \in DOMAIN p /\ p["backend"] = "winapi"
        BY <1>2, <1>11, <3>1, <3>5
      <3>6. QED
        BY <3>2, <3>3, <3>4, <3>5
    <2>2. QED
      BY <2>1 DEF LabelIsTrue
  <1>14. RunShowsExit'
    <2>1. ASSUME NEW x \in Workers, LastSays(x, "status")', cmd'[x] = "run", ~failed'[x]
          PROVE  view'["status"] = "exit_process" <=> target'[bound'[x]] = "exited"
      <3>1. x = w /\ "status" \in DOMAIN p /\ fresh[w] /\ view'["status"] = p["status"]
        BY <1>8, <1>10, <2>1
      <3>2. "event" \in DOMAIN got[w] /\ p["status"] = got[w]["event"] /\ cmd[w] = "run"
        BY <1>1, <1>2, <2>1, <3>1, PatchFits
      <3> HIDE DEF p
      <3>3. /\ bound[w] = session
            /\ got[w]["event"] = "exit_process" <=> target[session] = "exited"
        BY <1>1, <3>1, <3>2 DEF WorkerInv, Undisturbed
      <3>4. QED
        BY <1>2, <3>1, <3>2, <3>3
    <2>2. QED
      BY <2>1 DEF RunShowsExit
  <1>15. DOMAIN todo' = Workers /\ DOMAIN got' = Workers
    BY <1>3 DEF ThreadTypes
  <1>16. QED
    BY <1>5, <1>6, <1>7, <1>9, <1>12, <1>13, <1>14, <1>15 DEF Inv

-------------------------------------------------------------------------------
LEMMA StutterKeeps ==
  ASSUME Inv, UNCHANGED vars
  PROVE  Inv'
  <1>1. /\ UNCHANGED <<at, cmd, todo, bound, got, failed>> /\ UNCHANGED <<view, fresh, last>>
        /\ UNCHANGED <<online, session, proc, target, events, busy>>
    BY DEF vars, coreVars, threadVars
  <1>2. TypeOK' /\ DOMAIN todo' = Workers /\ DOMAIN got' = Workers
    BY <1>1 DEF Inv, TypeOK
  <1>3. \A w \in Workers : WorkerInv(w)'
    <2>1. ASSUME NEW w \in Workers PROVE Place(w)' /\ Gotten(w)' /\ Undisturbed(w)'
      BY <1>1 DEF Inv, WorkerInv, Place, Gotten, Gathered, Left, Undisturbed, Now
    <2>2. QED
      BY <2>1 DEF WorkerInv
  <1>4. CountInv' /\ WindowInv'
    BY <1>1 DEF Inv, CountInv, WindowInv, Moved, Left
  <1>5. ViewIsCurrent' /\ LabelIsTrue' /\ RunShowsExit'
    BY <1>1 DEF Inv, ViewIsCurrent, LabelIsTrue, RunShowsExit, LastSays, Now
  <1>6. QED
    BY <1>2, <1>3, <1>4, <1>5 DEF Inv

LEMMA InitHolds ==
  ASSUME Init
  PROVE  Inv
  <1>1. ThreadTypes /\ CoreTypes
    BY CommandNames DEF Init, ThreadTypes, CoreTypes, Sessions
  <1>2. ASSUME NEW w \in Workers PROVE WorkerInv(w)
    <2>1. /\ at[w] = "idle" /\ cmd[w] = "core" /\ todo[w] = <<>> /\ got[w] = <<>>
          /\ failed[w] = FALSE /\ fresh[w] = FALSE
      BY DEF Init
    <2>2. Place(w)
      BY <2>1 DEF Place, Todos
    <2>3. Gotten(w)
      BY <2>1 DEF Gotten
    <2>4. Undisturbed(w)
      BY <2>1 DEF Undisturbed
    <2>5. QED
      BY <2>2, <2>3, <2>4 DEF WorkerInv
  <1>3. CountInv
    <2>1. Moved \in SUBSET Workers
      BY DEF Moved
    <2>2. Cardinality(Moved) \in Nat
      BY <2>1, Finite
    <2>3. QED
      BY <2>2 DEF Init, CountInv
  <1>4. WindowInv /\ \A w \in Workers : \A f : ~LastSays(w, f)
    BY DEF Init, WindowInv, LastSays
  <1>5. ViewIsCurrent /\ LabelIsTrue /\ RunShowsExit
    BY <1>4 DEF ViewIsCurrent, LabelIsTrue, RunShowsExit
  <1>6. TypeOK
    <2>1. Cardinality(Workers) \in Nat /\ Workers \in SUBSET Workers
      BY Finite
    <2>2. events \in [Sessions -> 0..Cardinality(Workers)]
      BY <2>1 DEF Init
    <2>3. \A w \in Workers : Len(todo[w]) <= Len(Program[cmd[w]])
      <3>1. ASSUME NEW w \in Workers PROVE cmd[w] \in Commands /\ todo[w] \in Todos(cmd[w])
        BY <1>1, <1>2 DEF ThreadTypes, WorkerInv, Place
      <3>2. QED
        BY <3>1, TodoLength
    <2>4. /\ DOMAIN view = Fields /\ view["core"] = "unknown" /\ view["backend"] = "none"
          /\ \A f \in Fields \ Texts : view[f] = NoTarget
      BY DEF Init, InitialView, Fields, Texts
    <2>5. QED
      BY <1>1, <2>2, <2>3, <2>4 DEF TypeOK, ThreadTypes, CoreTypes
  <1>7. QED
    BY <1>1, <1>2, <1>3, <1>4, <1>5, <1>6 DEF Inv, ThreadTypes

LEMMA NextKeeps ==
  ASSUME Inv, [Next]_vars
  PROVE  Inv'
  <1>1. ASSUME NEW w \in Workers, NEW c \in Commands, Spawn(w, c) PROVE Inv'
    BY <1>1, SpawnKeeps
  <1>2. ASSUME NEW w \in Workers, Thread(w) PROVE Inv'
    BY <1>2, HelloKeeps, StartBackendKeeps, StartAlreadyActiveKeeps, StopTakesKeeps,
       StopFinishesKeeps, NothingToStopKeeps, ForwardKeeps, NoSessionKeeps, QueryKeeps,
       LaunchKeeps, MoveKeeps, MoveRefusedKeeps, MoveEndsKeeps, ApplyKeeps
       DEF Thread
  <1>3. ASSUME NEW w \in Workers, Offline(w) \/ ForwardBreaks(w) PROVE Inv'
    BY <1>3, OfflineKeeps, ForwardBreaksKeeps
  <1>4. CASE DaemonDies
    BY <1>4, DaemonDiesKeeps
  <1>5. CASE UNCHANGED vars
    BY <1>5, StutterKeeps
  <1>6. QED
    BY <1>1, <1>2, <1>3, <1>4, <1>5 DEF Next

LEMMA Inductive ==
  Spec => []Inv
  <1>1. Init => Inv
    BY InitHolds
  <1>2. Inv /\ [Next]_vars => Inv'
    BY NextKeeps
  <1>3. QED
    BY <1>1, <1>2, PTL DEF Spec

(* The window and the threads stay in their types: no field is lost, and no  *)
(* debuggee has more events than threads that moved it.                      *)
THEOREM TypeCorrect ==
  Spec => []TypeOK
  <1>1. Inv => TypeOK
    BY DEF Inv
  <1>2. QED
    BY <1>1, Inductive, PTL

(* A refresh that nobody disturbs repairs the whole window, however many     *)
(* threads are at work and whatever they have written there before.          *)
THEOREM RefreshRepairs ==
  Spec => []ViewIsCurrent
  <1>1. Inv => ViewIsCurrent
    BY DEF Inv
  <1>2. QED
    BY <1>1, Inductive, PTL

(* The backend label says whether the core owns a backend.                   *)
THEOREM BackendLabelIsTrue ==
  Spec => []LabelIsTrue
  <1>1. Inv => LabelIsTrue
    BY DEF Inv
  <1>2. QED
    BY <1>1, Inductive, PTL

(* The run button shows that the debuggee is gone.                           *)
THEOREM ExitIsShown ==
  Spec => []RunShowsExit
  <1>1. Inv => RunShowsExit
    BY DEF Inv
  <1>2. QED
    BY <1>1, Inductive, PTL
===============================================================================
