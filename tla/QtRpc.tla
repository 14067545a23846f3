--------------------------------- MODULE QtRpc ---------------------------------
(***************************************************************************)
(* How the Qt front end (apps/hywdbg-qt/src/rpc.cpp) calls the core over    *)
(* one TCP connection, and how the daemon (apps/hywdbg-core-daemon) serves  *)
(* that connection: each line in a task of its own, so that answers leave   *)
(* in the order in which the calls finish.                                  *)
(*                                                                         *)
(* MainWindow::rpc blocks, but while it waits it runs the event loop, and   *)
(* what the user does there may call rpc again on the same socket.  Calls   *)
(* therefore nest, and only the innermost one reads.  It takes the first    *)
(* line there is and does not look at its id.  A call that times out aborts *)
(* the socket; startDaemon makes a new connection.  A line is named after   *)
(* the request it answers.                                                  *)
(***************************************************************************)
EXTENDS Integers, Sequences, FiniteSets

CONSTANTS
  MaxCalls,  \* calls of one behaviour
  MaxConns,  \* connections of one behaviour
  MaxDepth   \* calls inside one another

ASSUME QtRpcAssumption == MaxCalls \in Nat /\ MaxConns \in Nat /\ MaxDepth \in Nat \ {0}

Calls == 1..MaxCalls
Conns == 1..MaxConns
None == 0

VARIABLES
  (* the front end *)
  rpcId,     \* the next request id
  stack,     \* the calls that wait, the innermost last
  conn,      \* the connection of rpcSocket, None unless connected
  buffer,    \* lines that Qt has read from it and nobody has taken
  result,    \* call -> the line it returned, None if it threw
  (* the network and the daemon *)
  conns,     \* connections made
  net,       \* lines on their way to the socket
  tasks,     \* the daemon's tasks: [id, conn]
  (* history *)
  alone      \* the calls that no other call was open beside

vars == <<rpcId, stack, conn, buffer, result, conns, net, tasks, alone>>

Init ==
  /\ rpcId = 1 /\ stack = <<>>
  /\ conn = None /\ buffer = <<>> /\ result = <<>>
  /\ conns = 0 /\ net = <<>> /\ tasks = {}
  /\ alone = {}

Open == {stack[i] : i \in DOMAIN stack}
Innermost == stack[Len(stack)]

(* abort() and a new connection both forget what was not read.              *)
SocketEmptied == buffer' = <<>> /\ net' = <<>>

-------------------------------------------------------------------------------
(* the event loop: at the top, or in processEvents of the innermost call *)

(* startDaemon, when the socket is not connected: it aborts and connects,   *)
(* to a daemon that runs or that it starts.                                 *)
Connect ==
  /\ conn = None /\ conns < MaxConns
  /\ conn' = conns + 1 /\ conns' = conns + 1
  /\ SocketEmptied
  /\ UNCHANGED <<rpcId, stack, result, tasks, alone>>

(* rpc: a line is written.  The daemon spawns a task for it.                *)
Call ==
  /\ conn # None
  /\ rpcId <= MaxCalls /\ Len(stack) < MaxDepth
  /\ rpcId' = rpcId + 1
  /\ stack' = Append(stack, rpcId)
  /\ tasks' = tasks \union {[id |-> rpcId, conn |-> conn]}
  /\ alone' = IF stack = <<>> THEN alone \union {rpcId} ELSE alone \ Open
  /\ UNCHANGED <<conn, buffer, result, conns, net>>

Finish(line) ==
  /\ result' = [c \in DOMAIN result \union {Innermost} |->
                  IF c = Innermost THEN line ELSE result[c]]
  /\ stack' = SubSeq(stack, 1, Len(stack) - 1)

(* waitForReadyRead sees new data, as much as has arrived; readLine takes   *)
(* the first line there is.  What is left in the buffer is not new data.    *)
ReadLine ==
  /\ stack # <<>>
  /\ \E k \in 1..Len(net) :
       /\ LET lines == buffer \o SubSeq(net, 1, k)
          IN Finish(Head(lines)) /\ buffer' = Tail(lines)
       /\ net' = SubSeq(net, k + 1, Len(net))
  /\ UNCHANGED <<rpcId, conn, conns, tasks, alone>>

(* processEvents reads the socket too: what it puts into the buffer is no    *)
(* news to waitForReadyRead any more, and waits there for the next line.    *)
ProcessEvents ==
  /\ \E k \in 1..Len(net) :
       /\ buffer' = buffer \o SubSeq(net, 1, k)
       /\ net' = SubSeq(net, k + 1, Len(net))
  /\ UNCHANGED <<rpcId, stack, conn, result, conns, tasks, alone>>

(* Nothing comes for too long: the socket is discarded, its late answers    *)
(* with it.  An outer call goes on waiting.                                 *)
OnlyWhileConnected == net = <<>> /\ conn # None
NothingArrives == net = <<>>
SocketKept == UNCHANGED <<conn, buffer, net>>
Discard == conn' = None /\ SocketEmptied

TimeOut ==
  /\ stack # <<>> /\ NothingArrives
  /\ Finish(None)
  /\ Discard
  /\ UNCHANGED <<rpcId, conns, tasks, alone>>

-------------------------------------------------------------------------------
(* the daemon *)

(* A call of the core is done: its line is written under the lock of the    *)
(* connection's write half, if the connection is still there.               *)
WriteTwice(t) == net' = IF t.conn = conn THEN net \o <<t.id, t.id>> ELSE net
WriteLine(t) == net' = IF t.conn = conn THEN Append(net, t.id) ELSE net

TaskEnds(t) ==
  /\ tasks' = tasks \ {t}
  /\ WriteLine(t)
  /\ UNCHANGED <<rpcId, stack, conn, buffer, result, conns, alone>>

(* The connection breaks, with the daemon or without it.                    *)
Disconnected ==
  /\ conn # None
  /\ conn' = None /\ SocketEmptied
  /\ UNCHANGED <<rpcId, stack, result, conns, tasks, alone>>

-------------------------------------------------------------------------------
Next ==
  \/ Connect \/ Call \/ ReadLine \/ ProcessEvents \/ TimeOut \/ Disconnected
  \/ \E t \in tasks : TaskEnds(t)

Spec == Init /\ [][Next]_vars

(* rpc's loop turns: it reads what comes, or times out in the end.          *)
Fairness == WF_vars(ReadLine) /\ WF_vars(TimeOut)
FairSpec == Spec /\ Fairness
-------------------------------------------------------------------------------
(* A call that no other call was open beside returns its own answer or      *)
(* throws, whatever calls before it did: nested in one another, crossed in  *)
(* their answers, timed out or cut off (rpc.cpp:140-152).                   *)
AloneGetsOwn ==
  \A c \in DOMAIN result : c \in alone => result[c] \in {c, None}

(* What the calls of this connection are still owed.                        *)
Owed == {t \in tasks : t.conn = conn}
Unread == Len(buffer) + Len(net) + Cardinality(Owed)

(* "The next response will be out of sync" (rpc.cpp:147) never happens: a   *)
(* connection owes no more lines than calls are waiting, and none at all    *)
(* when no call waits.                                                      *)
NothingLeftOver == conn # None => Unread <= Len(stack)

(* Every call comes back, with a line or with an exception, also when the   *)
(* socket is gone or a line is stuck in the buffer (rpc.cpp:140-152).       *)
CallsReturn == \A c \in Calls : c \in Open ~> c \notin Open
===============================================================================
