------------------------------- MODULE QtProofs -------------------------------
(* The socket of the Qt front end is never out of step, and a call that is   *)
(* alone gets its own answer, for any number of calls and connections and    *)
(* any depth of nesting.                                                     *)
EXTENDS QtRpc, FiniteSetTheorems, SequenceTheorems, TLAPS

-------------------------------------------------------------------------------
(* Queues of lines.                                                          *)
Lines(s) == {s[i] : i \in DOMAIN s}

LEMMA NoLines == Lines(<<>>) = {} /\ Len(<<>>) = 0 /\ \A S : <<>> \in Seq(S)
  BY DEF Lines

LEMMA Added ==
  ASSUME NEW S, NEW s \in Seq(S), NEW e \in S
  PROVE  /\ Append(s, e) \in Seq(S) /\ Len(Append(s, e)) = Len(s) + 1
         /\ Lines(Append(s, e)) = Lines(s) \union {e}
         /\ Append(s, e)[Len(s) + 1] = e
  <1>1. /\ Append(s, e) \in Seq(S) /\ Len(Append(s, e)) = Len(s) + 1
        /\ \A i \in 1..Len(s) : Append(s, e)[i] = s[i]
        /\ Append(s, e)[Len(s) + 1] = e
    BY AppendProperties
  <1>2. DOMAIN s = 1..Len(s) /\ DOMAIN Append(s, e) = 1..(Len(s) + 1) /\ Len(s) \in Nat
    BY <1>1, LenProperties
  <1>3. Lines(Append(s, e)) = Lines(s) \union {e}
    BY <1>1, <1>2 DEF Lines
  <1>4. QED
    BY <1>1, <1>3

LEMMA Part ==
  ASSUME NEW S, NEW s \in Seq(S), NEW m \in 1..(Len(s) + 1), NEW n \in 0..Len(s), m <= n + 1
  PROVE  /\ SubSeq(s, m, n) \in Seq(S) /\ Len(SubSeq(s, m, n)) = n - m + 1
         /\ Lines(SubSeq(s, m, n)) \subseteq Lines(s)
  <1> DEFINE t == SubSeq(s, m, n)
  <1>1. Len(s) \in Nat /\ DOMAIN s = 1..Len(s) /\ \A i \in DOMAIN s : s[i] \in S
    BY LenProperties, ElementOfSeq
  <1>2. /\ t \in Seq(S) /\ Len(t) = IF m <= n THEN n - m + 1 ELSE 0
        /\ \A i \in 1..(n - m + 1) : t[i] = s[m + i - 1]
    <2>1. \A i \in m..n : s[i] \in S
      BY <1>1
    <2>2. QED
      BY <1>1, <2>1, SubSeqProperties
  <1>a. DOMAIN t = 1..Len(t)
    BY <1>2, LenProperties
  <1> HIDE DEF t
  <1>3. Len(t) = n - m + 1 /\ DOMAIN t = 1..(n - m + 1)
    BY <1>1, <1>2, <1>a
  <1>4. ASSUME NEW i \in DOMAIN t PROVE t[i] \in Lines(s)
    <2>1. i \in 1..(n - m + 1) /\ m + i - 1 \in DOMAIN s
      BY <1>1, <1>3
    <2>2. QED
      BY <1>2, <2>1 DEF Lines
  <1>5. Lines(t) \subseteq Lines(s)
    BY <1>4 DEF Lines
  <1>6. QED
    BY <1>2, <1>3, <1>5 DEF t

LEMMA Joined ==
  ASSUME NEW S, NEW s \in Seq(S), NEW t \in Seq(S)
  PROVE  /\ s \o t \in Seq(S) /\ Len(s \o t) = Len(s) + Len(t)
         /\ Lines(s \o t) \subseteq Lines(s) \union Lines(t)
  <1> DEFINE u == s \o t
  <1>1. /\ u \in Seq(S) /\ Len(u) = Len(s) + Len(t)
        /\ \A i \in 1..(Len(s) + Len(t)) : u[i] = IF i <= Len(s) THEN s[i] ELSE t[i - Len(s)]
    BY ConcatProperties
  <1>2. /\ DOMAIN u = 1..(Len(s) + Len(t)) /\ Len(s) \in Nat /\ Len(t) \in Nat
        /\ DOMAIN s = 1..Len(s) /\ DOMAIN t = 1..Len(t)
    BY <1>1, LenProperties
  <1> HIDE DEF u
  <1>3. ASSUME NEW i \in DOMAIN u PROVE u[i] \in Lines(s) \union Lines(t)
    <2>1. CASE i <= Len(s)
      BY <1>1, <1>2, <2>1 DEF Lines
    <2>2. CASE ~(i <= Len(s))
      <3>1. i - Len(s) \in DOMAIN t /\ u[i] = t[i - Len(s)]
        BY <1>1, <1>2, <2>2
      <3>2. QED
        BY <3>1 DEF Lines
    <2>3. QED
      BY <2>1, <2>2
  <1>4. QED
    BY <1>1, <1>3 DEF Lines, u

LEMMA First ==
  ASSUME NEW S, NEW s \in Seq(S), Len(s) > 0
  PROVE  /\ Head(s) \in S /\ Head(s) \in Lines(s)
         /\ Tail(s) \in Seq(S) /\ Len(Tail(s)) = Len(s) - 1
         /\ Lines(Tail(s)) \subseteq Lines(s)
  <1> DEFINE t == Tail(s)
  <1>1. s # <<>> /\ Len(s) \in Nat /\ DOMAIN s = 1..Len(s)
    BY LenProperties, EmptySeq
  <1>2. /\ Head(s) \in S /\ Head(s) = s[1] /\ t \in Seq(S) /\ Len(t) = Len(s) - 1
        /\ \A i \in 1..Len(t) : t[i] = s[i + 1]
    BY <1>1, HeadTailProperties
  <1>3. DOMAIN t = 1..(Len(s) - 1)
    BY <1>2, LenProperties
  <1> HIDE DEF t
  <1>4. \A i \in DOMAIN t : t[i] \in Lines(s)
    BY <1>1, <1>2, <1>3 DEF Lines
  <1>5. QED
    BY <1>1, <1>2, <1>4 DEF Lines, t

-------------------------------------------------------------------------------
(* The invariant: types, the socket in step, and a call that is alone with   *)
(* nothing on the wire but its own line.                                     *)
Types ==
  /\ rpcId \in Nat \ {0} /\ stack \in Seq(Nat)
  /\ conn \in 0..conns /\ conns \in Nat
  /\ buffer \in Seq(Nat) /\ net \in Seq(Nat)
  /\ IsFiniteSet(tasks) /\ tasks \subseteq [id : Nat, conn : 1..conns]
  /\ DOMAIN result \subseteq 1..(rpcId - 1) /\ Open \subseteq 1..(rpcId - 1)
  /\ alone \subseteq 1..(rpcId - 1)
  /\ conn = None => buffer = <<>> /\ net = <<>>

OnTheWire == Lines(buffer) \union Lines(net) \union {t.id : t \in Owed}
AloneOnly ==
  \A c \in alone \intersect Open : stack = <<c>> /\ OnTheWire \subseteq {c}

Inv == Types /\ NothingLeftOver /\ AloneOnly /\ AloneGetsOwn

LEMMA InitInv == Init => Inv
  <1> SUFFICES ASSUME Init PROVE Inv
    OBVIOUS
  <1>1. Types
    BY NoLines, FS_EmptySet DEF Init, Types, None, Open
  <1>2. NothingLeftOver /\ AloneOnly /\ AloneGetsOwn
    BY DEF Init, NothingLeftOver, AloneOnly, AloneGetsOwn
  <1>3. QED
    BY <1>1, <1>2 DEF Inv

(* What is counted as unread.                                                *)
LEMMA UnreadCounted ==
  ASSUME Types
  PROVE  /\ IsFiniteSet(Owed) /\ Cardinality(Owed) \in Nat
         /\ Len(buffer) \in Nat /\ Len(net) \in Nat /\ Len(stack) \in Nat
         /\ Unread = Len(buffer) + Len(net) + Cardinality(Owed)
  <1>1. Owed \subseteq tasks /\ IsFiniteSet(tasks)
    BY DEF Types, Owed
  <1>2. IsFiniteSet(Owed) /\ Cardinality(Owed) \in Nat
    BY <1>1, FS_Subset, FS_CardinalityType
  <1>3. QED
    BY <1>2, LenProperties DEF Types, Unread

(* Where nothing is owed, nothing is on the wire.                            *)
LEMMA NothingOnTheWire ==
  ASSUME Types, NothingLeftOver, conn # None, stack = <<>>
  PROVE  OnTheWire = {}
  <1>1. Len(buffer) = 0 /\ Len(net) = 0 /\ Cardinality(Owed) = 0
    BY UnreadCounted, NoLines DEF NothingLeftOver
  <1>2. buffer = <<>> /\ net = <<>> /\ Owed = {}
    BY <1>1, UnreadCounted, EmptySeq, FS_EmptySet DEF Types
  <1>3. QED
    BY <1>2, NoLines DEF OnTheWire

-------------------------------------------------------------------------------
(* Types, step by step.                                                      *)
LEMMA NextTypes ==
  ASSUME Types, [Next]_vars
  PROVE  Types'
  <1>0. /\ Len(net) \in Nat /\ Len(stack) \in Nat
        /\ \A k \in 1..Len(net) :
             /\ SubSeq(net, 1, k) \in Seq(Nat) /\ Len(SubSeq(net, 1, k)) = k
             /\ SubSeq(net, k + 1, Len(net)) \in Seq(Nat)
             /\ buffer \o SubSeq(net, 1, k) \in Seq(Nat)
             /\ Len(buffer \o SubSeq(net, 1, k)) > 0
    <2>1. /\ Len(net) \in Nat /\ Len(stack) \in Nat /\ Len(buffer) \in Nat
          /\ net \in Seq(Nat) /\ buffer \in Seq(Nat)
      BY LenProperties DEF Types
    <2>2. ASSUME NEW k \in 1..Len(net)
          PROVE  /\ SubSeq(net, 1, k) \in Seq(Nat) /\ Len(SubSeq(net, 1, k)) = k
                 /\ SubSeq(net, k + 1, Len(net)) \in Seq(Nat)
      BY <2>1, Part
    <2>3. ASSUME NEW k \in 1..Len(net)
          PROVE  /\ buffer \o SubSeq(net, 1, k) \in Seq(Nat)
                 /\ Len(buffer \o SubSeq(net, 1, k)) > 0
      BY <2>1, <2>2, Joined
    <2>4. QED
      BY <2>1, <2>2, <2>3
  <1>1. CASE Connect
    BY <1>1, NoLines DEF Connect, SocketEmptied, Types, None, Open
  <1>2. CASE Call
    <2>1. stack' \in Seq(Nat) /\ Open' = Open \union {rpcId}
      <3>1. stack \in Seq(Nat) /\ rpcId \in Nat
        BY DEF Types
      <3>2. /\ Append(stack, rpcId) \in Seq(Nat)
            /\ Lines(Append(stack, rpcId)) = Lines(stack) \union {rpcId}
        BY <3>1, Added
      <3>3. Open = Lines(stack) /\ Open' = Lines(stack')
        BY DEF Open, Lines
      <3>4. QED
        BY <1>2, <3>2, <3>3 DEF Call
    <2>2. IsFiniteSet(tasks')
      BY <1>2, FS_AddElement DEF Call, Types
    <2>3. [id |-> rpcId, conn |-> conn] \in [id : Nat, conn : 1..conns]
      BY <1>2 DEF Call, Types, None
    <2>4. tasks' \subseteq [id : Nat, conn : 1..conns]
      BY <1>2, <2>3 DEF Call, Types
    <2>5. QED
      BY <1>2, <2>1, <2>2, <2>4 DEF Call, Types
  <1>3. ASSUME NEW line, Finish(line), stack # <<>>
        PROVE  /\ stack' \in Seq(Nat) /\ Open' \subseteq Open
               /\ DOMAIN result' \subseteq 1..(rpcId - 1)
    <2>1. stack \in Seq(Nat) /\ Len(stack) \in Nat \ {0} /\ DOMAIN stack = 1..Len(stack)
      BY <1>3, EmptySeq, LenProperties DEF Types
    <2>2. stack' \in Seq(Nat) /\ Lines(stack') \subseteq Lines(stack)
      <3>1. 1 \in 1..(Len(stack) + 1) /\ Len(stack) - 1 \in 0..Len(stack) /\ 1 <= Len(stack) - 1 + 1
        BY <2>1
      <3>2. QED
        BY <1>3, <2>1, <3>1, Part DEF Finish
    <2>3. Innermost \in Open
      BY <2>1 DEF Innermost, Open
    <2>4. QED
      BY <1>3, <2>2, <2>3 DEF Finish, Types, Open, Lines
  <1>4. CASE ReadLine
    <2>1. PICK k \in 1..Len(net) :
            LET lines == buffer \o SubSeq(net, 1, k)
            IN  /\ Finish(Head(lines)) /\ buffer' = Tail(lines)
                /\ net' = SubSeq(net, k + 1, Len(net))
      BY <1>4 DEF ReadLine
    <2> DEFINE lines == buffer \o SubSeq(net, 1, k)
    <2>2. lines \in Seq(Nat) /\ Len(lines) > 0
      BY <1>0
    <2>3. Finish(Head(lines)) /\ buffer' = Tail(lines)
      BY <2>1
    <2> HIDE DEF lines
    <2>4. buffer' \in Seq(Nat) /\ net' \in Seq(Nat)
      BY <1>0, <2>1, <2>2, <2>3, First
    <2>5. conn # None
      BY <1>0, <2>1, NoLines DEF Types
    <2>6. QED
      BY <1>3, <1>4, <2>3, <2>4, <2>5 DEF ReadLine, Types
  <1>5. CASE ProcessEvents
    <2>1. conn # None
      BY <1>5, NoLines DEF ProcessEvents, Types
    <2>2. QED
      BY <1>0, <1>5, <2>1 DEF ProcessEvents, Types, Open
  <1>6. CASE TimeOut
    <2>1. Finish(None) /\ stack # <<>>
      BY <1>6 DEF TimeOut
    <2>2. /\ stack' \in Seq(Nat) /\ Open' \subseteq Open
          /\ DOMAIN result' \subseteq 1..(rpcId - 1)
      BY <1>3, <2>1
    <2>3. QED
      BY <1>6, <2>2, NoLines DEF TimeOut, Discard, SocketEmptied, Types, None
  <1>7. ASSUME NEW t \in tasks, TaskEnds(t) PROVE Types'
    <2>1. IsFiniteSet(tasks')
      BY <1>7, FS_RemoveElement DEF TaskEnds, Types
    <2>2. net' \in Seq(Nat) /\ (conn = None => net' = <<>>)
      <3>1. t.id \in Nat /\ t.conn \in 1..conns
        BY DEF Types
      <3>2. Append(net, t.id) \in Seq(Nat)
        BY <3>1, Added DEF Types
      <3>3. QED
        BY <1>7, <3>1, <3>2 DEF TaskEnds, WriteLine, Types, None
    <2>3. QED
      BY <1>7, <2>1, <2>2 DEF TaskEnds, Types, Open
  <1>8. CASE Disconnected
    BY <1>8, NoLines DEF Disconnected, SocketEmptied, Types, None, Open
  <1>9. CASE UNCHANGED vars
    BY <1>9 DEF vars, Types, Open
  <1>10. QED
    BY <1>1, <1>2, <1>4, <1>5, <1>6, <1>7, <1>8, <1>9 DEF Next

(* What reading leaves.                                                      *)
LEMMA Read ==
  ASSUME Types, NEW k \in 1..Len(net)
  PROVE  LET lines == buffer \o SubSeq(net, 1, k)
             rest == SubSeq(net, k + 1, Len(net))
         IN /\ Len(lines) = Len(buffer) + k /\ Len(rest) = Len(net) - k
            /\ Lines(lines) \subseteq Lines(buffer) \union Lines(net)
            /\ Lines(rest) \subseteq Lines(net)
            /\ Head(lines) \in Lines(lines) /\ Lines(Tail(lines)) \subseteq Lines(lines)
            /\ Len(Tail(lines)) = Len(lines) - 1
  <1> DEFINE part == SubSeq(net, 1, k)
             lines == buffer \o part
             rest == SubSeq(net, k + 1, Len(net))
  <1>1. net \in Seq(Nat) /\ buffer \in Seq(Nat) /\ Len(net) \in Nat /\ Len(buffer) \in Nat
    BY LenProperties DEF Types
  <1>2. /\ part \in Seq(Nat) /\ Len(part) = k /\ Lines(part) \subseteq Lines(net)
        /\ rest \in Seq(Nat) /\ Len(rest) = Len(net) - k /\ Lines(rest) \subseteq Lines(net)
    <2>1. /\ 1 \in 1..(Len(net) + 1) /\ k \in 0..Len(net) /\ 1 <= k + 1 /\ k - 1 + 1 = k
          /\ k + 1 \in 1..(Len(net) + 1) /\ Len(net) \in 0..Len(net) /\ k + 1 <= Len(net) + 1
          /\ Len(net) - (k + 1) + 1 = Len(net) - k
      BY <1>1
    <2>2. part \in Seq(Nat) /\ Len(part) = k - 1 + 1 /\ Lines(part) \subseteq Lines(net)
      BY <1>1, <2>1, Part
    <2>3. /\ rest \in Seq(Nat) /\ Len(rest) = Len(net) - (k + 1) + 1
          /\ Lines(rest) \subseteq Lines(net)
      BY <1>1, <2>1, Part
    <2>4. QED
      BY <2>1, <2>2, <2>3
  <1> HIDE DEF part, rest
  <1>3. /\ lines \in Seq(Nat) /\ Len(lines) = Len(buffer) + k
        /\ Lines(lines) \subseteq Lines(buffer) \union Lines(net)
    <2>1. /\ lines \in Seq(Nat) /\ Len(lines) = Len(buffer) + Len(part)
          /\ Lines(lines) \subseteq Lines(buffer) \union Lines(part)
      BY <1>1, <1>2, Joined
    <2>2. QED
      BY <1>2, <2>1
  <1>4. Len(lines) > 0
    BY <1>1, <1>3
  <1> HIDE DEF lines
  <1>5. /\ Head(lines) \in Lines(lines) /\ Lines(Tail(lines)) \subseteq Lines(lines)
        /\ Len(Tail(lines)) = Len(lines) - 1
    BY <1>3, <1>4, First
  <1>6. QED
    BY <1>2, <1>3, <1>5 DEF part, lines, rest

(* A call that comes back leaves one fewer that waits.                       *)
LEMMA Finished ==
  ASSUME Types, stack # <<>>, NEW line, Finish(line)
  PROVE  /\ Len(stack') = Len(stack) - 1 /\ Open' \subseteq Open /\ Innermost \in Open
         /\ \A c : stack = <<c>> => Open' = {} /\ Innermost = c
  <1>1. stack \in Seq(Nat) /\ Len(stack) \in Nat \ {0} /\ DOMAIN stack = 1..Len(stack)
    BY EmptySeq, LenProperties DEF Types
  <1>2. /\ Len(stack') = Len(stack) - 1 /\ Lines(stack') \subseteq Lines(stack)
        /\ stack' \in Seq(Nat)
    <2>1. 1 \in 1..(Len(stack) + 1) /\ Len(stack) - 1 \in 0..Len(stack) /\ 1 <= Len(stack) - 1 + 1
      BY <1>1
    <2>2. QED
      BY <1>1, <2>1, Part DEF Finish
  <1>3. Innermost \in Open
    BY <1>1 DEF Innermost, Open
  <1>4. Open = Lines(stack) /\ Open' = Lines(stack')
    BY DEF Open, Lines
  <1>5. ASSUME NEW c, stack = <<c>> PROVE Open' = {} /\ Innermost = c
    <2>1. Len(stack) = 1 /\ stack[1] = c
      BY <1>5
    <2>2. DOMAIN stack' = {}
      <3>1. DOMAIN stack' = 1..0
        BY <1>2, <2>1, LenProperties
      <3>2. QED
        BY <3>1
    <2>3. QED
      BY <2>1, <2>2 DEF Open, Innermost
  <1>6. QED
    BY <1>2, <1>3, <1>4, <1>5

-------------------------------------------------------------------------------
(* The socket stays in step.                                                 *)
LEMMA NextInStep ==
  ASSUME Types, Types', NothingLeftOver, [Next]_vars
  PROVE  NothingLeftOver'
  <1>0. /\ Cardinality(Owed) \in Nat /\ IsFiniteSet(Owed)
        /\ Len(buffer) \in Nat /\ Len(net) \in Nat /\ Len(stack) \in Nat
        /\ Unread = Len(buffer) + Len(net) + Cardinality(Owed)
    BY UnreadCounted
  <1>a. Unread' = Len(buffer') + Len(net') + Cardinality(Owed')
    BY DEF Unread
  <1>1. CASE Connect
    <2>1. Owed' = {}
      BY <1>1 DEF Connect, Owed, Types
    <2>2. Unread' = 0
      BY <1>a, <1>1, <2>1, NoLines, FS_EmptySet DEF Connect, SocketEmptied
    <2>3. QED
      BY <1>0, <1>1, <2>2 DEF Connect, NothingLeftOver
  <1>2. CASE Call
    <2>1. Owed' = Owed \union {[id |-> rpcId, conn |-> conn]}
      BY <1>2 DEF Call, Owed
    <2> DEFINE new == [id |-> rpcId, conn |-> conn]
    <2> HIDE DEF new
    <2>5. Cardinality(Owed \union {new}) =
            IF new \in Owed THEN Cardinality(Owed) ELSE Cardinality(Owed) + 1
      BY <1>0, FS_AddElement
    <2>2. Cardinality(Owed') <= Cardinality(Owed) + 1 /\ Cardinality(Owed') \in Nat
      BY <1>0, <2>1, <2>5 DEF new
    <2>3. Len(stack') = Len(stack) + 1
      <3>1. stack \in Seq(Nat) /\ rpcId \in Nat
        BY DEF Types
      <3>2. QED
        BY <1>2, <3>1, Added DEF Call
    <2>4. QED
      BY <1>0, <1>a, <1>2, <2>2, <2>3 DEF Call, NothingLeftOver
  <1>3. CASE ReadLine
    <2>1. PICK k \in 1..Len(net) :
            LET lines == buffer \o SubSeq(net, 1, k)
            IN  /\ Finish(Head(lines)) /\ buffer' = Tail(lines)
                /\ net' = SubSeq(net, k + 1, Len(net))
      BY <1>3 DEF ReadLine
    <2>2. Len(buffer') = Len(buffer) + k - 1 /\ Len(net') = Len(net) - k
      BY <1>0, <2>1, Read
    <2>3. Len(stack') = Len(stack) - 1
      BY <1>3, <2>1, Finished DEF ReadLine
    <2>4. Owed' = Owed /\ conn' = conn
      BY <1>3 DEF ReadLine, Owed
    <2>5. QED
      BY <1>0, <1>a, <2>2, <2>3, <2>4 DEF NothingLeftOver
  <1>4. CASE ProcessEvents
    <2>1. PICK k \in 1..Len(net) : /\ buffer' = buffer \o SubSeq(net, 1, k)
                                   /\ net' = SubSeq(net, k + 1, Len(net))
      BY <1>4 DEF ProcessEvents
    <2>2. Len(buffer') = Len(buffer) + k /\ Len(net') = Len(net) - k
      BY <1>0, <2>1, Read
    <2>3. Owed' = Owed /\ conn' = conn /\ stack' = stack
      BY <1>4 DEF ProcessEvents, Owed
    <2>4. QED
      BY <1>0, <1>a, <2>2, <2>3 DEF NothingLeftOver
  <1>5. CASE TimeOut
    BY <1>5 DEF TimeOut, Discard, NothingLeftOver
  <1>6. ASSUME NEW t \in tasks, TaskEnds(t) PROVE NothingLeftOver'
    <2>1. CASE t.conn = conn
      <3>1. Owed' = Owed \ {t} /\ t \in Owed
        BY <1>6, <2>1 DEF TaskEnds, Owed
      <3>2. Cardinality(Owed') = Cardinality(Owed) - 1
        BY <1>0, <3>1, FS_RemoveElement
      <3>3. Len(net') = Len(net) + 1
        <4>1. net \in Seq(Nat) /\ t.id \in Nat
          BY DEF Types
        <4>2. QED
          BY <1>6, <2>1, <4>1, Added DEF TaskEnds, WriteLine
      <3>4. QED
        BY <1>0, <1>a, <1>6, <3>2, <3>3 DEF TaskEnds, NothingLeftOver
    <2>2. CASE t.conn # conn
      <3>1. Owed' = Owed /\ net' = net
        BY <1>6, <2>2 DEF TaskEnds, Owed, WriteLine
      <3>2. QED
        BY <1>0, <1>a, <1>6, <3>1 DEF TaskEnds, NothingLeftOver
    <2>3. QED
      BY <2>1, <2>2
  <1>7. CASE Disconnected
    BY <1>7 DEF Disconnected, NothingLeftOver
  <1>8. CASE UNCHANGED vars
    BY <1>0, <1>a, <1>8 DEF vars, NothingLeftOver, Owed
  <1>9. QED
    BY <1>1, <1>2, <1>3, <1>4, <1>5, <1>6, <1>7, <1>8 DEF Next

-------------------------------------------------------------------------------
(* A call that is alone has nothing but its own line on the wire.            *)
LEMMA NextAlone ==
  ASSUME Types, NothingLeftOver, AloneOnly, [Next]_vars
  PROVE  AloneOnly'
  <1>0. /\ OnTheWire = Lines(buffer) \union Lines(net) \union {t.id : t \in Owed}
        /\ OnTheWire' = Lines(buffer') \union Lines(net') \union {t.id : t \in Owed'}
    BY DEF OnTheWire, Lines
  <1>1. CASE Connect
    <2>1. Owed' = {}
      BY <1>1 DEF Connect, Owed, Types
    <2>2. OnTheWire' = {}
      BY <1>0, <1>1, <2>1, NoLines DEF Connect, SocketEmptied
    <2>3. QED
      BY <1>1, <2>2 DEF Connect, AloneOnly, Open
  <1>2. CASE Call
    <2> DEFINE new == [id |-> rpcId, conn |-> conn]
    <2>1. stack \in Seq(Nat) /\ rpcId \in Nat
      BY DEF Types
    <2>2. Open' = Open \union {rpcId}
      <3>1. Lines(Append(stack, rpcId)) = Lines(stack) \union {rpcId}
        BY <2>1, Added
      <3>2. Open = Lines(stack) /\ Open' = Lines(stack')
        BY DEF Open, Lines
      <3>3. QED
        BY <1>2, <3>1, <3>2 DEF Call
    <2>3. Owed' = Owed \union {new}
      BY <1>2 DEF Call, Owed
    <2>4. OnTheWire' \subseteq OnTheWire \union {rpcId}
      BY <1>0, <1>2, <2>3 DEF Call
    <2>5. CASE stack = <<>>
      <3>1. OnTheWire = {} /\ Open = {}
        BY <1>2, <2>5, NothingOnTheWire DEF Call, Open
      <3>2. stack' = <<rpcId>>
        BY <1>2, <2>5 DEF Call
      <3>3. QED
        BY <2>2, <2>4, <3>1, <3>2 DEF AloneOnly
    <2>6. CASE stack # <<>>
      <3>1. alone' \intersect Open' \subseteq (alone \intersect {rpcId}) \ Open
        BY <1>2, <2>2, <2>6 DEF Call
      <3>2. rpcId \notin alone
        BY DEF Types
      <3>3. QED
        BY <3>1, <3>2 DEF AloneOnly
    <2>7. QED
      BY <2>5, <2>6
  <1>3. CASE ReadLine
    <2>1. PICK k \in 1..Len(net) :
            LET lines == buffer \o SubSeq(net, 1, k)
            IN  /\ Finish(Head(lines)) /\ buffer' = Tail(lines)
                /\ net' = SubSeq(net, k + 1, Len(net))
      BY <1>3 DEF ReadLine
    <2>2. Open' \subseteq Open /\ Innermost \in Open /\ Len(stack') = Len(stack) - 1
      BY <1>3, <2>1, Finished DEF ReadLine
    <2>3. ASSUME NEW c \in alone' \intersect Open' PROVE FALSE
      <3>1. stack = <<c>>
        BY <1>3, <2>2, <2>3 DEF ReadLine, AloneOnly
      <3>2. QED
        BY <1>3, <2>1, <2>3, <3>1, Finished DEF ReadLine
    <2>4. QED
      BY <2>3 DEF AloneOnly
  <1>4. CASE ProcessEvents
    <2>1. PICK k \in 1..Len(net) : /\ buffer' = buffer \o SubSeq(net, 1, k)
                                   /\ net' = SubSeq(net, k + 1, Len(net))
      BY <1>4 DEF ProcessEvents
    <2>2. Lines(buffer') \union Lines(net') \subseteq Lines(buffer) \union Lines(net)
      BY <2>1, Read
    <2>3. Owed' = Owed /\ stack' = stack /\ alone' = alone
      BY <1>4 DEF ProcessEvents, Owed
    <2>4. OnTheWire' \subseteq OnTheWire
      BY <1>0, <2>2, <2>3
    <2>5. QED
      BY <2>3, <2>4 DEF AloneOnly, Open
  <1>5. CASE TimeOut
    <2>1. Finish(None) /\ stack # <<>> /\ alone' = alone
      BY <1>5 DEF TimeOut
    <2>2. Open' \subseteq Open /\ \A c : stack = <<c>> => Open' = {}
      BY <2>1, Finished
    <2>3. QED
      BY <2>1, <2>2 DEF AloneOnly
  <1>6. ASSUME NEW t \in tasks, TaskEnds(t) PROVE AloneOnly'
    <2>1. stack' = stack /\ alone' = alone /\ buffer' = buffer
      BY <1>6 DEF TaskEnds
    <2>2. Owed' \subseteq Owed /\ (t.conn = conn => t \in Owed)
      BY <1>6 DEF TaskEnds, Owed
    <2>3. Lines(net') \subseteq Lines(net) \union {u.id : u \in Owed}
      <3>1. net \in Seq(Nat) /\ t.id \in Nat
        BY DEF Types
      <3>2. Lines(Append(net, t.id)) = Lines(net) \union {t.id}
        BY <3>1, Added
      <3>3. QED
        BY <1>6, <2>2, <3>2 DEF TaskEnds, WriteLine
    <2>4. OnTheWire' \subseteq OnTheWire
      BY <1>0, <2>1, <2>2, <2>3
    <2>5. QED
      BY <2>1, <2>4 DEF AloneOnly, Open
  <1>7. CASE Disconnected
    <2>1. Owed' = {}
      BY <1>7 DEF Disconnected, Owed, Types, None
    <2>2. OnTheWire' = {}
      BY <1>0, <1>7, <2>1, NoLines DEF Disconnected, SocketEmptied
    <2>3. QED
      BY <1>7, <2>2 DEF Disconnected, AloneOnly, Open
  <1>8. CASE UNCHANGED vars
    <2>1. OnTheWire' = OnTheWire /\ Open' = Open
      BY <1>0, <1>8 DEF vars, Open, Owed
    <2>2. QED
      BY <1>8, <2>1 DEF vars, AloneOnly
  <1>9. QED
    BY <1>1, <1>2, <1>3, <1>4, <1>5, <1>6, <1>7, <1>8 DEF Next

-------------------------------------------------------------------------------
(* ... and so returns it.                                                    *)
LEMMA FinishOwn ==
  ASSUME Types, AloneOnly, AloneGetsOwn, stack # <<>>, NEW line, Finish(line),
         line \in OnTheWire \union {None}, alone' = alone
  PROVE  AloneGetsOwn'
  <1> SUFFICES ASSUME NEW c \in DOMAIN result', c \in alone PROVE result'[c] \in {c, None}
    BY DEF AloneGetsOwn
  <1>1. /\ c \in DOMAIN result \union {Innermost}
        /\ result'[c] = IF c = Innermost THEN line ELSE result[c]
    BY DEF Finish
  <1>2. CASE c = Innermost
    <2>1. c \in Open
      BY <1>2, Finished
    <2>2. QED
      BY <1>1, <1>2, <2>1 DEF AloneOnly
  <1>3. CASE c # Innermost
    BY <1>1, <1>3 DEF AloneGetsOwn
  <1>4. QED
    BY <1>2, <1>3

LEMMA NextOwn ==
  ASSUME Types, AloneOnly, AloneGetsOwn, [Next]_vars
  PROVE  AloneGetsOwn'
  <1>1. CASE Call
    <2>1. result' = result /\ rpcId \notin DOMAIN result /\ alone' \subseteq alone \union {rpcId}
      BY <1>1 DEF Call, Types
    <2>2. QED
      BY <2>1 DEF AloneGetsOwn
  <1>2. CASE ReadLine
    <2>1. PICK k \in 1..Len(net) : Finish(Head(buffer \o SubSeq(net, 1, k)))
      BY <1>2 DEF ReadLine
    <2>2. Head(buffer \o SubSeq(net, 1, k)) \in OnTheWire
      BY Read DEF OnTheWire
    <2>3. QED
      BY <1>2, <2>1, <2>2, FinishOwn DEF ReadLine
  <1>3. CASE TimeOut
    BY <1>3, FinishOwn DEF TimeOut
  <1>4. CASE Connect \/ ProcessEvents \/ Disconnected \/ UNCHANGED vars
    BY <1>4 DEF Connect, ProcessEvents, Disconnected, vars, AloneGetsOwn
  <1>5. ASSUME NEW t \in tasks, TaskEnds(t) PROVE AloneGetsOwn'
    BY <1>5 DEF TaskEnds, AloneGetsOwn
  <1>6. QED
    BY <1>1, <1>2, <1>3, <1>4, <1>5 DEF Next

-------------------------------------------------------------------------------
LEMMA SpecInv == Spec => []Inv
  <1>1. Inv /\ [Next]_vars => Inv'
    BY NextTypes, NextInStep, NextAlone, NextOwn DEF Inv
  <1>2. QED
    BY InitInv, <1>1, PTL DEF Spec

(* A connection never owes the Qt front end more lines than it has calls     *)
(* that wait, and none when no call waits: a late answer cannot be taken for *)
(* that of a later call (rpc.cpp:140-152).                                   *)
THEOREM InStep == Spec => []NothingLeftOver
  <1>1. Inv => NothingLeftOver
    BY DEF Inv
  <1>2. QED
    BY SpecInv, <1>1, PTL

(* A call that no other call was open beside returns its own answer or       *)
(* throws, whatever the calls before it did (rpc.cpp:140-152).               *)
THEOREM OwnWhenAlone == Spec => []AloneGetsOwn
  <1>1. Inv => AloneGetsOwn
    BY DEF Inv
  <1>2. QED
    BY SpecInv, <1>1, PTL
===============================================================================
