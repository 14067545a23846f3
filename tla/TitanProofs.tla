------------------------------ MODULE TitanProofs ------------------------------
(* The titan backend answers no request twice and reports no event twice,    *)
(* for any number of requests, sessions and stops, whatever the client asks, *)
(* and tells a polite client the truth about its target.                     *)
EXTENDS TitanBackend, FiniteSetTheorems, SequenceTheorems, TLAPS

-------------------------------------------------------------------------------
(* Channels: a queue whose entries all differ, and what sending and          *)
(* receiving make of it.                                                     *)
Distinct(s) == \A i, j \in DOMAIN s : s[i] = s[j] => i = j

LEMMA HeadTaken ==
  ASSUME NEW S, NEW s \in Seq(S), s # <<>>
  PROVE  /\ Head(s) \in S /\ Tail(s) \in Seq(S)
         /\ ToSet(s) = {Head(s)} \union ToSet(Tail(s))
         /\ Distinct(s) => Distinct(Tail(s)) /\ Head(s) \notin ToSet(Tail(s))
  <1> DEFINE t == Tail(s)
  <1>1. /\ Head(s) \in S /\ t \in Seq(S) /\ Len(t) = Len(s) - 1 /\ Head(s) = s[1]
        /\ \A i \in 1..Len(t) : t[i] = s[i + 1]
    BY HeadTailProperties
  <1>2. /\ DOMAIN t = 1..Len(t) /\ DOMAIN s = 1..Len(s)
        /\ Len(s) \in Nat /\ Len(s) > 0 /\ Len(t) \in Nat
    BY <1>1, LenProperties, EmptySeq
  <1> HIDE DEF t
  <1>3. /\ \A i \in DOMAIN t : i \in Nat \ {0} /\ i + 1 \in DOMAIN s /\ t[i] = s[i + 1]
        /\ 1 \in DOMAIN s /\ \A i \in DOMAIN s : i \in Nat /\ (i = 1 \/ i - 1 \in DOMAIN t)
    BY <1>1, <1>2
  <1>4. ToSet(s) = {Head(s)} \union ToSet(t)
    <2>1. \A i \in DOMAIN s : i # 1 => s[i] = t[i - 1]
      BY <1>1, <1>2, <1>3
    <2>2. ToSet(s) \subseteq {Head(s)} \union ToSet(t)
      <3>1. ASSUME NEW i \in DOMAIN s PROVE s[i] = Head(s) \/ s[i] \in ToSet(t)
        BY <1>1, <1>3, <2>1 DEF ToSet
      <3>2. QED
        BY <3>1 DEF ToSet
    <2>3. Head(s) \in ToSet(s) /\ ToSet(t) \subseteq ToSet(s)
      BY <1>1, <1>3 DEF ToSet
    <2>4. QED
      BY <2>2, <2>3
  <1>5. ASSUME Distinct(s) PROVE Distinct(t) /\ Head(s) \notin ToSet(t)
    <2>1. \A i, j \in DOMAIN t : t[i] = t[j] => i + 1 = j + 1
      BY <1>3, <1>5 DEF Distinct
    <2>2. \A i \in DOMAIN t : t[i] = Head(s) => i + 1 = 1
      BY <1>1, <1>3, <1>5 DEF Distinct
    <2>3. QED
      BY <1>3, <2>1, <2>2 DEF Distinct, ToSet
  <1>6. QED
    BY <1>1, <1>4, <1>5 DEF t

LEMMA Sent ==
  ASSUME NEW S, NEW s \in Seq(S), NEW e \in S
  PROVE  /\ Append(s, e) \in Seq(S)
         /\ ToSet(Append(s, e)) = ToSet(s) \union {e}
         /\ Distinct(s) /\ e \notin ToSet(s) => Distinct(Append(s, e))
  <1> DEFINE t == Append(s, e)
  <1>1. /\ t \in Seq(S) /\ Len(t) = Len(s) + 1 /\ t[Len(s) + 1] = e
        /\ \A i \in 1..Len(s) : t[i] = s[i]
    BY AppendProperties
  <1>2. DOMAIN t = 1..(Len(s) + 1) /\ DOMAIN s = 1..Len(s) /\ Len(s) \in Nat
    BY <1>1, LenProperties
  <1> HIDE DEF t
  <1>3. /\ \A i \in DOMAIN t : (i \in DOMAIN s /\ t[i] = s[i]) \/ (i = Len(s) + 1 /\ t[i] = e)
        /\ \A i \in DOMAIN s : i \in DOMAIN t
        /\ Len(s) + 1 \in DOMAIN t
    BY <1>1, <1>2
  <1>4. ToSet(t) = ToSet(s) \union {e}
    BY <1>1, <1>3 DEF ToSet
  <1>5. ASSUME Distinct(s), e \notin ToSet(s) PROVE Distinct(t)
    BY <1>3, <1>5 DEF Distinct, ToSet
  <1>6. QED
    BY <1>1, <1>4, <1>5 DEF t

LEMMA EmptyChannel == ToSet(<<>>) = {} /\ Distinct(<<>>)
  BY DEF ToSet, Distinct

-------------------------------------------------------------------------------
(* The invariant.                                                            *)

(* Threads: a target has no events before it runs, and one is always left    *)
(* for its exit.                                                             *)
ThreadInv ==
  \A s \in Sessions : /\ dbg[s] \in {"none", "init"} => stops[s] = 0
                      /\ dbg[s] # "gone" => stops[s] <= MaxStops

(* Sessions: each launch or attach that was served has opened one, in order, *)
(* so that there is one left for the next.                                   *)
OpenIds == {i \in DOMAIN requests : Opens(requests[i])}
Waiting(i) == i \in ToSet(stdin) \/ (at = "lock" /\ i = cur)
Served == {i \in OpenIds : ~Waiting(i)}
Begun == {s \in Sessions : dbg[s] # "none"}
CountInv ==
  /\ IsFiniteSet(OpenIds) /\ Cardinality(OpenIds) <= MaxSessions
  /\ Begun = 1..Cardinality(Served)

(* Requests: each is in one place, until it is answered.                     *)
Replied == {stdout[j].id : j \in DOMAIN stdout}
RequestInv ==
  /\ Distinct(stdin) /\ ToSet(stdin) \subseteq DOMAIN requests
  /\ Replied \subseteq DOMAIN requests /\ ToSet(stdin) \intersect Replied = {}
  /\ cur # None => /\ cur \in DOMAIN requests /\ Opens(requests[cur])
                   /\ cur \notin ToSet(stdin) \union Replied /\ cur # pendingCmd
  /\ pendingCmd # None => /\ pendingCmd \in DOMAIN requests
                          /\ pendingCmd \notin ToSet(stdin) \union Replied
  /\ cur # None <=> at \in {"lock", "wait"}
  /\ at = "wait" => evRx # None

(* Events: each is in one channel, or was told.                              *)
Told == {stdout[j].event : j \in DOMAIN stdout} \ {None}
EventInv ==
  /\ \A s \in Sessions : Distinct(evq[s]) /\ ToSet(evq[s]) \intersect Told = {}
  /\ \A s, t \in Sessions : s # t => ToSet(evq[s]) \intersect ToSet(evq[t]) = {}
  /\ \A s \in Sessions : \A e \in ToSet(evq[s]) : e.n <= stops[e.session]
  /\ \A e \in Told : e.n <= stops[e.session]

Inv == TypeOK /\ ThreadInv /\ CountInv /\ RequestInv /\ EventInv /\ AnsweredOnce

LEMMA InitInv == Init => Inv
  <1> SUFFICES ASSUME Init PROVE Inv
    OBVIOUS
  <1>1. TypeOK
    BY TitanAssumption DEF Init, TypeOK
  <1>2. ThreadInv
    BY TitanAssumption DEF Init, ThreadInv
  <1>3. CountInv
    <2>1. OpenIds = {} /\ Served = {} /\ Begun = {}
      BY DEF Init, OpenIds, Served, Begun
    <2>2. IsFiniteSet({}) /\ Cardinality({}) = 0
      BY FS_EmptySet
    <2>3. QED
      BY <2>1, <2>2, TitanAssumption DEF CountInv
  <1>4. Replied = {} /\ Told = {} /\ AnsweredOnce
    BY DEF Init, Replied, Told, AnsweredOnce
  <1>5. RequestInv /\ EventInv
    BY <1>4, EmptyChannel DEF Init, RequestInv, EventInv
  <1>6. QED
    BY <1>1, <1>2, <1>3, <1>4, <1>5 DEF Inv

-------------------------------------------------------------------------------
(* Answers.                                                                  *)
LineOut == [id : Ids, event : Events \union {None}]

LEMMA WrittenOut ==
  ASSUME TypeOK, NEW id \in Ids, NEW e \in Events \union {None}, stdout' = Written(id, e)
  PROVE  /\ stdout' \in Seq(LineOut)
         /\ Replied' = Replied \union {id}
         /\ Told' = Told \union ({e} \ {None})
         /\ AnsweredOnce /\ id \notin Replied /\ e \notin Told => AnsweredOnce'
  <1> DEFINE line == [id |-> id, event |-> e]
  <1>1. stdout \in Seq(LineOut) /\ line \in LineOut
    BY DEF TypeOK, LineOut
  <1>2. /\ stdout' \in Seq(LineOut) /\ Len(stdout') = Len(stdout) + 1
        /\ stdout'[Len(stdout) + 1] = line
        /\ \A i \in 1..Len(stdout) : stdout'[i] = stdout[i]
    BY <1>1, AppendProperties DEF Written
  <1>3. DOMAIN stdout' = 1..(Len(stdout) + 1) /\ DOMAIN stdout = 1..Len(stdout) /\ Len(stdout) \in Nat
    BY <1>1, <1>2, LenProperties
  <1>4. line.id = id /\ line.event = e
    OBVIOUS
  <1> HIDE DEF line
  <1>5. /\ \A i \in DOMAIN stdout' : \/ i \in DOMAIN stdout /\ stdout'[i] = stdout[i]
                                     \/ i = Len(stdout) + 1 /\ stdout'[i] = line
        /\ \A i \in DOMAIN stdout : i \in DOMAIN stdout' /\ stdout'[i] = stdout[i]
        /\ Len(stdout) + 1 \in DOMAIN stdout'
    BY <1>2, <1>3
  <1>6. Replied' = Replied \union {id}
    <2>1. Replied' \subseteq Replied \union {id}
      BY <1>4, <1>5 DEF Replied
    <2>2. Replied \subseteq Replied' /\ id \in Replied'
      BY <1>2, <1>4, <1>5 DEF Replied
    <2>3. QED
      BY <2>1, <2>2
  <1>7. Told' = Told \union ({e} \ {None})
    <2>1. Told' \subseteq Told \union ({e} \ {None})
      BY <1>4, <1>5 DEF Told
    <2>2. Told \subseteq Told' /\ {e} \ {None} \subseteq Told'
      BY <1>2, <1>4, <1>5 DEF Told
    <2>3. QED
      BY <2>1, <2>2
  <1>8. ASSUME AnsweredOnce, id \notin Replied, e \notin Told PROVE AnsweredOnce'
    <2>1. \A i \in DOMAIN stdout : stdout[i].id # id /\ (stdout[i].event # None => stdout[i].event # e)
      BY <1>8 DEF Replied, Told
    <2>2. ASSUME NEW i \in DOMAIN stdout', NEW j \in DOMAIN stdout', i # j
          PROVE  /\ stdout'[i].id # stdout'[j].id
                 /\ stdout'[i].event # None => stdout'[i].event # stdout'[j].event
      <3>1. CASE i \in DOMAIN stdout /\ j \in DOMAIN stdout
        BY <1>5, <1>8, <2>2, <3>1 DEF AnsweredOnce
      <3>2. CASE i \notin DOMAIN stdout \/ j \notin DOMAIN stdout
        BY <1>4, <1>5, <2>1, <2>2, <3>2
      <3>3. QED
        BY <3>1, <3>2
    <2>3. QED
      BY <2>2 DEF AnsweredOnce
  <1>9. QED
    BY <1>2, <1>6, <1>7, <1>8

(* What the main loop finds when it takes a line.                            *)
LEMMA LineTaken ==
  ASSUME TypeOK, RequestInv, at = "line", stdin # <<>>
  PROVE  LET id == Head(stdin) IN
         /\ id \in Ids /\ id \in DOMAIN requests /\ id # None /\ cur = None
         /\ Tail(stdin) \in Seq(Ids) /\ Distinct(Tail(stdin))
         /\ ToSet(stdin) = {id} \union ToSet(Tail(stdin))
         /\ id \notin Replied \union ToSet(Tail(stdin)) /\ id # pendingCmd
  <1> DEFINE id == Head(stdin)
             rest == Tail(stdin)
  <1>1. /\ id \in Ids /\ rest \in Seq(Ids) /\ Distinct(rest) /\ id \notin ToSet(rest)
        /\ ToSet(stdin) = {id} \union ToSet(rest)
    BY HeadTaken DEF TypeOK, RequestInv
  <1> HIDE DEF id, rest
  <1>2. id # None /\ cur = None
    BY <1>1, TitanAssumption DEF Ids, RequestInv
  <1>3. id \in DOMAIN requests /\ id \notin Replied /\ id # pendingCmd
    BY <1>1, <1>2 DEF RequestInv
  <1>4. QED
    BY <1>1, <1>2, <1>3 DEF id, rest

-------------------------------------------------------------------------------
(* Steps that leave a part of the invariant alone.                           *)
LEMMA RequestKept ==
  ASSUME RequestInv, UNCHANGED <<requests, stdin, stdout, cur, pendingCmd>>,
         at' \in {"lock", "wait"} <=> at \in {"lock", "wait"},
         at' = "wait" => evRx' # None
  PROVE  RequestInv' /\ (AnsweredOnce => AnsweredOnce')
  <1>1. Replied' = Replied
    BY DEF Replied
  <1>2. QED
    BY <1>1 DEF RequestInv, AnsweredOnce

LEMMA EventKept ==
  ASSUME EventInv, UNCHANGED <<evq, stops>>, Told' = Told
  PROVE  EventInv'
  BY DEF EventInv

LEMMA CountKept ==
  ASSUME CountInv, UNCHANGED requests,
         \A i \in OpenIds : Waiting(i)' <=> Waiting(i),
         \A s \in Sessions : dbg'[s] # "none" <=> dbg[s] # "none"
  PROVE  CountInv'
  <1>1. OpenIds' = OpenIds
    BY DEF OpenIds
  <1>2. Served' = Served
    BY <1>1 DEF Served
  <1>3. Begun' = Begun
    BY DEF Begun
  <1>4. QED
    BY <1>1, <1>2, <1>3 DEF CountInv

(* An event goes from its channel to the client, or nowhere.                 *)
LEMMA EventTaken ==
  ASSUME TypeOK, EventInv, NEW s \in Sessions, evq[s] # <<>>,
         evq' = [evq EXCEPT ![s] = Tail(@)], UNCHANGED stops,
         Told \subseteq Told', Told' \subseteq Told \union {Head(evq[s])}
  PROVE  EventInv'
  <1> DEFINE e == Head(evq[s])
  <1>1. /\ ToSet(evq[s]) = {e} \union ToSet(Tail(evq[s]))
        /\ Distinct(Tail(evq[s])) /\ e \notin ToSet(Tail(evq[s]))
    BY HeadTaken DEF TypeOK, EventInv
  <1>2. \A t \in Sessions : evq'[t] = IF t = s THEN Tail(evq[s]) ELSE evq[t]
    BY DEF TypeOK
  <1> HIDE DEF e
  <1>3. \A t \in Sessions : ToSet(evq'[t]) \subseteq ToSet(evq[t]) /\ e \notin ToSet(evq'[t])
    BY <1>1, <1>2 DEF EventInv
  <1>4. \A t \in Sessions : Distinct(evq'[t]) /\ ToSet(evq'[t]) \intersect Told' = {}
    BY <1>1, <1>2, <1>3 DEF EventInv, e
  <1>5. \A t, u \in Sessions : t # u => ToSet(evq'[t]) \intersect ToSet(evq'[u]) = {}
    BY <1>3 DEF EventInv
  <1>6. \A t \in Sessions : \A f \in ToSet(evq'[t]) : f.n <= stops[f.session]
    BY <1>3 DEF EventInv
  <1>7. \A f \in Told' : f.n <= stops[f.session]
    BY <1>1 DEF EventInv, e
  <1>8. QED
    BY <1>4, <1>5, <1>6, <1>7 DEF EventInv

(* A thread reports an event: its number is above those of all before it.    *)
LEMMA EventSent ==
  ASSUME TypeOK, EventInv, NEW s \in Sessions, NEW what \in {"stop", "exit"},
         stops[s] + 1 \in 1..(MaxStops + 1),
         SendEvent(Event(s, stops[s] + 1, what)), CountEvent(s), UNCHANGED stdout
  PROVE  /\ EventInv'
         /\ evq' \in [Sessions -> Seq(Events)] /\ stops' \in [Sessions -> 0..(MaxStops + 1)]
         /\ \A t \in Sessions : stops'[t] = IF t = s THEN stops[s] + 1 ELSE stops[t]
  <1> DEFINE e == Event(s, stops[s] + 1, what)
  <1>1. e \in Events /\ e.n = stops[s] + 1 /\ e.session = s
    BY DEF Event, Events
  <1>2. /\ stops' \in [Sessions -> 0..(MaxStops + 1)]
        /\ \A t \in Sessions : stops'[t] = IF t = s THEN stops[s] + 1 ELSE stops[t]
        /\ \A t \in Sessions : stops[t] \in Nat
    <2>1. stops \in [Sessions -> 0..(MaxStops + 1)] /\ stops' = [stops EXCEPT ![s] = stops[s] + 1]
      BY DEF CountEvent, TypeOK
    <2>2. stops[s] + 1 \in 0..(MaxStops + 1) /\ \A n \in 0..(MaxStops + 1) : n \in Nat
      BY TitanAssumption
    <2>3. QED
      BY <2>1, <2>2
  <1>3. SendEvent(e)
    OBVIOUS
  <1> HIDE DEF e, CountEvent
  <1>4. Told' = Told
    BY DEF Told
  <1>5. \A t \in Sessions : \A f \in ToSet(evq[t]) : f \in Events
    <2>1. ASSUME NEW t \in Sessions, NEW i \in DOMAIN evq[t] PROVE evq[t][i] \in Events
      BY ElementOfSeq, LenProperties DEF TypeOK
    <2>2. QED
      BY <2>1 DEF ToSet
  <1>6. \A f \in Events : f.n <= stops[f.session] => f # e /\ f.n <= stops'[f.session]
    BY <1>1, <1>2, TitanAssumption DEF Events
  <1>7. Told \subseteq Events
    <2>1. ASSUME NEW j \in DOMAIN stdout PROVE stdout[j] \in LineOut
      <3>1. stdout \in Seq(LineOut)
        BY DEF TypeOK, LineOut
      <3>2. QED
        BY <3>1, ElementOfSeq, LenProperties
    <2>2. QED
      BY <2>1 DEF Told, LineOut
  <1>8. CASE eventTx = None
    <2>1. UNCHANGED evq
      BY <1>3, <1>8 DEF SendEvent
    <2>2. EventInv'
      BY <1>4, <1>5, <1>6, <1>7, <2>1 DEF EventInv
    <2>3. QED
      BY <1>2, <2>1, <2>2 DEF TypeOK
  <1>9. CASE eventTx # None
    <2> DEFINE c == eventTx
    <2>1. c \in Sessions /\ evq' = [evq EXCEPT ![c] = Append(evq[c], e)] /\ evq[c] \in Seq(Events)
      BY <1>3, <1>9 DEF SendEvent, TypeOK
    <2>2. \A t \in Sessions : evq'[t] = IF t = c THEN Append(evq[c], e) ELSE evq[t]
      BY <2>1 DEF TypeOK
    <2>3. e \notin Told /\ \A t \in Sessions : e \notin ToSet(evq[t])
      BY <1>5, <1>6, <1>7 DEF EventInv
    <2>4. /\ Append(evq[c], e) \in Seq(Events) /\ Distinct(Append(evq[c], e))
          /\ ToSet(Append(evq[c], e)) = ToSet(evq[c]) \union {e}
      BY <1>1, <2>1, <2>3, Sent DEF EventInv
    <2> HIDE DEF c
    <2>5. \A t \in Sessions : Distinct(evq'[t]) /\ ToSet(evq'[t]) \intersect Told' = {}
      BY <1>4, <2>2, <2>3, <2>4 DEF EventInv
    <2>6. \A t, u \in Sessions : t # u => ToSet(evq'[t]) \intersect ToSet(evq'[u]) = {}
      BY <2>2, <2>3, <2>4 DEF EventInv
    <2>7. /\ \A t \in Sessions : \A f \in ToSet(evq'[t]) : f.n <= stops'[f.session]
          /\ \A f \in Told' : f.n <= stops'[f.session]
      <3>1. e.n <= stops'[e.session]
        BY <1>1, <1>2
      <3>2. QED
        BY <1>4, <1>5, <1>6, <1>7, <2>2, <2>4, <3>1 DEF EventInv
    <2>8. EventInv'
      BY <2>5, <2>6, <2>7 DEF EventInv
    <2>9. evq' \in [Sessions -> Seq(Events)]
      BY <2>1, <2>4 DEF TypeOK
    <2>10. QED
      BY <1>2, <2>8, <2>9
  <1>10. QED
    BY <1>8, <1>9

-------------------------------------------------------------------------------
(* The client.                                                               *)
LEMMA AskInv ==
  ASSUME Inv, NEW m \in Methods, Ask(m)
  PROVE  Inv'
  <1> DEFINE n == Len(requests) + 1
  <1>0. TypeOK /\ CountInv /\ RequestInv
    BY DEF Inv
  <1>1. /\ requests' = Append(requests, m) /\ stdin' = Append(stdin, n)
        /\ Len(requests) < MaxRequests
        /\ Opens(m) => Cardinality(OpenIds) < MaxSessions
        /\ UNCHANGED <<stdout, at, cur, pendingCmd, evRx, pid, hProcess,
                       eventTx, cmdRx, cmdTx, cmdLock, evq, cmdq, dbg, how, stops>>
    BY DEF Ask, OpenIds, mainVars, globalVars, threadVars
  <1>2. /\ requests' \in Seq(Methods) /\ n \in Ids /\ n \in Nat
        /\ DOMAIN requests = 1..Len(requests) /\ DOMAIN requests' = DOMAIN requests \union {n}
        /\ n \notin DOMAIN requests
        /\ requests'[n] = m /\ \A i \in DOMAIN requests : requests'[i] = requests[i]
    <2>1. requests \in Seq(Methods) /\ Len(requests) \in Nat /\ DOMAIN requests = 1..Len(requests)
      BY <1>0, LenProperties DEF TypeOK
    <2>2. /\ requests' \in Seq(Methods) /\ Len(requests') = Len(requests) + 1
          /\ requests'[n] = m /\ \A i \in 1..Len(requests) : requests'[i] = requests[i]
      BY <1>1, <2>1, AppendProperties
    <2>3. DOMAIN requests' = 1..n
      BY <2>2, LenProperties
    <2>4. QED
      BY <1>1, <2>1, <2>2, <2>3, TitanAssumption DEF Ids
  <1>3. /\ stdin' \in Seq(Ids) /\ ToSet(stdin') = ToSet(stdin) \union {n}
        /\ Distinct(stdin')
    <2>1. n \notin ToSet(stdin)
      BY <1>0, <1>2 DEF RequestInv
    <2>2. QED
      BY <1>0, <1>1, <1>2, <2>1, Sent DEF TypeOK, RequestInv
  <1> HIDE DEF n
  <1>4. TypeOK'
    BY <1>0, <1>1, <1>2, <1>3 DEF TypeOK
  <1>5. RequestInv'
    <2>1. Replied' = Replied
      BY <1>1 DEF Replied
    <2>2. QED
      BY <1>0, <1>1, <1>2, <1>3, <2>1 DEF RequestInv
  <1>6. CountInv'
    <2>1. OpenIds' = IF Opens(m) THEN OpenIds \union {n} ELSE OpenIds
      BY <1>2 DEF OpenIds, Opens
    <2>2. IsFiniteSet(OpenIds') /\ Cardinality(OpenIds') <= MaxSessions
      <3>1. IsFiniteSet(OpenIds) /\ Cardinality(OpenIds) <= MaxSessions /\ n \notin OpenIds
        BY <1>0, <1>2 DEF CountInv, OpenIds
      <3>2. CASE Opens(m)
        <4>1. /\ IsFiniteSet(OpenIds \union {n})
              /\ Cardinality(OpenIds \union {n}) = Cardinality(OpenIds) + 1
          BY <3>1, FS_AddElement
        <4>2. Cardinality(OpenIds) \in Nat
          BY <3>1, FS_CardinalityType
        <4>3. QED
          BY <1>1, <2>1, <3>2, <4>1, <4>2, TitanAssumption
      <3>3. CASE ~Opens(m)
        BY <2>1, <3>1, <3>3
      <3>4. QED
        BY <3>2, <3>3
    <2>3. Served' = Served
      BY <1>1, <1>2, <1>3, <2>1 DEF Served, Waiting, OpenIds
    <2>4. QED
      BY <1>0, <1>1, <2>2, <2>3 DEF CountInv, Begun
  <1>7. ThreadInv' /\ EventInv' /\ AnsweredOnce'
    BY <1>1 DEF Inv, ThreadInv, EventInv, Told, AnsweredOnce
  <1>8. QED
    BY <1>4, <1>5, <1>6, <1>7 DEF Inv

-------------------------------------------------------------------------------
(* The main loop.                                                            *)

(* A command is sent.                                                        *)
LEMMA CommandSent ==
  ASSUME TypeOK, NEW cmd \in {"go", "kill"}, SendCmd(cmd)
  PROVE  cmdq' \in [Sessions -> Seq({"go", "kill"})]
  <1>1. CASE cmdTx = None
    BY <1>1 DEF SendCmd, TypeOK
  <1>2. CASE cmdTx # None
    <2>1. /\ cmdTx \in Sessions /\ cmdq[cmdTx] \in Seq({"go", "kill"})
          /\ cmdq' = [cmdq EXCEPT ![cmdTx] = Append(cmdq[cmdTx], cmd)]
      BY <1>2 DEF SendCmd, TypeOK
    <2>2. Append(cmdq[cmdTx], cmd) \in Seq({"go", "kill"})
      BY <2>1, Sent
    <2>3. QED
      BY <2>1, <2>2 DEF TypeOK
  <1>3. QED
    BY <1>1, <1>2

LEMMA QuietMain ==
  ASSUME Inv, NoLine \/ NoEvent \/ Shutdown
  PROVE  Inv'
  <1>0. TypeOK /\ CountInv /\ RequestInv
    BY DEF Inv
  <1>1. /\ at \in {"line", "event"} /\ at' \in {"line", "event", "exited"}
        /\ UNCHANGED <<requests, stdin, stdout, cur, pendingCmd, evRx, pid, hProcess,
                       eventTx, cmdRx, cmdTx, cmdLock, evq, cmdq, dbg, how, stops>>
    BY DEF NoLine, NoEvent, Shutdown, Line, globalVars, threadVars
  <1>2. TypeOK'
    BY <1>0, <1>1 DEF TypeOK
  <1>3. ThreadInv' /\ EventInv'
    BY <1>1 DEF Inv, ThreadInv, EventInv, Told
  <1>4. CountInv'
    BY <1>0, <1>1, CountKept DEF Waiting
  <1>5. RequestInv' /\ AnsweredOnce'
    BY <1>0, <1>1, RequestKept DEF Inv
  <1>6. QED
    BY <1>2, <1>3, <1>4, <1>5 DEF Inv

LEMMA ContinueInv ==
  ASSUME Inv, Continue
  PROVE  Inv'
  <1> DEFINE id == Head(stdin)
             rest == Tail(stdin)
  <1>0. TypeOK /\ CountInv /\ RequestInv
    BY DEF Inv
  <1>1. /\ at = "line" /\ stdin # <<>> /\ requests[id] = "go" /\ at' = "event"
        /\ stdin' = rest /\ pendingCmd' = id
        /\ UNCHANGED <<requests, stdout, cur, evRx, pid, hProcess,
                       eventTx, cmdRx, cmdTx, cmdLock, evq, dbg, how, stops>>
    BY DEF Continue, Line, threadVars
  <1>2. cmdq' \in [Sessions -> Seq({"go", "kill"})]
    BY <1>0, CommandSent DEF Continue, ContinueSent
  <1>3. /\ id \in Ids /\ id \in DOMAIN requests /\ id # None /\ cur = None
        /\ rest \in Seq(Ids) /\ Distinct(rest) /\ ToSet(stdin) = {id} \union ToSet(rest)
        /\ id \notin Replied \union ToSet(rest)
    BY <1>0, <1>1, LineTaken
  <1> HIDE DEF id, rest
  <1>4. TypeOK'
    BY <1>0, <1>1, <1>2, <1>3 DEF TypeOK
  <1>5. ThreadInv' /\ EventInv' /\ AnsweredOnce'
    BY <1>1 DEF Inv, ThreadInv, EventInv, Told, AnsweredOnce
  <1>6. CountInv'
    <2>1. id \notin OpenIds
      BY <1>1 DEF OpenIds, Opens
    <2>2. QED
      BY <1>0, <1>1, <1>3, <2>1, CountKept DEF Waiting
  <1>7. RequestInv'
    <2>1. Replied' = Replied
      BY <1>1 DEF Replied
    <2>2. QED
      BY <1>0, <1>1, <1>3, <2>1 DEF RequestInv
  <1>8. QED
    BY <1>4, <1>5, <1>6, <1>7 DEF Inv

(* kill, detach and what is answered at once.                                *)
LEMMA AnswerLine ==
  ASSUME Inv, KillOrDetach \/ Query
  PROVE  Inv'
  <1> DEFINE id == Head(stdin)
             rest == Tail(stdin)
  <1>0. TypeOK /\ CountInv /\ RequestInv
    BY DEF Inv
  <1>1. /\ at = "line" /\ stdin # <<>> /\ requests[id] \in {"kill", "query"} /\ at' = "event"
        /\ stdin' = rest /\ stdout' = Written(id, None) /\ pid' \in {pid, None}
        /\ UNCHANGED <<requests, cur, pendingCmd, evRx, hProcess,
                       eventTx, cmdRx, cmdTx, cmdLock, evq, dbg, how, stops>>
    BY DEF KillOrDetach, Query, Line, globalVars, threadVars
  <1>2. cmdq' \in [Sessions -> Seq({"go", "kill"})]
    BY <1>0, CommandSent DEF KillOrDetach, KillSent, Query, globalVars, TypeOK
  <1>3. /\ id \in Ids /\ id \in DOMAIN requests /\ id # None /\ cur = None
        /\ rest \in Seq(Ids) /\ Distinct(rest) /\ ToSet(stdin) = {id} \union ToSet(rest)
        /\ id \notin Replied \union ToSet(rest) /\ id # pendingCmd
    BY <1>0, <1>1, LineTaken
  <1> HIDE DEF id, rest
  <1>4. /\ stdout' \in Seq(LineOut) /\ Replied' = Replied \union {id} /\ Told' = Told
        /\ AnsweredOnce'
    <2>1. None \notin Told /\ AnsweredOnce
      BY DEF Told, Inv
    <2>2. /\ stdout' \in Seq(LineOut) /\ Replied' = Replied \union {id}
          /\ Told' = Told \union ({None} \ {None}) /\ AnsweredOnce'
      BY <1>0, <1>1, <1>3, <2>1, WrittenOut
    <2>3. QED
      BY <2>2
  <1>5. TypeOK'
    BY <1>0, <1>1, <1>2, <1>3, <1>4 DEF TypeOK, LineOut
  <1>6. ThreadInv' /\ EventInv'
    BY <1>1, <1>4, EventKept DEF Inv, ThreadInv
  <1>7. CountInv'
    <2>1. id \notin OpenIds
      BY <1>1 DEF OpenIds, Opens
    <2>2. QED
      BY <1>0, <1>1, <1>3, <2>1, CountKept DEF Waiting
  <1>8. RequestInv'
    BY <1>0, <1>1, <1>3, <1>4 DEF RequestInv
  <1>9. QED
    BY <1>4, <1>5, <1>6, <1>7, <1>8 DEF Inv

(* launch and attach, up to the CMD_RX mutex: of the sessions that may be    *)
(* opened one is left.                                                       *)
LEMMA NextSession ==
  ASSUME TypeOK, CountInv, NEW i \in OpenIds, Waiting(i)
  PROVE  /\ Opened = Cardinality(Served) /\ Opened + 1 \in Sessions /\ dbg[Opened + 1] = "none"
         /\ Begun = 1..Opened /\ Opened \in Nat
         /\ Cardinality(Served \union {i}) = Opened + 1
  <1>1. Served \subseteq OpenIds /\ i \notin Served /\ IsFiniteSet(OpenIds)
    BY DEF Served, CountInv
  <1>2. IsFiniteSet(Served) /\ Cardinality(Served) \in Nat
    BY <1>1, FS_Subset, FS_CardinalityType
  <1>3. Cardinality(Served \union {i}) = Cardinality(Served) + 1
    BY <1>1, <1>2, FS_AddElement
  <1>4. Cardinality(Served) + 1 <= MaxSessions
    <2>1. Served \union {i} \subseteq OpenIds
      BY <1>1
    <2>2. Cardinality(Served \union {i}) <= Cardinality(OpenIds) /\ Cardinality(OpenIds) \in Nat
      BY <1>1, <2>1, FS_Subset, FS_CardinalityType
    <2>3. QED
      BY <1>2, <1>3, <2>2, TitanAssumption DEF CountInv
  <1>5. Opened = Cardinality(Served)
    <2>1. Opened = Cardinality(1..Cardinality(Served))
      BY DEF Opened, Begun, CountInv
    <2>2. Cardinality(1..Cardinality(Served)) = Cardinality(Served)
      BY <1>2, FS_Interval
    <2>3. QED
      BY <2>1, <2>2
  <1>6. Opened + 1 \in Sessions
    BY <1>2, <1>4, <1>5, TitanAssumption DEF Sessions
  <1>7. dbg[Opened + 1] = "none"
    BY <1>2, <1>5, <1>6 DEF CountInv, Begun
  <1>8. QED
    BY <1>2, <1>3, <1>5, <1>6, <1>7 DEF CountInv

LEMMA OpenInv ==
  ASSUME Inv, Open
  PROVE  Inv'
  <1> DEFINE id == Head(stdin)
             rest == Tail(stdin)
  <1>0. TypeOK /\ CountInv /\ RequestInv
    BY DEF Inv
  <1>1. /\ at = "line" /\ stdin # <<>> /\ Opens(requests[id]) /\ at' = "lock"
        /\ stdin' = rest /\ cur' = id /\ eventTx' = Opened + 1
        /\ UNCHANGED <<requests, stdout, pendingCmd, evRx, pid, hProcess,
                       cmdRx, cmdTx, cmdLock, evq, cmdq, dbg, how, stops>>
    BY DEF Open, Line, Opens, threadVars
  <1>2. /\ id \in Ids /\ id \in DOMAIN requests /\ id # None /\ cur = None
        /\ rest \in Seq(Ids) /\ Distinct(rest) /\ ToSet(stdin) = {id} \union ToSet(rest)
        /\ id \notin Replied \union ToSet(rest) /\ id # pendingCmd
    BY <1>0, <1>1, LineTaken
  <1> HIDE DEF id, rest
  <1>3. eventTx' \in Sessions
    <2>1. id \in OpenIds /\ Waiting(id)
      BY <1>1, <1>2 DEF OpenIds, Waiting
    <2>2. QED
      BY <1>0, <1>1, <2>1, NextSession
  <1>4. TypeOK'
    BY <1>0, <1>1, <1>2, <1>3 DEF TypeOK
  <1>5. ThreadInv' /\ EventInv' /\ AnsweredOnce'
    BY <1>1 DEF Inv, ThreadInv, EventInv, Told, AnsweredOnce
  <1>6. CountInv'
    BY <1>0, <1>1, <1>2, CountKept DEF Waiting
  <1>7. RequestInv'
    <2>1. Replied' = Replied
      BY <1>1 DEF Replied
    <2>2. QED
      BY <1>0, <1>1, <1>2, <2>1 DEF RequestInv
  <1>8. QED
    BY <1>4, <1>5, <1>6, <1>7 DEF Inv

LEMMA InstallInv ==
  ASSUME Inv, InstallChannels
  PROVE  Inv'
  <1> DEFINE s == Opened + 1
  <1>0. TypeOK /\ CountInv /\ RequestInv
    BY DEF Inv
  <1>1. /\ at = "lock" /\ at' = "wait" /\ cmdRx' = s /\ cmdTx' = s /\ evRx' = s
        /\ dbg' = [dbg EXCEPT ![s] = "init"] /\ how' = [how EXCEPT ![s] = requests[cur]]
        /\ pid' \in {s, pid}
        /\ UNCHANGED <<requests, stdin, stdout, cur, pendingCmd, hProcess,
                       eventTx, cmdLock, evq, cmdq, stops>>
    BY DEF InstallChannels
  <1>2. /\ cur \in OpenIds /\ Waiting(cur) /\ cur # None /\ cur \notin ToSet(stdin)
        /\ requests[cur] \in {"launch", "attach"}
    BY <1>0, <1>1 DEF RequestInv, OpenIds, Opens, Waiting
  <1>3. /\ s \in Sessions /\ dbg[s] = "none" /\ s # None
        /\ Begun = 1..Opened /\ Opened \in Nat
        /\ Cardinality(Served \union {cur}) = s
    <2>1. None \notin Nat
      BY TitanAssumption
    <2>2. QED
      BY <1>0, <1>2, <2>1, NextSession DEF Sessions
  <1> HIDE DEF s
  <1>4. \A t \in Sessions : dbg'[t] = IF t = s THEN "init" ELSE dbg[t]
    BY <1>0, <1>1 DEF TypeOK
  <1>5. TypeOK'
    BY <1>0, <1>1, <1>2, <1>3 DEF TypeOK
  <1>6. ThreadInv'
    BY <1>1, <1>3, <1>4 DEF Inv, ThreadInv
  <1>7. EventInv'
    BY <1>1 DEF Inv, EventInv, Told
  <1>8. CountInv'
    <2>1. OpenIds' = OpenIds
      BY <1>1 DEF OpenIds
    <2>2. Served' = Served \union {cur}
      BY <1>1, <1>2, <2>1 DEF Served, Waiting
    <2>3. Begun' = Begun \union {s}
      BY <1>3, <1>4 DEF Begun
    <2>4. Begun' = 1..s
      BY <1>3, <2>3 DEF s
    <2>5. QED
      BY <1>0, <1>3, <2>1, <2>2, <2>4 DEF CountInv
  <1>9. RequestInv' /\ AnsweredOnce'
    BY <1>0, <1>1, <1>3, RequestKept DEF Inv
  <1>10. QED
    BY <1>5, <1>6, <1>7, <1>8, <1>9 DEF Inv

(* The launch or attach is answered, by an event or by the timeout.          *)
LEMMA OpenAnswered ==
  ASSUME Inv, at = "wait", at' = "event", cur' = None,
         NEW e \in Events \union {None}, e \notin Told, stdout' = Written(cur, e),
         UNCHANGED <<requests, stdin, pendingCmd, evRx, dbg>>
  PROVE  /\ stdout' \in Seq(LineOut) /\ Told' = Told \union ({e} \ {None})
         /\ RequestInv' /\ AnsweredOnce' /\ CountInv'
  <1>0. TypeOK /\ CountInv /\ RequestInv /\ AnsweredOnce
    BY DEF Inv
  <1>1. /\ cur # None /\ cur \in DOMAIN requests /\ cur \notin ToSet(stdin) \union Replied
        /\ cur # pendingCmd /\ cur \in Ids
    BY <1>0 DEF RequestInv, TypeOK
  <1>2. /\ stdout' \in Seq(LineOut) /\ Replied' = Replied \union {cur}
        /\ Told' = Told \union ({e} \ {None}) /\ AnsweredOnce'
    BY <1>0, <1>1, WrittenOut
  <1>3. RequestInv'
    BY <1>0, <1>1, <1>2 DEF RequestInv
  <1>4. CountInv'
    BY <1>0, CountKept DEF Waiting
  <1>5. QED
    BY <1>2, <1>3, <1>4

LEMMA FirstEventInv ==
  ASSUME Inv, FirstEvent
  PROVE  Inv'
  <1> DEFINE e == Head(evq[evRx])
  <1>0. TypeOK /\ EventInv /\ RequestInv
    BY DEF Inv
  <1>1. /\ at = "wait" /\ at' = "event" /\ evq[evRx] # <<>> /\ cur' = None
        /\ stdout' = Written(cur, e) /\ evq' = [evq EXCEPT ![evRx] = Tail(@)]
        /\ UNCHANGED <<requests, stdin, pendingCmd, evRx,
                       eventTx, cmdRx, cmdTx, cmdLock, cmdq, dbg, how, stops>>
    BY DEF FirstEvent, threadVars
  <1>2. /\ evRx \in Sessions /\ evq[evRx] \in Seq(Events)
    BY <1>0, <1>1 DEF TypeOK, RequestInv
  <1>3. /\ e \in Events /\ Tail(evq[evRx]) \in Seq(Events) /\ e \in ToSet(evq[evRx])
    BY <1>1, <1>2, HeadTaken
  <1>4. pid' \in Sessions \union {None} /\ hProcess' \in Sessions \union {None}
    <2>1. IF requests[cur] = "launch" THEN LearnPid(e) /\ LearnHandle(e)
                                      ELSE UNCHANGED <<pid, hProcess>>
      BY DEF FirstEvent
    <2>2. /\ e.session \in Sessions
          /\ pid \in Sessions \union {None} /\ hProcess \in Sessions \union {None}
      BY <1>0, <1>3 DEF TypeOK, Events
    <2>3. pid' \in {pid, e.session} /\ hProcess' \in {hProcess, e.session}
      BY <2>1 DEF LearnPid, LearnHandle
    <2>4. QED
      BY <2>2, <2>3
  <1>5. e \notin Told
    BY <1>0, <1>2, <1>3 DEF EventInv
  <1>6. EventInv' /\ stdout' \in Seq(LineOut) /\ RequestInv' /\ AnsweredOnce' /\ CountInv'
    <2>1. /\ stdout' \in Seq(LineOut) /\ Told' = Told \union ({e} \ {None})
          /\ RequestInv' /\ AnsweredOnce' /\ CountInv'
      BY <1>1, <1>3, <1>5, OpenAnswered
    <2>2. EventInv'
      BY <1>0, <1>1, <1>2, <2>1, EventTaken
    <2>3. QED
      BY <2>1, <2>2
  <1>7. TypeOK'
    BY <1>0, <1>1, <1>2, <1>3, <1>4, <1>6 DEF TypeOK, LineOut
  <1>8. ThreadInv'
    BY <1>1 DEF Inv, ThreadInv
  <1>9. QED
    BY <1>6, <1>7, <1>8 DEF Inv

LEMMA TimeoutInv ==
  ASSUME Inv, OpenTimesOut
  PROVE  Inv'
  <1>0. TypeOK /\ EventInv /\ ThreadInv
    BY DEF Inv
  <1>1. /\ at = "wait" /\ at' = "event" /\ cur' = None /\ stdout' = Written(cur, None)
        /\ UNCHANGED <<requests, stdin, pendingCmd, evRx, pid, hProcess,
                       eventTx, cmdRx, cmdTx, cmdLock, evq, cmdq, dbg, how, stops>>
    BY DEF OpenTimesOut, globalVars, threadVars
  <1>2. None \notin Told
    BY DEF Told
  <1>3. /\ stdout' \in Seq(LineOut) /\ Told' = Told \union ({None} \ {None})
        /\ RequestInv' /\ AnsweredOnce' /\ CountInv'
    BY <1>1, <1>2, OpenAnswered
  <1>4. EventInv'
    BY <1>0, <1>1, <1>3, EventKept
  <1>5. TypeOK' /\ ThreadInv'
    BY <1>0, <1>1, <1>3 DEF TypeOK, LineOut, ThreadInv
  <1>6. QED
    BY <1>3, <1>4, <1>5 DEF Inv

LEMMA TakeEventInv ==
  ASSUME Inv, TakeEvent
  PROVE  Inv'
  <1> DEFINE e == Head(evq[evRx])
  <1>0. TypeOK /\ EventInv /\ RequestInv /\ CountInv /\ AnsweredOnce
    BY DEF Inv
  <1>1. /\ at = "event" /\ at' = "line" /\ evRx # None /\ evq[evRx] # <<>> /\ pendingCmd' = None
        /\ evq' = [evq EXCEPT ![evRx] = Tail(@)]
        /\ LearnPid(e) /\ LearnHandle(e)
        /\ IF pendingCmd = None THEN UNCHANGED stdout ELSE stdout' = Written(pendingCmd, e)
        /\ UNCHANGED <<requests, stdin, cur, evRx,
                       eventTx, cmdRx, cmdTx, cmdLock, cmdq, dbg, how, stops>>
    BY DEF TakeEvent, Received, PendingTaken, threadVars
  <1>2. /\ evRx \in Sessions /\ evq[evRx] \in Seq(Events)
    BY <1>0, <1>1 DEF TypeOK
  <1>3. /\ e \in Events /\ Tail(evq[evRx]) \in Seq(Events) /\ e \in ToSet(evq[evRx])
    BY <1>1, <1>2, HeadTaken
  <1>4. pid' \in Sessions \union {None} /\ hProcess' \in Sessions \union {None}
    BY <1>0, <1>1, <1>3 DEF LearnPid, LearnHandle, TypeOK, Events
  <1>5. e \notin Told
    BY <1>0, <1>2, <1>3 DEF EventInv
  <1>6. /\ stdout' \in Seq(LineOut) /\ RequestInv' /\ AnsweredOnce'
        /\ Told \subseteq Told' /\ Told' \subseteq Told \union {e}
    <2>1. CASE pendingCmd = None
      <3>1. Replied' = Replied /\ Told' = Told /\ UNCHANGED stdout
        BY <1>1, <2>1 DEF Replied, Told
      <3>2. QED
        BY <1>0, <1>1, <2>1, <3>1 DEF RequestInv, AnsweredOnce, TypeOK, LineOut
    <2>2. CASE pendingCmd # None
      <3>1. /\ pendingCmd \in Ids /\ pendingCmd \in DOMAIN requests
            /\ pendingCmd \notin ToSet(stdin) \union Replied
        BY <1>0, <2>2 DEF TypeOK, RequestInv
      <3>2. /\ stdout' \in Seq(LineOut) /\ Replied' = Replied \union {pendingCmd}
            /\ Told' = Told \union ({e} \ {None}) /\ AnsweredOnce'
        BY <1>0, <1>1, <1>3, <1>5, <2>2, <3>1, WrittenOut
      <3>3. RequestInv'
        BY <1>0, <1>1, <3>1, <3>2 DEF RequestInv
      <3>4. QED
        BY <3>2, <3>3
    <2>3. QED
      BY <2>1, <2>2
  <1>7. EventInv'
    BY <1>0, <1>1, <1>2, <1>6, EventTaken
  <1>8. TypeOK'
    BY <1>0, <1>1, <1>2, <1>3, <1>4, <1>6 DEF TypeOK, LineOut
  <1>9. CountInv' /\ ThreadInv'
    BY <1>0, <1>1, CountKept DEF Waiting, Inv, ThreadInv
  <1>10. QED
    BY <1>6, <1>7, <1>8, <1>9 DEF Inv

-------------------------------------------------------------------------------
(* The debug threads.                                                        *)

(* A thread moves on and reports nothing.                                    *)
LEMMA ThreadQuiet ==
  ASSUME Inv, NEW s \in Sessions, dbg[s] \notin {"none", "gone"},
         NEW label \in {"running", "stopped", "waiting", "ending", "gone"}, SetDbg(s, label),
         UNCHANGED <<requests, stdin, stdout, at, cur, pendingCmd, evRx, pid, hProcess,
                     eventTx, cmdRx, cmdTx, evq, how, stops>>,
         cmdLock' \in Sessions \union {None}, cmdq' \in [Sessions -> Seq({"go", "kill"})]
  PROVE  Inv'
  <1>0. TypeOK /\ CountInv /\ RequestInv
    BY DEF Inv
  <1>1. \A t \in Sessions : dbg'[t] = IF t = s THEN label ELSE dbg[t]
    BY <1>0 DEF SetDbg, TypeOK
  <1>2. TypeOK'
    BY <1>0 DEF TypeOK, SetDbg
  <1>3. ThreadInv'
    BY <1>1 DEF Inv, ThreadInv
  <1>4. EventInv'
    BY DEF Inv, EventInv, Told
  <1>5. CountInv'
    BY <1>0, <1>1, CountKept DEF Waiting
  <1>6. RequestInv' /\ AnsweredOnce'
    BY <1>0, RequestKept DEF Inv, RequestInv
  <1>7. QED
    BY <1>2, <1>3, <1>4, <1>5, <1>6 DEF Inv

(* A thread reports an event.                                                *)
LEMMA ThreadReports ==
  ASSUME Inv, NEW s \in Sessions, dbg[s] \notin {"none", "gone"},
         NEW label \in {"stopped", "gone"}, SetDbg(s, label),
         NEW what \in {"stop", "exit"}, SendEvent(Event(s, stops[s] + 1, what)), CountEvent(s),
         label = "stopped" => stops[s] < MaxStops,
         UNCHANGED <<requests, stdin, stdout, at, cur, pendingCmd, evRx, pid, hProcess,
                     eventTx, cmdRx, cmdTx, cmdLock, cmdq, how>>
  PROVE  Inv'
  <1>0. TypeOK /\ CountInv /\ RequestInv /\ EventInv /\ ThreadInv
    BY DEF Inv
  <1>1. stops[s] \in 0..MaxStops /\ stops[s] + 1 \in 1..(MaxStops + 1)
    <2>1. stops[s] \in 0..(MaxStops + 1) /\ stops[s] <= MaxStops
      BY <1>0 DEF TypeOK, ThreadInv
    <2>2. QED
      BY <2>1, TitanAssumption
  <1>2. /\ EventInv'
        /\ evq' \in [Sessions -> Seq(Events)] /\ stops' \in [Sessions -> 0..(MaxStops + 1)]
        /\ \A t \in Sessions : stops'[t] = IF t = s THEN stops[s] + 1 ELSE stops[t]
    BY <1>0, <1>1, EventSent
  <1> HIDE DEF CountEvent, SendEvent
  <1>3. \A t \in Sessions : dbg'[t] = IF t = s THEN label ELSE dbg[t]
    BY <1>0 DEF SetDbg, TypeOK
  <1>4. TypeOK'
    BY <1>0, <1>2 DEF TypeOK, SetDbg
  <1>5. ThreadInv'
    <2>1. ASSUME NEW t \in Sessions
          PROVE  /\ dbg'[t] \in {"none", "init"} => stops'[t] = 0
                 /\ dbg'[t] # "gone" => stops'[t] <= MaxStops
      <3>1. CASE t = s
        <4>1. dbg'[t] = label /\ stops'[t] = stops[s] + 1
          BY <1>2, <1>3, <3>1
        <4>2. QED
          BY <1>1, <4>1, TitanAssumption
      <3>2. CASE t # s
        <4>1. dbg'[t] = dbg[t] /\ stops'[t] = stops[t]
          BY <1>2, <1>3, <3>2
        <4>2. QED
          BY <1>0, <4>1 DEF ThreadInv
      <3>3. QED
        BY <3>1, <3>2
    <2>2. QED
      BY <2>1 DEF ThreadInv
  <1>6. CountInv'
    BY <1>0, <1>3, CountKept DEF Waiting
  <1>7. RequestInv' /\ AnsweredOnce'
    BY <1>0, RequestKept DEF Inv, RequestInv
  <1>8. QED
    BY <1>2, <1>4, <1>5, <1>6, <1>7 DEF Inv

LEMMA ThreadStep ==
  ASSUME Inv, NEW s \in Sessions, Thread(s) \/ Target(s)
  PROVE  Inv'
  <1> USE DEF mainVars, globalVars
  <1>0. TypeOK /\ cmdLock \in Sessions \union {None} /\ cmdq \in [Sessions -> Seq({"go", "kill"})]
    BY DEF Inv, TypeOK
  <1>1. CASE DebugStarts(s) \/ TargetExits(s)
    BY <1>0, <1>1, ThreadQuiet DEF DebugStarts, TargetExits
  <1>2. CASE LockCommands(s)
    BY <1>0, <1>2, ThreadQuiet DEF LockCommands
  <1>3. CASE ReceiveCommand(s)
    <2>1. cmdq' \in [Sessions -> Seq({"go", "kill"})]
      <3>1. CASE cmdRx \in Sessions
        <4>1. Tail(cmdq[cmdRx]) \in Seq({"go", "kill"})
          BY <1>0, <1>3, <3>1, HeadTaken DEF ReceiveCommand
        <4>2. QED
          BY <1>0, <1>3, <4>1 DEF ReceiveCommand
      <3>2. CASE cmdRx \notin Sessions
        BY <1>0, <1>3, <3>2 DEF ReceiveCommand
      <3>3. QED
        BY <3>1, <3>2
    <2>2. QED
      BY <1>3, <2>1, ThreadQuiet DEF ReceiveCommand, LockReleased
  <1>4. CASE DebugFails(s)
    BY <1>4, ThreadReports DEF DebugFails
  <1>5. CASE TargetStops(s)
    BY <1>5, ThreadReports DEF TargetStops
  <1>6. CASE DebugEnds(s)
    <2>1. CASE how[s] = "launch"
      BY <1>6, <2>1, ThreadReports DEF DebugEnds
    <2>2. CASE how[s] # "launch"
      BY <1>0, <1>6, <2>2, ThreadQuiet DEF DebugEnds
    <2>3. QED
      BY <2>1, <2>2
  <1>7. QED
    BY <1>1, <1>2, <1>3, <1>4, <1>5, <1>6 DEF Thread, Target

-------------------------------------------------------------------------------
LEMMA NextInv == Inv /\ [Next]_vars => Inv'
  <1> SUFFICES ASSUME Inv, [Next]_vars PROVE Inv'
    OBVIOUS
  <1>1. CASE Main
    BY <1>1, QuietMain, ContinueInv, AnswerLine, OpenInv, InstallInv, FirstEventInv, TakeEventInv
       DEF Main, Serve
  <1>2. CASE UNCHANGED vars
    <2>1. UNCHANGED <<requests, stdin, stdout, at, cur, pendingCmd, evRx, pid, hProcess,
                      eventTx, cmdRx, cmdTx, cmdLock, evq, cmdq, dbg, how, stops>>
      BY <1>2 DEF vars, mainVars, globalVars, threadVars
    <2>2. TypeOK'
      BY <2>1 DEF Inv, TypeOK
    <2>3. ThreadInv' /\ AnsweredOnce'
      BY <2>1 DEF Inv, ThreadInv, AnsweredOnce
    <2>4. EventInv'
      BY <2>1 DEF Inv, EventInv, Told
    <2>5. CountInv' /\ RequestInv'
      BY <2>1 DEF Inv, CountInv, OpenIds, Served, Waiting, Begun, RequestInv, Replied
    <2>6. QED
      BY <2>2, <2>3, <2>4, <2>5 DEF Inv
  <1>3. QED
    BY <1>1, <1>2, AskInv, TimeoutInv, ThreadStep DEF Next

LEMMA SpecInv == Spec => []Inv
  BY InitInv, NextInv, PTL DEF Spec

(* Every variable keeps its type: there is a session for every launch and    *)
(* attach that is served, and an event number for every exit.                *)
THEOREM TypeCorrect == Spec => []TypeOK
  <1>1. Inv => TypeOK
    BY DEF Inv
  <1>2. QED
    BY <1>1, SpecInv, PTL

(* Whatever the client asks for and when, and whatever the targets do, a     *)
(* request is answered at most once and an event answers at most one request *)
(* (main.rs:769-776,782-804).                                                *)
THEOREM OneAnswer == Spec => []AnsweredOnce
  <1>1. Inv => AnsweredOnce
    BY DEF Inv
  <1>2. QED
    BY <1>1, SpecInv, PTL

-------------------------------------------------------------------------------
(* A polite client.  What it was told last, and that it can be found.        *)
LastTold == ToldAt # {} => Max(ToldAt) \in ToldAt

(* Requests: one launch, attach or continue waits at a time, and the line    *)
(* that asks for it is the first that is unread.                             *)
LineInv ==
  /\ \A j \in DOMAIN stdin : Runs(requests[stdin[j]]) => /\ j = 1 /\ pendingCmd = None /\ cur = None
  /\ \A i \in ToSet(stdin) : /\ requests[i] = "go" => ShownWhat = "stop"
                             /\ Opens(requests[i]) => ShownWhat # "stop"
                             /\ requests[i] = "kill" => ~RunSinceKill
  /\ pendingCmd # None => requests[pendingCmd] = "go" /\ ShownWhat = "stop" /\ cur = None
  /\ cur # None => ShownWhat # "stop"

(* Sessions: evRx is the one there is; those before it are over, those to    *)
(* come have not begun.                                                      *)
SessionInv ==
  /\ cmdRx = evRx /\ cmdTx = evRx
  /\ eventTx = IF at = "lock" THEN Opened + 1 ELSE evRx
  /\ \A s \in Sessions : /\ s # evRx => dbg[s] \in {"none", "gone"} /\ evq[s] = <<>>
                         /\ dbg[s] = "none" => cmdq[s] = <<>>
  /\ \A s \in Sessions : s = evRx => dbg[s] # "none"
  /\ ShownWhat = "stop" \/ at = "wait" => evRx # None

(* Events: they are of the session whose channel they are in, and its exit   *)
(* is the last.  Unless a stop is shown the session is over, or just opened. *)
Ordered(s) ==
  \A j \in DOMAIN evq[s] :
    evq[s][j].session = s /\ (evq[s][j].what = "exit" => j = Len(evq[s]) /\ dbg[s] = "gone")
ExitInv ==
  /\ \A s \in Sessions : Ordered(s)
  /\ \A s \in Sessions :
       s = evRx /\ ShownWhat # "stop" /\ at # "wait" => dbg[s] = "gone" /\ evq[s] = <<>>

(* What has become of a launch, attach or continue that waits: the command   *)
(* is on its way, the target runs, or its event is on the way back.          *)
Stopped(s) == dbg[s] \in {"stopped", "waiting"}
UnderWay(s) ==
  \/ cmdq[s] = <<"go">> /\ Stopped(s) /\ evq[s] = <<>>
  \/ cmdq[s] = <<>> /\ dbg[s] \in {"init", "running", "ending", "gone"} /\ evq[s] = <<>>
  \/ cmdq[s] = <<>> /\ Stopped(s) /\ evq[s] = <<Event(s, stops[s], "stop")>>
  \/ cmdq[s] = <<>> /\ dbg[s] = "gone" /\ \E n \in Nat : evq[s] = <<Event(s, n, "exit")>>

(* None waits: the target is where the client was told it is.                *)
AtRest(s) ==
  cmdq[s] = <<>> /\ Stopped(s) /\ evq[s] = <<>> /\ Shown.session = s /\ Shown.n = stops[s]

RunInv ==
  \A s \in Sessions :
    s = evRx /\ RunSinceKill /\ (ShownWhat = "stop" \/ at = "wait")
      => IF pendingCmd # None \/ at = "wait" THEN UnderWay(s) ELSE AtRest(s)

PoliteInv == LastTold /\ LineInv /\ SessionInv /\ ExitInv /\ RunInv

(* What the client is shown stays, or is the event of the last answer.       *)
LEMMA SameShown ==
  ASSUME UNCHANGED stdout
  PROVE  /\ Shown' = Shown /\ ShownWhat' = ShownWhat /\ (LastTold => LastTold')
  <1>1. ToldAt' = ToldAt
    BY DEF ToldAt
  <1>2. Shown' = Shown
    BY <1>1 DEF Shown
  <1>3. QED
    BY <1>1, <1>2 DEF ShownWhat, LastTold

LEMMA SaidOut ==
  ASSUME TypeOK, NEW id \in Ids, NEW e \in Events \union {None}, stdout' = Written(id, e)
  PROVE  /\ Len(stdout) \in Nat /\ DOMAIN stdout = 1..Len(stdout)
         /\ DOMAIN stdout' = 1..(Len(stdout) + 1)
         /\ stdout'[Len(stdout) + 1].event = e
         /\ \A i \in 1..Len(stdout) : stdout'[i] = stdout[i]
  <1> DEFINE line == [id |-> id, event |-> e]
  <1>1. stdout \in Seq(LineOut) /\ line \in LineOut
    BY DEF TypeOK, LineOut
  <1>2. /\ stdout' \in Seq(LineOut) /\ Len(stdout') = Len(stdout) + 1
        /\ stdout'[Len(stdout) + 1] = line
        /\ \A i \in 1..Len(stdout) : stdout'[i] = stdout[i]
    BY <1>1, AppendProperties DEF Written
  <1>3. DOMAIN stdout' = 1..(Len(stdout) + 1) /\ DOMAIN stdout = 1..Len(stdout) /\ Len(stdout) \in Nat
    BY <1>1, <1>2, LenProperties
  <1>4. QED
    BY <1>2, <1>3

LEMMA PlainShown ==
  ASSUME TypeOK, LastTold, NEW id \in Ids, stdout' = Written(id, None)
  PROVE  Shown' = Shown /\ ShownWhat' = ShownWhat /\ LastTold'
  <1>1. /\ Len(stdout) \in Nat /\ DOMAIN stdout = 1..Len(stdout)
        /\ DOMAIN stdout' = 1..(Len(stdout) + 1)
        /\ stdout'[Len(stdout) + 1].event = None
        /\ \A i \in 1..Len(stdout) : stdout'[i] = stdout[i]
    BY SaidOut
  <1>2. \A j \in DOMAIN stdout' : j \in DOMAIN stdout \/ j = Len(stdout) + 1
    BY <1>1
  <1>3. \A j \in DOMAIN stdout : j \in DOMAIN stdout' /\ stdout'[j] = stdout[j]
    BY <1>1
  <1>4. ToldAt' = ToldAt
    BY <1>1, <1>2, <1>3 DEF ToldAt
  <1>5. ToldAt # {} => Max(ToldAt) \in DOMAIN stdout
    BY DEF LastTold, ToldAt
  <1>6. Shown' = Shown
    BY <1>3, <1>4, <1>5 DEF Shown
  <1>7. QED
    BY <1>4, <1>6 DEF ShownWhat, LastTold

LEMMA EventShown ==
  ASSUME TypeOK, NEW id \in Ids, NEW e \in Events, stdout' = Written(id, e)
  PROVE  Shown' = e /\ ShownWhat' = e.what /\ LastTold'
  <1>1. /\ Len(stdout) \in Nat /\ DOMAIN stdout = 1..Len(stdout)
        /\ DOMAIN stdout' = 1..(Len(stdout) + 1)
        /\ stdout'[Len(stdout) + 1].event = e
        /\ \A i \in 1..Len(stdout) : stdout'[i] = stdout[i]
    BY SaidOut
  <1>2. e # None
    <2>1. e \in [session : Nat, n : Nat, what : {"stop", "exit"}]
      BY TitanAssumption DEF Events, Sessions
    <2>2. QED
      BY <2>1, TitanAssumption
  <1>3. PICK n \in Nat : n = Len(stdout) + 1
    BY <1>1
  <1>4. n \in ToldAt' /\ \A j \in ToldAt' : j \in Nat /\ j <= n
    BY <1>1, <1>2, <1>3 DEF ToldAt
  <1>5. Max(ToldAt') = n
    <2>1. PICK T : T = ToldAt'
      OBVIOUS
    <2>2. n \in T /\ \A j \in T : j \in Nat /\ j <= n
      BY <1>4, <2>1
    <2>3. Max(T) \in T /\ \A j \in T : Max(T) >= j
      BY <2>2 DEF Max
    <2>4. PICK x : x = Max(T)
      OBVIOUS
    <2>5. x \in Nat /\ x <= n /\ x >= n
      BY <2>2, <2>3, <2>4
    <2>6. x = n
      BY <1>3, <2>5
    <2>7. QED
      BY <2>1, <2>4, <2>6
  <1>6. Shown' = e
    BY <1>1, <1>3, <1>4, <1>5 DEF Shown
  <1>7. QED
    BY <1>2, <1>4, <1>5, <1>6 DEF ShownWhat, LastTold

LEMMA SameOpened ==
  ASSUME \A s \in Sessions : dbg'[s] # "none" <=> dbg[s] # "none"
  PROVE  Opened' = Opened
  <1>1. {s \in Sessions : dbg'[s] # "none"} = {s \in Sessions : dbg[s] # "none"}
    OBVIOUS
  <1>2. QED
    BY <1>1 DEF Opened

LEMMA InitPolite == Init => PoliteInv
  <1> SUFFICES ASSUME Init PROVE PoliteInv
    OBVIOUS
  <1>1. ToldAt = {} /\ Shown = None /\ ShownWhat = "nothing"
    BY DEF Init, ToldAt, Shown, ShownWhat
  <1>2. DOMAIN stdin = {} /\ ToSet(stdin) = {}
    BY EmptyChannel DEF Init
  <1>3. None \notin Sessions
    BY TitanAssumption DEF Sessions
  <1>4. LastTold /\ LineInv
    BY <1>1, <1>2 DEF Init, LastTold, LineInv
  <1>5. SessionInv
    BY <1>1, <1>3 DEF Init, SessionInv
  <1>6. ExitInv
    BY <1>1, <1>3 DEF Init, ExitInv, Ordered
  <1>7. RunInv
    BY <1>3 DEF Init, RunInv
  <1>8. QED
    BY <1>4, <1>5, <1>6, <1>7 DEF PoliteInv

-------------------------------------------------------------------------------
(* The polite client.  Nothing waits when it asks for a target to run.       *)
LEMMA AllAnswered ==
  ASSUME Inv, Unanswered = {}
  PROVE  stdin = <<>> /\ pendingCmd = None /\ cur = None
  <1>1. TypeOK /\ RequestInv
    BY DEF Inv
  <1>2. DOMAIN requests \subseteq Replied
    BY DEF Unanswered, Replied
  <1>3. ToSet(stdin) = {}
    BY <1>1, <1>2 DEF RequestInv
  <1>4. stdin = <<>>
    <2>1. SUFFICES ASSUME stdin # <<>> PROVE FALSE
      OBVIOUS
    <2>2. ToSet(stdin) = {Head(stdin)} \union ToSet(Tail(stdin))
      BY <1>1, <2>1, HeadTaken DEF TypeOK
    <2>3. QED
      BY <1>3, <2>2
  <1>5. QED
    BY <1>1, <1>2, <1>4 DEF RequestInv

LEMMA AskPolite ==
  ASSUME Polite, Inv, PoliteInv, NEW m \in Methods, Ask(m)
  PROVE  PoliteInv'
  <1> DEFINE n == Len(requests) + 1
  <1>0. TypeOK /\ RequestInv /\ LastTold /\ LineInv /\ SessionInv /\ ExitInv /\ RunInv
    BY DEF Inv, PoliteInv
  <1>1. /\ requests' = Append(requests, m) /\ stdin' = Append(stdin, n)
        /\ Len(requests) < MaxRequests /\ MayAsk(m)
        /\ UNCHANGED <<stdout, at, cur, pendingCmd, evRx, pid, hProcess,
                       eventTx, cmdRx, cmdTx, cmdLock, evq, cmdq, dbg, how, stops>>
    BY DEF Ask, mainVars, globalVars, threadVars
  <1>2. /\ n \in Nat /\ n \in Ids /\ DOMAIN requests = 1..Len(requests) /\ Len(requests) \in Nat
        /\ DOMAIN requests' = DOMAIN requests \union {n} /\ n \notin DOMAIN requests
        /\ requests'[n] = m /\ \A i \in DOMAIN requests : requests'[i] = requests[i] /\ i < n
    <2>1. requests \in Seq(Methods) /\ Len(requests) \in Nat /\ DOMAIN requests = 1..Len(requests)
      BY <1>0, LenProperties DEF TypeOK
    <2>2. /\ requests' \in Seq(Methods) /\ Len(requests') = Len(requests) + 1
          /\ requests'[n] = m /\ \A i \in 1..Len(requests) : requests'[i] = requests[i]
      BY <1>1, <2>1, AppendProperties
    <2>3. DOMAIN requests' = 1..n
      BY <2>2, LenProperties
    <2>4. QED
      BY <1>1, <2>1, <2>2, <2>3, TitanAssumption DEF Ids
  <1>3. ToSet(stdin') = ToSet(stdin) \union {n}
    BY <1>0, <1>1, <1>2, Sent DEF TypeOK
  <1>4. /\ Len(stdin) \in Nat /\ DOMAIN stdin = 1..Len(stdin)
        /\ DOMAIN stdin' = 1..(Len(stdin) + 1) /\ stdin'[Len(stdin) + 1] = n
        /\ \A j \in 1..Len(stdin) : stdin'[j] = stdin[j]
    <2>1. stdin \in Seq(Ids) /\ Len(stdin) \in Nat /\ DOMAIN stdin = 1..Len(stdin)
      BY <1>0, LenProperties DEF TypeOK
    <2>2. /\ stdin' \in Seq(Ids) /\ Len(stdin') = Len(stdin) + 1
          /\ stdin'[Len(stdin) + 1] = n /\ \A i \in 1..Len(stdin) : stdin'[i] = stdin[i]
      BY <1>1, <1>2, <2>1, AppendProperties
    <2>3. QED
      BY <2>1, <2>2, LenProperties
  <1> HIDE DEF n
  <1>5. Shown' = Shown /\ ShownWhat' = ShownWhat /\ LastTold'
    BY <1>0, <1>1, SameShown
  <1>6. /\ Runs(m) => stdin = <<>> /\ pendingCmd = None /\ cur = None
        /\ m = "go" => ShownWhat = "stop" /\ RunSinceKill
        /\ Opens(m) => ShownWhat # "stop"
    <2>1. Runs(m) => Unanswered = {}
      BY <1>1 DEF MayAsk, Runs, Opens
    <2>2. m = "go" => ShownWhat = "stop" /\ RunSinceKill
      BY <1>1 DEF MayAsk, Opens, ShownStopped
    <2>3. Opens(m) => ShownWhat # "stop"
      BY <1>1 DEF MayAsk, Opens
    <2>4. QED
      BY <2>1, <2>2, <2>3, AllAnswered
  <1>7. /\ m = "kill" => ~RunSinceKill'
        /\ ~Runs(m) /\ m # "kill" => (RunSinceKill' <=> RunSinceKill)
    <2>1. m = "kill" => ~RunSinceKill'
      BY <1>2 DEF RunSinceKill, Runs
    <2>2. ASSUME ~Runs(m), m # "kill" PROVE RunSinceKill' <=> RunSinceKill
      <3>1. RunSinceKill' => RunSinceKill
        BY <1>2, <2>2 DEF RunSinceKill
      <3>2. RunSinceKill => RunSinceKill'
        BY <1>2, <2>2 DEF RunSinceKill
      <3>3. QED
        BY <3>1, <3>2
    <2>3. QED
      BY <2>1, <2>2
  <1>8. LineInv'
    <2>1. ASSUME NEW j \in DOMAIN stdin', Runs(requests'[stdin'[j]])
          PROVE  j = 1 /\ pendingCmd' = None /\ cur' = None
      <3>1. CASE j \in DOMAIN stdin
        <4>1. stdin'[j] = stdin[j] /\ stdin[j] \in DOMAIN requests
          BY <1>0, <1>4, <3>1 DEF RequestInv, ToSet
        <4>2. Runs(requests[stdin[j]])
          BY <1>2, <2>1, <4>1
        <4>3. QED
          BY <1>0, <1>1, <3>1, <4>2 DEF LineInv
      <3>2. CASE j = Len(stdin) + 1
        <4>1. Runs(m)
          BY <1>2, <1>4, <2>1, <3>2
        <4>2. Len(stdin) = 0
          BY <1>6, <4>1
        <4>3. QED
          BY <1>1, <1>6, <3>2, <4>1, <4>2
      <3>3. QED
        BY <1>4, <3>1, <3>2
    <2>2. ASSUME NEW i \in ToSet(stdin')
          PROVE  /\ requests'[i] = "go" => ShownWhat' = "stop"
                 /\ Opens(requests'[i]) => ShownWhat' # "stop"
                 /\ requests'[i] = "kill" => ~RunSinceKill'
      <3>1. CASE i = n
        BY <1>2, <1>5, <1>6, <1>7, <3>1
      <3>2. CASE i \in ToSet(stdin)
        <4>1. i \in DOMAIN requests /\ requests'[i] = requests[i] /\ ~Runs(m)
          BY <1>0, <1>2, <1>6, <3>2, EmptyChannel DEF RequestInv
        <4>2. QED
          BY <1>0, <1>5, <1>7, <3>2, <4>1 DEF LineInv
      <3>3. QED
        BY <1>3, <3>1, <3>2
    <2>3. pendingCmd # None => requests'[pendingCmd] = "go" /\ ShownWhat = "stop" /\ cur = None
      BY <1>0, <1>2 DEF LineInv, RequestInv
    <2>4. QED
      BY <1>0, <1>1, <1>5, <2>1, <2>2, <2>3 DEF LineInv
  <1>9. Opened' = Opened
    BY <1>1, SameOpened
  <1>10. SessionInv' /\ ExitInv'
    BY <1>0, <1>1, <1>5, <1>9 DEF SessionInv, ExitInv, Ordered
  <1>11. RunInv'
    <2>1. SUFFICES ASSUME NEW s \in Sessions, s = evRx, RunSinceKill', ShownWhat = "stop" \/ at = "wait"
                   PROVE  IF pendingCmd # None \/ at = "wait" THEN UnderWay(s)' ELSE AtRest(s)'
      BY <1>1, <1>5 DEF RunInv
    <2>2. RunSinceKill
      <3>1. CASE Opens(m)
        BY <1>0, <1>6, <2>1, <3>1 DEF RequestInv, Runs, Opens
      <3>2. CASE ~Opens(m)
        BY <1>6, <1>7, <2>1, <3>2 DEF Runs, Opens
      <3>3. QED
        BY <3>1, <3>2
    <2>3. IF pendingCmd # None \/ at = "wait" THEN UnderWay(s) ELSE AtRest(s)
      BY <1>0, <2>1, <2>2 DEF RunInv
    <2>4. UnderWay(s)' <=> UnderWay(s)
      BY <1>1 DEF UnderWay, Stopped
    <2>5. AtRest(s)' <=> AtRest(s)
      BY <1>1, <1>5 DEF AtRest, Stopped
    <2>6. QED
      BY <2>3, <2>4, <2>5
  <1>12. QED
    BY <1>5, <1>8, <1>10, <1>11 DEF PoliteInv

-------------------------------------------------------------------------------
(* The main loop.  When a line is taken none is left that asks for a run.    *)
LEMMA RestLines ==
  ASSUME TypeOK, LineInv, stdin # <<>>
  PROVE  /\ ToSet(stdin) = {Head(stdin)} \union ToSet(Tail(stdin))
         /\ \A j \in DOMAIN Tail(stdin) : ~Runs(requests[Tail(stdin)[j]])
         /\ Runs(requests[Head(stdin)]) => pendingCmd = None /\ cur = None
  <1> DEFINE rest == Tail(stdin)
  <1>1. stdin \in Seq(Ids)
    BY DEF TypeOK
  <1>2. /\ rest \in Seq(Ids) /\ Len(rest) = Len(stdin) - 1 /\ Head(stdin) = stdin[1]
        /\ \A i \in 1..Len(rest) : rest[i] = stdin[i + 1]
    BY <1>1, HeadTailProperties
  <1>3. /\ DOMAIN rest = 1..Len(rest) /\ DOMAIN stdin = 1..Len(stdin)
        /\ Len(stdin) \in Nat /\ Len(stdin) > 0 /\ Len(rest) \in Nat
    BY <1>1, <1>2, LenProperties, EmptySeq
  <1>4. ToSet(stdin) = {Head(stdin)} \union ToSet(rest)
    BY <1>1, HeadTaken
  <1> HIDE DEF rest
  <1>5. ASSUME NEW j \in DOMAIN rest PROVE ~Runs(requests[rest[j]])
    <2>1. j \in Nat /\ j # 0 /\ j + 1 \in DOMAIN stdin /\ j + 1 # 1 /\ rest[j] = stdin[j + 1]
      BY <1>2, <1>3
    <2>2. QED
      BY <2>1 DEF LineInv
  <1>6. Runs(requests[Head(stdin)]) => pendingCmd = None /\ cur = None
    <2>1. 1 \in DOMAIN stdin
      BY <1>3
    <2>2. QED
      BY <1>2, <2>1 DEF LineInv
  <1>7. QED
    BY <1>4, <1>5, <1>6 DEF rest

LEMMA LessLines ==
  ASSUME TypeOK, LineInv, stdin # <<>>, stdin' = Tail(stdin),
         UNCHANGED <<requests, pendingCmd, cur>>, ShownWhat' = ShownWhat
  PROVE  LineInv'
  <1>1. /\ ToSet(stdin) = {Head(stdin)} \union ToSet(stdin')
        /\ \A j \in DOMAIN stdin' : ~Runs(requests[stdin'[j]])
    BY RestLines
  <1>2. RunSinceKill' <=> RunSinceKill
    BY DEF RunSinceKill
  <1>3. QED
    BY <1>1, <1>2 DEF LineInv

(* Steps that leave the sessions alone.                                      *)
LEMMA SessionsKept ==
  ASSUME SessionInv, ExitInv, RunInv, Shown' = Shown, ShownWhat' = ShownWhat,
         UNCHANGED <<requests, pendingCmd, evRx, eventTx, cmdRx, cmdTx, evq, cmdq, dbg, stops>>,
         at' = at \/ {at, at'} \intersect {"lock", "wait"} = {}
  PROVE  SessionInv' /\ ExitInv' /\ RunInv'
  <1>1. Opened' = Opened
    BY SameOpened
  <1>2. SessionInv'
    BY <1>1 DEF SessionInv
  <1>3. ExitInv'
    BY DEF ExitInv, Ordered
  <1>4. RunInv'
    <2>1. RunSinceKill' <=> RunSinceKill
      BY DEF RunSinceKill
    <2>2. \A s \in Sessions : (UnderWay(s)' <=> UnderWay(s)) /\ (AtRest(s)' <=> AtRest(s))
      BY DEF UnderWay, AtRest, Stopped
    <2>3. QED
      BY <2>1, <2>2 DEF RunInv
  <1>5. QED
    BY <1>2, <1>3, <1>4

LEMMA QuietPolite ==
  ASSUME PoliteInv, NoLine \/ NoEvent \/ Shutdown \/ UNCHANGED vars
  PROVE  PoliteInv'
  <1>1. UNCHANGED <<requests, stdin, stdout, cur, pendingCmd, evRx,
                    eventTx, cmdRx, cmdTx, evq, cmdq, dbg, stops>>
    BY DEF NoLine, NoEvent, Shutdown, vars, mainVars, globalVars, threadVars
  <1>2. at' = at \/ {at, at'} \intersect {"lock", "wait"} = {}
    BY DEF NoLine, NoEvent, Shutdown, Line, vars, mainVars
  <1>3. Shown' = Shown /\ ShownWhat' = ShownWhat /\ LastTold'
    BY <1>1, SameShown DEF PoliteInv
  <1>4. RunSinceKill' <=> RunSinceKill
    BY <1>1 DEF RunSinceKill
  <1>5. LineInv'
    BY <1>1, <1>3, <1>4 DEF PoliteInv, LineInv
  <1>6. SessionInv' /\ ExitInv' /\ RunInv'
    BY <1>1, <1>2, <1>3, SessionsKept DEF PoliteInv
  <1>7. QED
    BY <1>3, <1>5, <1>6 DEF PoliteInv

LEMMA QueryPolite ==
  ASSUME Inv, PoliteInv, Query
  PROVE  PoliteInv'
  <1>0. TypeOK /\ RequestInv /\ LastTold /\ LineInv /\ SessionInv /\ ExitInv /\ RunInv
    BY DEF Inv, PoliteInv
  <1>1. /\ at = "line" /\ stdin # <<>> /\ at' = "event"
        /\ stdin' = Tail(stdin) /\ stdout' = Written(Head(stdin), None)
        /\ UNCHANGED <<requests, cur, pendingCmd, evRx, eventTx, cmdRx, cmdTx, evq, cmdq, dbg, stops>>
    BY DEF Query, Line, globalVars, threadVars
  <1>2. Head(stdin) \in Ids
    BY <1>0, <1>1, LineTaken
  <1>3. Shown' = Shown /\ ShownWhat' = ShownWhat /\ LastTold'
    BY <1>0, <1>1, <1>2, PlainShown
  <1>4. LineInv'
    BY <1>0, <1>1, <1>3, LessLines
  <1>5. SessionInv' /\ ExitInv' /\ RunInv'
    BY <1>0, <1>1, <1>3, SessionsKept
  <1>6. QED
    BY <1>3, <1>4, <1>5 DEF PoliteInv

(* A command goes to the one session there is.                               *)
LEMMA CommandGoes ==
  ASSUME TypeOK, SessionInv, NEW cmd \in {"go", "kill"}, SendCmd(cmd)
  PROVE  \A s \in Sessions : cmdq'[s] = IF s = evRx THEN Append(cmdq[s], cmd) ELSE cmdq[s]
  <1>1. cmdTx = evRx /\ cmdTx \in Sessions \union {None}
    BY DEF SessionInv, TypeOK
  <1>2. None \notin Sessions
    BY TitanAssumption DEF Sessions
  <1>3. QED
    BY <1>1, <1>2 DEF SendCmd, TypeOK

LEMMA ContinuePolite ==
  ASSUME Inv, PoliteInv, Continue
  PROVE  PoliteInv'
  <1> DEFINE id == Head(stdin)
  <1>0. TypeOK /\ RequestInv /\ LastTold /\ LineInv /\ SessionInv /\ ExitInv /\ RunInv
    BY DEF Inv, PoliteInv
  <1>1. /\ at = "line" /\ stdin # <<>> /\ requests[id] = "go" /\ at' = "event"
        /\ stdin' = Tail(stdin) /\ pendingCmd' = id /\ SendCmd("go")
        /\ UNCHANGED <<requests, stdout, cur, evRx, eventTx, cmdRx, cmdTx, evq, dbg, stops>>
    BY DEF Continue, ContinueSent, Line, threadVars
  <1>2. id \in Ids /\ id # None
    BY <1>0, <1>1, LineTaken
  <1>3. Shown' = Shown /\ ShownWhat' = ShownWhat /\ LastTold'
    BY <1>0, <1>1, SameShown
  <1>4. /\ ToSet(stdin) = {id} \union ToSet(stdin')
        /\ \A j \in DOMAIN stdin' : ~Runs(requests[stdin'[j]])
        /\ Runs(requests[id]) => pendingCmd = None /\ cur = None
    BY <1>0, <1>1, RestLines
  <1> HIDE DEF id
  <1>5. ShownWhat = "stop" /\ pendingCmd = None /\ cur = None
    BY <1>0, <1>1, <1>4 DEF LineInv, Runs
  <1>6. RunSinceKill' <=> RunSinceKill
    BY <1>1 DEF RunSinceKill
  <1>7. LineInv'
    BY <1>0, <1>1, <1>2, <1>3, <1>4, <1>5, <1>6 DEF LineInv
  <1>8. \A s \in Sessions : cmdq'[s] = IF s = evRx THEN Append(cmdq[s], "go") ELSE cmdq[s]
    BY <1>0, <1>1, CommandGoes
  <1>9. Opened' = Opened
    BY <1>1, SameOpened
  <1>10. SessionInv' /\ ExitInv'
    BY <1>0, <1>1, <1>3, <1>5, <1>8, <1>9 DEF SessionInv, ExitInv, Ordered
  <1>11. RunInv'
    <2>1. SUFFICES ASSUME NEW s \in Sessions, s = evRx, RunSinceKill PROVE UnderWay(s)'
      BY <1>1, <1>2, <1>6 DEF RunInv
    <2>2. AtRest(s)
      BY <1>0, <1>1, <1>5, <2>1 DEF RunInv
    <2>3. cmdq'[s] = Append(<<>>, "go") /\ Stopped(s)' /\ evq'[s] = <<>>
      BY <1>1, <1>8, <2>1, <2>2 DEF AtRest, Stopped
    <2>4. Append(<<>>, "go") = <<"go">>
      OBVIOUS
    <2>5. QED
      BY <2>3, <2>4 DEF UnderWay
  <1>12. QED
    BY <1>3, <1>7, <1>10, <1>11 DEF PoliteInv

LEMMA KillPolite ==
  ASSUME Inv, PoliteInv, KillOrDetach
  PROVE  PoliteInv'
  <1> DEFINE id == Head(stdin)
  <1>0. TypeOK /\ RequestInv /\ LastTold /\ LineInv /\ SessionInv /\ ExitInv /\ RunInv
    BY DEF Inv, PoliteInv
  <1>1. /\ at = "line" /\ stdin # <<>> /\ requests[id] = "kill" /\ at' = "event"
        /\ stdin' = Tail(stdin) /\ stdout' = Written(id, None) /\ SendCmd("kill")
        /\ UNCHANGED <<requests, cur, pendingCmd, evRx, eventTx, cmdRx, cmdTx, evq, dbg, stops>>
    BY DEF KillOrDetach, KillSent, Line, threadVars
  <1>2. id \in Ids
    BY <1>0, <1>1, LineTaken
  <1>3. Shown' = Shown /\ ShownWhat' = ShownWhat /\ LastTold'
    BY <1>0, <1>1, <1>2, PlainShown
  <1>4. LineInv'
    BY <1>0, <1>1, <1>3, LessLines
  <1>5. ~RunSinceKill'
    <2>1. id \in ToSet(stdin)
      BY <1>0, <1>1, RestLines
    <2>2. ~RunSinceKill
      BY <1>0, <1>1, <2>1 DEF LineInv
    <2>3. QED
      BY <1>1, <2>2 DEF RunSinceKill
  <1> HIDE DEF id
  <1>6. \A s \in Sessions : cmdq'[s] = IF s = evRx THEN Append(cmdq[s], "kill") ELSE cmdq[s]
    BY <1>0, <1>1, CommandGoes
  <1>7. Opened' = Opened
    BY <1>1, SameOpened
  <1>8. SessionInv' /\ ExitInv'
    BY <1>0, <1>1, <1>3, <1>6, <1>7 DEF SessionInv, ExitInv, Ordered
  <1>9. RunInv'
    BY <1>5 DEF RunInv
  <1>10. QED
    BY <1>3, <1>4, <1>8, <1>9 DEF PoliteInv

LEMMA OpenPolite ==
  ASSUME Inv, PoliteInv, Open
  PROVE  PoliteInv'
  <1> DEFINE id == Head(stdin)
  <1>0. TypeOK /\ RequestInv /\ LastTold /\ LineInv /\ SessionInv /\ ExitInv /\ RunInv
    BY DEF Inv, PoliteInv
  <1>1. /\ at = "line" /\ stdin # <<>> /\ Opens(requests[id]) /\ at' = "lock"
        /\ stdin' = Tail(stdin) /\ cur' = id /\ eventTx' = Opened + 1
        /\ UNCHANGED <<requests, stdout, pendingCmd, evRx, cmdRx, cmdTx, evq, cmdq, dbg, stops>>
    BY DEF Open, Line, Opens, threadVars
  <1>2. id \in Ids /\ id # None
    BY <1>0, <1>1, LineTaken
  <1>3. Shown' = Shown /\ ShownWhat' = ShownWhat /\ LastTold'
    BY <1>0, <1>1, SameShown
  <1>4. /\ ToSet(stdin) = {id} \union ToSet(stdin')
        /\ \A j \in DOMAIN stdin' : ~Runs(requests[stdin'[j]])
        /\ Runs(requests[id]) => pendingCmd = None /\ cur = None
    BY <1>0, <1>1, RestLines
  <1> HIDE DEF id
  <1>5. ShownWhat # "stop" /\ pendingCmd = None
    BY <1>0, <1>1, <1>4 DEF LineInv, Runs, Opens
  <1>6. RunSinceKill' <=> RunSinceKill
    BY <1>1 DEF RunSinceKill
  <1>7. LineInv'
    BY <1>0, <1>1, <1>2, <1>3, <1>4, <1>5, <1>6 DEF LineInv
  <1>8. Opened' = Opened
    BY <1>1, SameOpened
  <1>9. SessionInv' /\ ExitInv'
    BY <1>0, <1>1, <1>3, <1>5, <1>8 DEF SessionInv, ExitInv, Ordered
  <1>10. RunInv'
    BY <1>1, <1>3, <1>5 DEF RunInv
  <1>11. QED
    BY <1>3, <1>7, <1>9, <1>10 DEF PoliteInv

LEMMA InstallPolite ==
  ASSUME Inv, PoliteInv, InstallChannels
  PROVE  PoliteInv'
  <1> DEFINE s == Opened + 1
  <1>0. /\ TypeOK /\ CountInv /\ RequestInv /\ LastTold /\ LineInv
        /\ SessionInv /\ ExitInv /\ RunInv
    BY DEF Inv, PoliteInv
  <1>1. /\ at = "lock" /\ at' = "wait" /\ cmdRx' = s /\ cmdTx' = s /\ evRx' = s
        /\ dbg' = [dbg EXCEPT ![s] = "init"]
        /\ UNCHANGED <<requests, stdin, stdout, cur, pendingCmd, eventTx, evq, cmdq, stops>>
    BY DEF InstallChannels
  <1>2. s \in Sessions /\ dbg[s] = "none"
    <2>1. cur \in OpenIds /\ Waiting(cur)
      BY <1>0, <1>1 DEF RequestInv, OpenIds, Waiting
    <2>2. QED
      BY <1>0, <2>1, NextSession
  <1>3. eventTx = s /\ ShownWhat # "stop"
    BY <1>0, <1>1 DEF SessionInv, RequestInv, LineInv
  <1> HIDE DEF s
  <1>4. Shown' = Shown /\ ShownWhat' = ShownWhat /\ LastTold'
    BY <1>0, <1>1, SameShown
  <1>5. LineInv'
    <2>1. RunSinceKill' <=> RunSinceKill
      BY <1>1 DEF RunSinceKill
    <2>2. QED
      BY <1>0, <1>1, <1>4, <2>1 DEF LineInv
  <1>6. /\ \A t \in Sessions : dbg[t] \in {"none", "gone"} /\ evq[t] = <<>>
        /\ \A t \in Sessions : dbg'[t] = IF t = s THEN "init" ELSE dbg[t]
    BY <1>0, <1>1, <1>3 DEF SessionInv, ExitInv, TypeOK
  <1>7. SessionInv'
    BY <1>0, <1>1, <1>2, <1>3, <1>4, <1>6, TitanAssumption DEF SessionInv, Sessions
  <1>8. ExitInv'
    <2>1. DOMAIN <<>> = {}
      OBVIOUS
    <2>2. \A t \in Sessions : evq'[t] = <<>>
      BY <1>1, <1>6
    <2>3. \A t \in Sessions : Ordered(t)'
      BY <2>1, <2>2 DEF Ordered
    <2>4. QED
      BY <1>1, <2>3 DEF ExitInv
  <1>9. RunInv'
    <2>1. PICK c \in Sessions : c = s
      BY <1>2
    <2>2. cmdq'[c] = <<>> /\ dbg'[c] = "init" /\ evq'[c] = <<>>
      BY <1>0, <1>1, <1>2, <1>6, <2>1 DEF SessionInv
    <2>3. UnderWay(c)'
      BY <2>2 DEF UnderWay
    <2>4. QED
      BY <1>1, <2>1, <2>3 DEF RunInv
  <1>10. QED
    BY <1>4, <1>5, <1>7, <1>8, <1>9 DEF PoliteInv

(* An event is taken from the channel: it is of its session, and if it is    *)
(* the exit there is none behind it.                                         *)
LEMMA LessEvents ==
  ASSUME TypeOK, ExitInv, NEW c \in Sessions, evq[c] # <<>>,
         evq' = [evq EXCEPT ![c] = Tail(@)], UNCHANGED dbg
  PROVE  /\ \A s \in Sessions : Ordered(s)' /\ (s # c => evq'[s] = evq[s])
         /\ Head(evq[c]) \in Events /\ Head(evq[c]).session = c
         /\ Head(evq[c]).what = "exit" => evq'[c] = <<>> /\ dbg[c] = "gone"
  <1> DEFINE e == Head(evq[c])
             t == Tail(evq[c])
  <1>1. evq[c] \in Seq(Events) /\ evq'[c] = t /\ \A s \in Sessions : s # c => evq'[s] = evq[s]
    BY DEF TypeOK
  <1>2. /\ e \in Events /\ t \in Seq(Events) /\ Len(t) = Len(evq[c]) - 1 /\ e = evq[c][1]
        /\ \A i \in 1..Len(t) : t[i] = evq[c][i + 1]
    BY <1>1, HeadTailProperties
  <1>3. /\ DOMAIN t = 1..Len(t) /\ DOMAIN evq[c] = 1..Len(evq[c])
        /\ Len(evq[c]) \in Nat /\ Len(evq[c]) > 0 /\ Len(t) \in Nat
    BY <1>1, <1>2, LenProperties, EmptySeq
  <1> HIDE DEF e, t
  <1>4. Ordered(c)
    BY DEF ExitInv
  <1>5. Ordered(c)'
    <2>1. ASSUME NEW j \in DOMAIN t
          PROVE  t[j].session = c /\ (t[j].what = "exit" => j = Len(t) /\ dbg[c] = "gone")
      <3>1. j \in Nat /\ j + 1 \in DOMAIN evq[c] /\ t[j] = evq[c][j + 1]
        BY <1>2, <1>3
      <3>2. t[j].session = c /\ (t[j].what = "exit" => j + 1 = Len(evq[c]) /\ dbg[c] = "gone")
        BY <1>4, <3>1 DEF Ordered
      <3>3. QED
        BY <1>2, <1>3, <3>1, <3>2
    <2>2. QED
      BY <1>1, <2>1 DEF Ordered
  <1>6. \A s \in Sessions : s # c => Ordered(s)'
    BY <1>1 DEF ExitInv, Ordered
  <1>7. e.session = c /\ (e.what = "exit" => evq'[c] = <<>> /\ dbg[c] = "gone")
    <2>1. 1 \in DOMAIN evq[c]
      BY <1>3
    <2>2. e.session = c /\ (e.what = "exit" => 1 = Len(evq[c]) /\ dbg[c] = "gone")
      BY <1>2, <1>4, <2>1 DEF Ordered
    <2>3. Len(t) = 0 => t = <<>>
      BY <1>2, EmptySeq
    <2>4. QED
      BY <1>1, <1>2, <1>3, <2>2, <2>3
  <1>8. QED
    BY <1>1, <1>2, <1>5, <1>6, <1>7 DEF e

(* The event that answers a launch, attach or continue.                      *)
LEMMA EventAnswers ==
  ASSUME Inv, PoliteInv, NEW id \in Ids, NEW c \in Sessions, c = evRx, evq[c] # <<>>,
         at # "lock", pendingCmd # None \/ at = "wait",
         stdout' = Written(id, Head(evq[c])), evq' = [evq EXCEPT ![c] = Tail(@)],
         cur' = None, pendingCmd' = None, at' \in {"line", "event"},
         UNCHANGED <<requests, stdin, evRx, eventTx, cmdRx, cmdTx, cmdq, dbg, stops>>
  PROVE  PoliteInv'
  <1> DEFINE e == Head(evq[c])
  <1>0. TypeOK /\ RequestInv /\ LastTold /\ LineInv /\ SessionInv /\ ExitInv /\ RunInv
    BY DEF Inv, PoliteInv
  <1>1. /\ \A s \in Sessions : Ordered(s)' /\ (s # c => evq'[s] = evq[s])
        /\ e \in Events /\ e.session = c
        /\ e.what = "exit" => evq'[c] = <<>> /\ dbg[c] = "gone"
    BY <1>0, LessEvents
  <1>2. stdout' = Written(id, e) /\ e.what \in {"stop", "exit"}
    BY <1>1 DEF Events
  <1>3. Shown' = e /\ ShownWhat' = e.what /\ LastTold'
    BY <1>0, <1>1, <1>2, EventShown
  <1>4. RunSinceKill' <=> RunSinceKill
    BY DEF RunSinceKill
  <1>5. LineInv'
    <2>1. pendingCmd # None \/ cur # None
      BY <1>0 DEF RequestInv
    <2>2. \A j \in DOMAIN stdin : ~Runs(requests[stdin[j]])
      BY <1>0, <2>1 DEF LineInv
    <2>3. \A i \in ToSet(stdin) : ~Runs(requests[i]) /\ (requests[i] = "kill" => ~RunSinceKill)
      BY <1>0, <2>2 DEF LineInv, ToSet
    <2>4. QED
      BY <1>4, <2>2, <2>3 DEF LineInv, Runs, Opens
  <1>6. Opened' = Opened
    BY SameOpened
  <1>7. SessionInv'
    BY <1>0, <1>1, <1>6, TitanAssumption DEF SessionInv, Sessions
  <1>8. ExitInv'
    BY <1>1, <1>2, <1>3 DEF ExitInv
  <1>9. RunInv'
    <2>1. SUFFICES ASSUME RunSinceKill, e.what = "stop" PROVE AtRest(c)'
      BY <1>3, <1>4 DEF RunInv
    <2>2. UnderWay(c)
      BY <1>0, <2>1 DEF RunInv, LineInv
    <2>3. CASE cmdq[c] = <<>> /\ Stopped(c) /\ evq[c] = <<Event(c, stops[c], "stop")>>
      <3>1. e = Event(c, stops[c], "stop") /\ Tail(evq[c]) = <<>>
        BY <2>3
      <3>2. evq'[c] = <<>>
        BY <1>0, <3>1 DEF TypeOK
      <3>3. e.session = c /\ e.n = stops[c]
        BY <3>1 DEF Event
      <3>4. QED
        BY <1>3, <2>3, <3>2, <3>3 DEF AtRest, Stopped
    <2>4. CASE \E n \in Nat : evq[c] = <<Event(c, n, "exit")>>
      BY <2>1, <2>4 DEF Event
    <2>5. QED
      BY <2>2, <2>3, <2>4 DEF UnderWay
  <1>10. QED
    BY <1>3, <1>5, <1>7, <1>8, <1>9 DEF PoliteInv

LEMMA FirstEventPolite ==
  ASSUME Inv, PoliteInv, FirstEvent
  PROVE  PoliteInv'
  <1>1. /\ at = "wait" /\ evq[evRx] # <<>> /\ stdout' = Written(cur, Head(evq[evRx]))
        /\ evq' = [evq EXCEPT ![evRx] = Tail(@)] /\ cur' = None /\ at' = "event"
        /\ UNCHANGED <<requests, stdin, pendingCmd, evRx, eventTx, cmdRx, cmdTx, cmdq, dbg, stops>>
    BY DEF FirstEvent, threadVars
  <1>2. TypeOK /\ RequestInv /\ LineInv
    BY DEF Inv, PoliteInv
  <1>3. cur \in Ids /\ cur # None /\ evRx \in Sessions
    BY <1>1, <1>2 DEF RequestInv, TypeOK
  <1>4. pendingCmd = None
    BY <1>2, <1>3 DEF LineInv
  <1>5. QED
    BY <1>1, <1>3, <1>4, EventAnswers

LEMMA TakeEventPolite ==
  ASSUME Inv, PoliteInv, TakeEvent
  PROVE  PoliteInv'
  <1>0. TypeOK /\ RequestInv /\ LastTold /\ LineInv /\ SessionInv /\ ExitInv /\ RunInv
    BY DEF Inv, PoliteInv
  <1>1. evRx \in Sessions /\ evq[evRx] # <<>>
    BY <1>0 DEF TakeEvent, Received, TypeOK
  <1>2. /\ at = "event" /\ at' = "line" /\ pendingCmd' = None
        /\ evq' = [evq EXCEPT ![evRx] = Tail(@)]
        /\ IF pendingCmd = None THEN UNCHANGED stdout
                                ELSE stdout' = Written(pendingCmd, Head(evq[evRx]))
        /\ UNCHANGED <<requests, stdin, cur, evRx, eventTx, cmdRx, cmdTx, cmdq, dbg, stops>>
    BY <1>1 DEF TakeEvent, Received, PendingTaken, threadVars
  <1>3. cur = None
    BY <1>0, <1>2 DEF RequestInv
  <1>4. CASE pendingCmd # None
    <2>1. pendingCmd \in Ids
      BY <1>0, <1>4 DEF TypeOK
    <2>2. QED
      BY <1>1, <1>2, <1>3, <1>4, <2>1, EventAnswers
  <1>5. CASE pendingCmd = None
    <2>1. Shown' = Shown /\ ShownWhat' = ShownWhat /\ LastTold'
      BY <1>0, <1>2, <1>5, SameShown
    <2>2. PICK c \in Sessions : c = evRx
      BY <1>1
    <2>3. \A s \in Sessions : Ordered(s)' /\ (s # c => evq'[s] = evq[s])
      BY <1>0, <1>1, <1>2, <2>2, LessEvents
    <2>4. ShownWhat = "stop" /\ ~RunSinceKill
      BY <1>0, <1>1, <1>2, <1>5, <2>2 DEF ExitInv, RunInv, AtRest
    <2>5. ~RunSinceKill'
      BY <1>2, <2>4 DEF RunSinceKill
    <2>6. LineInv'
      BY <1>0, <1>2, <1>5, <2>1, <2>4, <2>5 DEF LineInv
    <2>7. Opened' = Opened
      BY <1>2, SameOpened
    <2>8. SessionInv'
      BY <1>0, <1>2, <2>1, <2>2, <2>3, <2>7 DEF SessionInv
    <2>9. ExitInv'
      BY <2>1, <2>3, <2>4 DEF ExitInv
    <2>10. RunInv'
      BY <2>5 DEF RunInv
    <2>11. QED
      BY <2>1, <2>6, <2>8, <2>9, <2>10 DEF PoliteInv
  <1>6. QED
    BY <1>4, <1>5

-------------------------------------------------------------------------------
(* The debug threads: only that of the session there is can do anything, and *)
(* only before its end.                                                      *)
LEMMA ThreadChanges ==
  ASSUME TypeOK, PoliteInv, RequestInv, NEW c \in Sessions, dbg[c] \notin {"none", "gone"},
         UNCHANGED <<requests, stdin, stdout, at, cur, pendingCmd, evRx, eventTx, cmdRx, cmdTx>>,
         NEW label \in {"running", "stopped", "waiting", "ending", "gone"},
         dbg' = [dbg EXCEPT ![c] = label],
         \A s \in Sessions : s # c => /\ evq'[s] = evq[s] /\ cmdq'[s] = cmdq[s]
                                      /\ stops'[s] = stops[s],
         Ordered(c)',
         c = evRx /\ eventTx = c /\ (ShownWhat = "stop" \/ at = "wait") =>
           /\ UnderWay(c) => UnderWay(c)'
           /\ AtRest(c) => AtRest(c)'
  PROVE  PoliteInv'
  <1>0. LastTold /\ LineInv /\ SessionInv /\ ExitInv /\ RunInv
    BY DEF PoliteInv
  <1>1. c = evRx /\ (ShownWhat = "stop" \/ at = "wait")
    BY <1>0 DEF SessionInv, ExitInv
  <1>2. at # "lock" /\ eventTx = c
    BY <1>0, <1>1 DEF SessionInv, LineInv, RequestInv
  <1>3. \A s \in Sessions : dbg'[s] = IF s = c THEN label ELSE dbg[s]
    BY DEF TypeOK
  <1>4. Shown' = Shown /\ ShownWhat' = ShownWhat /\ LastTold'
    BY <1>0, SameShown
  <1>5. RunSinceKill' <=> RunSinceKill
    BY DEF RunSinceKill
  <1>6. LineInv'
    BY <1>0, <1>4, <1>5 DEF LineInv
  <1>7. Opened' = Opened
    BY <1>3, SameOpened
  <1>8. SessionInv'
    BY <1>0, <1>1, <1>2, <1>3, <1>4, <1>7 DEF SessionInv
  <1>9. ExitInv'
    <2>1. \A s \in Sessions : s # c => Ordered(s)'
      BY <1>0, <1>3 DEF ExitInv, Ordered
    <2>2. QED
      BY <1>1, <1>4, <2>1 DEF ExitInv
  <1>10. RunInv'
    BY <1>0, <1>1, <1>2, <1>4, <1>5 DEF RunInv
  <1>11. QED
    BY <1>4, <1>6, <1>8, <1>9, <1>10 DEF PoliteInv

(* An event that is sent comes behind those that are in the channel.         *)
LEMMA MoreEvents ==
  ASSUME TypeOK, ExitInv, NEW c \in Sessions, dbg[c] # "gone", NEW n, NEW what \in {"stop", "exit"},
         Event(c, n, what) \in Events,
         evq' = [evq EXCEPT ![c] = Append(@, Event(c, n, what))],
         what = "exit" => dbg'[c] = "gone"
  PROVE  /\ Ordered(c)' /\ \A s \in Sessions : s # c => evq'[s] = evq[s]
         /\ evq[c] = <<>> => evq'[c] = <<Event(c, n, what)>>
  <1> DEFINE e == Event(c, n, what)
             t == Append(evq[c], e)
  <1>1. evq[c] \in Seq(Events) /\ evq'[c] = t /\ \A s \in Sessions : s # c => evq'[s] = evq[s]
    BY DEF TypeOK
  <1>2. /\ t \in Seq(Events) /\ Len(t) = Len(evq[c]) + 1 /\ t[Len(evq[c]) + 1] = e
        /\ \A i \in 1..Len(evq[c]) : t[i] = evq[c][i]
    BY <1>1, AppendProperties
  <1>3. DOMAIN t = 1..Len(t) /\ DOMAIN evq[c] = 1..Len(evq[c]) /\ Len(evq[c]) \in Nat
    BY <1>1, <1>2, LenProperties
  <1>4. e.session = c /\ e.what = what
    BY DEF Event
  <1>5. evq[c] = <<>> => t = <<e>>
    OBVIOUS
  <1> HIDE DEF e, t
  <1>6. ASSUME NEW j \in DOMAIN t
        PROVE  t[j].session = c /\ (t[j].what = "exit" => j = Len(t) /\ dbg'[c] = "gone")
    <2>1. CASE j \in DOMAIN evq[c]
      <3>1. t[j] = evq[c][j] /\ Ordered(c)
        BY <1>2, <1>3, <2>1 DEF ExitInv
      <3>2. QED
        BY <2>1, <3>1 DEF Ordered
    <2>2. CASE j = Len(evq[c]) + 1
      BY <1>2, <1>4, <2>2
    <2>3. QED
      BY <1>2, <1>3, <2>1, <2>2
  <1>7. Ordered(c)'
    BY <1>1, <1>6 DEF Ordered
  <1>8. QED
    BY <1>1, <1>5, <1>7 DEF e

LEMMA ThreadPolite ==
  ASSUME Inv, PoliteInv, NEW c \in Sessions, Thread(c) \/ Target(c)
  PROVE  PoliteInv'
  <1> USE DEF mainVars, globalVars, threadVars
  <1>0. /\ TypeOK /\ ThreadInv /\ RequestInv
        /\ LastTold /\ LineInv /\ SessionInv /\ ExitInv /\ RunInv
    BY DEF Inv, PoliteInv
  <1>1. dbg[c] \notin {"none", "gone"}
    BY DEF Thread, Target, DebugStarts, DebugFails, LockCommands, ReceiveCommand, DebugEnds,
           TargetStops, TargetExits
  <1>2. /\ c = evRx /\ eventTx = c /\ cmdRx = c /\ (ShownWhat = "stop" \/ at = "wait")
    BY <1>0, <1>1 DEF SessionInv, ExitInv, LineInv, RequestInv
  <1>3. Ordered(c) /\ c # None
    BY <1>0, TitanAssumption DEF ExitInv, Sessions
  <1>4. ASSUME NEW label \in {"running", "waiting", "ending", "gone"}, SetDbg(c, label),
               UNCHANGED <<requests, stdin, stdout, mainVars, eventTx, cmdRx, cmdTx, evq, cmdq, stops>>,
               \/ dbg[c] = "init" /\ label = "running"
               \/ dbg[c] = "running" /\ label = "ending"
               \/ dbg[c] = "stopped" /\ label = "waiting"
               \/ dbg[c] = "ending" /\ label = "gone"
        PROVE  PoliteInv'
    <2>1. dbg' = [dbg EXCEPT ![c] = label] /\ dbg'[c] = label
      BY <1>0, <1>4 DEF SetDbg, TypeOK
    <2>2. Ordered(c)'
      BY <1>1, <1>3, <1>4 DEF Ordered
    <2>3. Shown' = Shown
      BY <1>4, SameShown
    <2>4. UnderWay(c) => UnderWay(c)'
      BY <1>1, <1>4, <2>1 DEF UnderWay, Stopped
    <2>5. AtRest(c) => AtRest(c)'
      BY <1>1, <1>4, <2>1, <2>3 DEF AtRest, Stopped
    <2>6. QED
      BY <1>0, <1>1, <1>4, <2>1, <2>2, <2>4, <2>5, ThreadChanges
  <1>5. CASE DebugStarts(c) \/ TargetExits(c)
    BY <1>4, <1>5 DEF DebugStarts, TargetExits
  <1>6. CASE LockCommands(c)
    BY <1>4, <1>6 DEF LockCommands
  <1>7. CASE ReceiveCommand(c)
    <2>1. /\ dbg[c] = "waiting" /\ cmdq[c] # <<>>
          /\ SetDbg(c, IF Head(cmdq[c]) = "kill" THEN "ending" ELSE "running")
          /\ cmdq' = [cmdq EXCEPT ![c] = Tail(@)]
          /\ UNCHANGED <<requests, stdin, stdout, mainVars, eventTx, cmdRx, cmdTx, evq, stops>>
      BY <1>2, <1>7 DEF ReceiveCommand
    <2>2. PICK label \in {"running", "ending"} :
            label = IF Head(cmdq[c]) = "kill" THEN "ending" ELSE "running"
      OBVIOUS
    <2>3. dbg' = [dbg EXCEPT ![c] = label] /\ dbg'[c] = label
      BY <1>0, <2>1, <2>2 DEF SetDbg, TypeOK
    <2>4. Ordered(c)'
      BY <1>1, <1>3, <2>1 DEF Ordered
    <2>5. cmdq'[c] = Tail(cmdq[c]) /\ \A s \in Sessions : s # c => cmdq'[s] = cmdq[s]
      BY <1>0, <2>1 DEF TypeOK
    <2>6. UnderWay(c) => UnderWay(c)'
      <3>1. SUFFICES ASSUME UnderWay(c) PROVE UnderWay(c)'
        OBVIOUS
      <3>2. cmdq[c] = <<"go">> /\ evq[c] = <<>>
        BY <2>1, <3>1 DEF UnderWay
      <3>3. cmdq'[c] = <<>>
        BY <2>5, <3>2
      <3>4. QED
        BY <2>1, <2>3, <3>2, <3>3 DEF UnderWay
    <2>7. ~AtRest(c)
      BY <2>1 DEF AtRest
    <2>8. QED
      BY <1>0, <1>1, <2>1, <2>3, <2>4, <2>5, <2>6, <2>7, ThreadChanges
  <1>8. ASSUME NEW label \in {"stopped", "gone"}, NEW what \in {"stop", "exit"},
               SetDbg(c, label), SendEvent(Event(c, stops[c] + 1, what)), CountEvent(c),
               UNCHANGED <<requests, stdin, stdout, mainVars, eventTx, cmdRx, cmdTx, cmdq>>,
               dbg[c] \in {"init", "running", "ending"},
               \/ what = "stop" /\ label = "stopped" /\ stops[c] < MaxStops
               \/ what = "exit" /\ label = "gone"
        PROVE  PoliteInv'
    <2>1. dbg' = [dbg EXCEPT ![c] = label] /\ dbg'[c] = label
      BY <1>0, <1>8 DEF SetDbg, TypeOK
    <2>2. PICK n \in Nat : n = stops[c] + 1
      <3>1. \A k \in 0..(MaxStops + 1) : k \in Nat
        BY TitanAssumption
      <3>2. stops[c] \in Nat
        BY <1>0, <3>1 DEF TypeOK
      <3>3. QED
        BY <3>2
    <2>3. evq' = [evq EXCEPT ![c] = Append(@, Event(c, n, what))]
      BY <1>2, <1>3, <1>8, <2>2 DEF SendEvent
    <2>4. Event(c, n, what) \in Events
      <3>1. stops[c] <= MaxStops /\ stops[c] \in Nat
        BY <1>0, <1>1, TitanAssumption DEF ThreadInv, TypeOK
      <3>2. n \in 1..(MaxStops + 1)
        BY <2>2, <3>1, TitanAssumption
      <3>3. QED
        BY <3>2 DEF Event, Events
    <2>5. /\ Ordered(c)' /\ \A s \in Sessions : s # c => evq'[s] = evq[s]
          /\ evq[c] = <<>> => evq'[c] = <<Event(c, n, what)>>
      BY <1>0, <1>1, <1>8, <2>1, <2>3, <2>4, MoreEvents
    <2>6. stops'[c] = n /\ \A s \in Sessions : s # c => stops'[s] = stops[s]
      BY <1>0, <1>8, <2>2 DEF CountEvent, TypeOK
    <2>7. UnderWay(c) => UnderWay(c)'
      <3>1. SUFFICES ASSUME UnderWay(c) PROVE UnderWay(c)'
        OBVIOUS
      <3>2. cmdq[c] = <<>> /\ evq[c] = <<>>
        BY <1>8, <3>1 DEF UnderWay, Stopped
      <3>3. cmdq'[c] = <<>> /\ evq'[c] = <<Event(c, n, what)>>
        BY <1>8, <2>5, <3>2
      <3>4. CASE what = "stop"
        <4>1. Stopped(c)' /\ evq'[c] = <<Event(c, stops'[c], "stop")>>
          BY <1>8, <2>1, <2>6, <3>3, <3>4 DEF Stopped
        <4>2. QED
          BY <3>3, <4>1 DEF UnderWay, Event
      <3>5. CASE what = "exit"
        BY <1>8, <2>1, <3>3, <3>5 DEF UnderWay, Event
      <3>6. QED
        BY <3>4, <3>5
    <2>8. ~AtRest(c)
      BY <1>8 DEF AtRest, Stopped
    <2>9. QED
      BY <1>0, <1>1, <1>8, <2>1, <2>5, <2>6, <2>7, <2>8, ThreadChanges
  <1>9. CASE DebugFails(c)
    BY <1>8, <1>9 DEF DebugFails
  <1>10. CASE TargetStops(c)
    BY <1>8, <1>10 DEF TargetStops
  <1>11. CASE DebugEnds(c)
    <2>1. CASE how[c] = "launch"
      BY <1>8, <1>11, <2>1 DEF DebugEnds
    <2>2. CASE how[c] # "launch"
      BY <1>4, <1>11, <2>2 DEF DebugEnds
    <2>3. QED
      BY <2>1, <2>2
  <1>12. QED
    BY <1>5, <1>6, <1>7, <1>9, <1>10, <1>11 DEF Thread, Target

-------------------------------------------------------------------------------
LEMMA NextPolite ==
  ASSUME Polite, ~Timeouts, Inv, PoliteInv, [Next]_vars
  PROVE  PoliteInv'
  <1>1. ~OpenTimesOut
    BY DEF OpenTimesOut
  <1>2. CASE Main
    BY <1>2, QuietPolite, ContinuePolite, KillPolite, QueryPolite, OpenPolite, InstallPolite,
       FirstEventPolite, TakeEventPolite DEF Main, Serve
  <1>3. QED
    BY <1>1, <1>2, AskPolite, QuietPolite, ThreadPolite DEF Next

(* A client that continues and kills only what it was told is stopped, and   *)
(* opens a target only after the exit of the last, is never told of a stop   *)
(* that its target has left behind, however many targets it opens and        *)
(* however often they stop, provided that no launch times out before its     *)
(* target reports (main.rs:160-185,764-804).                                 *)
THEOREM ToldIsTrue ==
  ASSUME Polite, ~Timeouts
  PROVE  Spec => []ShownIsTrue
  <1>1. Inv /\ PoliteInv /\ [Next]_vars => PoliteInv'
    BY NextPolite
  <1>2. Inv /\ PoliteInv => ShownIsTrue
    <2>1. SUFFICES ASSUME Inv, PoliteInv, ShownStopped, \A i \in Unanswered : requests[i] = "query"
                   PROVE  /\ dbg[Shown.session] \in {"stopped", "waiting"}
                          /\ stops[Shown.session] = Shown.n
      BY DEF ShownIsTrue
    <2>2. /\ TypeOK /\ RequestInv /\ LineInv /\ SessionInv /\ RunInv
          /\ ShownWhat = "stop" /\ RunSinceKill
      BY <2>1 DEF Inv, PoliteInv, ShownStopped
    <2>3. pendingCmd = None /\ at # "wait"
      <3>1. pendingCmd # None => pendingCmd \in Unanswered /\ requests[pendingCmd] = "go"
        BY <2>2 DEF RequestInv, LineInv, Unanswered, Replied
      <3>2. QED
        BY <2>1, <2>2, <3>1 DEF RequestInv, LineInv
    <2>4. PICK s \in Sessions : s = evRx
      BY <2>2 DEF SessionInv, TypeOK
    <2>5. AtRest(s)
      BY <2>2, <2>3, <2>4 DEF RunInv
    <2>6. QED
      BY <2>5 DEF AtRest, Stopped
  <1>3. QED
    BY <1>1, <1>2, InitPolite, SpecInv, PTL DEF Spec
===============================================================================
