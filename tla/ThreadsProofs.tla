----------------------------- MODULE ThreadsProofs -----------------------------
(* The thread table of winapi-backend names every thread by a handle that    *)
(* stands for it, and registers are those of the thread that stopped, for    *)
(* any client and any number of threads, handles and debuggees, until        *)
(* Windows closes a number that was opened again at an exit_thread.          *)
EXTENDS WinapiThreads, WellFoundedInduction, TLAPS

-------------------------------------------------------------------------------
(* Functions as tables.                                                      *)
LEMMA NoKeys == DOMAIN <<>> = {}
  OBVIOUS

(* The lowest of some numbers is one of them.                                *)
LEMMA LowestNumber ==
  ASSUME NEW S \in SUBSET Nat, S # {}
  PROVE  Min(S) \in S
  <1> DEFINE R == OpToRel(<, Nat)
  <1>1. \A x, y \in Nat : y < x => <<y, x>> \in R
    BY DEF OpToRel
  <1>2. IsWellFoundedOn(R, Nat)
    BY NatLessThanWellFounded
  <1> HIDE DEF R
  <1>3. PICK x \in S : \A y \in S : ~(<<y, x>> \in R)
    BY <1>2, WFMin
  <1>4. ASSUME NEW y \in S PROVE x <= y
    <2>1. ~(y < x)
      BY <1>1, <1>3
    <2>2. x \in Nat /\ y \in Nat
      OBVIOUS
    <2>3. QED
      BY <2>1, <2>2
  <1>5. QED
    BY <1>4 DEF Min

(* Names and their numbers: Named is the inverse of a table in which all     *)
(* numbers differ.                                                           *)
LEMMA NamedBack ==
  ASSUME NEW f, \A s, t \in DOMAIN f : s # t => f[s] # f[t]
  PROVE  /\ DOMAIN Named(f) = {f[t] : t \in DOMAIN f}
         /\ \A t \in DOMAIN f : Named(f)[f[t]] = t
         /\ \A h \in DOMAIN Named(f) : Named(f)[h] \in DOMAIN f
  <1>1. DOMAIN Named(f) = {f[t] : t \in DOMAIN f}
    BY DEF Named
  <1>2. ASSUME NEW t \in DOMAIN f PROVE Named(f)[f[t]] = t
    <2>1. \A u \in DOMAIN f : f[u] = f[t] => u = t
      OBVIOUS
    <2>2. (CHOOSE u \in DOMAIN f : f[u] = f[t]) = t
      BY <2>1
    <2>3. QED
      BY <1>1, <2>2 DEF Named
  <1>3. QED
    BY <1>1, <1>2

-------------------------------------------------------------------------------
(* The invariant: a live thread that was reported is listed by the handle    *)
(* that Windows keeps for it, who stopped and whether it lives, and that the *)
(* table is true.                                                            *)
Sync ==
  /\ DOMAIN reported \subseteq used
  /\ \A t \in live \intersect DOMAIN reported : t \in DOMAIN threads /\ threads[t] = reported[t]
StoppedThread ==
  /\ at = "none" => lastEvent = NoEvent
  /\ at = "stopped" =>
       /\ activeTid \in DOMAIN reported
       /\ lastEvent # NoEvent =>
            /\ activeTid = lastEvent.tid
            /\ activeTid \in live <=> lastEvent.kind \notin Exits

Inv == TypeOK /\ Sync /\ StoppedThread /\ TableIsTrue

LEMMA InitInv == Init => Inv
  BY NoKeys DEF Init, Inv, TypeOK, Sync, StoppedThread, TableIsTrue, NoEvent

(* What is listed is open.                                                   *)
LEMMA ListedOpen ==
  ASSUME NEW table, NEW os, \A t \in DOMAIN table : Reached(table[t], os) = t,
         DOMAIN table \subseteq Tids
  PROVE  \A t \in DOMAIN table : table[t] \in DOMAIN os /\ os[table[t]] = t
  BY ThreadsAssumption DEF Reached

LEMMA LowestFree ==
  ASSUME NEW os, Free(os) # {}
  PROVE  NewHandle(os) \in Handles /\ NewHandle(os) \notin DOMAIN os
  BY LowestNumber, ThreadsAssumption DEF Free, NewHandle, Handles

(* A thread that is reported with a new handle.                              *)
LEMMA Reports ==
  ASSUME TypeOK, NEW t \in Tids, NEW h \in Handles \ DOMAIN handles,
         threads' = Inserted(t, h), handles' = With(handles, h, t)
  PROVE  /\ DOMAIN threads' = DOMAIN threads \union {t} /\ threads'[t] = h
         /\ \A u \in DOMAIN threads : u # t => threads'[u] = threads[u]
         /\ \A u \in DOMAIN threads' : threads'[u] \in Handles
         /\ DOMAIN handles' \subseteq Handles /\ \A g \in DOMAIN handles' : handles'[g] \in Tids
         /\ (\A u \in DOMAIN threads : Reached(threads[u], handles) = u)
              => \A u \in DOMAIN threads' : Reached(threads'[u], handles') = u
  <1>1. /\ DOMAIN threads' = DOMAIN threads \union {t} /\ threads'[t] = h
        /\ \A u \in DOMAIN threads : u # t => threads'[u] = threads[u]
    BY DEF Inserted, With
  <1>2. /\ DOMAIN handles' = DOMAIN handles \union {h} /\ handles'[h] = t
        /\ \A g \in DOMAIN handles : g # h => handles'[g] = handles[g]
    BY DEF With
  <1>3. \A u \in DOMAIN threads' : threads'[u] \in Handles
    BY <1>1 DEF TypeOK
  <1>4. DOMAIN handles' \subseteq Handles /\ \A g \in DOMAIN handles' : handles'[g] \in Tids
    BY <1>2 DEF TypeOK
  <1>5. ASSUME \A u \in DOMAIN threads : Reached(threads[u], handles) = u,
               NEW u \in DOMAIN threads'
        PROVE  Reached(threads'[u], handles') = u
    <2>1. CASE u = t
      BY <1>1, <1>2, <2>1 DEF Reached
    <2>2. CASE u # t
      <3>1. u \in DOMAIN threads /\ threads'[u] = threads[u]
        BY <1>1, <2>2
      <3>2. threads[u] \in DOMAIN handles /\ handles[threads[u]] = u
        BY <1>5, <3>1, ListedOpen DEF TypeOK
      <3>3. threads'[u] \in DOMAIN handles' /\ handles'[threads'[u]] = u
        BY <1>2, <3>1, <3>2
      <3>4. QED
        BY <3>3 DEF Reached
    <2>3. QED
      BY <2>1, <2>2
  <1>6. QED
    BY <1>1, <1>3, <1>4, <1>5

-------------------------------------------------------------------------------
(* refresh_threads keeps the handles of the threads that live on, and        *)
(* neither opens a number that is in use nor closes one that stays listed.   *)
LEMMA RefreshedTable ==
  ASSUME NEW table, DOMAIN table \subseteq Tids, \A t \in DOMAIN table : table[t] \in Handles,
         NEW os, DOMAIN os \subseteq Handles, \A h \in DOMAIN os : os[h] \in Tids,
         NEW snapshots, \A s \in snapshots : s \subseteq Tids,
         NEW r \in Refreshes(table, os, snapshots)
  PROVE  /\ DOMAIN r.threads \subseteq Tids /\ \A t \in DOMAIN r.threads : r.threads[t] \in Handles
         /\ DOMAIN r.handles \subseteq Handles /\ \A h \in DOMAIN r.handles : r.handles[h] \in Tids
         /\ \A t \in DOMAIN table : (\A s \in snapshots : t \in s) =>
              t \in DOMAIN r.threads /\ r.threads[t] = table[t]
         /\ (\A t \in DOMAIN table : Reached(table[t], os) = t) =>
              \A t \in DOMAIN r.threads : Reached(r.threads[t], r.handles) = t
  <1>0. CASE r = [threads |-> table, handles |-> os]
    <2>1. r.threads = table /\ r.handles = os
      BY <1>0
    <2>2. QED
      BY <2>1
  <1>1. CASE \E snapshot \in snapshots : r \in Compared(table, os, snapshot)
    <2>1. PICK snapshot \in snapshots : r \in Compared(table, os, snapshot)
      BY <1>1
    <2> DEFINE gone == DOMAIN table \ snapshot
               kept == Without(table, gone)
               closed == {table[t] : t \in gone}
    <2>2. PICK new \in SUBSET (snapshot \ DOMAIN table) : \E f \in Openings(new, os) :
            r = [threads |-> Over(f, kept), handles |-> Without(Over(Named(f), os), closed)]
      BY <2>1 DEF Compared
    <2>3. PICK f \in Openings(new, os) :
            r = [threads |-> Over(f, kept), handles |-> Without(Over(Named(f), os), closed)]
      BY <2>2
    <2> DEFINE opened == Over(Named(f), os)
    <2>4. /\ DOMAIN f = new
          /\ \A t \in new : f[t] \in Free(os)
          /\ \A s, t \in new : s # t => f[s] # f[t]
      BY <2>3 DEF Openings
    <2>5. new \subseteq Tids /\ new \intersect DOMAIN table = {} /\ new \subseteq snapshot
      BY <2>1, <2>2
    <2>6. /\ DOMAIN kept = DOMAIN table \intersect snapshot
          /\ \A t \in DOMAIN kept : kept[t] = table[t]
      BY DEF Without
    <2>7. /\ DOMAIN Named(f) = {f[t] : t \in new}
          /\ \A t \in new : Named(f)[f[t]] = t
          /\ \A h \in DOMAIN Named(f) : Named(f)[h] \in new
      BY <2>4, NamedBack
    <2>8. /\ DOMAIN opened = DOMAIN Named(f) \union DOMAIN os
          /\ \A h \in DOMAIN Named(f) : opened[h] = Named(f)[h]
          /\ \A h \in DOMAIN os \ DOMAIN Named(f) : opened[h] = os[h]
      BY DEF Over
    <2>9. r.threads = Over(f, kept) /\ r.handles = Without(opened, closed)
      BY <2>3
    <2>10. /\ DOMAIN r.threads = new \union DOMAIN kept
           /\ \A t \in new : r.threads[t] = f[t]
           /\ \A t \in DOMAIN kept : r.threads[t] = table[t]
      BY <2>4, <2>5, <2>6, <2>9 DEF Over
    <2>11. /\ DOMAIN r.handles = DOMAIN opened \ closed
           /\ \A h \in DOMAIN r.handles : r.handles[h] = opened[h]
      BY <2>9 DEF Without
    <2>12. \A h \in DOMAIN Named(f) : h \in Handles /\ h \notin DOMAIN os
      BY <2>4, <2>7 DEF Free
    <2> HIDE DEF kept, opened
    <2>13. DOMAIN r.threads \subseteq Tids /\ \A t \in DOMAIN r.threads : r.threads[t] \in Handles
      BY <2>4, <2>5, <2>6, <2>10 DEF Free
    <2>14. DOMAIN r.handles \subseteq Handles /\ \A h \in DOMAIN r.handles : r.handles[h] \in Tids
      <3>1. \A h \in DOMAIN opened : h \in Handles /\ opened[h] \in Tids
        BY <2>5, <2>7, <2>8, <2>12
      <3>2. QED
        BY <2>11, <3>1
    <2>15. \A t \in DOMAIN table : (\A s \in snapshots : t \in s) =>
             t \in DOMAIN r.threads /\ r.threads[t] = table[t]
      BY <2>1, <2>6, <2>10
    <2>16. ASSUME \A t \in DOMAIN table : Reached(table[t], os) = t, NEW t \in DOMAIN r.threads
           PROVE  Reached(r.threads[t], r.handles) = t
      <3>1. \A s \in DOMAIN table : table[s] \in DOMAIN os /\ os[table[s]] = s
        BY <2>16, ListedOpen
      <3>2. CASE t \in new
        <4>1. f[t] \in DOMAIN Named(f) /\ Named(f)[f[t]] = t
          BY <2>7, <3>2
        <4>2. f[t] \notin closed
          BY <2>12, <3>1, <4>1
        <4>3. f[t] \in DOMAIN r.handles /\ r.handles[f[t]] = t
          BY <2>8, <2>11, <4>1, <4>2
        <4>4. QED
          BY <2>10, <3>2, <4>3 DEF Reached
      <3>3. CASE t \in DOMAIN kept
        <4>1. t \in snapshot /\ t \in DOMAIN table /\ r.threads[t] = table[t]
          BY <2>6, <2>10, <3>3
        <4>2. table[t] \in DOMAIN os /\ os[table[t]] = t
          BY <3>1, <4>1
        <4>3. table[t] \notin closed
          BY <3>1, <4>1
        <4>4. table[t] \in DOMAIN r.handles /\ r.handles[table[t]] = t
          BY <2>8, <2>11, <2>12, <4>2, <4>3
        <4>5. QED
          BY <4>1, <4>4 DEF Reached
      <3>4. QED
        BY <2>10, <3>2, <3>3
    <2>17. QED
      BY <2>13, <2>14, <2>15, <2>16
  <1>2. QED
    BY <1>0, <1>1 DEF Refreshes

(* ... at a stop.                                                            *)
LEMMA RefreshedAtStop ==
  ASSUME Inv, at = "stopped", NEW r \in Refreshed
  PROVE  /\ DOMAIN r.threads \subseteq Tids /\ \A t \in DOMAIN r.threads : r.threads[t] \in Handles
         /\ DOMAIN r.handles \subseteq Handles /\ \A h \in DOMAIN r.handles : r.handles[h] \in Tids
         /\ \A t \in live \intersect DOMAIN threads :
              t \in DOMAIN r.threads /\ r.threads[t] = threads[t]
         /\ ~closedTwice => \A t \in DOMAIN r.threads : Reached(r.threads[t], r.handles) = t
  <1> DEFINE snapshots == {live, live \union {activeTid}}
  <1>1. /\ DOMAIN threads \subseteq Tids /\ \A t \in DOMAIN threads : threads[t] \in Handles
        /\ DOMAIN handles \subseteq Handles /\ \A h \in DOMAIN handles : handles[h] \in Tids
        /\ r \in Refreshes(threads, handles, snapshots)
    BY DEF Inv, TypeOK, Refreshed
  <1>2. \A s \in snapshots : s \subseteq Tids /\ live \subseteq s
    BY DEF Inv, TypeOK, StoppedThread
  <1>3. ~closedTwice => \A t \in DOMAIN threads : Reached(threads[t], handles) = t
    BY DEF Inv, TableIsTrue
  <1> HIDE DEF snapshots
  <1>4. /\ DOMAIN r.threads \subseteq Tids /\ \A t \in DOMAIN r.threads : r.threads[t] \in Handles
        /\ DOMAIN r.handles \subseteq Handles /\ \A h \in DOMAIN r.handles : r.handles[h] \in Tids
        /\ \A t \in DOMAIN threads : (\A s \in snapshots : t \in s) =>
             t \in DOMAIN r.threads /\ r.threads[t] = threads[t]
        /\ (\A t \in DOMAIN threads : Reached(threads[t], handles) = t) =>
             \A t \in DOMAIN r.threads : Reached(r.threads[t], r.handles) = t
    BY <1>1, <1>2, RefreshedTable
  <1>5. QED
    BY <1>2, <1>3, <1>4

-------------------------------------------------------------------------------
(* One lemma for each action.                                                *)
LEMMA CreateProcessInv ==
  ASSUME Inv, NEW t \in Tids, CreateProcess(t)
  PROVE  Inv'
  <1>1. PICK h : h = NewHandle(handles)
    OBVIOUS
  <1>2. h \in Handles \ DOMAIN handles
    BY <1>1, LowestFree DEF CreateProcess
  <1>3. /\ at = "opening" /\ t \in live /\ activeTid' = t /\ at' = "stopped"
        /\ lastEvent' = [kind |-> "create_process", tid |-> t]
        /\ handles' = With(handles, h, t) /\ reported' = [k \in {t} |-> h]
        /\ threads' = Inserted(t, h) /\ mainThread' \in {h, mainThread}
        /\ UNCHANGED <<live, closedTwice, used, opens>>
    BY <1>1 DEF CreateProcess, Stop, ActiveIs
  <1>4. /\ DOMAIN threads' = DOMAIN threads \union {t} /\ threads'[t] = h
        /\ \A u \in DOMAIN threads : u # t => threads'[u] = threads[u]
        /\ \A u \in DOMAIN threads' : threads'[u] \in Handles
        /\ DOMAIN handles' \subseteq Handles /\ \A g \in DOMAIN handles' : handles'[g] \in Tids
        /\ (\A u \in DOMAIN threads : Reached(threads[u], handles) = u)
             => \A u \in DOMAIN threads' : Reached(threads'[u], handles') = u
    BY <1>2, <1>3, Reports DEF Inv
  <1>5. DOMAIN reported' = {t} /\ reported'[t] = h
    BY <1>3
  <1>6. TypeOK'
    BY <1>2, <1>3, <1>4, <1>5 DEF Inv, TypeOK
  <1>7. Sync'
    BY <1>3, <1>4, <1>5 DEF Inv, TypeOK, Sync
  <1>8. StoppedThread'
    BY <1>3, <1>5 DEF StoppedThread, Exits
  <1>9. TableIsTrue'
    BY <1>3, <1>4 DEF Inv, TableIsTrue
  <1>10. QED
    BY <1>6, <1>7, <1>8, <1>9 DEF Inv

LEMMA CreateThreadInv ==
  ASSUME Inv, NEW t \in Tids, CreateThread(t)
  PROVE  Inv'
  <1>1. PICK h : h = NewHandle(handles)
    OBVIOUS
  <1>2. h \in Handles \ DOMAIN handles
    BY <1>1, LowestFree DEF CreateThread
  <1>3. /\ at = "waiting" /\ t \in live /\ activeTid' = t /\ at' = "stopped"
        /\ lastEvent' = [kind |-> "create_thread", tid |-> t]
        /\ handles' = With(handles, h, t) /\ reported' = With(reported, t, h)
        /\ threads' = Inserted(t, h)
        /\ UNCHANGED <<mainThread, live, closedTwice, used, opens>>
    BY <1>1 DEF CreateThread, Stop, ActiveIs
  <1>4. /\ DOMAIN threads' = DOMAIN threads \union {t} /\ threads'[t] = h
        /\ \A u \in DOMAIN threads : u # t => threads'[u] = threads[u]
        /\ \A u \in DOMAIN threads' : threads'[u] \in Handles
        /\ DOMAIN handles' \subseteq Handles /\ \A g \in DOMAIN handles' : handles'[g] \in Tids
        /\ (\A u \in DOMAIN threads : Reached(threads[u], handles) = u)
             => \A u \in DOMAIN threads' : Reached(threads'[u], handles') = u
    BY <1>2, <1>3, Reports DEF Inv
  <1>5. /\ DOMAIN reported' = DOMAIN reported \union {t} /\ reported'[t] = h
        /\ \A u \in DOMAIN reported : u # t => reported'[u] = reported[u]
    BY <1>3 DEF With
  <1>6. TypeOK'
    BY <1>3, <1>4, <1>5 DEF Inv, TypeOK
  <1>7. Sync'
    BY <1>3, <1>4, <1>5 DEF Inv, TypeOK, Sync
  <1>8. StoppedThread'
    BY <1>3, <1>5 DEF StoppedThread, Exits
  <1>9. TableIsTrue'
    BY <1>3, <1>4 DEF Inv, TableIsTrue
  <1>10. QED
    BY <1>6, <1>7, <1>8, <1>9 DEF Inv

(* The exit of a thread closes no handle of another thread.                  *)
LEMMA ExitThreadInv ==
  ASSUME Inv, NEW t \in Tids, ExitThread(t)
  PROVE  Inv'
  <1>1. /\ at = "waiting" /\ t \in live /\ t \in DOMAIN reported /\ live' = live \ {t}
        /\ lastEvent' = [kind |-> "exit_thread", tid |-> t] /\ at' = "stopped" /\ activeTid' = t
        /\ UNCHANGED <<mainThread, reported, closedTwice, used, opens>>
    BY DEF ExitThread, Stop, ActiveIs
  <1>2. t \in DOMAIN threads /\ threads[t] = reported[t]
    BY <1>1 DEF Inv, Sync
  <1>3. /\ DOMAIN threads' = DOMAIN threads \ {t}
        /\ \A u \in DOMAIN threads \ {t} : threads'[u] = threads[u]
    BY DEF ExitThread, ExitTakenOut, Without
  <1>4. /\ DOMAIN handles' = DOMAIN handles \ {threads[t]}
        /\ \A h \in DOMAIN handles \ {threads[t]} : handles'[h] = handles[h]
    BY <1>2 DEF ExitThread, ClosedOnExit, Without
  <1>5. TypeOK'
    BY <1>1, <1>3, <1>4 DEF Inv, TypeOK
  <1>6. Sync'
    BY <1>1, <1>3 DEF Inv, Sync
  <1>7. StoppedThread'
    BY <1>1 DEF StoppedThread, Exits
  <1>8. ASSUME ~closedTwice PROVE TableIsTrue'
    <2>1. \A u \in DOMAIN threads : threads[u] \in DOMAIN handles /\ handles[threads[u]] = u
      BY <1>1, <1>8, ListedOpen DEF Inv, TypeOK, TableIsTrue
    <2>2. ASSUME NEW u \in DOMAIN threads'
          PROVE  threads'[u] \in DOMAIN handles' /\ handles'[threads'[u]] = u
      BY <1>2, <1>3, <1>4, <2>1
    <2>3. QED
      BY <2>2 DEF TableIsTrue, Reached
  <1>9. QED
    BY <1>1, <1>5, <1>6, <1>7, <1>8 DEF Inv, TableIsTrue

LEMMA ExitProcessInv ==
  ASSUME Inv, NEW t \in Tids, ExitProcess(t)
  PROVE  Inv'
  <1>1. /\ at = "waiting" /\ t \in DOMAIN reported /\ live' = {}
        /\ lastEvent' = [kind |-> "exit_process", tid |-> t] /\ at' = "stopped" /\ activeTid' = t
        /\ UNCHANGED <<threads, mainThread, handles, reported, closedTwice, used, opens>>
    BY DEF ExitProcess, Stop, ActiveIs
  <1>2. TypeOK' /\ Sync' /\ StoppedThread' /\ TableIsTrue'
    BY <1>1 DEF Inv, TypeOK, Sync, StoppedThread, Exits, TableIsTrue
  <1>3. QED
    BY <1>2 DEF Inv

LEMMA OtherEventInv ==
  ASSUME Inv, NEW t \in Tids, OtherEvent(t)
  PROVE  Inv'
  <1>1. /\ at = "waiting" /\ t \in live /\ t \in DOMAIN reported
        /\ lastEvent' = [kind |-> "other", tid |-> t] /\ at' = "stopped" /\ activeTid' = t
        /\ UNCHANGED <<threads, mainThread, handles, live, reported, closedTwice, used, opens>>
    BY DEF OtherEvent, Stop, ActiveIs, osVars
  <1>2. TypeOK' /\ Sync' /\ StoppedThread' /\ TableIsTrue'
    BY <1>1 DEF Inv, TypeOK, Sync, StoppedThread, Exits, TableIsTrue
  <1>3. QED
    BY <1>2 DEF Inv

(* A thread that starts is one that was never reported.                      *)
LEMMA ThreadStartsInv ==
  ASSUME Inv, NEW t \in Tids, ThreadStarts(t)
  PROVE  Inv'
  <1>1. /\ at = "waiting" /\ t \notin used /\ live' = live \union {t} /\ used' = used \union {t}
        /\ UNCHANGED <<threads, mainThread, activeTid, lastEvent, at, handles, reported, closedTwice>>
    BY DEF ThreadStarts, stateVars
  <1>2. TypeOK' /\ Sync' /\ StoppedThread' /\ TableIsTrue'
    BY <1>1 DEF Inv, TypeOK, Sync, StoppedThread, TableIsTrue
  <1>3. QED
    BY <1>2 DEF Inv

(* What close_all leaves open is typed as it was.                            *)
LEMMA ClosedAll ==
  ASSUME TypeOK
  PROVE  DOMAIN CloseAll \subseteq Handles /\ \A h \in DOMAIN CloseAll : CloseAll[h] \in Tids
  BY DEF CloseAll, Without, TypeOK

LEMMA LaunchInv ==
  ASSUME Inv, NEW t \in Tids, Launch(t)
  PROVE  Inv'
  <1>1. PICK h : h = NewHandle(CloseAll)
    OBVIOUS
  <1>2. h \in Handles
    BY <1>1, LowestFree DEF Launch
  <1>3. /\ handles' = With(CloseAll, h, t) /\ threads' = [k \in {t} |-> h] /\ mainThread' = h
        /\ activeTid' = t /\ lastEvent' = NoEvent /\ at' = "opening"
        /\ live' = {t} /\ reported' = <<>> /\ used' = used \union {t}
    BY <1>1 DEF Launch, Opened
  <1>4. /\ DOMAIN handles' = DOMAIN CloseAll \union {h} /\ handles'[h] = t
        /\ \A g \in DOMAIN CloseAll : g # h => handles'[g] = CloseAll[g]
    BY <1>3 DEF With
  <1>5. TypeOK'
    BY <1>2, <1>3, <1>4, ClosedAll, NoKeys DEF Inv, TypeOK, NoEvent
  <1>6. Sync' /\ StoppedThread'
    BY <1>3, NoKeys DEF Sync, StoppedThread
  <1>7. TableIsTrue'
    BY <1>3, <1>4 DEF TableIsTrue, Reached
  <1>8. QED
    BY <1>5, <1>6, <1>7 DEF Inv

LEMMA AttachInv ==
  ASSUME Inv, NEW ts \in SUBSET Tids, Attach(ts)
  PROVE  Inv'
  <1>1. PICK r \in Refreshes(<<>>, CloseAll, {ts}) :
          /\ threads' = r.threads /\ handles' = r.handles
          /\ IF DOMAIN r.threads = {} THEN activeTid' = None ELSE activeTid' \in DOMAIN r.threads
    BY DEF Attach
  <1>2. /\ mainThread' = None /\ lastEvent' = NoEvent /\ at' = "opening"
        /\ live' = ts /\ reported' = <<>> /\ used' = used \union ts
    BY DEF Attach, Opened
  <1>3. PICK table : table = <<>>
    OBVIOUS
  <1>4. PICK os : os = CloseAll
    OBVIOUS
  <1>5. /\ DOMAIN table = {} /\ DOMAIN os \subseteq Handles /\ \A h \in DOMAIN os : os[h] \in Tids
        /\ r \in Refreshes(table, os, {ts})
    BY <1>1, <1>3, <1>4, NoKeys, ClosedAll DEF Inv
  <1>6. /\ DOMAIN r.threads \subseteq Tids /\ \A t \in DOMAIN r.threads : r.threads[t] \in Handles
        /\ DOMAIN r.handles \subseteq Handles /\ \A h \in DOMAIN r.handles : r.handles[h] \in Tids
        /\ \A t \in DOMAIN r.threads : Reached(r.threads[t], r.handles) = t
    BY <1>5, RefreshedTable
  <1>7. TypeOK'
    BY <1>1, <1>2, <1>6, NoKeys DEF Inv, TypeOK, NoEvent
  <1>8. Sync' /\ StoppedThread'
    BY <1>2, NoKeys DEF Sync, StoppedThread
  <1>9. TableIsTrue'
    BY <1>1, <1>6 DEF TableIsTrue
  <1>10. QED
    BY <1>7, <1>8, <1>9 DEF Inv

LEMMA ClosedInv ==
  ASSUME Inv, NEW os, Closed(os),
         DOMAIN os \subseteq Handles, \A h \in DOMAIN os : os[h] \in Tids
  PROVE  Inv'
  <1>1. /\ handles' = os /\ threads' = <<>> /\ mainThread' = None /\ activeTid' = None
        /\ lastEvent' = NoEvent /\ at' = "none" /\ live' = {} /\ reported' = <<>>
        /\ UNCHANGED <<used, opens>>
    BY DEF Closed
  <1>2. TypeOK'
    BY <1>1, NoKeys DEF Inv, TypeOK, NoEvent
  <1>3. Sync' /\ StoppedThread' /\ TableIsTrue'
    BY <1>1, NoKeys DEF Sync, StoppedThread, TableIsTrue
  <1>4. QED
    BY <1>2, <1>3 DEF Inv

LEMMA DetachInv ==
  ASSUME Inv, Detach \/ OpenFails
  PROVE  Inv'
  <1>1. CASE Detach
    <2>1. PICK os : os = Without(CloseAll, {reported[t] : t \in DOMAIN reported})
      OBVIOUS
    <2>2. Closed(os)
      BY <1>1, <2>1 DEF Detach
    <2>3. DOMAIN os \subseteq Handles /\ \A h \in DOMAIN os : os[h] \in Tids
      BY <2>1, ClosedAll DEF Inv, Without
    <2>4. QED
      BY <2>2, <2>3, ClosedInv
  <1>2. CASE OpenFails
    <2>1. DOMAIN CloseAll \subseteq Handles /\ \A h \in DOMAIN CloseAll : CloseAll[h] \in Tids
      BY ClosedAll DEF Inv
    <2>2. QED
      BY <1>2, <2>1, ClosedInv DEF OpenFails
  <1>3. QED
    BY <1>1, <1>2

(* continue_last_and_wait with a table and handles as a refresh or the last  *)
(* event has left them: what Windows closes at an exit_thread is closed      *)
(* already, or was opened again, which closedTwice says.                     *)
LEMMA ContinueInv ==
  ASSUME Inv, Idle, NEW os, ContinueAndWait(os),
         DOMAIN os \subseteq Handles, \A h \in DOMAIN os : os[h] \in Tids,
         DOMAIN threads' \subseteq Tids, \A t \in DOMAIN threads' : threads'[t] \in Handles,
         \A t \in live \intersect DOMAIN threads : t \in DOMAIN threads' /\ threads'[t] = threads[t],
         ~closedTwice => \A t \in DOMAIN threads' : Reached(threads'[t], os) = t,
         UNCHANGED <<mainThread, activeTid, live, used, opens>>
  PROVE  Inv'
  <1>1. /\ lastEvent' = NoEvent /\ at' \in {at, "waiting", "blocked"}
        /\ at' = "stopped" => reported' = reported
        /\ at' = at => lastEvent # NoEvent
    BY DEF ContinueAndWait, Idle, Exits
  <1>2. at' # "none"
    BY <1>1 DEF Inv, StoppedThread
  <1>3. /\ DOMAIN handles' \subseteq DOMAIN os
        /\ \A h \in DOMAIN handles' : handles'[h] = os[h]
        /\ DOMAIN reported' \subseteq DOMAIN reported
        /\ \A t \in DOMAIN reported' : reported'[t] = reported[t]
    BY DEF ContinueAndWait, Without
  <1>4. at' # "blocked" /\ ~closedTwice' => ~closedTwice /\ DOMAIN handles' = DOMAIN os
    BY DEF ContinueAndWait, Without, Exits
  <1>5. TypeOK'
    BY <1>1, <1>3 DEF Inv, TypeOK, NoEvent, Idle
  <1>6. Sync'
    BY <1>3 DEF Inv, Sync
  <1>7. StoppedThread'
    BY <1>1, <1>2 DEF Inv, StoppedThread, Idle
  <1>8. TableIsTrue'
    BY <1>3, <1>4 DEF TableIsTrue, Reached
  <1>9. QED
    BY <1>5, <1>6, <1>7, <1>8 DEF Inv

LEMMA GoInv ==
  ASSUME Inv, Go
  PROVE  Inv'
  <1>1. /\ Idle /\ ContinueAndWait(handles)
        /\ UNCHANGED <<threads, mainThread, activeTid, live, used, opens>>
    BY DEF Go
  <1>2. ~closedTwice => \A t \in DOMAIN threads : Reached(threads[t], handles) = t
    BY <1>1 DEF Inv, TableIsTrue, Idle
  <1>3. QED
    BY <1>1, <1>2, ContinueInv DEF Inv, TypeOK

LEMMA PauseInv ==
  ASSUME Inv, Pause
  PROVE  Inv'
  BY DEF Pause, osVars, Inv, TypeOK, Sync, StoppedThread, TableIsTrue

LEMMA RefreshInv ==
  ASSUME Inv, Refresh
  PROVE  Inv'
  <1>1. PICK r \in Refreshed : threads' = r.threads /\ handles' = r.handles
    BY DEF Refresh
  <1>2. /\ at = "stopped"
        /\ UNCHANGED <<mainThread, activeTid, lastEvent, at, live, reported, closedTwice, used, opens>>
    BY DEF Refresh
  <1>3. /\ DOMAIN r.threads \subseteq Tids /\ \A t \in DOMAIN r.threads : r.threads[t] \in Handles
        /\ DOMAIN r.handles \subseteq Handles /\ \A h \in DOMAIN r.handles : r.handles[h] \in Tids
        /\ \A t \in live \intersect DOMAIN threads :
             t \in DOMAIN r.threads /\ r.threads[t] = threads[t]
        /\ ~closedTwice => \A t \in DOMAIN r.threads : Reached(r.threads[t], r.handles) = t
    BY <1>2, RefreshedAtStop
  <1>4. TypeOK' /\ Sync' /\ StoppedThread' /\ TableIsTrue'
    BY <1>1, <1>2, <1>3 DEF Inv, TypeOK, Sync, StoppedThread, TableIsTrue
  <1>5. QED
    BY <1>4 DEF Inv

LEMMA StepInv ==
  ASSUME Inv, Step
  PROVE  Inv'
  <1>1. PICK r \in Refreshed : threads' = r.threads /\ ContinueAndWait(r.handles)
    BY DEF Step
  <1>2. at = "stopped" /\ Idle /\ UNCHANGED <<mainThread, activeTid, live, used, opens>>
    BY DEF Step, Idle
  <1>3. /\ DOMAIN r.threads \subseteq Tids /\ \A t \in DOMAIN r.threads : r.threads[t] \in Handles
        /\ DOMAIN r.handles \subseteq Handles /\ \A h \in DOMAIN r.handles : r.handles[h] \in Tids
        /\ \A t \in live \intersect DOMAIN threads :
             t \in DOMAIN r.threads /\ r.threads[t] = threads[t]
        /\ ~closedTwice => \A t \in DOMAIN r.threads : Reached(r.threads[t], r.handles) = t
    BY <1>2, RefreshedAtStop
  <1>4. QED
    BY <1>1, <1>2, <1>3, ContinueInv

-------------------------------------------------------------------------------
LEMMA NextInv == Inv /\ [Next]_vars => Inv'
  <1> SUFFICES ASSUME Inv, [Next]_vars PROVE Inv'
    OBVIOUS
  <1>1. CASE \E t \in Tids : Launch(t) \/ ThreadStarts(t)
    BY <1>1, LaunchInv, ThreadStartsInv
  <1>2. CASE \E ts \in SUBSET Tids : Attach(ts)
    BY <1>2, AttachInv
  <1>3. CASE \E t \in Tids : CreateProcess(t) \/ CreateThread(t) \/ OtherEvent(t)
    BY <1>3, CreateProcessInv, CreateThreadInv, OtherEventInv
  <1>4. CASE \E t \in Tids : ExitThread(t) \/ ExitProcess(t)
    BY <1>4, ExitThreadInv, ExitProcessInv
  <1>5. CASE Detach \/ OpenFails
    BY <1>5, DetachInv
  <1>6. CASE Go \/ Pause
    BY <1>6, GoInv, PauseInv
  <1>7. CASE Refresh \/ Step
    BY <1>7, RefreshInv, StepInv
  <1>8. CASE UNCHANGED vars
    BY <1>8 DEF vars, stateVars, osVars, Inv, TypeOK, Sync, StoppedThread, TableIsTrue
  <1>9. QED
    BY <1>1, <1>2, <1>3, <1>4, <1>5, <1>6, <1>7, <1>8 DEF Next

(* Who is stopped was reported, and is listed as long as it lives.           *)
LEMMA ActiveListed ==
  ASSUME Inv, at = "stopped", activeTid \in live
  PROVE  activeTid \in DOMAIN threads
  <1>1. activeTid \in DOMAIN reported
    BY DEF Inv, StoppedThread
  <1>2. QED
    BY <1>1 DEF Inv, Sync

THEOREM Invariance == Spec => []Inv
  BY InitInv, NextInv, PTL DEF Spec

(* Handles are numbers of the table, and who is listed is a thread, in any   *)
(* state (winapi_impl.rs:50-86).                                             *)
THEOREM TypeCorrect == Spec => []TypeOK
  <1>1. Inv => TypeOK
    BY DEF Inv
  <1>2. QED
    BY <1>1, Invariance, PTL

(* Every handle in the table is open and stands for its thread, for any      *)
(* client, until Windows closes a number that was opened again               *)
(* (winapi_impl.rs:160-206,236-259).                                         *)
THEOREM TableStaysTrue == Spec => []TableIsTrue
  <1>1. Inv => TableIsTrue
    BY DEF Inv
  <1>2. QED
    BY <1>1, Invariance, PTL

(* The registers that a request reaches are those of the thread that         *)
(* stopped, whatever the refresh before it finds: that thread was reported,  *)
(* so it is listed, in every snapshot, and its handle is kept                *)
(* (winapi_impl.rs:208-219,386-406).                                         *)
THEOREM RegistersAreOfStopped == Spec => []RegistersOfStopped
  <1>1. ASSUME Inv, at = "stopped", lastEvent.tid \in live, ~closedTwice, NEW r \in Refreshed
        PROVE  Reached(ActiveHandle(r.threads), r.handles) = lastEvent.tid
    <2>0. live \subseteq Tids /\ NoEvent.tid = None
      BY <1>1 DEF Inv, TypeOK, NoEvent
    <2>1. lastEvent # NoEvent
      BY <1>1, <2>0, ThreadsAssumption
    <2>2. activeTid = lastEvent.tid
      BY <1>1, <2>1 DEF Inv, StoppedThread
    <2>3. activeTid \in live \intersect DOMAIN threads
      BY <1>1, <2>2, ActiveListed
    <2>4. activeTid \in DOMAIN r.threads /\ Reached(r.threads[activeTid], r.handles) = activeTid
      BY <1>1, <2>3, RefreshedAtStop
    <2>5. QED
      BY <2>2, <2>4 DEF ActiveHandle
  <1>2. Inv => RegistersOfStopped
    <2>1. SUFFICES ASSUME Inv, at = "stopped", lastEvent.tid \in live, ~closedTwice
                   PROVE  \A r \in Refreshed : Reached(ActiveHandle(r.threads), r.handles) = lastEvent.tid
      BY DEF RegistersOfStopped
    <2>2. QED
      BY <1>1, <2>1
  <1>3. QED
    BY <1>2, Invariance, PTL

(* The thread of an event is active, and listed as long as it lives          *)
(* (winapi_impl.rs:227,236-259).                                             *)
THEOREM EventThreadStaysListed == Spec => []EventThreadListed
  <1>1. Inv => EventThreadListed
    <2>1. ASSUME Inv, at = "stopped", lastEvent # NoEvent PROVE activeTid = lastEvent.tid
      BY <2>1 DEF Inv, StoppedThread
    <2>2. QED
      BY <2>1, ActiveListed DEF EventThreadListed
  <1>2. QED
    BY <1>1, Invariance, PTL
===============================================================================
