------------------------ MODULE GatewayTriggerProofs ------------------------
(***************************************************************************)
(* Proofs about GatewayTrigger, for any number of requests, exams, classes, *)
(* app-server processes and faults.                                        *)
(*                                                                         *)
(* Everything rests on two exclusions.  A request that works on an exam is *)
(* the one in _TRIGGER_INFLIGHT, and the exam has then no receipt: so a    *)
(* turn that is started uses up the one turn the exam may have.  And from  *)
(* the moment it holds the lock of its class until it ends, no other       *)
(* request of the class looks at threads.json: so a class that had no      *)
(* thread when the request looked has none when it saves its own.          *)
(***************************************************************************)
EXTENDS GatewayTrigger, FiniteSetTheorems, TLAPS

\* The steps of a request under the lock of its class, and from the start.
Locking == {"bridge", "join", "spawn", "thread", "start", "resume", "turn"}
Working == {"lock"} \cup Locking

\* The caches say who works on an exam, and the lock who works for a class.
Caches ==
    /\ \A q \in Reqs : pc[q] # "new" => exam[q] \in Exams
    /\ \A q \in Reqs : pc[q] \in Working => inflight[exam[q]] = q
    /\ \A q \in Reqs : pc[q] \in Locking => lock[Class(q)] = q
    /\ \A e \in Exams : inflight[e] # None => e \notin recent

\* Every turn of an exam is accounted for by its receipt or by an excuse.
Accounted ==
    \A e \in Exams :
        turns[e] <= (IF e \in recent THEN 1 ELSE 0) + expired[e] + excused[e]

\* A request that starts a thread does so for a class that has none.
Threadless == \A q \in Reqs : pc[q] = "start" => map[Class(q)] = 0

\* A process that runs is the registered one, or the one being spawned.
Running ==
    /\ \A b \in Procs : proc[b] = "up" => bridge = b
    /\ \A b \in Procs : proc[b] = "starting" => spawner # None /\ using[spawner] = b
    /\ spawner # None => bridge = 0
    /\ \A q \in Reqs : pc[q] = "spawn" => spawner = q

Inv == TypeOK /\ Caches /\ Accounted /\ Threadless /\ Running

-----------------------------------------------------------------------------
(* TypeOK, part by part. *)

ReqT ==
    /\ pc \in [Reqs -> PCs]
    /\ exam \in [Reqs -> Exams \cup {None}]
    /\ follows \in [Reqs -> Reqs \cup {None}]

CacheT ==
    /\ recent \subseteq Exams
    /\ inflight \in [Exams -> Reqs \cup {None}]
    /\ lock \in [Classes -> Reqs \cup {None}]

BridgeT ==
    /\ bridge \in Procs \cup {0}
    /\ spawner \in Reqs \cup {None}
    /\ proc \in [Procs -> ProcStates]
    /\ using \in [Reqs -> Procs \cup {0}]

ThreadT ==
    /\ map \in [Classes -> ThreadIds]
    /\ loaded \in [Procs -> SUBSET ThreadIds]
    /\ made \in ThreadIds

CountT ==
    /\ turns \in [Exams -> Nat]
    /\ expired \in [Exams -> Nat] /\ excused \in [Exams -> Nat]
    /\ faults \in 0..MaxFaults

\* TypeOK is the conjunction of its parts.
LEMMA Parts ==
    /\ TypeOK <=> ReqT /\ CacheT /\ BridgeT /\ ThreadT /\ CountT /\ torn \in BOOLEAN
    /\ TypeOK' <=>
          ReqT' /\ CacheT' /\ BridgeT' /\ ThreadT' /\ CountT' /\ torn' \in BOOLEAN
BY Zenon DEF TypeOK, ReqT, CacheT, BridgeT, ThreadT, CountT

\* The initial state.
LEMMA InitInv == Init => Inv
<1> SUFFICES ASSUME Init PROVE Inv
  OBVIOUS
<1>1. ReqT /\ CacheT /\ BridgeT /\ ThreadT /\ CountT
  BY BoundsAssumption DEF Init, ReqT, CacheT, BridgeT, ThreadT, CountT, PCs, ProcStates,
     ThreadIds
<1>2. torn \in BOOLEAN
  BY Zenon DEF Init
<1>3. TypeOK
  BY <1>1, <1>2, Parts
<1>4. Caches /\ Accounted /\ Threadless /\ Running
  BY BoundsAssumption DEF Init, Caches, Accounted, Threadless, Running, Working, Locking
<1> QED
  BY <1>3, <1>4 DEF Inv

-----------------------------------------------------------------------------
(* What the kinds of steps of one request preserve. *)

\* A request that moves on, its exam and the caches unchanged.
LEMMA MoveKeeps ==
    ASSUME ReqT, Caches, NEW q \in Reqs, pc[q] \in Locking,
           NEW s \in Locking, pc' = [pc EXCEPT ![q] = s],
           UNCHANGED <<exam, cacheVars>>
    PROVE  Caches'
BY DEF ReqT, Caches, Class, Working, Locking, cacheVars

\* A request that ends gives up its exam and its lock, and nobody else's.
LEMMA EndKeeps ==
    ASSUME ReqT, CacheT, Caches, NEW q \in Reqs, pc[q] \in Locking,
           NEW s \in Ended, End(q, s)
    PROVE  ReqT' /\ CacheT' /\ Caches'
<1>1. exam[q] \in Exams /\ Class(q) \in Classes
  BY ClassOfAssumption DEF Caches, Class, Locking
<1>2. ReqT' /\ CacheT'
  BY <1>1 DEF ReqT, CacheT, End, Goto, Ended, PCs
<1>3. \A r \in Reqs : pc'[r] # "new" => exam'[r] \in Exams
  BY <1>1 DEF ReqT, Caches, End, Goto
<1>4. \A r \in Reqs : pc'[r] \in Working =>
        r # q /\ pc[r] \in Working /\ exam'[r] \in Exams /\ exam'[r] # exam[q]
  BY <1>1, <1>3 DEF ReqT, Caches, End, Goto, Working, Locking, Ended
<1>5. \A r \in Reqs : pc'[r] \in Working => inflight'[exam'[r]] = r
  BY <1>1, <1>4 DEF CacheT, Caches, End
<1>6. \A r \in Reqs : pc'[r] \in Locking => lock'[Class(r)'] = r
  <2> SUFFICES ASSUME NEW r \in Reqs, pc'[r] \in Locking PROVE lock'[Class(r)'] = r
    OBVIOUS
  <2>1. r # q /\ pc[r] \in Locking /\ exam[r] \in Exams /\ Class(r)' = Class(r)
    BY <1>4 DEF ReqT, Caches, End, Goto, Working, Locking, Ended, Class
  <2>2. lock[Class(r)] = r /\ lock[Class(q)] = q /\ Class(r) \in Classes
    BY <2>1, ClassOfAssumption DEF Caches, Class
  <2> QED
    BY <1>1, <2>1, <2>2 DEF End, CacheT
<1>7. \A e \in Exams : inflight'[e] # None => e \notin recent'
  BY <1>1 DEF CacheT, Caches, End
<1> QED
  BY <1>2, <1>3, <1>5, <1>6, <1>7 DEF Caches

\* A failed request leaves the receipts alone, ...
LEMMA FailKeeps ==
    ASSUME Accounted, NEW q \in Reqs, End(q, "failed"), UNCHANGED <<turns, expired, excused>>
    PROVE  Accounted'
BY DEF Accounted, End

\* ... and no request that ends or moves elsewhere is about to start a thread.
LEMMA ThreadlessKept ==
    ASSUME ReqT, Caches, Threadless, UNCHANGED <<exam, map>>,
           NEW q \in Reqs, NEW s \in PCs, pc' = [pc EXCEPT ![q] = s], s # "start"
    PROVE  Threadless'
BY DEF ReqT, Threadless, Class

\* The processes do not change when no request leaves or enters the spawn.
LEMMA RunningKept ==
    ASSUME ReqT, Running, UNCHANGED bridgeVars,
           NEW q \in Reqs, NEW s \in PCs, pc' = [pc EXCEPT ![q] = s], s # "spawn"
    PROVE  Running'
BY DEF ReqT, Running, bridgeVars


-----------------------------------------------------------------------------
(* The actions. *)

\* A request arrives; it works on its exam only if nobody else does.
LEMMA ArriveInv ==
    ASSUME Inv, NEW q \in Reqs, NEW e \in Exams, Arrive(q, e)
    PROVE  Inv'
<1>1. ReqT /\ CacheT /\ BridgeT /\ ThreadT /\ CountT /\ torn \in BOOLEAN
  BY Parts DEF Inv
<1>2. /\ UNCHANGED <<recent, lock, turns, expired, excused, faults>>
      /\ UNCHANGED <<bridgeVars, threadVars>> /\ torn' = torn
  BY Zenon DEF Arrive, histVars
<1>3. PICK s \in {"done", "follow", "lock"} : pc' = [pc EXCEPT ![q] = s]
  BY DEF Arrive, Goto
<1>4. pc[q] = "new" /\ exam' = [exam EXCEPT ![q] = e]
  BY DEF Arrive, At
<1>5. ReqT' /\ CacheT' /\ BridgeT' /\ ThreadT' /\ CountT'
  BY <1>1, <1>2, <1>3 DEF Arrive, ReqT, CacheT, BridgeT, ThreadT, CountT, bridgeVars,
     threadVars, PCs
<1>6. torn' \in BOOLEAN
  BY <1>1, <1>2, Zenon
<1>7. Caches'
  <2>1. ASSUME NEW r \in Reqs, r # q
        PROVE  pc'[r] = pc[r] /\ exam'[r] = exam[r] /\ Class(r)' = Class(r)
    BY <1>1, <1>3, <1>4, <2>1 DEF ReqT, Class
  <2>2. pc'[q] \notin Locking /\ exam'[q] = e
    BY <1>1, <1>3, <1>4 DEF ReqT, Locking
  <2>3. \A r \in Reqs : pc'[r] # "new" => exam'[r] \in Exams
    BY <2>1, <2>2 DEF Inv, Caches
  <2>4. \A r \in Reqs : pc'[r] \in Locking => lock'[Class(r)'] = r
    BY <1>2, <2>1, <2>2 DEF Inv, Caches
  <2>5. CASE e \notin recent /\ inflight[e] = None
    <3>1. inflight' = [inflight EXCEPT ![e] = q]
      BY <2>5 DEF Arrive
    <3>2. \A r \in Reqs : pc'[r] \in Working => inflight'[exam'[r]] = r
      BY <1>1, <2>1, <2>2, <2>3, <2>5, <3>1, NoneIsFresh
         DEF Inv, Caches, CacheT, Working, Locking
    <3>3. \A f \in Exams : inflight'[f] # None => f \notin recent'
      BY <1>1, <1>2, <2>5, <3>1 DEF Inv, Caches, CacheT
    <3> QED
      BY <2>3, <2>4, <3>2, <3>3 DEF Caches
  <2>6. CASE ~(e \notin recent /\ inflight[e] = None)
    <3>1. inflight' = inflight /\ pc'[q] \notin Working
      BY <1>1, <2>6 DEF Arrive, Goto, ReqT, Working, Locking
    <3> QED
      BY <1>2, <2>1, <2>3, <2>4, <3>1 DEF Inv, Caches
  <2> QED
    BY <2>5, <2>6
<1>8. Accounted'
  BY <1>2 DEF Inv, Accounted
<1>9. Threadless' /\ Running'
  BY <1>1, <1>2, <1>3, <1>4 DEF Inv, Threadless, Running, ReqT, Class, threadVars,
     bridgeVars
<1> QED
  BY <1>5, <1>6, <1>7, <1>8, <1>9, Parts DEF Inv

\* The steps that only move a request: a shared outcome, the lock, a bridge
\* that is there, the look into threads.json.
LEMMA MoveInv ==
    ASSUME Inv, NEW q \in Reqs,
           Follow(q) \/ TakeLock(q) \/ UseBridge(q) \/ LoadMap(q)
    PROVE  Inv'
<1>1. ReqT /\ CacheT /\ BridgeT /\ ThreadT /\ CountT /\ torn \in BOOLEAN
      /\ Caches /\ Accounted /\ Threadless /\ Running
  BY Parts DEF Inv
<1>2. /\ UNCHANGED <<exam, follows, recent, inflight, turns, expired, excused, faults>>
      /\ UNCHANGED <<bridge, spawner, proc, threadVars>> /\ torn' = torn
  BY Zenon DEF Follow, TakeLock, UseBridge, LoadMap, cacheVars, bridgeVars, histVars
<1>3. PICK s \in PCs : pc' = [pc EXCEPT ![q] = s] /\ s # "spawn"
  <2>1. CASE Follow(q)
    BY <2>1 DEF Follow, Goto, Ended, PCs
  <2>2. CASE TakeLock(q) \/ UseBridge(q)
    BY <2>2 DEF TakeLock, UseBridge, Goto, PCs
  <2>3. CASE LoadMap(q)
    BY <2>3 DEF LoadMap, Goto, PCs
  <2> QED
    BY <2>1, <2>2, <2>3
<1>4. /\ lock' = lock \/ (TakeLock(q) /\ lock' = [lock EXCEPT ![Class(q)] = q])
      /\ using' = using \/ using' = [using EXCEPT ![q] = bridge]
  BY DEF Follow, TakeLock, UseBridge, LoadMap, cacheVars, bridgeVars
<1>5. ReqT' /\ CacheT' /\ BridgeT' /\ ThreadT' /\ CountT'
  BY <1>1, <1>2, <1>3, <1>4 DEF ReqT, CacheT, BridgeT, ThreadT, CountT, threadVars
<1>6. torn' \in BOOLEAN
  BY <1>1, <1>2, Zenon
<1>7. Caches'
  <2>1. CASE UseBridge(q) \/ LoadMap(q)
    <3>1. pc[q] \in Locking /\ UNCHANGED cacheVars
      BY <2>1 DEF UseBridge, LoadMap, At, Locking
    <3>2. \E l \in Locking : pc' = [pc EXCEPT ![q] = l]
      BY <2>1 DEF UseBridge, LoadMap, Goto, Locking
    <3> QED
      BY <1>1, <1>2, <3>1, <3>2, MoveKeeps
  <2>2. CASE TakeLock(q)
    <3>1. pc[q] = "lock" /\ pc' = [pc EXCEPT ![q] = "bridge"] /\ lock[Class(q)] = None
          /\ lock' = [lock EXCEPT ![Class(q)] = q]
      BY <2>2 DEF TakeLock, At, Goto
    <3>2. \A r \in Reqs : pc[r] \in Locking => Class(r) # Class(q)
      BY <1>1, <3>1, NoneIsFresh DEF Caches
    <3>3. Class(q) \in Classes /\ exam' = exam
      BY <1>1, <1>2, <3>1, ClassOfAssumption DEF Caches, Class
    <3> QED
      BY <1>1, <1>2, <3>1, <3>2, <3>3 DEF Caches, Class, ReqT, CacheT, Working, Locking
  <2>3. CASE Follow(q)
    <3>1. /\ UNCHANGED cacheVars /\ pc[q] = "follow"
          /\ \E o \in Ended : pc' = [pc EXCEPT ![q] = o]
      BY <2>3 DEF Follow, At, Goto
    <3> QED
      BY <1>1, <1>2, <3>1 DEF Caches, Class, ReqT, cacheVars, Working, Locking, Ended
  <2> QED
    BY <2>1, <2>2, <2>3
<1>8. Accounted'
  BY <1>1, <1>2 DEF Accounted
<1>9. Threadless'
  <2>1. CASE LoadMap(q)
    BY <1>1, <1>2, <2>1 DEF LoadMap, Goto, Threadless, ReqT, Class, threadVars
  <2>2. CASE ~LoadMap(q)
    <3>1. s # "start"
      BY <1>1, <1>3, <2>2 DEF Follow, TakeLock, UseBridge, Goto, Ended, ReqT
    <3> QED
      BY <1>1, <1>2, <1>3, <3>1, ThreadlessKept DEF threadVars
  <2> QED
    BY <2>1, <2>2
<1>10. Running'
  <2>1. spawner # None => bridge = 0 /\ bridge' = 0
    BY <1>1, <1>2 DEF Running
  <2>2. UNCHANGED using \/ (UseBridge(q) /\ IsAlive(bridge))
    BY DEF Follow, TakeLock, UseBridge, LoadMap, bridgeVars
  <2> QED
    BY <1>1, <1>2, <1>3, <1>4, <2>1, <2>2 DEF Running, ReqT, BridgeT, IsAlive
<1> QED
  BY <1>5, <1>6, <1>7, <1>8, <1>9, <1>10, Parts DEF Inv


\* A dead bridge is dropped, and one request alone spawns the next.
LEMMA SpawnOrJoinInv ==
    ASSUME Inv, NEW q \in Reqs, SpawnOrJoin(q)
    PROVE  Inv'
<1> DEFINE live == IF bridge = 0 THEN proc ELSE [proc EXCEPT ![bridge] = "stopped"]
           fresh == {b \in Procs : proc[b] = "none"}
           b0 == CHOOSE x \in fresh : TRUE
<1>1. ReqT /\ CacheT /\ BridgeT /\ ThreadT /\ CountT /\ torn \in BOOLEAN
      /\ Caches /\ Accounted /\ Threadless /\ Running
  BY Parts DEF Inv
<1>2. /\ UNCHANGED <<exam, cacheVars, threadVars, turns, expired, excused, faults>>
      /\ torn' = torn /\ bridge' = 0
  BY Zenon DEF SpawnOrJoin, histVars
<1>3. pc[q] = "bridge" /\ ~IsAlive(bridge)
  BY DEF SpawnOrJoin, At
<1>4. PICK s \in {"join", "spawn"} : pc' = [pc EXCEPT ![q] = s]
  BY DEF SpawnOrJoin, Goto
<1>5. /\ live \in [Procs -> ProcStates]
      /\ \A b \in Procs : live[b] # "up"
      /\ \A b \in Procs : live[b] = "starting" => proc[b] = "starting"
  <2>1. CASE bridge = 0
    BY <1>1, <2>1 DEF BridgeT, Running, Procs
  <2>2. CASE bridge # 0
    <3>1. bridge \in Procs /\ proc[bridge] # "up"
      BY <1>1, <1>3, <2>2 DEF BridgeT, IsAlive
    <3>2. live = [proc EXCEPT ![bridge] = "stopped"]
      BY <2>2
    <3> HIDE DEF live
    <3> QED
      BY <1>1, <3>1, <3>2 DEF BridgeT, ProcStates, Running
  <2> QED
    BY <2>1, <2>2
<1>6. \/ /\ spawner # None /\ proc' = live /\ UNCHANGED <<spawner, using>> /\ s = "join"
         /\ follows' = [follows EXCEPT ![q] = spawner]
      \/ /\ spawner = None /\ fresh # {} /\ s = "spawn" /\ spawner' = q
         /\ proc' = [live EXCEPT ![b0] = "starting"]
         /\ using' = [using EXCEPT ![q] = b0] /\ UNCHANGED follows
  BY <1>1, <1>4 DEF SpawnOrJoin, Goto, ReqT
<1>7. fresh # {} => b0 \in Procs
  OBVIOUS
<1> HIDE DEF live, fresh, b0
<1>8. ReqT' /\ CacheT' /\ ThreadT' /\ CountT'
  BY <1>1, <1>2, <1>4, <1>6 DEF ReqT, BridgeT, CacheT, ThreadT, CountT, cacheVars,
     threadVars, PCs
<1>9. BridgeT'
  BY <1>1, <1>2, <1>5, <1>6, <1>7 DEF BridgeT, ProcStates
<1>10. torn' \in BOOLEAN
  BY <1>1, <1>2, Zenon
<1>11. Caches'
  BY <1>1, <1>2, <1>3, <1>4, MoveKeeps DEF Locking
<1>12. Accounted' /\ Threadless'
  BY <1>1, <1>2, <1>4 DEF Accounted, Threadless, ReqT, Class, cacheVars, threadVars
<1>13. Running'
  <2>1. CASE s = "join"
    BY <1>1, <1>2, <1>4, <1>5, <1>6, <2>1 DEF Running, ReqT, BridgeT
  <2>2. CASE s = "spawn"
    <3>1. spawner = None /\ \A b \in Procs : live[b] # "starting"
      BY <1>1, <1>5, <1>6, <2>2 DEF Running
    <3>2. \A r \in Reqs : pc[r] # "spawn"
      BY <1>1, <3>1, NoneIsFresh DEF Running
    <3> QED
      BY <1>1, <1>2, <1>4, <1>5, <1>6, <1>7, <2>2, <3>1, <3>2, NoneIsFresh
         DEF Running, ReqT, BridgeT
  <2> QED
    BY <2>1, <2>2
<1> QED
  BY <1>8, <1>9, <1>10, <1>11, <1>12, <1>13, Parts DEF Inv

\* The process is registered, and the requests that joined use it too.
LEMMA SpawnedInv ==
    ASSUME Inv, NEW q \in Reqs, Spawned(q)
    PROVE  Inv'
<1>1. ReqT /\ CacheT /\ BridgeT /\ ThreadT /\ CountT /\ torn \in BOOLEAN
      /\ Caches /\ Accounted /\ Threadless /\ Running
  BY Parts DEF Inv
<1>2. /\ UNCHANGED <<exam, follows, cacheVars, threadVars, turns, expired, excused, faults>>
      /\ torn' = torn
  BY Zenon DEF Spawned, histVars
<1>3. pc[q] = "spawn" /\ pc' = [pc EXCEPT ![q] = "thread"] /\ spawner = q
  BY <1>1 DEF Spawned, At, Goto, Running
<1>4. ReqT' /\ CacheT' /\ ThreadT' /\ CountT' /\ BridgeT'
  BY <1>1, <1>2, <1>3 DEF Spawned, ReqT, BridgeT, CacheT, ThreadT, CountT, cacheVars,
     threadVars, PCs, ProcStates
<1>5. torn' \in BOOLEAN
  BY <1>1, <1>2, Zenon
<1>6. Caches'
  BY <1>1, <1>2, <1>3, MoveKeeps DEF Locking
<1>7. Accounted' /\ Threadless'
  BY <1>1, <1>2, <1>3 DEF Accounted, Threadless, ReqT, Class, cacheVars, threadVars
<1>8. Running'
  <2>1. \A b \in Procs : proc[b] # "up"
    BY <1>1, <1>3, NoneIsFresh DEF Running, Procs
  <2>2. \A b \in Procs : proc[b] = "starting" => b = using[q]
    BY <1>1, <1>3 DEF Running
  <2>3. \A r \in Reqs : pc'[r] # "spawn"
    BY <1>1, <1>3 DEF Running, ReqT
  <2> QED
    BY <1>1, <2>1, <2>2, <2>3 DEF Spawned, Running, BridgeT
<1> QED
  BY <1>4, <1>5, <1>6, <1>7, <1>8, Parts DEF Inv


\* The spawn, the join, or thread/start and thread/resume fail.
LEMMA FailsInv ==
    ASSUME Inv, NEW q \in Reqs,
           SpawnFails(q) \/ ThreadFails(q) \/ (Joined(q) /\ End(q, "failed"))
    PROVE  Inv'
<1>1. ReqT /\ CacheT /\ BridgeT /\ ThreadT /\ CountT /\ torn \in BOOLEAN
      /\ Caches /\ Accounted /\ Threadless /\ Running
  BY Parts DEF Inv
<1>2. /\ UNCHANGED <<threadVars, turns, expired, excused, bridge>> /\ torn' = torn
      /\ End(q, "failed")
  BY Zenon DEF SpawnFails, ThreadFails, Joined, bridgeVars, histVars
<1>3. pc[q] \in Locking
  BY DEF SpawnFails, ThreadFails, Joined, At, Locking
<1>4. ReqT' /\ CacheT' /\ Caches' /\ Accounted'
  BY <1>1, <1>2, <1>3, EndKeeps, FailKeeps DEF Ended
<1>5. CountT'
  <2>1. faults' = faults \/ (faults < MaxFaults /\ faults' = faults + 1)
    BY DEF SpawnFails, ThreadFails, Joined, Fault, histVars
  <2> QED
    BY <1>1, <1>2, <2>1, BoundsAssumption DEF CountT
<1>6. ThreadT' /\ Threadless'
  <2>1. pc' = [pc EXCEPT ![q] = "failed"] /\ UNCHANGED <<exam, map>>
    BY <1>2 DEF End, Goto, threadVars
  <2> QED
    BY <1>1, <1>2, <2>1, ThreadlessKept DEF ThreadT, threadVars, PCs
<1>7. torn' \in BOOLEAN
  BY <1>1, <1>2, Zenon
<1>8. BridgeT' /\ Running'
  <2>1. CASE SpawnFails(q)
    <3>1. PICK s \in {"stopped", "leaked"} : proc' = [proc EXCEPT ![using[q]] = s]
      BY <2>1 DEF SpawnFails
    <3>2. spawner = q /\ spawner' = None /\ using' = [using EXCEPT ![q] = 0]
      BY <1>1, <2>1 DEF SpawnFails, At, Running
    <3>3. BridgeT'
      BY <1>1, <1>2, <3>1, <3>2 DEF BridgeT, ProcStates
    <3>4. pc' = [pc EXCEPT ![q] = "failed"]
      BY <1>2 DEF End, Goto
    <3>5. \A b \in Procs : proc'[b] # "starting" /\ proc'[b] # "up"
      BY <1>1, <3>1, <3>2, NoneIsFresh DEF Running, BridgeT, Procs
    <3>6. \A r \in Reqs : pc'[r] # "spawn"
      BY <1>1, <3>2, <3>4 DEF Running, ReqT
    <3> QED
      BY <3>2, <3>3, <3>5, <3>6 DEF Running
  <2>2. CASE ~SpawnFails(q)
    <3>1. UNCHANGED bridgeVars /\ pc' = [pc EXCEPT ![q] = "failed"]
      BY <1>2, <2>2 DEF ThreadFails, Joined, End, Goto
    <3>2. BridgeT'
      BY <1>1, <3>1 DEF BridgeT, bridgeVars
    <3> QED
      BY <1>1, <3>1, <3>2, RunningKept DEF PCs
  <2> QED
    BY <2>1, <2>2
<1> QED
  BY <1>4, <1>5, <1>6, <1>7, <1>8, Parts DEF Inv

\* The spawn that was joined succeeded, and the class gets a thread, or has
\* its thread resumed: the lock keeps the others of the class away.
LEMMA ThreadInv ==
    ASSUME Inv, NEW q \in Reqs,
           (Joined(q) /\ ~End(q, "failed")) \/ Started(q) \/ Resumed(q)
    PROVE  Inv'
<1>1. ReqT /\ CacheT /\ BridgeT /\ ThreadT /\ CountT /\ torn \in BOOLEAN
      /\ Caches /\ Accounted /\ Threadless /\ Running
  BY Parts DEF Inv
<1>2. /\ UNCHANGED <<exam, follows, cacheVars, bridgeVars, turns, expired, excused, faults>>
      /\ torn' = torn
  BY Zenon DEF Joined, Started, Resumed, histVars
<1>3. pc[q] \in Locking
  BY DEF Joined, Started, Resumed, At, Locking
<1>4. PICK s \in {"thread", "turn"} : pc' = [pc EXCEPT ![q] = s]
  BY Zenon DEF Joined, Started, Resumed, Goto
<1>5. exam[q] \in Exams /\ Class(q) \in Classes
  BY <1>1, <1>3, ClassOfAssumption DEF Caches, Class, Locking
<1>6. ReqT' /\ CacheT' /\ BridgeT' /\ CountT'
  BY <1>1, <1>2, <1>4 DEF ReqT, CacheT, BridgeT, CountT, cacheVars, bridgeVars, PCs
<1>7. ThreadT'
  BY <1>1, <1>5 DEF Joined, Started, Resumed, ThreadT, threadVars, ThreadIds
<1>8. torn' \in BOOLEAN
  BY <1>1, <1>2, Zenon
<1>9. Caches'
  BY <1>1, <1>2, <1>3, <1>4, MoveKeeps DEF Locking
<1>10. Accounted'
  BY <1>1, <1>2 DEF Accounted, cacheVars
<1>11. Running'
  BY <1>1, <1>2, <1>4, RunningKept DEF PCs
<1>12. Threadless'
  <2>1. CASE Started(q)
    <3>1. ASSUME NEW r \in Reqs, pc'[r] = "start"
          PROVE  r # q /\ pc[r] = "start" /\ Class(r)' = Class(r) /\ Class(r) # Class(q)
      BY <1>1, <1>2, <1>3, <1>4, <3>1 DEF ReqT, Class, Caches, Locking
    <3> QED
      BY <1>1, <2>1, <3>1 DEF Started, Threadless, ThreadT
  <2>2. CASE ~Started(q)
    <3>1. map' = map
      BY <2>2 DEF Joined, Resumed, threadVars
    <3> QED
      BY <1>1, <1>2, <1>4, <3>1, ThreadlessKept DEF PCs
  <2> QED
    BY <2>1, <2>2
<1> QED
  BY <1>6, <1>7, <1>8, <1>9, <1>10, <1>11, <1>12, Parts DEF Inv

\* A turn is started, or its start fails: the exam has no receipt yet.
LEMMA TurnInv ==
    ASSUME Inv, NEW q \in Reqs, TurnStarted(q) \/ TurnFails(q)
    PROVE  Inv'
<1>1. ReqT /\ CacheT /\ BridgeT /\ ThreadT /\ CountT /\ torn \in BOOLEAN
      /\ Caches /\ Accounted /\ Threadless /\ Running
  BY Parts DEF Inv
<1>2. UNCHANGED <<bridgeVars, threadVars>> /\ torn' = torn
  BY Zenon DEF TurnStarted, TurnFails
<1>3. PICK s \in Ended : End(q, s)
  BY Zenon DEF TurnStarted, TurnFails, Ended
<1>4. pc[q] \in Locking /\ pc' = [pc EXCEPT ![q] = s] /\ UNCHANGED exam
  BY <1>3 DEF TurnStarted, TurnFails, At, Locking, End, Goto
<1>5. ReqT' /\ CacheT' /\ Caches'
  BY <1>1, <1>3, <1>4, EndKeeps
<1>6. BridgeT' /\ ThreadT'
  BY <1>1, <1>2 DEF BridgeT, ThreadT, bridgeVars, threadVars
<1>7. CountT'
  BY <1>1, BoundsAssumption DEF TurnStarted, TurnFails, CountT
<1>8. torn' \in BOOLEAN
  BY <1>1, <1>2, Zenon
<1>9. exam[q] \in Exams /\ exam[q] \notin recent
  BY <1>1, <1>4, NoneIsFresh DEF Caches, Working, Locking
<1>10. turns[exam[q]] <= expired[exam[q]] + excused[exam[q]]
  BY <1>1, <1>9 DEF Accounted, CountT
<1>11. Accounted'
  <2>1. CASE TurnStarted(q)
    <3>1. recent' = recent \cup {exam[q]} /\ UNCHANGED <<expired, excused>>
          /\ turns' = [turns EXCEPT ![exam[q]] = @ + 1]
      BY <2>1 DEF TurnStarted, End
    <3> QED
      BY <1>1, <1>9, <1>10, <3>1 DEF Accounted, CountT
  <2>2. CASE TurnFails(q)
    <3>1. /\ recent' = recent /\ expired' = expired
          /\ excused' = [excused EXCEPT ![exam[q]] = @ + 1]
      BY <2>2 DEF TurnFails, End
    <3>2. PICK n \in {0, 1} : turns' = [turns EXCEPT ![exam[q]] = @ + n]
      BY <2>2 DEF TurnFails
    <3> QED
      BY <1>1, <1>9, <1>10, <3>1, <3>2 DEF Accounted, CountT
  <2> QED
    BY <2>1, <2>2
<1>12. Threadless'
  BY <1>1, <1>2, <1>4, ThreadlessKept DEF Ended, PCs, threadVars
<1>13. Running'
  BY <1>1, <1>2, <1>4, RunningKept DEF Ended, PCs
<1> QED
  BY <1>5, <1>6, <1>7, <1>8, <1>11, <1>12, <1>13, Parts DEF Inv


\* A receipt expires, a process goes deaf, an idle bridge is stopped.
LEMMA TimeInv ==
    ASSUME Inv,
           Reap \/ (\E e \in Exams : ReceiptExpires(e)) \/ \E b \in Procs : GoesDeaf(b)
    PROVE  Inv'
<1>1. ReqT /\ CacheT /\ BridgeT /\ ThreadT /\ CountT /\ torn \in BOOLEAN
      /\ Caches /\ Accounted /\ Threadless /\ Running
  BY Parts DEF Inv
<1>2. /\ UNCHANGED <<reqVars, inflight, lock, using, spawner, threadVars, turns>>
      /\ torn' = torn
  BY Zenon DEF Reap, ReceiptExpires, GoesDeaf, cacheVars, bridgeVars, histVars
<1>3. faults' = faults \/ (faults < MaxFaults /\ faults' = faults + 1)
  BY DEF Reap, ReceiptExpires, GoesDeaf, Fault, histVars
<1>4. ReqT' /\ ThreadT' /\ Threadless'
  BY <1>1, <1>2 DEF ReqT, ThreadT, Threadless, Class, reqVars, threadVars
<1>5. torn' \in BOOLEAN
  BY <1>1, <1>2, Zenon
<1>6. CASE \E e \in Exams : ReceiptExpires(e)
  <2> PICK e \in Exams : ReceiptExpires(e)
    BY <1>6
  <2>1. /\ recent' = recent \ {e} /\ expired' = [expired EXCEPT ![e] = @ + 1]
        /\ excused' = excused /\ UNCHANGED bridgeVars
    BY DEF ReceiptExpires
  <2>2. CacheT' /\ CountT' /\ BridgeT' /\ Running'
    BY <1>1, <1>2, <1>3, <2>1, BoundsAssumption DEF CacheT, CountT, BridgeT, Running,
       reqVars, bridgeVars
  <2>3. Caches'
    BY <1>1, <1>2, <2>1 DEF Caches, Class, reqVars
  <2>4. Accounted'
    BY <1>1, <1>2, <2>1 DEF Accounted, CountT
  <2> QED
    BY <1>4, <1>5, <2>2, <2>3, <2>4, Parts DEF Inv
<1>7. CASE ~\E e \in Exams : ReceiptExpires(e)
  <2>1. UNCHANGED <<recent, expired, excused>>
    BY <1>7, Zenon DEF Reap, GoesDeaf, cacheVars, histVars
  <2>2. CacheT' /\ CountT' /\ Accounted'
    BY <1>1, <1>2, <1>3, <2>1, BoundsAssumption DEF CacheT, CountT, Accounted
  <2>3. Caches'
    BY <1>1, <1>2, <2>1 DEF Caches, Class, reqVars
  <2>4. BridgeT' /\ Running'
    <3>1. CASE Reap
      BY <1>1, <1>2, <3>1 DEF Reap, BridgeT, Running, ProcStates, reqVars
    <3>2. CASE \E b \in Procs : GoesDeaf(b)
      BY <1>1, <1>2, <3>2 DEF GoesDeaf, BridgeT, Running, ProcStates, reqVars
    <3> QED
      BY <1>7, <3>1, <3>2
  <2> QED
    BY <1>4, <1>5, <2>2, <2>3, <2>4, Parts DEF Inv
<1> QED
  BY <1>6, <1>7

\* A restart of the gateway ends every request and forgets all but the file.
LEMMA RestartInv ==
    ASSUME Inv, Restart
    PROVE  Inv'
<1>1. ReqT /\ CacheT /\ BridgeT /\ ThreadT /\ CountT /\ torn \in BOOLEAN
      /\ Caches /\ Accounted /\ Threadless /\ Running
  BY Parts DEF Inv
<1>2. torn' = torn \/ torn' = TRUE
  BY Zenon DEF Restart
<1>3. torn' \in BOOLEAN
  BY <1>1, <1>2, Zenon
<1> DEFINE none == {}
<1>4. none \in SUBSET ThreadIds /\ none \subseteq Exams
  OBVIOUS
<1>5. recent' = none /\ loaded' = [b \in Procs |-> none]
  BY DEF Restart
<1> HIDE DEF none
<1>6. ReqT' /\ CacheT' /\ BridgeT'
  BY <1>1, <1>4, <1>5 DEF Restart, ReqT, CacheT, BridgeT, PCs, ProcStates, At, Ended
<1>7. ThreadT'
  BY <1>1, <1>4, <1>5 DEF Restart, ThreadT, ThreadIds
<1>8. CountT'
  BY <1>1, BoundsAssumption DEF Restart, Fault, CountT
<1>9. \A q \in Reqs : pc'[q] = pc[q] \/ pc[q] # "new"
  BY DEF Restart, At
<1>10. \A q \in Reqs : pc'[q] \in {"new"} \cup Ended /\ exam'[q] = exam[q]
  BY DEF Restart, At, Ended
<1>11. Caches'
  BY <1>1, <1>9, <1>10 DEF Restart, Caches, Working, Locking, Ended
<1>12. Accounted'
  <2>1. \A e \in Exams : /\ turns'[e] = turns[e] /\ expired'[e] = expired[e]
                        /\ excused'[e] = excused[e] + 1
    BY DEF Restart
  <2> QED
    BY <1>1, <1>8, <2>1 DEF Accounted, CountT
<1>13. Threadless'
  BY <1>10 DEF Threadless, Ended
<1>14. Running'
  BY <1>1, <1>10 DEF Restart, Running, BridgeT, ProcStates, Ended
<1> QED
  BY <1>3, <1>6, <1>7, <1>8, <1>11, <1>12, <1>13, <1>14, Parts DEF Inv

-----------------------------------------------------------------------------
(* The theorems. *)

\* Every step preserves the inductive invariant.
LEMMA NextInv == Inv /\ [Next]_vars => Inv'
<1> SUFFICES ASSUME Inv, [Next]_vars PROVE Inv'
  OBVIOUS
<1>1. CASE \E q \in Reqs, e \in Exams : Arrive(q, e)
  BY <1>1, ArriveInv
<1>2. CASE \E q \in Reqs : ReqStep(q)
  BY <1>2, MoveInv, SpawnOrJoinInv, SpawnedInv, FailsInv, ThreadInv, TurnInv DEF ReqStep
<1>3. CASE Reap \/ (\E e \in Exams : ReceiptExpires(e)) \/ \E b \in Procs : GoesDeaf(b)
  BY <1>3, TimeInv
<1>4. CASE Restart
  BY <1>4, RestartInv
<1>5. CASE UNCHANGED vars
  <2>1. torn' = torn
    BY <1>5, Zenon DEF vars
  <2>2. torn' \in BOOLEAN
    BY <2>1, Zenon, Parts DEF Inv
  <2>3. ReqT' /\ CacheT' /\ BridgeT' /\ ThreadT' /\ CountT'
    BY <1>5, Parts DEF Inv, vars, ReqT, CacheT, BridgeT, ThreadT, CountT
  <2>4. Caches' /\ Accounted' /\ Threadless' /\ Running'
    BY <1>5 DEF Inv, vars, Caches, Accounted, Threadless, Running, Class
  <2> QED
    BY <2>2, <2>3, <2>4, Parts DEF Inv
<1> QED
  BY <1>1, <1>2, <1>3, <1>4, <1>5 DEF Next

\* The invariant that the theorems below rest on.
THEOREM Inductive == Spec => []Inv
  BY InitInv, NextInv, PTL DEF Spec

\* Every variable of the trigger endpoint keeps its type.
THEOREM TypeCorrect == Spec => []TypeOK
  BY Inductive, PTL DEF Inv

\* internal_trigger starts the analysis of an exam once in the life of a
\* receipt, up to the answers that were lost and the gateway's restarts.
THEOREM StartedOnce == Spec => []TurnOnce
<1>1. Inv => TurnOnce
  <2> SUFFICES ASSUME Inv, NEW e \in Exams 
               PROVE  turns[e] <= 1 + expired[e] + excused[e]
    BY DEF TurnOnce
  <2>1. turns[e] \in Nat /\ expired[e] \in Nat /\ excused[e] \in Nat
    BY Parts DEF Inv, CountT
  <2> QED
    BY <2>1 DEF Inv, Accounted
<1> QED
  BY <1>1, Inductive, PTL

\* _get_or_spawn_bridge keeps one app-server per teacher.
THEOREM OneBridge == Spec => []SingleFlight
<1>1. Inv => SingleFlight
  <2> SUFFICES ASSUME Inv PROVE SingleFlight
    OBVIOUS
  <2> DEFINE S == {b \in Procs : proc[b] \in {"starting", "up"}}
  <2>1. \A b, c \in S : b = c
    BY Parts DEF Inv, Running, Procs
  <2>2. Cardinality(S) <= 1
    <3>1. CASE S = {}
      BY <3>1, FS_EmptySet
    <3>2. CASE S # {}
      <4>1. PICK b \in S : S = {b}
        BY <2>1, <3>2
      <4> HIDE DEF S
      <4> QED
        BY <4>1, FS_Singleton
    <3> QED
      BY <3>1, <3>2
  <2>3. \A q \in Reqs : IsAlive(using[q]) => using[q] = bridge
    BY Parts DEF Inv, BridgeT, IsAlive, Running
  <2> QED
    BY <2>2, <2>3 DEF SingleFlight
<1> QED
  BY <1>1, Inductive, PTL

\* The persistent thread of a class is never replaced in threads.json.
THEOREM SameThread == Spec => ThreadKept
<1> DEFINE Kept == torn' \/ \A c \in Classes : map[c] # 0 => map'[c] = map[c]
<1>1. Inv /\ [Next]_vars => [Kept]_vars
  <2> SUFFICES ASSUME Inv, Next PROVE Kept
    OBVIOUS
  <2>1. CASE \E q \in Reqs : Started(q)
    <3> PICK q \in Reqs : Started(q)
      BY <2>1
    <3>1. map[Class(q)] = 0 /\ map' = [map EXCEPT ![Class(q)] = made + 1]
      BY DEF Started, At, Inv, Threadless
    <3>2. map \in [Classes -> ThreadIds]
      BY Parts DEF Inv, ThreadT
    <3> QED
      BY <3>1, <3>2
  <2>2. CASE Restart
    <3>1. torn' = TRUE \/ map' = map
      BY <2>2, Zenon DEF Restart
    <3> QED
      BY <3>1
  <2>3. CASE map' = map
    BY <2>3
  <2>4. (\E q \in Reqs : Started(q)) \/ Restart \/ map' = map
    BY Zenon DEF Next, ReqStep, Arrive, Follow, TakeLock, UseBridge, SpawnOrJoin, Spawned,
       SpawnFails, Joined, LoadMap, Resumed, ThreadFails, TurnStarted, TurnFails,
       ReceiptExpires, GoesDeaf, Reap, threadVars
  <2> QED
    BY <2>1, <2>2, <2>3, <2>4
<1> QED
  BY <1>1, Inductive, PTL DEF Spec, ThreadKept

=============================================================================
