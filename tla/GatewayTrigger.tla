--------------------------- MODULE GatewayTrigger ---------------------------
(***************************************************************************)
(* The trigger endpoint of the session gateway (gateway/main.py): requests *)
(* of the backend to start the analysis of an exam, the idempotency cache, *)
(* the lock and the persistent thread of each class, and the one app-server *)
(* process (the bridge) that the requests of a teacher share.              *)
(*                                                                         *)
(* The gateway is one asyncio loop: a step is what a handler does between  *)
(* two awaits.  What it awaits either answers or fails: by an error, by    *)
(* its timeout, or because the app-server's stdout is closed.              *)
(***************************************************************************)
EXTENDS Integers, FiniteSets

CONSTANTS
    Reqs,         \* POST /internal/trigger, retries of the backend included
    Exams,        \* the idempotency keys
    Classes, ClassOf,
    None,
    MaxProcs,     \* bound: app-server processes spawned
    MaxFaults     \* bound: failures, expired receipts and gateway restarts

Procs == 1..MaxProcs
ThreadIds == Nat                   \* 0: no thread

ASSUME ClassOfAssumption == ClassOf \in [Exams -> Classes]
ASSUME NoneIsFresh == None \notin Reqs /\ None \notin Exams
ASSUME BoundsAssumption ==
    IsFiniteSet(Reqs) /\ MaxProcs \in Nat /\ MaxFaults \in Nat

VARIABLES
    pc, exam,     \* where a request is, and for which exam it was sent
    follows,      \* the request, or the spawning request, it waits for
    recent,       \* exams in _RECENT_TRIGGERS
    inflight,     \* _TRIGGER_INFLIGHT: per exam the request that works on it
    lock,         \* _TRIGGER_THREAD_LOCKS: per class the request that holds it
    bridge,       \* _BRIDGES: the registered process (0: none)
    spawner,      \* _SPAWNING: the request that spawns a process
    proc,         \* per process: what has become of it
    using,        \* the process a request talks to (0: none)
    map,          \* threads.json: the persistent thread of each class
    loaded,       \* Bridge.loaded_threads
    made,         \* threads started
    turns,        \* history: turns the app-server has started for an exam
    expired,      \* history: receipts older than _TRIGGER_TTL_S
    excused,      \* history: answers lost, receipts forgotten in a restart
    torn,         \* history: a crash tore threads.json
    faults

reqVars == <<pc, exam, follows>>
cacheVars == <<recent, inflight, lock>>
bridgeVars == <<bridge, spawner, proc, using>>
threadVars == <<map, loaded, made>>
histVars == <<turns, expired, excused, torn, faults>>
vars == <<pc, exam, follows, recent, inflight, lock, bridge, spawner, proc,
          using, map, loaded, made, turns, expired, excused, torn, faults>>

PCs == {"new", "follow", "lock", "bridge", "join", "spawn", "thread",
        "start", "resume", "turn", "done", "failed"}
Ended == {"done", "failed"}

\* starting: initialize is awaited; deaf: its stdout is closed; leaked: it was
\* given up and still runs.
ProcStates == {"none", "starting", "up", "deaf", "leaked", "stopped"}

TypeOK ==
    /\ pc \in [Reqs -> PCs]
    /\ exam \in [Reqs -> Exams \cup {None}]
    /\ follows \in [Reqs -> Reqs \cup {None}]
    /\ recent \subseteq Exams
    /\ inflight \in [Exams -> Reqs \cup {None}]
    /\ lock \in [Classes -> Reqs \cup {None}]
    /\ bridge \in Procs \cup {0}
    /\ spawner \in Reqs \cup {None}
    /\ proc \in [Procs -> ProcStates]
    /\ using \in [Reqs -> Procs \cup {0}]
    /\ map \in [Classes -> ThreadIds]
    /\ loaded \in [Procs -> SUBSET ThreadIds]
    /\ made \in ThreadIds
    /\ turns \in [Exams -> Nat]
    /\ expired \in [Exams -> Nat] /\ excused \in [Exams -> Nat]
    /\ torn \in BOOLEAN /\ faults \in 0..MaxFaults

Init ==
    /\ pc = [q \in Reqs |-> "new"]
    /\ exam = [q \in Reqs |-> None]
    /\ follows = [q \in Reqs |-> None]
    /\ recent = {}
    /\ inflight = [e \in Exams |-> None]
    /\ lock = [c \in Classes |-> None]
    /\ bridge = 0 /\ spawner = None
    /\ proc = [b \in Procs |-> "none"]
    /\ using = [q \in Reqs |-> 0]
    /\ map = [c \in Classes |-> 0]
    /\ loaded = [b \in Procs |-> {}]
    /\ made = 0
    /\ turns = [e \in Exams |-> 0]
    /\ expired = [e \in Exams |-> 0] /\ excused = [e \in Exams |-> 0]
    /\ torn = FALSE /\ faults = 0

Fault == faults < MaxFaults /\ faults' = faults + 1
At(q, step) == pc[q] = step
Goto(q, step) == pc' = [pc EXCEPT ![q] = step]
Class(q) == ClassOf[exam[q]]

-----------------------------------------------------------------------------
(* internal_trigger. *)

\* A request arrives: a recent receipt is replayed, a request under way for
\* the same exam is joined, otherwise the request starts to work.
Arrive(q, e) ==
    /\ At(q, "new")
    /\ exam' = [exam EXCEPT ![q] = e]
    /\ \/ /\ e \in recent
          /\ Goto(q, "done")
          /\ UNCHANGED <<follows, inflight>>
       \/ /\ e \notin recent /\ inflight[e] # None
          /\ Goto(q, "follow")
          /\ follows' = [follows EXCEPT ![q] = inflight[e]]
          /\ UNCHANGED inflight
       \/ /\ e \notin recent /\ inflight[e] = None
          /\ Goto(q, "lock")
          /\ inflight' = [inflight EXCEPT ![e] = q]
          /\ UNCHANGED follows
    /\ UNCHANGED <<recent, lock, bridgeVars, threadVars, histVars>>

\* The request that was joined has ended: its outcome is shared.
Follow(q) ==
    /\ At(q, "follow") /\ pc[follows[q]] \in Ended
    /\ Goto(q, pc[follows[q]])
    /\ UNCHANGED <<exam, follows, cacheVars, bridgeVars, threadVars, histVars>>

\* _start_trigger_turn waits for the lock of the class.
TakeLock(q) ==
    /\ At(q, "lock") /\ lock[Class(q)] = None
    /\ lock' = [lock EXCEPT ![Class(q)] = q]
    /\ Goto(q, "bridge")
    /\ UNCHANGED <<exam, follows, recent, inflight, bridgeVars, threadVars, histVars>>

\* Mutant of End: the receipt is not kept.
EndForgets(q, outcome) ==
    /\ Goto(q, outcome)
    /\ lock' = [lock EXCEPT ![Class(q)] = None]
    /\ inflight' = [inflight EXCEPT ![exam[q]] = None]
    /\ UNCHANGED <<recent, exam, follows>>

\* Mutant of End: a failure keeps the lock.
EndKeepsLock(q, outcome) ==
    /\ Goto(q, outcome)
    /\ lock' = IF outcome = "done" THEN [lock EXCEPT ![Class(q)] = None] ELSE lock
    /\ inflight' = [inflight EXCEPT ![exam[q]] = None]
    /\ recent' = IF outcome = "done" THEN recent \cup {exam[q]} ELSE recent
    /\ UNCHANGED <<exam, follows>>

\* The request ends: the lock is released, only a success is cached.
End(q, outcome) ==
    /\ Goto(q, outcome)
    /\ lock' = [lock EXCEPT ![Class(q)] = None]
    /\ inflight' = [inflight EXCEPT ![exam[q]] = None]
    /\ recent' = IF outcome = "done" THEN recent \cup {exam[q]} ELSE recent
    /\ UNCHANGED <<exam, follows>>

\* _trigger_replay drops a receipt older than _TRIGGER_TTL_S (ten minutes).
ReceiptExpires(e) ==
    /\ Fault /\ e \in recent
    /\ recent' = recent \ {e}
    /\ expired' = [expired EXCEPT ![e] = @ + 1]
    /\ UNCHANGED <<reqVars, inflight, lock, bridgeVars, threadVars, turns,
                   excused, torn>>

-----------------------------------------------------------------------------
(* _get_or_spawn_bridge. *)

IsAlive(b) == b # 0 /\ proc[b] = "up"

\* A live bridge is used.
UseBridge(q) ==
    /\ At(q, "bridge") /\ IsAlive(bridge)
    /\ using' = [using EXCEPT ![q] = bridge]
    /\ Goto(q, "thread")
    /\ UNCHANGED <<exam, follows, cacheVars, bridge, spawner, proc, threadVars, histVars>>

\* Mutant of SpawnOrJoin: every request that finds no bridge spawns one.
SpawnOrJoinAlone(q) ==
    LET stopped == [proc EXCEPT ![bridge] = "stopped"]
        live == IF bridge = 0 THEN proc ELSE stopped
        fresh == {b \in Procs : proc[b] = "none"}
    IN /\ At(q, "bridge") /\ ~IsAlive(bridge) /\ fresh # {}
       /\ bridge' = 0
       /\ LET b == CHOOSE x \in fresh : TRUE
          IN /\ proc' = [live EXCEPT ![b] = "starting"]
             /\ using' = [using EXCEPT ![q] = b]
       /\ spawner' = q
       /\ Goto(q, "spawn")
       /\ UNCHANGED <<exam, follows, cacheVars, threadVars, histVars>>

\* A dead bridge is stopped and dropped; then a spawn under way is joined, or
\* a process is spawned and asked to initialize.
SpawnOrJoin(q) ==
    LET stopped == [proc EXCEPT ![bridge] = "stopped"]
        live == IF bridge = 0 THEN proc ELSE stopped
        fresh == {b \in Procs : proc[b] = "none"}
    IN /\ At(q, "bridge") /\ ~IsAlive(bridge)
       /\ bridge' = 0
       /\ \/ /\ spawner # None
             /\ Goto(q, "join")
             /\ follows' = [follows EXCEPT ![q] = spawner]
             /\ proc' = live
             /\ UNCHANGED <<spawner, using>>
          \/ /\ spawner = None /\ fresh # {}
             /\ LET b == CHOOSE x \in fresh : TRUE
                IN /\ proc' = [live EXCEPT ![b] = "starting"]
                   /\ using' = [using EXCEPT ![q] = b]
             /\ spawner' = q
             /\ Goto(q, "spawn")
             /\ UNCHANGED follows
       /\ UNCHANGED <<exam, cacheVars, threadVars, histVars>>

\* initialize is answered: the bridge is registered and the future resolved.
Spawned(q) ==
    /\ At(q, "spawn") /\ proc[using[q]] = "starting"
    /\ proc' = [proc EXCEPT ![using[q]] = "up"]
    /\ bridge' = using[q]
    /\ spawner' = None
    /\ using' = [r \in Reqs |-> IF At(r, "join") /\ follows[r] = q
                                THEN using[q] ELSE using[r]]
    /\ Goto(q, "thread")
    /\ UNCHANGED <<exam, follows, cacheVars, threadVars, histVars>>

\* initialize fails: the process has died, or it is left running.
SpawnFails(q) ==
    /\ Fault
    /\ At(q, "spawn")
    /\ \E s \in {"stopped", "leaked"} : proc' = [proc EXCEPT ![using[q]] = s]
    /\ spawner' = None
    /\ using' = [using EXCEPT ![q] = 0]
    /\ End(q, "failed")
    /\ UNCHANGED <<bridge, threadVars, turns, expired, excused, torn>>

\* A request that joined the spawn gets its result, or its exception.
Joined(q) ==
    /\ At(q, "join") /\ follows[q] # spawner
    /\ \/ using[q] # 0 /\ Goto(q, "thread")
          /\ UNCHANGED <<exam, follows, cacheVars>>
       \/ using[q] = 0 /\ End(q, "failed")
    /\ UNCHANGED <<bridgeVars, threadVars, histVars>>

\* The stdout of a process is closed: every request it has not answered fails.
GoesDeaf(b) ==
    /\ Fault /\ proc[b] = "up"
    /\ proc' = [proc EXCEPT ![b] = "deaf"]
    /\ UNCHANGED <<reqVars, cacheVars, bridge, spawner, using, threadVars,
                   turns, expired, excused, torn>>

\* _bridge_reaper_loop stops a bridge that nothing has used for long.
Reap ==
    /\ bridge # 0 /\ \A q \in Reqs : pc[q] \in {"new"} \cup Ended
    /\ proc' = [proc EXCEPT ![bridge] = "stopped"]
    /\ bridge' = 0
    /\ UNCHANGED <<reqVars, cacheVars, spawner, using, threadVars, histVars>>

-----------------------------------------------------------------------------
(* _start_trigger_turn, with the bridge. *)

\* The class has no thread yet, one to resume, or one that is loaded.
LoadMap(q) ==
    LET tid == map[Class(q)] IN
    /\ At(q, "thread")
    /\ Goto(q, IF tid = 0 THEN "start"
               ELSE IF tid \notin loaded[using[q]] THEN "resume" ELSE "turn")
    /\ UNCHANGED <<exam, follows, cacheVars, bridgeVars, threadVars, histVars>>

\* Mutant of Started: only the class's own thread is saved.
StartedAlone(q) ==
    /\ At(q, "start") /\ IsAlive(using[q])
    /\ made' = made + 1
    /\ map' = [c \in Classes |-> IF c = Class(q) THEN made + 1 ELSE 0]
    /\ loaded' = [loaded EXCEPT ![using[q]] = @ \cup {made + 1}]
    /\ Goto(q, "turn")
    /\ UNCHANGED <<exam, follows, cacheVars, bridgeVars, histVars>>

\* thread/start is answered: threads.json is read again and saved.
Started(q) ==
    /\ At(q, "start") /\ IsAlive(using[q])
    /\ made' = made + 1
    /\ map' = [map EXCEPT ![Class(q)] = made + 1]
    /\ loaded' = [loaded EXCEPT ![using[q]] = @ \cup {made + 1}]
    /\ Goto(q, "turn")
    /\ UNCHANGED <<exam, follows, cacheVars, bridgeVars, histVars>>

Resumed(q) ==
    /\ At(q, "resume") /\ IsAlive(using[q])
    /\ loaded' = [loaded EXCEPT ![using[q]] = @ \cup {map[Class(q)]}]
    /\ Goto(q, "turn")
    /\ UNCHANGED <<exam, follows, cacheVars, bridgeVars, map, made, histVars>>

\* thread/start or thread/resume fails.
ThreadFails(q) ==
    /\ pc[q] \in {"start", "resume"}
    /\ IsAlive(using[q]) => faults < MaxFaults
    /\ faults' = IF IsAlive(using[q]) THEN faults + 1 ELSE faults
    /\ End(q, "failed")
    /\ UNCHANGED <<bridgeVars, threadVars, turns, expired, excused, torn>>

\* turn/start is answered.
TurnStarted(q) ==
    /\ At(q, "turn") /\ IsAlive(using[q])
    /\ turns' = [turns EXCEPT ![exam[q]] = @ + 1]
    /\ End(q, "done")
    /\ UNCHANGED <<bridgeVars, threadVars, expired, excused, torn, faults>>

\* turn/start fails, or its answer is lost: the turn may have been started.
TurnFails(q) ==
    /\ At(q, "turn")
    /\ IsAlive(using[q]) => faults < MaxFaults
    /\ faults' = IF IsAlive(using[q]) THEN faults + 1 ELSE faults
    /\ \E n \in {0, 1} : turns' = [turns EXCEPT ![exam[q]] = @ + n]
    /\ excused' = [excused EXCEPT ![exam[q]] = @ + 1]
    /\ End(q, "failed")
    /\ UNCHANGED <<bridgeVars, threadVars, expired, torn>>

\* The gateway stops and starts again: only threads.json is left, and that is
\* cut short if it was just being written.
Restart ==
    /\ Fault
    /\ pc' = [q \in Reqs |-> IF At(q, "new") \/ pc[q] \in Ended
                             THEN pc[q] ELSE "failed"]
    /\ recent' = {}
    /\ inflight' = [e \in Exams |-> None]
    /\ lock' = [c \in Classes |-> None]
    /\ bridge' = 0 /\ spawner' = None
    /\ proc' = [b \in Procs |-> IF proc[b] = "none" THEN "none" ELSE "stopped"]
    /\ using' = [q \in Reqs |-> 0]
    /\ loaded' = [b \in Procs |-> {}]
    /\ excused' = [e \in Exams |-> excused[e] + 1]
    /\ \/ UNCHANGED <<map, torn>>
       \/ /\ \E q \in Reqs : At(q, "start")
          /\ map' = [c \in Classes |-> 0] /\ torn' = TRUE
    /\ UNCHANGED <<exam, follows, made, turns, expired>>

ReqStep(q) ==
    \/ Follow(q) \/ TakeLock(q) \/ UseBridge(q) \/ SpawnOrJoin(q)
    \/ Spawned(q) \/ SpawnFails(q) \/ Joined(q) \/ LoadMap(q) \/ Started(q)
    \/ Resumed(q) \/ ThreadFails(q) \/ TurnStarted(q) \/ TurnFails(q)

Next ==
    \/ \E q \in Reqs, e \in Exams : Arrive(q, e)
    \/ \E q \in Reqs : ReqStep(q)
    \/ \E e \in Exams : ReceiptExpires(e)
    \/ \E b \in Procs : GoesDeaf(b)
    \/ Reap \/ Restart

\* The loop runs every handler that is ready, and every await has a timeout.
Spec == Init /\ [][Next]_vars /\ \A q \in Reqs : WF_vars(ReqStep(q))

-----------------------------------------------------------------------------
(* Properties. *)

\* While a receipt lives, the analysis of its exam is started once, however
\* often it is asked for (the concurrent and the later requests of one key
\* share the result, internal_trigger), except where an answer was lost or the
\* gateway restarted.
TurnOnce == \A e \in Exams : turns[e] <= 1 + expired[e] + excused[e]

\* "The same exam is not triggered twice on the same day" (triggers.py:11: a
\* repeated request of the gateway's clients or of the teacher is safe).  A
\* behaviour of the model is taken to be one day, in which no answer is lost
\* and the gateway is not restarted.
OncePerDay ==
    (\A e \in Exams : excused[e] = 0) => \A e \in Exams : turns[e] <= 1

\* At most one app-server runs for the teacher, and a request talks to it and
\* to no other, though requests of several classes arrive while it is spawned,
\* dead or given up.
SingleFlight ==
    /\ Cardinality({b \in Procs : proc[b] \in {"starting", "up"}}) <= 1
    /\ \A q \in Reqs : pc[q] \in {"thread", "start", "resume", "turn"}
                         /\ IsAlive(using[q]) => using[q] = bridge

\* A class keeps its persistent thread, though other classes save theirs in the
\* same file, unless a crash cuts the file short.
ThreadKept ==
    [][torn' \/ \A c \in Classes : map[c] # 0 => map'[c] = map[c]]_vars

\* Every request is answered in the end.
Answered == \A q \in Reqs : pc[q] # "new" ~> pc[q] \in Ended

=============================================================================
