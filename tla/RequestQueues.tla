--------------------------- MODULE RequestQueues ---------------------------
(***************************************************************************)
(* How the app-server of the agent runtime runs the requests of its        *)
(* connections: the per-resource queues of request_serialization.rs, the   *)
(* gate that connection_rpc_gate.rs puts in front of every handler, and    *)
(* the part of message_processor.rs that feeds and closes them.            *)
(*                                                                         *)
(* A request is the number of its arrival, so that a queue need not be a   *)
(* sequence: its front is the least of the requests that wait in it.  The  *)
(* task that drains a queue is named after the request whose arrival       *)
(* spawned it.  A handler runs inside that task, so its panic ends it.     *)
(***************************************************************************)
EXTENDS Integers

CONSTANTS
    MaxRequests,  \* bound: requests, of clients and of the server itself
    Conns,      \* client connections
    Shared,     \* resources all connections share (config, a thread, ...)
    Owned,      \* resources of one connection (a process, a file watch)
    NoConn,     \* no connection: shared resources and background requests
    NoKey,      \* the key of a request without a serialization scope
    NoTask,       \* the owner of a request that no drain task has popped
    MaxPanics   \* bound: handlers that panic

Requests == 1..MaxRequests
Resources == Shared \cup Owned
Keys == (Conns \cup {NoConn}) \X Resources
Accesses == {"Exclusive", "SharedRead"}

ASSUME NullsAreFresh ==
    NoConn \notin Conns /\ NoKey \notin Keys /\ NoTask \notin Requests
ASSUME BoundsAssumption == MaxRequests \in Nat /\ MaxPanics \in Nat

VARIABLES
    stage,     \* where a request is
    key, access, conn,   \* what it named when it arrived, and who sent it
    arrivals,  \* requests that have arrived
    owner,     \* the drain task that popped it
    present,   \* keys of the map RequestSerializationQueues.inner
    permit,    \* per key, the permit stored in the queue's Notify
    phase,     \* per drain task, where it is
    gate,      \* per connection: open, closed, cleaned
    late,      \* per connection: the cleanup stopped waiting for handlers
    panics

reqVars == <<key, access, conn, arrivals>>
taskVars == <<owner, present, permit, phase>>
connVars == <<gate, late>>
vars == <<stage, key, access, conn, arrivals, owner, present, permit,
          phase, gate, late, panics>>

\* taken: popped, its future not yet polled; lost: dropped with a task that
\* panicked; dropped: the gate was closed when it was polled.
Stages == {"new", "queued", "taken", "running", "done", "dropped", "lost"}
Over == {"done", "dropped", "lost"}

\* pop: about to pop the front; run: awaiting what it popped; absorb: woken by
\* the Notify while reads run; ended: returned; dead: a handler panicked.
Phases == {"none", "pop", "run", "absorb", "ended", "dead"}
Live == {"pop", "run", "absorb"}

TypeOK ==
    /\ stage \in [Requests -> Stages]
    /\ key \in [Requests -> Keys \cup {NoKey}]
    /\ access \in [Requests -> Accesses]
    /\ conn \in [Requests -> Conns \cup {NoConn}]
    /\ arrivals \in 0..MaxRequests
    /\ owner \in [Requests -> Requests \cup {NoTask}]
    /\ present \subseteq Keys
    /\ permit \in [Keys -> BOOLEAN]
    /\ phase \in [Requests -> Phases]
    /\ gate \in [Conns -> {"open", "closed", "cleaned"}]
    /\ late \in [Conns -> BOOLEAN]
    /\ panics \in Nat

Init ==
    /\ stage = [r \in Requests |-> "new"]
    /\ key = [r \in Requests |-> NoKey]
    /\ access = [r \in Requests |-> "Exclusive"]
    /\ conn = [r \in Requests |-> NoConn]
    /\ arrivals = 0
    /\ owner = [r \in Requests |-> NoTask]
    /\ present = {}
    /\ permit = [k \in Keys |-> FALSE]
    /\ phase = [d \in Requests |-> "none"]
    /\ gate = [c \in Conns |-> "open"]
    /\ late = [c \in Conns |-> FALSE]
    /\ panics = 0

-----------------------------------------------------------------------------
(* The queues. *)

Waiting(k) == {r \in Requests : stage[r] = "queued" /\ key[r] = k}

\* What a drain task has popped and not finished.
Batch(d) == {r \in Requests : owner[r] = d /\ stage[r] \in {"taken", "running"}}

\* The reads at the front of the queue: none when its front is exclusive.
FrontReads(k) ==
    {r \in Waiting(k) :
        /\ access[r] = "SharedRead"
        /\ \A s \in Waiting(k) : access[s] = "Exclusive" => r < s}

Front(k) == {r \in Waiting(k) : \A s \in Waiting(k) : r <= s}

\* The key and the access of a scope: some resources are shared by all
\* connections, and only those can be read with others.
from_scope(c, res, a) ==
    [key |-> <<IF res \in Owned THEN c ELSE NoConn, res>>,
     access |-> IF res \in Owned THEN "Exclusive" ELSE a]

\* Request r, of connection c, is the next to arrive.
Arrives(r, c, k, a) ==
    /\ r = arrivals + 1
    /\ key' = [key EXCEPT ![r] = k]
    /\ access' = [access EXCEPT ![r] = a]
    /\ conn' = [conn EXCEPT ![r] = c]
    /\ arrivals' = arrivals + 1

\* Mutant of EnqueueOn: a request that finds a queue does not notify it.
EnqueueOnSilent(r, c, k, a) ==
    /\ Arrives(r, c, k, a)
    /\ stage' = [stage EXCEPT ![r] = "queued"]
    /\ present' = present \cup {k}
    /\ phase' = IF k \in present THEN phase ELSE [phase EXCEPT ![r] = "pop"]
    /\ UNCHANGED <<permit, owner, connVars, panics>>

\* Mutant of EnqueueOn: every request spawns a drain task.
EnqueueOnSpawns(r, c, k, a) ==
    /\ Arrives(r, c, k, a)
    /\ stage' = [stage EXCEPT ![r] = "queued"]
    /\ present' = present \cup {k}
    /\ permit' = [permit EXCEPT ![k] = k \in present]
    /\ phase' = [phase EXCEPT ![r] = "pop"]
    /\ UNCHANGED <<owner, connVars, panics>>

\* enqueue: the first request of a key inserts its queue, with a new Notify,
\* and spawns the task that drains it; a later one wakes that task.
EnqueueOn(r, c, k, a) ==
    /\ Arrives(r, c, k, a)
    /\ stage' = [stage EXCEPT ![r] = "queued"]
    /\ present' = present \cup {k}
    /\ permit' = [permit EXCEPT ![k] = k \in present]
    /\ phase' = IF k \in present THEN phase ELSE [phase EXCEPT ![r] = "pop"]
    /\ UNCHANGED <<owner, connVars, panics>>

\* A client request with a scope, from a connection still in the table.
Enqueue(r, c, res, a) ==
    /\ gate[c] = "open"
    /\ EnqueueOn(r, c, from_scope(c, res, a).key, from_scope(c, res, a).access)

\* enqueue_background, as the server uses it: an exclusive change of config.
EnqueueBackground(r, res) ==
    /\ res \in Shared
    /\ EnqueueOn(r, NoConn, <<NoConn, res>>, "Exclusive")

\* A client request without a scope runs in a task of its own.
SpawnUnscoped(r, c) ==
    /\ gate[c] = "open"
    /\ Arrives(r, c, NoKey, "Exclusive")
    /\ stage' = [stage EXCEPT ![r] = "taken"]
    /\ UNCHANGED <<taskVars, connVars, panics>>

-----------------------------------------------------------------------------
(* The drain task. *)

\* drain pops the front request, and with a read all reads right behind it.
PopFront(d) ==
    LET k == key[d]
        popped == IF FrontReads(k) # {} THEN FrontReads(k) ELSE Front(k)
    IN /\ phase[d] = "pop" /\ Waiting(k) # {}
       /\ stage' = [r \in Requests |-> IF r \in popped THEN "taken" ELSE stage[r]]
       /\ owner' = [r \in Requests |-> IF r \in popped THEN d ELSE owner[r]]
       /\ phase' = [phase EXCEPT ![d] = "run"]
       /\ UNCHANGED <<reqVars, present, permit, connVars, panics>>

\* Mutant of RemoveQueue: the task ends and leaves the entry in the map.
RemoveQueueKeepsEntry(d) ==
    /\ phase[d] = "pop" /\ Waiting(key[d]) = {}
    /\ phase' = [phase EXCEPT ![d] = "ended"]
    /\ UNCHANGED <<stage, reqVars, owner, present, permit, connVars, panics>>

\* The queue is empty: its entry is removed under the lock and the task ends.
RemoveQueue(d) ==
    /\ phase[d] = "pop" /\ Waiting(key[d]) = {}
    /\ present' = present \ {key[d]}
    /\ phase' = [phase EXCEPT ![d] = "ended"]
    /\ UNCHANGED <<stage, reqVars, owner, permit, connVars, panics>>

\* A drain task polls its futures only while it awaits them.
Polled(r) == owner[r] # NoTask => phase[owner[r]] = "run"

\* Mutant of Admit: the gate is not asked.
AdmitAlways(r) ==
    /\ stage[r] = "taken" /\ Polled(r)
    /\ stage' = [stage EXCEPT ![r] = "running"]
    /\ UNCHANGED <<reqVars, taskVars, connVars, panics>>

\* The future of a popped request is polled for the first time: the gate is
\* asked, and a token taken, under one lock.
Admit(r) ==
    /\ stage[r] = "taken" /\ Polled(r)
    /\ conn[r] \in Conns => gate[conn[r]] = "open"
    /\ stage' = [stage EXCEPT ![r] = "running"]
    /\ UNCHANGED <<reqVars, taskVars, connVars, panics>>

\* Mutant of Ends: the task pops again as soon as one read is finished.
EndsEarly(r, s) ==
    /\ stage' = [stage EXCEPT ![r] = s]
    /\ phase' = IF owner[r] # NoTask
                THEN [phase EXCEPT ![owner[r]] = "pop"] ELSE phase
    /\ UNCHANGED <<reqVars, owner, present, permit, connVars, panics>>

\* The future of r ends; with the last one of its batch the task pops again.
Ends(r, s) ==
    /\ stage' = [stage EXCEPT ![r] = s]
    /\ phase' = IF owner[r] # NoTask /\ Batch(owner[r]) = {r}
                THEN [phase EXCEPT ![owner[r]] = "pop"] ELSE phase
    /\ UNCHANGED <<reqVars, owner, present, permit, connVars, panics>>

\* The gate is closed: run returns without starting the handler.
Refuse(r) ==
    /\ stage[r] = "taken" /\ Polled(r)
    /\ conn[r] \in Conns /\ gate[conn[r]] # "open"
    /\ Ends(r, "dropped")

Finish(r) ==
    /\ stage[r] = "running" /\ Polled(r)
    /\ Ends(r, "done")

\* changed.notified() resolves while reads are running.
Notified(d) ==
    /\ phase[d] = "run" /\ permit[key[d]]
    /\ \E r \in Batch(d) : access[r] = "SharedRead"
    /\ permit' = [permit EXCEPT ![key[d]] = FALSE]
    /\ phase' = [phase EXCEPT ![d] = "absorb"]
    /\ UNCHANGED <<stage, reqVars, owner, present, connVars, panics>>

\* The reads now at the front join the running ones.
Absorb(d) ==
    LET popped == FrontReads(key[d])
    IN /\ phase[d] = "absorb"
       /\ stage' = [r \in Requests |-> IF r \in popped THEN "taken" ELSE stage[r]]
       /\ owner' = [r \in Requests |-> IF r \in popped THEN d ELSE owner[r]]
       /\ phase' = [phase EXCEPT ![d] = "run"]
       /\ UNCHANGED <<reqVars, present, permit, connVars, panics>>

\* A handler panics: its task unwinds, the futures it awaited are dropped, and
\* nothing removes the queue's entry.
Panic(r) ==
    LET dropped == IF owner[r] = NoTask THEN {r} ELSE Batch(owner[r])
    IN /\ panics < MaxPanics
       /\ stage[r] = "running" /\ Polled(r)
       /\ stage' = [s \in Requests |-> IF s \in dropped THEN "lost" ELSE stage[s]]
       /\ phase' = IF owner[r] = NoTask THEN phase
                   ELSE [phase EXCEPT ![owner[r]] = "dead"]
       /\ panics' = panics + 1
       /\ UNCHANGED <<reqVars, owner, present, permit, connVars>>

-----------------------------------------------------------------------------
(* The connections. *)

\* TransportEvent::ConnectionClosed: the gate is closed before anything else.
CloseGate(c) ==
    /\ gate[c] = "open"
    /\ gate' = [gate EXCEPT ![c] = "closed"]
    /\ UNCHANGED <<stage, reqVars, taskVars, late, panics>>

\* Handlers of c that hold a token of its gate.
InFlight(c) == {r \in Requests : conn[r] = c /\ stage[r] = "running"}

\* connection_closed goes on to release what the connection owned, once its
\* handlers are finished or CONNECTION_RPC_DRAIN_TIMEOUT has passed.
Cleanup(c) ==
    /\ gate[c] = "closed"
    /\ gate' = [gate EXCEPT ![c] = "cleaned"]
    /\ late' = [late EXCEPT ![c] = InFlight(c) # {}]
    /\ UNCHANGED <<stage, reqVars, taskVars, panics>>

TaskStep(d) == PopFront(d) \/ RemoveQueue(d) \/ Notified(d) \/ Absorb(d)

Next ==
    \/ \E r \in Requests, c \in Conns, res \in Resources, a \in Accesses :
           Enqueue(r, c, res, a)
    \/ \E r \in Requests, res \in Shared : EnqueueBackground(r, res)
    \/ \E r \in Requests, c \in Conns : SpawnUnscoped(r, c)
    \/ \E d \in Requests : TaskStep(d)
    \/ \E r \in Requests : Admit(r) \/ Refuse(r) \/ Finish(r) \/ Panic(r)
    \/ \E c \in Conns : CloseGate(c) \/ Cleanup(c)

\* The executor polls every woken task; a handler itself need never finish.
Fairness ==
    /\ \A d \in Requests : WF_vars(TaskStep(d))
    /\ \A r \in Requests : WF_vars(Admit(r) \/ Refuse(r))

Spec == Init /\ [][Next]_vars /\ Fairness

-----------------------------------------------------------------------------
(* Properties. *)

Scoped(r) == key[r] \in Keys

Conflict(r, s) ==
    /\ Scoped(r) /\ key[r] = key[s]
    /\ access[r] = "Exclusive" \/ access[s] = "Exclusive"

\* A drain task of key k is running.
Served(k) == \E d \in Requests : phase[d] \in Live /\ key[d] = k

\* A handler panicked in the drain task of key k.
Poisoned(k) == \E d \in Requests : phase[d] = "dead" /\ key[d] = k

\* Requests that conflict are popped, and so run, one after the other and in
\* the order in which they arrived, however reads are batched and joined.
ConflictsInOrder ==
    \A r, s \in Requests :
        /\ Conflict(r, s) /\ r < s
        /\ stage[s] \notin {"new", "queued"}
        => stage[r] \in Over

\* A queue in the map has exactly one task that drains it, and a request waits
\* only in such a queue: two tasks would break the order, none would strand the
\* requests.  The exception is a queue whose task a panicking handler ended.
OneDrainPerQueue ==
    /\ \A d, e \in Requests :
           phase[d] \in Live /\ phase[e] \in Live /\ key[d] = key[e] => d = e
    /\ \A k \in Keys : k \in present <=> Served(k) \/ Poisoned(k)
    /\ \A r \in Requests : stage[r] = "queued" => key[r] \in present

\* connection_closed releases what a connection owns after its gate is closed:
\* unless the wait for the handlers timed out, none of them runs from then on.
NothingAfterCleanup ==
    \A c \in Conns : gate[c] = "cleaned" /\ ~late[c] => InFlight(c) = {}

\* When every handler that runs finishes in the end, every request that waits
\* is run or refused in the end, unless a handler of its queue panicked: no
\* wake-up is lost between enqueue and the drain task.
Drains ==
    (\A r \in Requests : []<>(stage[r] # "running")) =>
        \A r \in Requests :
            stage[r] = "queued" ~> stage[r] \in Over \/ Poisoned(key[r])

\* A read that waits while only reads are in front of it is run even if none
\* of those reads ever finishes.
MayJoin(r) ==
    /\ stage[r] = "queued"
    /\ \A s \in Requests : Conflict(r, s) /\ s < r => stage[s] \in Over
ReadJoins ==
    \A r \in Requests :
        MayJoin(r) ~> stage[r] \in Over \cup {"running"} \/ Poisoned(key[r])

\* The request's stage as a client can tell it.
PublicStage ==
    [r \in Requests |->
        CASE stage[r] = "new" -> "new"
          [] stage[r] \in {"queued", "taken"} -> "waiting"
          [] stage[r] = "running" -> "running"
          [] OTHER -> "over"]

SA == INSTANCE SerialAccess WITH
          ph <- PublicStage,
          behind <- [r \in Requests |->
                        {s \in Requests : Conflict(r, s) /\ s < r}]

\* The queues implement the promise that a request starts only after every
\* conflicting request that arrived before it is over.
ImplementsSerialAccess == SA!ASpec

=============================================================================
