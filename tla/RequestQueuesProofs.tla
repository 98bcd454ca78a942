------------------------ MODULE RequestQueuesProofs ------------------------
(***************************************************************************)
(* Proofs about RequestQueues, for any number of requests, connections and *)
(* resources and any number of panics.                                     *)
(*                                                                         *)
(* The order of conflicting requests is not inductive by itself: a drain   *)
(* task could pop a request while another task of the same queue runs one  *)
(* that conflicts.  The invariant adds that a queue has one task holding   *)
(* it, that whatever is popped belongs to that task, and that a task which *)
(* is about to let reads join is running nothing but reads.                *)
(***************************************************************************)
EXTENDS RequestQueues, TLAPS

\* Phases in which a task holds its queue; a task that panicked never lets go.
Hold == {"pop", "run", "absorb", "dead"}

InHand == {"taken", "running"}

\* Requests arrive in the order of their numbers and are blank before.
Fresh ==
    \A r \in Requests :
        /\ r <= arrivals => stage[r] # "new"
        /\ r > arrivals => /\ stage[r] = "new" /\ key[r] = NoKey
                           /\ owner[r] = NoTask /\ phase[r] = "none"

\* The queues in the map are those held by a task, each by one.
QueueHeld ==
    /\ \A d \in Requests : phase[d] \in Hold => key[d] \in present
    /\ \A d, e \in Requests :
           phase[d] \in Hold /\ phase[e] \in Hold /\ key[d] = key[e] => d = e
    /\ \A k \in present : \E d \in Requests : phase[d] \in Hold /\ key[d] = k
    /\ \A r \in Requests : stage[r] = "queued" => key[r] \in present

\* What is popped is in the hands of the task that awaits it.
Awaited(r) ==
    \/ /\ key[r] \in Keys /\ owner[r] \in Requests
       /\ phase[owner[r]] \in {"run", "absorb"} /\ key[owner[r]] = key[r]
    \/ key[r] = NoKey /\ owner[r] = NoTask
Owners == \A r \in Requests : stage[r] \in InHand => Awaited(r)

\* A task that lets reads join is running reads only.
AbsorbsReads ==
    \A r \in Requests :
        stage[r] \in InHand /\ owner[r] \in Requests /\ phase[owner[r]] = "absorb"
            => access[r] = "SharedRead"

Inv == /\ TypeOK /\ Fresh /\ QueueHeld /\ Owners /\ AbsorbsReads
       /\ ConflictsInOrder /\ NothingAfterCleanup

\* The initial state satisfies the invariant.
LEMMA InitInv == Init => Inv
<1> SUFFICES ASSUME Init PROVE Inv
  OBVIOUS
<1> USE DEF Init
<1>1. TypeOK
  BY BoundsAssumption DEF TypeOK, Stages, Phases, Accesses, Keys
<1>2. Fresh /\ QueueHeld /\ Owners /\ AbsorbsReads
  BY DEF Fresh, QueueHeld, Owners, AbsorbsReads, Hold, InHand, Requests
<1>3. ConflictsInOrder /\ NothingAfterCleanup
  BY DEF ConflictsInOrder, NothingAfterCleanup, InFlight
<1> QED BY <1>1, <1>2, <1>3 DEF Inv

-----------------------------------------------------------------------------
(* Arrivals. *)

\* enqueue preserves the invariant: the request that finds no queue becomes the
\* only task of the new one.
LEMMA EnqueueStep ==
    ASSUME Inv, NEW r \in Requests, NEW c \in Conns \cup {NoConn},
           NEW k \in Keys, NEW a \in Accesses, EnqueueOn(r, c, k, a)
    PROVE  Inv'
<1> USE DEF Inv, EnqueueOn, Arrives, connVars
<1>0. /\ r = arrivals + 1 /\ stage[r] = "new" /\ key[r] = NoKey /\ phase[r] = "none"
      /\ owner[r] = NoTask /\ NoKey # k
  BY NullsAreFresh DEF Fresh, Requests, TypeOK
<1>1. TypeOK'
  BY <1>0, BoundsAssumption DEF TypeOK, Stages, Phases, Requests
<1>2. Fresh'
  BY <1>0 DEF Fresh, TypeOK, Requests
<1>3. QueueHeld'
  BY <1>0 DEF QueueHeld, TypeOK, Hold
<1>4. Owners'
  <2> SUFFICES ASSUME NEW s \in Requests, stage'[s] \in InHand PROVE Awaited(s)'
    BY DEF Owners
  <2>1. s # r /\ stage[s] \in InHand /\ Awaited(s)
    BY DEF TypeOK, InHand, Owners
  <2>2. owner[s] \in Requests /\ phase[owner[s]] \in {"run", "absorb"} => owner[s] # r
    BY <1>0
  <2> QED BY <1>0, <2>1, <2>2 DEF Awaited, TypeOK
<1>5. AbsorbsReads'
  BY <1>0 DEF AbsorbsReads, TypeOK, InHand
<1>6. ConflictsInOrder'
  BY <1>0 DEF ConflictsInOrder, Conflict, Scoped, TypeOK, Over, Fresh, Requests
<1>7. NothingAfterCleanup'
  BY <1>0 DEF NothingAfterCleanup, InFlight, TypeOK
<1> QED BY <1>1, <1>2, <1>3, <1>4, <1>5, <1>6, <1>7

\* A request without a scope preserves the invariant: it conflicts with none.
LEMMA UnscopedStep ==
    ASSUME Inv, NEW r \in Requests, NEW c \in Conns, SpawnUnscoped(r, c)
    PROVE  Inv'
<1> USE DEF Inv, SpawnUnscoped, Arrives, taskVars, connVars
<1>0. /\ r = arrivals + 1 /\ stage[r] = "new" /\ key[r] = NoKey /\ phase[r] = "none"
      /\ owner[r] = NoTask /\ NoKey \notin Keys
  BY NullsAreFresh DEF Fresh, Requests, TypeOK
<1>1. TypeOK'
  BY <1>0, BoundsAssumption DEF TypeOK, Stages, Accesses, Requests
<1>2. Fresh'
  BY <1>0 DEF Fresh, TypeOK, Requests
<1>3. key' = key
  BY <1>0 DEF TypeOK
<1>4. QueueHeld'
  BY <1>0, <1>3 DEF QueueHeld, TypeOK, Hold
<1>5. Owners' /\ AbsorbsReads'
  BY <1>0, <1>3, NullsAreFresh DEF Owners, Awaited, AbsorbsReads, TypeOK, InHand
<1>6. ConflictsInOrder'
  BY <1>0, <1>3 DEF ConflictsInOrder, Conflict, Scoped, TypeOK, Over
<1>7. NothingAfterCleanup'
  BY <1>0 DEF NothingAfterCleanup, InFlight, TypeOK
<1> QED BY <1>1, <1>2, <1>4, <1>5, <1>6, <1>7

-----------------------------------------------------------------------------
(* The drain task. *)

\* Taking requests out of queue key[d] preserves the invariant when what is
\* taken overtakes no conflicting request and joins none that is running.
LEMMA TakeStep ==
    ASSUME Inv, NEW d \in Requests, NEW popped \in SUBSET Waiting(key[d]),
           phase[d] \in {"pop", "absorb"},
           \A r \in popped, s \in Requests :
               Conflict(s, r) /\ s < r => stage[s] \in Over,
           stage' = [r \in Requests |-> IF r \in popped THEN "taken" ELSE stage[r]],
           owner' = [r \in Requests |-> IF r \in popped THEN d ELSE owner[r]],
           phase' = [phase EXCEPT ![d] = "run"],
           UNCHANGED <<reqVars, present, permit, connVars, panics>>
    PROVE  Inv'
<1> USE DEF Inv, reqVars, connVars
<1>0. \A r \in popped : /\ r \in Requests /\ stage[r] = "queued" /\ key[r] = key[d]
                        /\ key[r] \in Keys
  BY DEF Waiting, QueueHeld, TypeOK
<1>1. TypeOK'
  BY <1>0 DEF TypeOK, Stages, Phases
<1>2. Fresh'
  BY <1>0 DEF Fresh, TypeOK, Requests
<1>3. QueueHeld'
  BY <1>0 DEF QueueHeld, TypeOK, Hold
<1>4. Owners'
  BY <1>0 DEF Owners, Awaited, TypeOK, InHand
<1>5. AbsorbsReads'
  BY <1>0 DEF AbsorbsReads, TypeOK, InHand
<1>6. ConflictsInOrder'
  BY <1>0 DEF ConflictsInOrder, Conflict, Scoped, TypeOK, Over
<1>7. NothingAfterCleanup'
  BY <1>0 DEF NothingAfterCleanup, InFlight, TypeOK
<1> QED BY <1>1, <1>2, <1>3, <1>4, <1>5, <1>6, <1>7

\* drain pops the front while nothing it popped before is left.
LEMMA PopStep ==
    ASSUME Inv, NEW d \in Requests, PopFront(d)
    PROVE  Inv'
<1> DEFINE k == key[d]
           popped == IF FrontReads(k) # {} THEN FrontReads(k) ELSE Front(k)
<1> USE DEF Inv
<1>1. popped \in SUBSET Waiting(k)
  BY DEF FrontReads, Front
<1>2. ASSUME NEW r \in popped, NEW s \in Requests, Conflict(s, r), s < r
      PROVE  stage[s] \in Over
  <2>1. r \in Requests /\ s \in Waiting(k) => FALSE
    BY <1>2, <1>1 DEF FrontReads, Front, Waiting, Conflict, Requests
  <2>2. r \in Requests /\ key[s] = k /\ stage[r] = "queued"
    BY <1>2, <1>1 DEF Waiting, Conflict
  <2>3. stage[s] # "queued"
    BY <2>1, <2>2 DEF Waiting
  <2>4. stage[s] # "new"
    BY <1>2, <2>2 DEF Fresh, Requests, TypeOK
  <2>5. stage[s] \notin InHand
    <3> SUFFICES ASSUME stage[s] \in InHand PROVE FALSE
      OBVIOUS
    <3>1. owner[s] \in Requests /\ phase[owner[s]] \in {"run", "absorb"} /\ key[owner[s]] = k
      BY <1>2, <2>2, NullsAreFresh DEF Owners, Awaited, Conflict, Scoped
    <3>2. owner[s] = d
      BY <3>1 DEF QueueHeld, Hold, PopFront
    <3> QED BY <3>1, <3>2 DEF PopFront
  <2> QED BY <2>3, <2>4, <2>5 DEF TypeOK, Stages, InHand, Over
<1> HIDE DEF k, popped
<1>3. /\ phase[d] = "pop"
      /\ stage' = [r \in Requests |-> IF r \in popped THEN "taken" ELSE stage[r]]
      /\ owner' = [r \in Requests |-> IF r \in popped THEN d ELSE owner[r]]
      /\ phase' = [phase EXCEPT ![d] = "run"]
      /\ UNCHANGED <<reqVars, present, permit, connVars, panics>>
  BY DEF PopFront, k, popped
<1> QED BY <1>1, <1>2, <1>3, TakeStep DEF k

\* The reads that join run beside reads only.
LEMMA AbsorbStep ==
    ASSUME Inv, NEW d \in Requests, Absorb(d)
    PROVE  Inv'
<1> DEFINE k == key[d]
           popped == FrontReads(k)
<1> USE DEF Inv
<1>1. popped \in SUBSET Waiting(k)
  BY DEF FrontReads
<1>2. ASSUME NEW r \in popped, NEW s \in Requests, Conflict(s, r), s < r
      PROVE  stage[s] \in Over
  <2>1. r \in Requests /\ key[s] = k /\ stage[r] = "queued" /\ access[s] = "Exclusive"
    BY <1>2, <1>1 DEF Waiting, Conflict, FrontReads, TypeOK, Accesses
  <2>2. stage[s] # "queued"
    BY <1>2, <2>1 DEF Waiting, FrontReads, Requests
  <2>3. stage[s] # "new"
    BY <1>2, <2>1 DEF Fresh, Requests, TypeOK
  <2>4. stage[s] \notin InHand
    <3> SUFFICES ASSUME stage[s] \in InHand PROVE FALSE
      OBVIOUS
    <3>1. owner[s] \in Requests /\ phase[owner[s]] \in {"run", "absorb"} /\ key[owner[s]] = k
      BY <1>2, <2>1, NullsAreFresh DEF Owners, Awaited, Conflict, Scoped
    <3>2. owner[s] = d
      BY <3>1 DEF QueueHeld, Hold, Absorb
    <3> QED BY <3>1, <3>2, <2>1 DEF Absorb, AbsorbsReads
  <2> QED BY <2>2, <2>3, <2>4 DEF TypeOK, Stages, InHand, Over
<1> HIDE DEF k, popped
<1>3. /\ phase[d] = "absorb"
      /\ stage' = [r \in Requests |-> IF r \in popped THEN "taken" ELSE stage[r]]
      /\ owner' = [r \in Requests |-> IF r \in popped THEN d ELSE owner[r]]
      /\ phase' = [phase EXCEPT ![d] = "run"]
      /\ UNCHANGED <<reqVars, present, permit, connVars, panics>>
  BY DEF Absorb, k, popped
<1> QED BY <1>1, <1>2, <1>3, TakeStep DEF k

\* The task leaves an empty queue and takes its entry with it.
LEMMA RemoveStep ==
    ASSUME Inv, NEW d \in Requests, RemoveQueue(d)
    PROVE  Inv'
<1> USE DEF Inv, RemoveQueue, reqVars, connVars
<1>1. TypeOK' /\ Fresh'
  BY DEF TypeOK, Phases, Fresh
<1>2. QueueHeld'
  BY DEF QueueHeld, TypeOK, Hold, Waiting
<1>3. Owners' /\ AbsorbsReads'
  BY DEF Owners, Awaited, AbsorbsReads, TypeOK, InHand
<1>4. ConflictsInOrder' /\ NothingAfterCleanup'
  BY DEF ConflictsInOrder, Conflict, Scoped, NothingAfterCleanup, InFlight
<1> QED BY <1>1, <1>2, <1>3, <1>4

\* The task wakes up while reads run: by the order of conflicting requests,
\* everything it runs is a read.
LEMMA NotifiedStep ==
    ASSUME Inv, NEW d \in Requests, Notified(d)
    PROVE  Inv'
<1> USE DEF Inv, Notified, reqVars, connVars
<1>1. TypeOK' /\ Fresh'
  BY DEF TypeOK, Phases, Fresh
<1>2. QueueHeld'
  BY DEF QueueHeld, TypeOK, Hold
<1>3. Owners'
  BY DEF Owners, Awaited, TypeOK, InHand
<1>4. AbsorbsReads'
  <2>1. PICK q \in Batch(d) : access[q] = "SharedRead"
    OBVIOUS
  <2>2. ASSUME NEW r \in Requests, stage[r] \in InHand, owner[r] = d
        PROVE  access[r] = "SharedRead"
    <3> SUFFICES ASSUME access[r] = "Exclusive" PROVE FALSE
      BY DEF TypeOK, Accesses
    <3>1. /\ q \in Requests /\ stage[q] \in InHand /\ key[q] = key[d] /\ key[d] \in Keys
          /\ key[r] = key[d] /\ q # r
      BY <2>1, <2>2, NullsAreFresh DEF Batch, InHand, Owners, Awaited
    <3>2. CASE q < r
      BY <3>1, <3>2, <2>2 DEF ConflictsInOrder, Conflict, Scoped, InHand, Over
    <3>3. CASE r < q
      BY <3>1, <3>3, <2>2 DEF ConflictsInOrder, Conflict, Scoped, InHand, Over
    <3> QED BY <3>1, <3>2, <3>3 DEF Requests
  <2> QED BY <2>2 DEF AbsorbsReads, TypeOK
<1>5. ConflictsInOrder' /\ NothingAfterCleanup'
  BY DEF ConflictsInOrder, Conflict, Scoped, NothingAfterCleanup, InFlight
<1> QED BY <1>1, <1>2, <1>3, <1>4, <1>5

-----------------------------------------------------------------------------
(* The handlers. *)

\* A popped request whose gate is open starts to run.
LEMMA AdmitStep ==
    ASSUME Inv, NEW r \in Requests, Admit(r)
    PROVE  Inv'
<1> USE DEF Inv, Admit, reqVars, connVars, taskVars
<1>1. TypeOK' /\ Fresh'
  BY DEF TypeOK, Stages, Fresh
<1>2. QueueHeld'
  BY DEF QueueHeld, TypeOK
<1>3. Owners' /\ AbsorbsReads'
  BY DEF Owners, Awaited, AbsorbsReads, TypeOK, InHand
<1>4. ConflictsInOrder'
  BY DEF ConflictsInOrder, Conflict, Scoped, TypeOK, Over
<1>5. NothingAfterCleanup'
  BY DEF NothingAfterCleanup, InFlight, TypeOK
<1> QED BY <1>1, <1>2, <1>3, <1>4, <1>5

\* A request in the hands of its task ends.
LEMMA EndsStep ==
    ASSUME Inv, NEW r \in Requests, stage[r] \in InHand, Polled(r),
           NEW end \in {"done", "dropped"}, Ends(r, end)
    PROVE  Inv'
<1> USE DEF Inv, Ends, reqVars, connVars
<1>0. owner[r] # NoTask => owner[r] \in Requests /\ phase[owner[r]] = "run"
  BY DEF Polled, TypeOK
<1>1. TypeOK'
  BY <1>0 DEF TypeOK, Stages, Phases
<1>2. Fresh'
  BY <1>0 DEF TypeOK, Fresh, InHand, Requests
<1>3. QueueHeld'
  BY <1>0 DEF QueueHeld, TypeOK, Hold
<1>4. Owners' /\ AbsorbsReads'
  BY <1>0 DEF Owners, Awaited, AbsorbsReads, TypeOK, InHand, Batch
<1>5. ConflictsInOrder'
  BY DEF ConflictsInOrder, Conflict, Scoped, TypeOK, Over, InHand
<1>6. NothingAfterCleanup'
  BY DEF NothingAfterCleanup, InFlight, TypeOK
<1> QED BY <1>1, <1>2, <1>3, <1>4, <1>5, <1>6

\* A handler panics: its task keeps the queue for ever.
LEMMA PanicStep ==
    ASSUME Inv, NEW r \in Requests, Panic(r)
    PROVE  Inv'
<1> DEFINE dropped == IF owner[r] = NoTask THEN {r} ELSE Batch(owner[r])
<1> USE DEF Inv, Panic, reqVars, connVars
<1>0. /\ owner[r] # NoTask => owner[r] \in Requests /\ phase[owner[r]] = "run"
      /\ \A s \in dropped : s \in Requests /\ stage[s] \in InHand
  BY DEF Polled, TypeOK, Batch, InHand
<1>1. TypeOK'
  BY <1>0 DEF TypeOK, Stages, Phases
<1>2. Fresh'
  BY <1>0 DEF TypeOK, Fresh, InHand
<1>3. QueueHeld'
  BY <1>0 DEF QueueHeld, TypeOK, Hold, InHand
<1>4. Owners' /\ AbsorbsReads'
  BY <1>0 DEF Owners, Awaited, AbsorbsReads, TypeOK, InHand, Batch
<1>5. ConflictsInOrder'
  BY <1>0 DEF ConflictsInOrder, Conflict, Scoped, TypeOK, Over, InHand
<1>6. NothingAfterCleanup'
  BY <1>0 DEF NothingAfterCleanup, InFlight, TypeOK
<1> QED BY <1>1, <1>2, <1>3, <1>4, <1>5, <1>6

\* Closing a gate, and the cleanup after it.
LEMMA ConnStep ==
    ASSUME Inv, NEW c \in Conns, CloseGate(c) \/ Cleanup(c)
    PROVE  Inv'
<1> USE DEF Inv, reqVars, taskVars
<1>0. UNCHANGED <<stage, reqVars, taskVars, panics>>
  BY DEF CloseGate, Cleanup
<1>1. gate' \in [Conns -> {"open", "closed", "cleaned"}]
  BY DEF CloseGate, Cleanup, TypeOK
<1>2. late' \in [Conns -> BOOLEAN]
  <2>1. CASE CloseGate(c)
    BY <2>1 DEF CloseGate, TypeOK
  <2>2. CASE Cleanup(c)
    <3>1. (InFlight(c) # {}) \in BOOLEAN
      OBVIOUS
    <3> QED BY <2>2, <3>1, Zenon DEF Cleanup, TypeOK
  <2> QED BY <2>1, <2>2
<1>3. TypeOK' /\ Fresh' /\ QueueHeld'
  BY <1>0, <1>1, <1>2 DEF TypeOK, Fresh, QueueHeld
<1>4. Owners' /\ AbsorbsReads' /\ ConflictsInOrder'
  BY <1>0 DEF Owners, Awaited, AbsorbsReads, ConflictsInOrder, Conflict, Scoped
<1>5. NothingAfterCleanup'
  <2> SUFFICES ASSUME NEW b \in Conns, gate'[b] = "cleaned", ~late'[b]
               PROVE  InFlight(b) = {}
    BY <1>0 DEF NothingAfterCleanup, InFlight
  <2>1. CASE CloseGate(c)
    <3>1. gate[b] = "cleaned"
      BY <2>1 DEF CloseGate, TypeOK
    <3> QED BY <2>1, <3>1, Zenon DEF CloseGate, NothingAfterCleanup
  <2>2. CASE Cleanup(c) /\ b = c
    <3>1. late'[c] = (InFlight(c) # {})
      BY <2>2, Zenon DEF Cleanup, TypeOK
    <3> QED BY <2>2, <3>1, Zenon
  <2>3. CASE Cleanup(c) /\ b # c
    <3>1. late'[b] = late[b]
      BY <2>3, Zenon DEF Cleanup, TypeOK
    <3>2. gate[b] = "cleaned"
      BY <2>3 DEF Cleanup, TypeOK
    <3> QED BY <3>1, <3>2, Zenon DEF NothingAfterCleanup
  <2> QED BY <2>1, <2>2, <2>3
<1> QED BY <1>3, <1>4, <1>5

-----------------------------------------------------------------------------
(* The invariant, and what follows from it. *)

\* Every step of the queues preserves the invariant.
LEMMA NextInv == Inv /\ [Next]_vars => Inv'
<1> SUFFICES ASSUME Inv, [Next]_vars PROVE Inv'
  OBVIOUS
<1>1. CASE \E r \in Requests, c \in Conns, res \in Resources, a \in Accesses :
             Enqueue(r, c, res, a)
  <2>1. PICK r \in Requests, c \in Conns, res \in Resources, a \in Accesses :
             Enqueue(r, c, res, a)
    BY <1>1
  <2>2. from_scope(c, res, a).key \in Keys /\ from_scope(c, res, a).access \in Accesses
    BY DEF from_scope, Keys, Resources, Accesses
  <2> QED BY <2>1, <2>2, EnqueueStep DEF Enqueue
<1>2. CASE \E r \in Requests, res \in Shared : EnqueueBackground(r, res)
  <2>1. PICK r \in Requests, res \in Shared : EnqueueBackground(r, res)
    BY <1>2
  <2>2. <<NoConn, res>> \in Keys /\ "Exclusive" \in Accesses
    BY DEF Keys, Resources, Accesses
  <2> QED BY <2>1, <2>2, EnqueueStep DEF EnqueueBackground
<1>3. CASE \E r \in Requests, c \in Conns : SpawnUnscoped(r, c)
  BY <1>3, UnscopedStep
<1>4. CASE \E d \in Requests : TaskStep(d)
  BY <1>4, PopStep, RemoveStep, NotifiedStep, AbsorbStep DEF TaskStep
<1>5. CASE \E r \in Requests : Admit(r)
  BY <1>5, AdmitStep
<1>6. CASE \E r \in Requests : Refuse(r)
  BY <1>6, EndsStep DEF Refuse, InHand
<1>7. CASE \E r \in Requests : Finish(r)
  BY <1>7, EndsStep DEF Finish, InHand
<1>8. CASE \E r \in Requests : Panic(r)
  BY <1>8, PanicStep
<1>9. CASE \E c \in Conns : CloseGate(c) \/ Cleanup(c)
  BY <1>9, ConnStep
<1>10. CASE UNCHANGED vars
  BY <1>10 DEF vars, Inv, TypeOK, Fresh, QueueHeld, Owners, Awaited, AbsorbsReads,
               ConflictsInOrder, Conflict, Scoped, NothingAfterCleanup, InFlight
<1> QED BY <1>1, <1>2, <1>3, <1>4, <1>5, <1>6, <1>7, <1>8, <1>9, <1>10 DEF Next

\* The invariant holds in every reachable state.
THEOREM Inductive == Spec => []Inv
  BY InitInv, NextInv, PTL DEF Spec

\* Every variable keeps its type.
THEOREM TypeCorrect == Spec => []TypeOK
  BY Inductive, PTL DEF Inv

\* Conflicting requests are popped one after the other, in arrival order.
THEOREM InOrder == Spec => []ConflictsInOrder
  BY Inductive, PTL DEF Inv

\* No handler of a connection runs after its cleanup, unless it was late.
THEOREM Quiet == Spec => []NothingAfterCleanup
  BY Inductive, PTL DEF Inv

\* Every queue in the map has exactly one task, or one that panicked.
THEOREM OneDrain == Spec => []OneDrainPerQueue
<1>1. Inv => OneDrainPerQueue
  BY DEF Inv, TypeOK, QueueHeld, OneDrainPerQueue, Served, Poisoned, Hold, Live
<1> QED BY Inductive, <1>1, PTL

-----------------------------------------------------------------------------
(* The refinement of SerialAccess. *)

\* The public stage of one request.
Public(st) ==
    IF st = "new" THEN "new"
    ELSE IF st \in {"queued", "taken"} THEN "waiting"
    ELSE IF st = "running" THEN "running" ELSE "over"

Behind(r) == {s \in Requests : Conflict(r, s) /\ s < r}

\* The refinement mapping, request by request.
LEMMA Mapping ==
    /\ PublicStage = [r \in Requests |-> Public(stage[r])]
    /\ PublicStage' = [r \in Requests |-> Public(stage'[r])]
  BY DEF PublicStage, Public

\* An arrival is an arrival of SerialAccess: the requests it must follow are
\* those in front of it.
LEMMA ArriveMaps ==
    ASSUME Inv, NEW r \in Requests, NEW c, NEW k \in Keys \cup {NoKey},
           NEW a \in Accesses, Arrives(r, c, k, a),
           NEW st \in {"queued", "taken"}, stage' = [stage EXCEPT ![r] = st]
    PROVE  SA!Arrive(r, k, a)
<1> USE DEF Inv, Arrives
<1>0. r = arrivals + 1 /\ stage[r] = "new" /\ NoKey \notin Keys
  BY NullsAreFresh DEF Fresh, Requests, TypeOK
<1>1. PublicStage[r] = "new" /\ PublicStage' = [PublicStage EXCEPT ![r] = "waiting"]
  BY <1>0, Mapping DEF Public, TypeOK
<1>2. \A t \in Requests : t # r => Behind(t)' = Behind(t)
  <2> SUFFICES ASSUME NEW t \in Requests, t # r, NEW s \in Requests
               PROVE  (Conflict(t, s) /\ s < t)' <=> Conflict(t, s) /\ s < t
    BY DEF Behind
  <2>1. CASE s # r
    BY <2>1 DEF Conflict, Scoped, TypeOK
  <2>2. CASE s = r
    <3>1. s < t => key[t] = NoKey /\ key'[t] = NoKey
      BY <2>2, <1>0 DEF Fresh, TypeOK, Requests
    <3> QED BY <3>1, <1>0 DEF Conflict, Scoped
  <2> QED BY <2>1, <2>2
<1>3. Behind(r)' = {s \in Requests : SA!MustFollow(s, k, a)}
  <2> SUFFICES ASSUME NEW s \in Requests
               PROVE  (Conflict(r, s) /\ s < r)' <=> SA!MustFollow(s, k, a)
    BY DEF Behind
  <2>1. CASE s < r
    <3>1. stage[s] # "new" /\ s # r
      BY <2>1, <1>0 DEF Fresh, TypeOK, Requests
    <3>2. PublicStage[s] # "new"
      BY <3>1, Mapping DEF Public
    <3> QED BY <2>1, <3>1, <3>2, <1>0 DEF Conflict, Scoped, SA!MustFollow, TypeOK
  <2>2. CASE ~(s < r)
    <3>1. stage[s] = "new"
      BY <2>2, <1>0 DEF Fresh, TypeOK, Requests
    <3>2. PublicStage[s] = "new"
      BY <3>1, Mapping DEF Public
    <3> QED BY <2>2, <3>2 DEF SA!MustFollow
  <2> QED BY <2>1, <2>2
<1>4. [t \in Requests |-> Behind(t)'] =
         [[t \in Requests |-> Behind(t)] EXCEPT ![r] = {s \in Requests : SA!MustFollow(s, k, a)}]
  BY <1>2, <1>3
<1> QED BY <1>1, <1>4 DEF SA!Arrive, Behind

\* What leaves the requests' keys alone leaves what they follow alone.
LEMMA SameBehind ==
    ASSUME UNCHANGED reqVars
    PROVE  UNCHANGED <<key, access, [r \in Requests |-> {s \in Requests : Conflict(r, s) /\ s < r}]>>
  BY DEF reqVars, Conflict, Scoped

\* Every step is a step of SerialAccess, or is not seen by it.
LEMMA StepMaps ==
    ASSUME Inv, [Next]_vars
    PROVE  [SA!ANext]_(SA!saVars)
<1> USE DEF Inv
<1> DEFINE behind == [r \in Requests |-> {s \in Requests : Conflict(r, s) /\ s < r}]
<1>1. CASE \E r \in Requests, c \in Conns, res \in Resources, a \in Accesses :
             Enqueue(r, c, res, a)
  <2>1. PICK r \in Requests, c \in Conns, res \in Resources, a \in Accesses :
             Enqueue(r, c, res, a)
    BY <1>1
  <2> DEFINE k == from_scope(c, res, a).key
             x == from_scope(c, res, a).access
  <2>2. k \in Keys /\ x \in Accesses
    BY DEF from_scope, Keys, Resources, Accesses
  <2>3. EnqueueOn(r, c, k, x)
    BY <2>1 DEF Enqueue
  <2> HIDE DEF k, x
  <2>4. SA!Arrive(r, k, x)
    BY <2>2, <2>3, ArriveMaps DEF EnqueueOn
  <2> QED BY <2>2, <2>4 DEF SA!ANext, Accesses
<1>2. CASE \E r \in Requests, res \in Shared : EnqueueBackground(r, res)
  <2>1. PICK r \in Requests, res \in Shared : EnqueueBackground(r, res)
    BY <1>2
  <2> DEFINE k == <<NoConn, res>>
  <2>2. k \in Keys /\ "Exclusive" \in Accesses
    BY DEF Keys, Resources, Accesses
  <2>3. EnqueueOn(r, NoConn, k, "Exclusive")
    BY <2>1 DEF EnqueueBackground
  <2> HIDE DEF k
  <2>4. SA!Arrive(r, k, "Exclusive")
    BY <2>2, <2>3, ArriveMaps DEF EnqueueOn
  <2> QED BY <2>2, <2>4 DEF SA!ANext, Accesses
<1>3. CASE \E r \in Requests, c \in Conns : SpawnUnscoped(r, c)
  <2>1. PICK r \in Requests, c \in Conns : SpawnUnscoped(r, c)
    BY <1>3
  <2>2. SA!Arrive(r, NoKey, "Exclusive")
    BY <2>1, ArriveMaps DEF SpawnUnscoped, Accesses
  <2> QED BY <2>2 DEF SA!ANext
<1>4. CASE UNCHANGED reqVars /\ \A r \in Requests : Public(stage'[r]) = Public(stage[r])
  <2>1. PublicStage' = PublicStage
    BY <1>4, Mapping
  <2> QED BY <1>4, <2>1, SameBehind DEF SA!saVars
<1>5. CASE \E d \in Requests : TaskStep(d)
  <2>1. UNCHANGED reqVars /\ \A r \in Requests : Public(stage'[r]) = Public(stage[r])
    BY <1>5 DEF TaskStep, PopFront, RemoveQueue, Notified, Absorb, FrontReads, Front,
                Waiting, Public, TypeOK
  <2> QED BY <2>1, <1>4
<1>6. CASE \E r \in Requests : Admit(r)
  <2>1. PICK r \in Requests : Admit(r)
    BY <1>6
  <2>2. PublicStage[r] = "waiting" /\ PublicStage' = [PublicStage EXCEPT ![r] = "running"]
    BY <2>1, Mapping DEF Admit, Public, TypeOK
  <2>3. \A s \in behind[r] : PublicStage[s] = "over"
    <3> SUFFICES ASSUME NEW s \in Requests, Conflict(r, s), s < r PROVE PublicStage[s] = "over"
      OBVIOUS
    <3>1. stage[s] \in Over
      BY <2>1 DEF ConflictsInOrder, Conflict, Scoped, Admit
    <3> QED BY <3>1, Mapping DEF Public, Over
  <2>4. UNCHANGED <<key, access, behind>>
    BY <2>1, SameBehind DEF Admit
  <2>5. SA!Start(r)
    BY <2>2, <2>3, <2>4 DEF SA!Start
  <2> QED BY <2>5 DEF SA!ANext
<1>7. ASSUME NEW R \in SUBSET Requests, R # {}, UNCHANGED reqVars,
             \A r \in R : stage[r] \in InHand,
             \A r \in Requests : IF r \in R THEN stage'[r] \in Over ELSE stage'[r] = stage[r]
      PROVE  SA!ANext
  <2>1. /\ \A r \in R : PublicStage[r] \in {"waiting", "running"}
        /\ PublicStage' = [r \in Requests |-> IF r \in R THEN "over" ELSE PublicStage[r]]
    BY <1>7, Mapping DEF Public, InHand, Over
  <2>2. UNCHANGED <<key, access, behind>>
    BY <1>7, SameBehind
  <2>3. SA!End(R)
    BY <1>7, <2>1, <2>2 DEF SA!End
  <2> QED BY <2>3 DEF SA!ANext
<1>8. CASE \E r \in Requests : Refuse(r) \/ Finish(r)
  <2>1. PICK r \in Requests : Refuse(r) \/ Finish(r)
    BY <1>8
  <2>2. /\ UNCHANGED reqVars /\ stage[r] \in InHand
        /\ \A s \in Requests : IF s \in {r} THEN stage'[s] \in Over ELSE stage'[s] = stage[s]
    BY <2>1 DEF Refuse, Finish, Ends, InHand, Over, TypeOK
  <2> QED BY <2>2, <1>7
<1>9. CASE \E r \in Requests : Panic(r)
  <2>1. PICK r \in Requests : Panic(r)
    BY <1>9
  <2> DEFINE R == IF owner[r] = NoTask THEN {r} ELSE Batch(owner[r])
  <2>2. R \in SUBSET Requests /\ r \in R /\ \A s \in R : stage[s] \in InHand
    BY <2>1 DEF Panic, Batch, InHand
  <2>3. /\ UNCHANGED reqVars
        /\ \A s \in Requests : IF s \in R THEN stage'[s] \in Over ELSE stage'[s] = stage[s]
    BY <2>1 DEF Panic, Over
  <2> HIDE DEF R
  <2> QED BY <2>2, <2>3, <1>7
<1>10. CASE \E c \in Conns : CloseGate(c) \/ Cleanup(c)
  BY <1>10, <1>4 DEF CloseGate, Cleanup
<1>11. CASE UNCHANGED vars
  BY <1>11, <1>4 DEF vars, reqVars
<1> QED BY <1>1, <1>2, <1>3, <1>5, <1>6, <1>8, <1>9, <1>10, <1>11 DEF Next

\* The queues implement SerialAccess: a request starts only when every
\* conflicting request that arrived before it is over.
THEOREM Refines == Spec => ImplementsSerialAccess
<1>1. Init => SA!AInit
  <2> SUFFICES ASSUME Init PROVE SA!AInit
    OBVIOUS
  <2>1. PublicStage = [r \in Requests |-> "new"]
    BY Mapping DEF Init, Public
  <2>2. \A r, s \in Requests : ~Conflict(r, s)
    BY NullsAreFresh DEF Init, Conflict, Scoped
  <2> QED BY <2>1, <2>2 DEF Init, SA!AInit
<1>2. Inv /\ [Next]_vars => [SA!ANext]_(SA!saVars)
  BY StepMaps
<1> QED BY <1>1, <1>2, Inductive, PTL DEF Spec, ImplementsSerialAccess, SA!ASpec

=============================================================================
