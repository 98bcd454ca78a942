------------------------------ MODULE JobQueue ------------------------------
(***************************************************************************)
(* The durable background queue of the backend (backend/app/jobs.py), the  *)
(* endpoints that feed it (POST /exams/{id}/commit, the photo endpoints)   *)
(* and the teacher's retry (api/routers/jobs.py).                          *)
(*                                                                         *)
(* A job is one row of async_job, identified by its (kind, key) pair.  A   *)
(* worker is the worker_loop of one backend process; several processes     *)
(* share the table.  run_once is cut at every place where another process  *)
(* can act: between the two statements of _claim, during the handler, and  *)
(* between the handler's own commit and what run_once does after it.       *)
(*                                                                         *)
(* Time: lease[j] is the number of ticks left before locked_at is older    *)
(* than LEASE_SECONDS, 0 when the lease has expired, NoLease when          *)
(* locked_at is NULL; ready[j] says that available_at has been reached.    *)
(* Ticks of different jobs are independent, so every relative timing is    *)
(* covered; the processes' clocks are taken to agree.                      *)
(***************************************************************************)
EXTENDS Integers

CONSTANTS
    ReportJobs,    \* jobs of kind exam_reports, one per exam
    PhotoJobs,     \* jobs of kind photo_template or photo_response
    ForeignJobs,   \* jobs whose kind this release has no handler for
    Workers,       \* backend processes running worker_loop
    NoJob, NoWorker,
    MaxAttempts,   \* enqueue's max_attempts
    RetryBudget,   \* attempts granted by retry_job
    LeaseTicks,    \* LEASE_SECONDS, in ticks
    AttemptBound,  \* bound: retry_job is not called beyond it
    MaxSubmits,    \* bound: commits of one exam that hand work to the queue
    MaxCrashes,    \* bound: process crashes
    MaxDbErrors    \* bound: database errors that escape run_once

Jobs == ReportJobs \cup PhotoJobs \cup ForeignJobs

ASSUME DisjointKinds ==
    /\ ReportJobs \cap PhotoJobs = {}
    /\ ReportJobs \cap ForeignJobs = {}
    /\ PhotoJobs \cap ForeignJobs = {}
ASSUME NullsAreFresh == NoJob \notin Jobs /\ NoWorker \notin Workers
ASSUME BoundsAssumption ==
    /\ MaxAttempts \in Nat \ {0} /\ RetryBudget \in Nat \ {0}
    /\ LeaseTicks \in Nat \ {0}
    /\ AttemptBound \in Nat /\ MaxSubmits \in Nat
    /\ MaxCrashes \in Nat /\ MaxDbErrors \in Nat

VARIABLES
    status, attempts, maxAttempts, lockedBy, lease, ready,  \* async_job columns
    submitted,  \* exam data version handed to the job (0: never enqueued)
    covered,    \* exam data version the committed reports were computed from
    effects,    \* history: how often the job's domain writes were committed
    fired,      \* history: post-exam triggers delivered to the gateway
    pc, cur, att, seen, snap,  \* run_once's local state, per worker
    beats,      \* heartbeat threads alive, as <<worker, job, attempt>>
    crashes, dbErrors

rowVars == <<status, attempts, maxAttempts, lockedBy, lease, ready>>
domainVars == <<submitted, covered, effects, fired>>
localVars == <<pc, cur, att, seen, snap>>
envVars == <<crashes, dbErrors>>
vars == <<status, attempts, maxAttempts, lockedBy, lease, ready,
          submitted, covered, effects, fired,
          pc, cur, att, seen, snap, beats, crashes, dbErrors>>

\* locked_at is NULL: no SQL comparison with it holds.
NoLease == -1

Statuses == {"absent", "queued", "running", "succeeded", "failed"}

\* idle: before _claim; cas: candidate read, row not yet taken; claimed: inside
\* the handler; handling: the handler has read the data it works from; firing:
\* result committed, trigger not sent; failing: about to call _fail; closing:
\* about to call the trailing _complete; dead: an exception ended worker_loop;
\* down: the process is not running.
Phases == {"idle", "cas", "claimed", "handling", "firing", "failing",
           "closing", "dead", "down"}

InHandler == {"claimed", "handling", "firing"}

Init ==
    /\ status = [j \in Jobs |-> "absent"]
    /\ attempts = [j \in Jobs |-> 0]
    /\ maxAttempts = [j \in Jobs |-> 0]
    /\ lockedBy = [j \in Jobs |-> NoWorker]
    /\ lease = [j \in Jobs |-> NoLease]
    /\ ready = [j \in Jobs |-> FALSE]
    /\ submitted = [j \in Jobs |-> 0]
    /\ covered = [j \in Jobs |-> 0]
    /\ effects = [j \in Jobs |-> 0]
    /\ fired = [j \in Jobs |-> 0]
    /\ pc = [w \in Workers |-> "idle"]
    /\ cur = [w \in Workers |-> NoJob]
    /\ att = [w \in Workers |-> 0]
    /\ seen = [w \in Workers |-> "absent"]
    /\ snap = [w \in Workers |-> 0]
    /\ beats = {}
    /\ crashes = 0
    /\ dbErrors = 0

\* run_once returns (or its process stops): its local variables are gone.
Leave(w, phase) ==
    /\ pc' = [pc EXCEPT ![w] = phase]
    /\ cur' = [cur EXCEPT ![w] = NoJob]
    /\ att' = [att EXCEPT ![w] = 0]
    /\ seen' = [seen EXCEPT ![w] = "absent"]
    /\ snap' = [snap EXCEPT ![w] = 0]

-----------------------------------------------------------------------------
(* Requests that reach the table. *)

\* Mutant of Enqueue: a finished job is put back in the queue.
EnqueueRequeues(j) ==
    /\ submitted[j] < (IF j \in ReportJobs THEN MaxSubmits ELSE 1)
    /\ submitted' = [submitted EXCEPT ![j] = @ + 1]
    /\ status' = [status EXCEPT ![j] = "queued"]
    /\ maxAttempts' = [maxAttempts EXCEPT ![j] = MaxAttempts]
    /\ ready' = [ready EXCEPT ![j] = TRUE]
    /\ UNCHANGED <<attempts, lockedBy, lease, covered, effects, fired,
                   localVars, beats, envVars>>

\* enqueue: the unique (kind, key) makes it insert a row or return the one
\* that is there, whatever its status.  For an exam this is the commit
\* endpoint: newly reviewed responses and the row are committed together.  A
\* photo's key holds the image digest, so its data never changes.
Enqueue(j) ==
    /\ submitted[j] < (IF j \in ReportJobs THEN MaxSubmits ELSE 1)
    /\ submitted' = [submitted EXCEPT ![j] = @ + 1]
    /\ IF status[j] = "absent"
         THEN /\ status' = [status EXCEPT ![j] = "queued"]
              /\ maxAttempts' = [maxAttempts EXCEPT ![j] = MaxAttempts]
              /\ ready' = [ready EXCEPT ![j] = TRUE]
         ELSE UNCHANGED <<status, maxAttempts, ready>>
    /\ UNCHANGED <<attempts, lockedBy, lease, covered, effects, fired,
                   localVars, beats, envVars>>

\* retry_job: only a failed job, and _scoped_job hides jobs of unknown kind.
\* attempts is kept: it is the fencing token.
RetryJob(j) ==
    /\ j \notin ForeignJobs
    /\ status[j] = "failed"
    /\ attempts[j] + RetryBudget =< AttemptBound
    /\ status' = [status EXCEPT ![j] = "queued"]
    /\ maxAttempts' = [maxAttempts EXCEPT ![j] = attempts[j] + RetryBudget]
    /\ ready' = [ready EXCEPT ![j] = TRUE]
    /\ lockedBy' = [lockedBy EXCEPT ![j] = NoWorker]
    /\ lease' = [lease EXCEPT ![j] = NoLease]
    /\ UNCHANGED <<attempts, domainVars, localVars, beats, envVars>>

-----------------------------------------------------------------------------
(* _claim *)

\* Mutant of Exhausted: the sweep forgets to compare the attempts.
ExhaustedAnyAttempt == {j \in Jobs : status[j] = "running" /\ lease[j] = 0}

\* Rows the first statement of _claim retires: expired, no attempt left.
Exhausted == {j \in Jobs : /\ status[j] = "running" /\ lease[j] = 0
                           /\ attempts[j] >= maxAttempts[j]}

\* Mutant of Claimable: expired rows are never taken over.
ClaimableQueuedOnly(j) == status[j] = "queued" /\ ready[j]

\* Rows the candidate query returns.  A queued row is taken whatever its
\* attempts; only the take-over of an expired row compares them.
Claimable(j) ==
    \/ status[j] = "queued" /\ ready[j]
    \/ /\ status[j] = "running" /\ lease[j] = 0
       /\ attempts[j] < maxAttempts[j]

\* Retire the exhausted rows, then read a candidate.  ORDER BY available_at is
\* left out: any candidate may come first.
ClaimRead(w) ==
    /\ pc[w] = "idle"
    /\ status' = [j \in Jobs |-> IF j \in Exhausted THEN "failed" ELSE status[j]]
    /\ lockedBy' = [j \in Jobs |-> IF j \in Exhausted THEN NoWorker ELSE lockedBy[j]]
    /\ lease' = [j \in Jobs |-> IF j \in Exhausted THEN NoLease ELSE lease[j]]
    /\ \/ \E j \in Jobs :
            /\ Claimable(j)
            /\ pc' = [pc EXCEPT ![w] = "cas"]
            /\ cur' = [cur EXCEPT ![w] = j]
            /\ att' = [att EXCEPT ![w] = attempts[j]]
            /\ seen' = [seen EXCEPT ![w] = status[j]]
       \/ /\ \A j \in Jobs : ~Claimable(j)
          /\ Exhausted # {}
          /\ UNCHANGED <<pc, cur, att, seen>>
    /\ UNCHANGED <<attempts, maxAttempts, ready, domainVars, snap, beats, envVars>>

\* Mutant of CasHolds: the update compares the status only.
CasHoldsStatusOnly(w) == status[cur[w]] = seen[w]

\* The WHERE clause of the update that takes the row.
CasHolds(w) ==
    LET j == cur[w] IN
    /\ status[j] = seen[w]
    /\ attempts[j] = att[w]
    /\ status[j] = "queued" \/ lease[j] = 0

\* The conditional UPDATE that takes the row, and the commit.  Both databases
\* in use serialize it with the read; the model relies on the condition alone.
ClaimCas(w) ==
    LET j == cur[w] IN
    /\ pc[w] = "cas"
    /\ IF CasHolds(w)
         THEN /\ status' = [status EXCEPT ![j] = "running"]
              /\ lockedBy' = [lockedBy EXCEPT ![j] = w]
              /\ lease' = [lease EXCEPT ![j] = LeaseTicks]
              /\ attempts' = [attempts EXCEPT ![j] = att[w] + 1]
              /\ att' = [att EXCEPT ![w] = @ + 1]
              /\ IF j \in ForeignJobs
                   THEN /\ pc' = [pc EXCEPT ![w] = "failing"]
                        /\ UNCHANGED beats
                   ELSE /\ pc' = [pc EXCEPT ![w] = "claimed"]
                        /\ beats' = beats \cup {<<w, j, att[w] + 1>>}
              /\ UNCHANGED <<cur, seen, snap>>
         ELSE /\ Leave(w, "idle")
              /\ UNCHANGED <<status, lockedBy, lease, attempts, beats>>
    /\ UNCHANGED <<maxAttempts, ready, domainVars, envVars>>

-----------------------------------------------------------------------------
(* Ownership, heartbeat, handler *)

\* _ownership without the lease condition.
OwnedBy(j, w, a) ==
    status[j] = "running" /\ lockedBy[j] = w /\ attempts[j] = a

\* Mutant of Owned: the final update is made by primary key alone.
OwnedById(w) == cur[w] \in Jobs

\* This worker's claim is still the one in the row.
Owned(w) == OwnedBy(cur[w], w, att[w])

\* The heartbeat's stop event is set as soon as the handler is left.
Stopped(b) == ~(pc[b[1]] \in InHandler /\ cur[b[1]] = b[2] /\ att[b[1]] = b[3])

\* One round of the heartbeat thread: _renew, then exit if the row is not
\* owned with a live lease, or if it has been told to stop (join gives up
\* after five seconds, so a round may still run after that).
Heartbeat(b) ==
    LET renewed == OwnedBy(b[2], b[1], b[3]) /\ lease[b[2]] > 0 IN
    /\ b \in beats
    /\ lease' = IF renewed THEN [lease EXCEPT ![b[2]] = LeaseTicks] ELSE lease
    /\ beats' = IF renewed /\ ~Stopped(b) THEN beats ELSE beats \ {b}
    /\ UNCHANGED <<status, attempts, maxAttempts, lockedBy, ready, domainVars,
                   localVars, envVars>>

\* The handler reads the data it will work from (the submitted responses, the
\* stored image).
HandlerRead(w) ==
    /\ pc[w] = "claimed"
    /\ pc' = [pc EXCEPT ![w] = "handling"]
    /\ snap' = [snap EXCEPT ![w] = submitted[cur[w]]]
    /\ UNCHANGED <<rowVars, domainVars, cur, att, seen, beats, envVars>>

\* The handler raises before its commit, or the trigger code raises after it.
HandlerRaises(w) ==
    /\ pc[w] \in InHandler
    /\ pc' = [pc EXCEPT ![w] = "failing"]
    /\ UNCHANGED <<rowVars, domainVars, cur, att, seen, snap, beats, envVars>>

\* The columns _complete and the domain writes set, in one transaction.
Succeed(j) ==
    /\ status' = [status EXCEPT ![j] = "succeeded"]
    /\ lockedBy' = [lockedBy EXCEPT ![j] = NoWorker]
    /\ lease' = [lease EXCEPT ![j] = NoLease]

\* _commit_result: domain writes and job result commit together if the row is
\* still owned, even with an expired lease; otherwise everything rolls back and
\* LeaseLost is raised.  generate_exam_reports swallows its own failures, so an
\* exam job may commit without having replaced the reports.
CommitResult(w) ==
    LET j == cur[w] IN
    /\ pc[w] = "handling"
    /\ IF Owned(w)
         THEN /\ Succeed(j)
              /\ effects' = [effects EXCEPT ![j] = @ + 1]
              /\ \/ covered' = [covered EXCEPT ![j] = snap[w]]
                 \/ j \in ReportJobs /\ UNCHANGED covered
              /\ pc' = [pc EXCEPT ![w] = IF j \in ReportJobs THEN "firing"
                                                             ELSE "closing"]
         ELSE /\ pc' = [pc EXCEPT ![w] = "failing"]
              /\ UNCHANGED <<status, lockedBy, lease, effects, covered>>
    /\ UNCHANGED <<attempts, maxAttempts, ready, submitted, fired, cur, att,
                   seen, snap, beats, envVars>>

\* Mutant of FireTrigger: the trigger is sent before the reports are committed.
FireTriggerEarly(w) ==
    /\ pc[w] \in {"handling", "firing"}
    /\ fired' = [fired EXCEPT ![cur[w]] = 1]
    /\ pc' = [pc EXCEPT ![w] = IF @ = "firing" THEN "closing" ELSE @]
    /\ UNCHANGED <<rowVars, submitted, covered, effects, cur, att, seen, snap,
                   beats, envVars>>

\* fire_post_exam_analysis: delivered, or skipped / refused / unreachable.
FireTrigger(w) ==
    /\ pc[w] = "firing"
    /\ \/ fired' = [fired EXCEPT ![cur[w]] = @ + 1]
       \/ UNCHANGED fired
    /\ pc' = [pc EXCEPT ![w] = "closing"]
    /\ UNCHANGED <<rowVars, submitted, covered, effects, cur, att, seen, snap,
                   beats, envVars>>

\* run_once after the handler returned: _complete once more.
Complete(w) ==
    LET j == cur[w] IN
    /\ pc[w] = "closing"
    /\ IF Owned(w) THEN Succeed(j) ELSE UNCHANGED <<status, lockedBy, lease>>
    /\ Leave(w, "idle")
    /\ UNCHANGED <<attempts, maxAttempts, ready, domainVars, beats, envVars>>

\* The status _fail writes.
FailStatus(retry) == IF retry THEN "queued" ELSE "failed"

\* _fail: needs ownership and a live lease; back to the queue with a backoff
\* while attempts are left, failed otherwise.
Fail(w) ==
    LET j == cur[w]
        retry == att[w] < maxAttempts[j] IN
    /\ pc[w] = "failing"
    /\ IF Owned(w) /\ lease[j] > 0
         THEN /\ status' = [status EXCEPT ![j] = FailStatus(retry)]
              /\ lockedBy' = [lockedBy EXCEPT ![j] = NoWorker]
              /\ lease' = [lease EXCEPT ![j] = NoLease]
              /\ ready' = [ready EXCEPT ![j] = FALSE]
         ELSE UNCHANGED <<status, lockedBy, lease, ready>>
    /\ Leave(w, "idle")
    /\ UNCHANGED <<attempts, maxAttempts, domainVars, beats, envVars>>

-----------------------------------------------------------------------------
(* Time and failures *)

\* The lease of a running row gets older.
LeaseTick(j) ==
    /\ status[j] = "running" /\ lease[j] > 0
    /\ lease' = [lease EXCEPT ![j] = @ - 1]
    /\ UNCHANGED <<status, attempts, maxAttempts, lockedBy, ready, domainVars,
                   localVars, beats, envVars>>

\* The backoff of a re-queued row ends.
BackoffEnds(j) ==
    /\ status[j] = "queued" /\ ~ready[j]
    /\ ready' = [ready EXCEPT ![j] = TRUE]
    /\ UNCHANGED <<status, attempts, maxAttempts, lockedBy, lease, domainVars,
                   localVars, beats, envVars>>

\* A process stops: its open transaction is rolled back, its threads are gone.
Crash(w) ==
    /\ pc[w] # "down"
    /\ crashes < MaxCrashes
    /\ crashes' = crashes + 1
    /\ Leave(w, "down")
    /\ beats' = {b \in beats : b[1] # w}
    /\ UNCHANGED <<rowVars, domainVars, dbErrors>>

\* The container restarts; lifespan starts a new worker_loop.
Restart(w) ==
    /\ pc[w] = "down"
    /\ Leave(w, "idle")
    /\ UNCHANGED <<rowVars, domainVars, beats, envVars>>

\* A database error inside _claim, _fail or the trailing _complete escapes
\* run_once and ends worker_loop; the process keeps serving requests.
DbError(w) ==
    /\ pc[w] \in {"idle", "cas", "failing", "closing"}
    /\ dbErrors < MaxDbErrors
    /\ dbErrors' = dbErrors + 1
    /\ Leave(w, "dead")
    /\ UNCHANGED <<rowVars, domainVars, beats, crashes>>

-----------------------------------------------------------------------------
RunOnce(w) ==
    \/ ClaimRead(w) \/ ClaimCas(w) \/ HandlerRead(w) \/ HandlerRaises(w)
    \/ CommitResult(w) \/ FireTrigger(w) \/ Complete(w) \/ Fail(w)

Next ==
    \/ \E j \in Jobs : Enqueue(j) \/ RetryJob(j) \/ LeaseTick(j) \/ BackoffEnds(j)
    \/ \E w \in Workers : RunOnce(w) \/ Crash(w) \/ Restart(w) \/ DbError(w)
    \/ \E b \in beats : Heartbeat(b)

\* Workers keep running (the loop polls, handlers end in a result or an
\* exception because their LLM calls time out), containers are restarted, and
\* time passes.  Requests, crashes and database errors are the environment's.
Fairness ==
    /\ \A w \in Workers : WF_vars(RunOnce(w)) /\ WF_vars(Restart(w))
    /\ \A j \in Jobs : WF_vars(LeaseTick(j)) /\ WF_vars(BackoffEnds(j))

SafetySpec == Init /\ [][Next]_vars
Spec == SafetySpec /\ Fairness

-----------------------------------------------------------------------------
(* Properties *)

\* Every variable has the type of its column or local variable.
TypeOK ==
    /\ status \in [Jobs -> Statuses]
    /\ attempts \in [Jobs -> Nat]
    /\ maxAttempts \in [Jobs -> Nat]
    /\ lockedBy \in [Jobs -> Workers \cup {NoWorker}]
    /\ lease \in [Jobs -> NoLease..LeaseTicks]
    /\ ready \in [Jobs -> BOOLEAN]
    /\ submitted \in [Jobs -> Nat]
    /\ covered \in [Jobs -> Nat]
    /\ effects \in [Jobs -> Nat]
    /\ fired \in [Jobs -> Nat]
    /\ pc \in [Workers -> Phases]
    /\ cur \in [Workers -> Jobs \cup {NoJob}]
    /\ att \in [Workers -> Nat]
    /\ seen \in [Workers -> Statuses]
    /\ snap \in [Workers -> Nat]
    /\ beats \subseteq (Workers \X Jobs \X Nat)
    /\ crashes \in Nat
    /\ dbErrors \in Nat

\* "Domain writes and successful job result commit atomically. A restarted
\* worker can no longer replay a completed photo import" (jobs.py, above the
\* commit in _commit_result): over all attempts, crashes, take-overs and
\* retries, the domain writes are committed exactly when the row says so, once.
ExactlyOnceEffect ==
    \A j \in Jobs : effects[j] = IF status[j] = "succeeded" THEN 1 ELSE 0

\* The post-exam analysis is triggered at most once per job, and only after
\* the reports it will read are published (the comment in the commit endpoint).
TriggerAfterPublish ==
    \A j \in Jobs : fired[j] =< 1 /\ (fired[j] = 1 => status[j] = "succeeded")

\* The candidate query does not look at a queued row's attempts; it relies on
\* a queued row always having an attempt left.  Conversely a job is given up
\* only when its whole budget is used, never early.
AttemptBudget ==
    \A j \in Jobs :
        /\ status[j] = "queued" => attempts[j] < maxAttempts[j]
        /\ status[j] = "running" => attempts[j] =< maxAttempts[j]
        /\ status[j] = "failed" => attempts[j] = maxAttempts[j]

\* A running row has an owner and a locked_at: with either NULL no worker
\* could ever complete it or take it over, and it would run forever.
NoStrandedRow ==
    \A j \in Jobs :
        /\ status[j] = "running" <=> lockedBy[j] # NoWorker
        /\ status[j] = "running" <=> lease[j] # NoLease

\* A running job whose lease is live is never taken over, whatever was read
\* about it before (test_stale_attempt_cannot_finish_fail_or_renew).
LeaseRespected ==
    [][\A j \in Jobs :
         status[j] = "running" /\ lease[j] > 0 => attempts'[j] = attempts[j]]_vars

\* A finished job stays finished: success for ever, failure until the teacher
\* retries it; and the fencing token never goes back.
OutcomeStable ==
    [][\A j \in Jobs :
         /\ status[j] = "succeeded" => status'[j] = "succeeded"
         /\ status[j] = "failed" => status'[j] \in {"failed", "queued"}
         /\ attempts'[j] >= attempts[j]]_vars

\* "It provides a reliable hand-off" (jobs.py:3): through crashes, restarts,
\* take-overs and failing handlers every job handed to the queue gets an
\* outcome, as long as no database error has ended a worker_loop.  (One such
\* error in _claim, _fail or the trailing _complete ends the only loop of its
\* process for good, and with it the hand-off.)
Settles ==
    \A j \in Jobs : status[j] \in {"queued", "running"}
                      ~> (status[j] \in {"succeeded", "failed"} \/ dbErrors > 0)

\* What the job promises, for the refinement below.
Phase(st) ==
    CASE st = "absent" -> "none"
      [] st \in {"queued", "running"} -> "pending"
      [] st = "succeeded" -> "done"
      [] st = "failed" -> "failed"

PhaseOf == [j \in Jobs |-> Phase(status[j])]

Contract == INSTANCE JobContract WITH phase <- PhaseOf, effects <- effects

\* The queue, with its leases, attempts and crashes, implements a job that is
\* simply pending until it is done, with its effect, or given up.
ImplementsContract == Contract!Spec

\* "Commit means the reports are generated" (ingestion/commit.py:41, and
\* quality_render.py:126: the report is regenerated after the remaining
\* responses are reviewed): a job that has succeeded reflects what has been
\* submitted (jobs that produced no reports at all are left to the next one).
ReportsCurrent ==
    \A j \in ReportJobs :
        status[j] = "succeeded" /\ covered[j] > 0 => covered[j] = submitted[j]

=============================================================================
