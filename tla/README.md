# A verification project for the student-knowledge-gap platform

TLA+ modules, TLC configurations and TLAPS proofs for the parts of the platform
where concurrency, failure and ordering decide whether it is correct: the durable
job queue, the batch photo import, the LLM circuit breaker and router, the trigger
endpoint of the session gateway, and the concurrent core of the agent runtime
(requests, turns, memory). Source paths are relative to the repository.

Run one configuration with `tlc -workers 2 -config MCJobQueue.cfg MCJobQueue`,
check one proof module with `tlapm JobQueueProofs.tla`. `PROJECT.json` lists the
runs, the source lines behind every definition, the hazards, the findings, the
theorems, and for each property of a passing run a mutant of the code that breaks it.

## 1. Inventory

| Part | State it keeps | Operations | Why it is hard |
|---|---|---|---|
| Job queue (`backend/app/jobs.py`, `api/routers/jobs.py`) | rows of `async_job`: status, attempts, max_attempts, locked_by, locked_at, available_at | enqueue, claim, heartbeat, handler commit, complete, fail, retry | several processes on one table; leases that expire under a living worker; crashes between commits; a late result against its successor |
| Batch photo import (`ingestion/batch.py`, `api/routers/ingestion.py`) | `parse_batch_item` and `parse_job` rows, temporary files, a thread pool with in-memory futures, `exam_response` rows | upload, parse in two transactions around a call of minutes, assign, retry, discard, watchdog, repair on polling, start-up sweep, file collection | futures vanish in a crash, rows do not; the watchdog races slow answers; check and write are separate statements |
| LLM circuit breaker (`llm/circuit.py`) | failure streak, opening time | before_call, record_success, record_failure | threads report in another order than they asked |
| LLM router (`llm_router/main.py`) | per key: calls in flight, failures, circuit, request and token window; global and per-capability counts; waiting requests | acquire, wait, time out, release, retry, stream | a condition variable with deadlines; leases handed to streams |
| Post-exam trigger (`triggers.py`) and gateway (`gateway/main.py`) | bridges per user, spawn futures, receipts and in-flight triggers, locks and threads per class, event queues | trigger, rpc, events, reap | single-flight spawning, dead bridges, lost and repeated triggers, a lock held over awaits |
| Agent runtime, requests (`runtime/codex-rs/app-server`: `request_serialization.rs`, `connection_rpc_gate.rs`, `message_processor.rs`) | a queue per resource, a drain task per queue, a gate per connection | enqueue, drain, absorb reads, run, close | lost wake-ups, shared reads against exclusive requests, panics, cleanup with a time-out |
| Agent runtime, turns (`runtime/codex-rs/core`: `tasks/mod.rs`, `session/`) | the slot of the active turn, turn states, the mailbox, tasks and their cancellation tokens | submit, steer, start, sample, finish, abort, wake | the slot's lock is released between the steps of starting, ending and aborting a turn |
| Agent runtime, memory (`runtime/codex-rs/state/src/runtime/memories.rs`, `memories/write`) | `jobs` and `stage1_outputs` rows, the global job, a workspace of files with a git baseline | claim, report, select, sync, diff, run an agent, reset the baseline, delete, pollute, prune, reset | leases that expire under a worker, agents that cannot be stopped, crashes between database and files |
| Exam commit, preflight (`ingestion/commit.py`, `preflight.py`) | response status, evidence, question bank | commit, correct | a commit beside a correction or another commit |
| Reports (`reports/`) | report rows | regenerate inside a savepoint | best effort: failures are swallowed |
| Gateway budgets and scope (`gateway/budget.py`, `thread_scope.py`, `monthly_usage.py`, `retention.py`) | counters, thread-to-class bindings | observe, gate, bind | counting beside running turns |
| Login throttle (`auth_throttle.py`) | failure counts in Redis or memory | check, fail, reset | increment and expiry are two calls; fallback |
| Interventions, study tasks, retest, inbox; knowledge base versions | status machines in the database | lifecycle requests | long sequences of legal calls |
| Diagnosis pipeline, queries, MCP tools, console, simulator, scripts; the rest of the runtime | derived data, views, user interfaces, protocol types, sandboxes | | no state of their own that changes concurrently, or vendored |

They interact as follows. The commit endpoint changes exam data and enqueues a report
job in one transaction. A worker of any backend process takes the job, generates the
reports, commits them with the job's result, and then calls the gateway's trigger. The
gateway resumes the persistent thread of the class in the teacher's app-server process
and starts a turn there. The app-server serialises the requests of its connections; a
request to start a turn becomes an operation of the session, whose turns run one at a
time; idle threads are later mined for memories. The batch import runs its model calls
through the vision circuit breaker, the report narration through the text one; both may
go through the LLM router. The teacher's page polls the import, and the polling is what
drives its watchdog.

What makes each part correct:

* queue: a job takes effect once, under every crash, take-over and retry; nothing
  accepted is lost; an old worker cannot touch what a new one owns;
* import: one sheet becomes one response; every sheet ends in a terminal status; what a
  row says agrees with the files and responses it names;
* breaker: it opens at the threshold and bounds what an outage costs;
* router: limits hold for the calls that are really open, no capacity is lost or
  invented by the accounting, no request sleeps while it could run, each is answered;
* trigger: one analysis per exam, one app-server per teacher, one thread per class, an
  answer to every request;
* requests: conflicting requests run one after the other in the order of arrival, none
  is stranded, none runs after its connection has been cleaned up;
* turns: one terminal event per turn, no accepted input or wake-up lost, the slot never stuck;
* memory: a late worker writes nothing, deleted memories stay deleted, a recorded
  consolidation is a complete one.

## 2. Modules

**`JobQueue`** (with **`JobContract`**, what a client of the queue may rely on). Variables
are the columns of `async_job`, the local state of `run_once` in each worker, the live
heartbeat threads, and histories (data version submitted and covered by reports, number
of committed effects, of triggers sent). `run_once` is cut wherever another process can
act: the two statements of `_claim` (`ClaimRead`, `ClaimCas`), the handler's read, its
commit (`CommitResult` = domain writes and `_complete` in one transaction), the trigger,
the trailing `_complete`, `_fail`. The sweep of exhausted rows belongs to `ClaimRead`. Leases
are counted in ticks per job, so every relative timing of leases is covered; the clocks
of the processes are taken to agree. `ORDER BY` is dropped: any candidate may come first,
a superset of what the query returns. What the handlers compute is reduced to the data
version they read. `Crash`, `Restart` and `DbError` are the failures.

**`CircuitBreaker`**. Breaker methods hold the lock and are one step each; the provider
call in between is not. One module serves both users: `Tries = 3, CountsAll = FALSE`
for the batch's retry loop, `Tries = 1, CountsAll = TRUE` for `narrate`.

**`BatchIngest`**. One batch. `assign_item`, `retry_item` and `discard_item` load the row, check it
and write later by its primary key, with no row lock and no version column, so each is a
`Check` and a write, and anybody may act on the sheet in between; the write is not refused when
the check would now fail (the history `crossed` records it), and a request may roll back after it
has removed the file (`RollBack`). The watchdog and the start-up sweep are short transactions
and one action each. A parse is cut at its transactions: the read
and the write of the first one, the file, the model call, the flush and the commit of the
second, the removal of the file after the commit; exceptions lead to the safety net,
which may itself fail (`NetFails`). Rows flushed and not committed are locked, as the
databases do. `GetBatchJob` is the watchdog followed by the job's repair. The synchronous
path (mock client only), the FIFO order of the pool and the scoring of the name match are
left out: a match is any student or none.

**`LlmRouter`**. Scheduler and proxy of one asyncio process; `acquire` and `release` are
atomic up to their next `await`. One clock drives cooldowns, windows, deadlines and
time-outs. `request_times` and `token_events` are one sequence, because the estimate is
never zero and the proxy never reports actual tokens. Authorisation, headers and model
fallback do not touch the scheduler and are left out; at least one key is configured.

**`GatewayTrigger`**. `POST /internal/trigger` for one teacher, cut at its awaits. The
variables are the module's dictionaries (`_RECENT_TRIGGERS`, `_TRIGGER_INFLIGHT`,
`_TRIGGER_THREAD_LOCKS`, `_BRIDGES`, `_SPAWNING`), `threads.json`, the threads each process has
loaded, and per request where it is, what it waits for and which process it talks to. A request
replays a receipt, joins the one in flight, or takes the lock of its class, gets or
spawns the bridge, starts or resumes the thread and starts the turn; every await may fail.
A process dies, is reaped or is left behind by a failed `initialize`; receipts expire (counted in
`expired`); a restart keeps only the file, and may tear it.

**`RequestQueues`** (with **`SerialAccess`**, its promise: a request starts only when
every conflicting request before it is over). A request is the number of its arrival, so
a queue's front is its least waiting request. Drain tasks are named after the request that spawned
them and move through `pop`, `run` and `absorb` (reads that join running reads, woken by the
stored permit of the queue's `Notify`). A handler runs inside the drain task, so a panic ends
the task and leaves the queue in the map. A connection's gate closes, its cleanup waits
for the handlers or times out.

**`TurnTasks`**. One session. `active_turn` is a slot (turn state, task); actors are the
submission loop, the fan-out task of a realtime conversation (`Voice`, which runs
`start_or_steer` for its text beside the loop), the guardian's abort and the task of each turn. Every place where the
code gives up the slot's lock ends a step: aborting takes the turn, kills the task, clears
the state; starting drains the mailbox, looks up the slot, extends the pending input,
installs the task; finishing takes the task out, reports, clears and looks for work. `start_if_idle`
looks at the mailbox before and after its reservation. A `run_turn` that returns before it took
anything (`ReturnEarly`: failed compaction, a hook) meets the same look at the pending input as one that
has answered, and is called again while there is some. A shell command takes steered input and reads
none of it; compaction and review refuse it. An item is where it is: mailbox, pending in a turn state, carried by an actor, given to a
turn, or settled (recorded in the history, refused or cleared, which no property tells apart). Input arrives to start or to steer, mail of two kinds arrives, a
compaction, review or shell command replaces the turn, an extension injects items, the client or
the guardian interrupts. A task that panics is not modelled.

**`MemoryJobs`**. Stage 1 and phase 2 over one database and one workspace. A transaction
is a step, and so is each thing a run does to the workspace. Time is what has run out: leases,
back-offs and cooldowns end whenever they like. A thread's memory is the version of the
thread it was extracted from; the workspace is the set of memories in its files, what the
artifacts reflect (a set, nothing, or half edited) and the pair of both in the git
baseline. An outdated summary that cannot be removed stays, with a warning only (`stuck`); a run can still
fail after its baseline is committed, when the index is written. What an agent writes is taken
on trust: one that completes (`AgentCompletes`) has made the artifacts reflect the files, one that does not
leaves them half edited. An agent whose shutdown timed out keeps writing. `mark_thread_memory_mode_polluted`
works on two databases and is three steps; a reset is two.

**`MC…`** modules and `.cfg` files give the constants. **`…Proofs`** modules hold the theorems.

## 3. Runs

| Run | Question | Result |
|---|---|---|
| `queue` | two workers, two crashes, a database error, two commits of one exam, a teacher's retry: exactly one effect, trigger after publication, budget, live leases respected, implements `JobContract`, settles | holds |
| `queue_stale_report` | is a succeeded job's report current? | violated |
| `breaker_vision` | three retrying threads: trips exactly at the threshold, bounded outage cost, calls return | holds |
| `batch_single` | two sheets, two students, two threads of one process, two requests beside each other, a crash: a matched sheet has its response, no sheet is a duplicate of itself, sheets settle, batches close | holds |
| `batch_replicas` | one sheet, two students, two processes, slow calls, outages, a crash, three requests: a queued sheet has its file and becomes one response unless a retry overlaps a parse or a request acts on a stale check; no sheet stays in parsing | holds |
| `router` | two text requests and a vision request, at most two of them open, two keys, request and token windows, circuits, a retry, dropped streams: exact counters, calls within the capability and key limits, no lost wake-up, every request answered | holds |
| `gateway_trigger` | three triggers for exams of two classes, three processes, two faults or restarts: one analysis per life of a receipt, one app-server, threads kept, every request answered | holds |
| `gateway_same_day` | two triggers, no lost answer, no restart: is an exam analysed once on one day? | violated |
| `requests` | three requests, a shared and an owned resource, a closing connection, a panic: one drain task per queue, implements `SerialAccess`, nothing after cleanup, queues drain, reads join | holds |
| `turns` | input of the client or a realtime conversation, mail that asks for a turn, an injected item, a compaction or a shell command, an interrupt: one terminal event per turn, slot alive, nothing stranded, clean rest, comes to rest | holds |
| `turn_overwrite` | is the slot empty when a task is installed, as the code asserts? | violated |
| `memory` | one thread used again, two extractions, two consolidation runs that crash, fail, lose their lease, cannot remove a file or leave an agent behind, one deletion, pollution, pruning or reset: the output is the last success, deleted stays deleted, successes advance, success means consolidated, selected rows are the baseline's | holds |

**Bounds.** Every bound is a named constant. A stale owner and a present owner need two
workers, and the crashes let a third claim follow; two attempts and one retry reach both sides of each
comparison of attempts; two ticks of lease separate fresh, old and expired. Two sheets and
two threads make two parses finish together; two requests are what it takes for one to act on the
other's sheet, a third retries what they left; a second process is needed only for the sweep. The breaker's counter stops at `FailureCap` and its age at `Cooldown`, since no test
tells larger values apart. The router has more requests than a capability admits and more capabilities than a key admits
calls, so that both limits bind; its own limit of two calls does not bind before them and is covered by the
theorem `Bounded` only. An estimate larger than the token window and a deadline longer than a cooldown let a
wait end in each way; `MaxOpen` bounds the requests between arrival and answer. Three triggers are one that works, one that joins it and one of
another class that shares the spawn; each class has one exam, so two requests
contend for a class lock only in the theorem `SameThread`; three processes allow a dead one, a given-up one and a live
one. Three requests are a running one, one that joins or waits, and one behind it. The
guards that start a turn or make a turn state stop at `MaxTurns`; the items and interrupts of `turns`
never use up its five, so they never bind there. `turns` has mail that asks for a turn and no other: mail
that only waits (`Notes`) is covered by the theorems. Two extractions let a late worker report after its
successor; two consolidations let a run meet what a failed one left; longer chains of failed
runs are covered by the theorem `Consolidated` only. `memory` compares states by a view (`Live`) without the
values that nothing reads again.
Deadlock checking is off where the model stops once its bounds are used up (queue, router,
memory) or every request has been answered.

**Conditions.** What a property excuses is part of its formula or of its configuration:

* `Settles` is about behaviours without a database error, since one ends the polling loop: the
  death of that loop is in the model and is not something the property would catch;
* `batch_single` takes the watchdog's limit to be above the longest parse
  (`SlowCalls = FALSE`) and a single process, which DEPLOY.md section 5 prescribes; `ItemSettles`
  is about behaviours without a crash, since a retry lost in a crash may stay queued;
* `OneSheetOneResponse` and `DuplicateMeansOther` leave out the sheets that were retried while a
  parse of them waited or ran (`overlapped`) and, with `QueuedHasFile`, those on which a request
  acted after its check had gone stale (`crossed`), see section 4; `NoParsingOrphan` lets such a
  request put the sheet back into the queue;
* `InFlightExact` counts the lease of a dropped stream as out, and `Answered` of the router takes
  the status 500 of an `IndexError` and a dropped stream for an answer: neither would notice the
  leak or the error itself;
* `TurnOnce` counts expired receipts (`expired`), lost answers and restarts (`excused`); `OncePerDay` excuses
  the last two only, takes a behaviour to be one day, and fails; `ThreadKept` excuses a torn `threads.json` (`torn`);
* `OneDrainPerQueue`, `Drains` and `ReadJoins` name the queue whose handler panicked, so they do not
  catch that its later requests are stranded; `NothingAfterCleanup` names the cleanup that stopped
  waiting (`late`);
* the properties of `turns` hold up to the first race of two starts, of an abort with a
  start, or of a task with another turn's slot (`raced`), and the run stops there (`StopAtRace`);
  `turn_overwrite` goes on and shows such a race. `ComesToRest` names two more ways to go on for ever: a
  turn that returns early with input pending again and again (`Retrying`), and a model that never
  stops asking for another request;
* `SuccessMeansConsolidated` holds as long as no two runs, and no run and a reset, were active
  together (`overlap`): a lease that expires under a working run allows it.

**Fairness.** Weak fairness of a worker's next step (the loop polls; model calls have
time-outs, so handlers end), of restarts (containers run with `restart: unless-stopped`), of
time, and for the import of the page's polling, without which nothing triggers the
watchdog. In the router: of ready tasks, of the end of upstream calls (120 s) and sleeps. In
the gateway: of each request's next step, as every await has a time-out. In the app-server:
of the steps of drain tasks, which the executor polls; handlers need not finish, so `Drains`
has their finishing as its hypothesis and `ReadJoins` does without it. In a session: one weak
fairness of all internal steps of turns and routines together, that is, the executor runs some
task while one can run; it is not fair to each, which makes `ComesToRest` the stronger claim. Requests, crashes, failures, interrupts and database
errors are never assumed to happen. `memory` has no liveness property: nothing in the code
promises that a memory is extracted or consolidated.

**Type invariants** are theorems (`TypeCorrect` of each proof module) rather than part of a run.

## 4. Findings

* `queue_stale_report`: the idempotency key of an exam returns the existing row, so
  responses reviewed after the job read its data never reach a report, against "提交即自动生成".
* `turn_overwrite`: the submission loop and the realtime fan-out task each find no task, pass their
  abort, and run `start_task`; or a turn woken by mail reserves the slot without a task, and the
  submission loop finds no task, drops the reservation and starts a turn as well. The second `start_task`
  overwrites the running task of the first, against its `debug_assert!(turn.task.is_none())`; the first turn
  is aborted without a terminal event.
* `gateway_same_day`: a receipt is remembered for 600 seconds, so the same exam triggered eleven
  minutes later is analysed again, against "同一考试同一天不重复触发" (`triggers.py:11`).

Seen while modelling, and with no run of their own:

* queue: `worker_loop` has no handler around `run_once`, so a database error that escapes it
  ends the loop; a crash between the commit and the trigger loses the analysis of that exam;
  `generate_exam_reports` swallows its failures and the job is recorded as succeeded;
* breaker: in `half_open` any number of probes is let through, and since `_opened_at` stays set
  a failed probe does not reopen it until one succeeds;
* import: four minutes of watchdog are less than three attempts of 120 s with back-off, so a
  running parse can be failed, retried and then called a duplicate of itself. Slowness is not
  needed: the batch is done, a failed sheet is retried (the job stays `done`), a poll before or
  just after the start of its parse takes it for a zombie and fails it (`get_batch_job`), the
  teacher retries again, and two parses of one sheet run; matched to two students they
  leave two responses, matched to one the later calls the sheet a duplicate of itself. The attempt
  to prove `OneSheetOneResponse` found this (18 steps, two retries); the property had held only
  because a sheet could be retried once. The teacher's requests have the same effect without any parse,
  because a check may be stale when the write comes: two assignments of one unmatched sheet to two
  students leave two responses, to one student they call the sheet a duplicate of its own response;
  a retry beside a discard leaves the sheet queued without a file, and its parse then fails it; a discard that
  rolls back leaves a row that names a missing file. Further, a retry lost in a crash, or a sheet whose first transaction and safety net both
  fail, stays queued; the start-up sweep fails sheets another process is parsing; discarding or
  assigning a sheet keeps `payload_json`;
* router: a stream whose client leaves before the first chunk never gives its lease back; a
  request larger than the token window ends in an `IndexError`;
* gateway: a timed-out `initialize` leaves its process running; `threads.json` is not written
  atomically; an answer that is lost, or a restart, lets an analysis start twice; a request
  sent to a bridge whose reader has ended waits for its full time-out;
* app-server: a handler that panics leaves its queue in the map with no task, so later
  requests for that resource wait for ever;
* turns: an interrupt in the finishing window can lose the wake-up of mail;
  `inject_if_running` between the last look at the pending input and the clearing of the turn loses
  its items; a finishing task may take out another turn's task; the abort of a shutdown
  may start a new turn; a `run_turn` that returns early with input pending is called again at
  once, without bound;
* memory: an expired lease that is taken over does not use a retry; a scan that read a
  thread before its deletion can claim it afterwards and leave a row without a thread; a
  reset during a consolidation lets the agent write afterwards; an enqueued consolidation still
  waits for the cooldown; a claim for an older version can renew the retry budget.

## 5. Proofs

All theorems hold for every value of the constants that satisfies the named assumptions
in the modules (nulls differ from real values, kinds are disjoint, limits are positive,
sets to be counted are finite).

* **`JobQueueProofs`**: `IndInv` = types, and that a busy worker has a job; `RowInv` (status,
  owner, lease, attempts and effects of a row fit together); `CandidateKnown` (what a worker read in `_claim` is
  not newer than the row, so the compare-and-set detects every change); `CommitKnown` (a worker that has
  committed works on a succeeded row); `OneTrigger` (at most one worker is between commit
  and trigger of a job). None of the listed properties is inductive alone: exactly-once
  needs that a worker about to commit and the row agree whenever ownership holds. From it:
  `EffectOnce`, `TriggerOnce`, `BudgetKept`, `NeverStranded`, `LeaseSafe`, `OutcomeKept`, and
  `Refines` (each step is a step of `JobContract` or a stutter).
* **`CircuitBreakerProofs`**: `TypeCorrect`, `Tripped`, `OutageBounded`. `OutageCost` needs
  `TrippedAtThreshold` to know the streak at the step that trips.
* **`BatchIngestProofs`**: `IndInv` = types; `ThreadInv` (what a thread holds in each phase, and that two open
  transactions never claim the same sheet or student) and `Asking` (what a request between its check and its write
  holds); `DataInv` (matched rows have their response, queued rows their file unless `crossed`, nothing
  precedes the upload). From it
  `MatchedSound` and `QueuedParsable`, for any number of processes, with slow calls,
  requests on stale checks, crashes and outages. `OnceInv` adds, for the sheets neither overlapped nor crossed, `OneRun` (one parse at most,
  waiting in one pool or run by one thread), `Settled` (no parse is left of a sheet that is matched,
  unmatched or a duplicate) and `MadeFromMatched` (a sheet a response was made from is still matched, so
  nobody retries or assigns it again). From it `OneResponse` and `DuplicateOfAnother`, for any number
  of processes, requests and slow calls, in which a sheet is overlapped or crossed before they can fail for it.
* **`LlmRouterProofs`**: `IndInv` = shapes, `LeaseHeld` (a lease is out exactly in the phases that
  hold one), `InFlightExact`, `Within` (the counters are within the limits). `InFlightExact` needs
  `LeaseHeld` for the release of a lease that is really out, so that `max(0, …)` never cuts. From
  it `Accounted` and `Bounded` (the capability and key limits, and the router's own, `BoundedOverall`); with `Local` (an attempt is left for a request in back-off) and `Windows`
  (windows are in order, timers within the deadline) `TypeCorrect`. `NeverSleepsOn` adds `Asleep`: a request whose
  timer runs is barred by the router's or its capability's limit, or from every key by a busy
  key, a cooldown that lasts at least as long as the timer, or a window whose oldest entry does.
  Going to sleep establishes it, because a scan that finds no key has looked at all of them and the
  time-out is a minimum over what it saw; a grant only closes keys, since a new entry
  neither moves a window's head nor lowers its sum (`SpentGrows`); a tick shortens
  timer, cooldown and window alike and drops no entry while the head lasts (`TickWindow`); a
  release wakes everybody. `Spent` is written as the number of (entry, token) pairs, and `_prune` with the
  least live index, because cardinalities and minima can be reasoned about here and folds cannot.
* **`GatewayTriggerProofs`**: `Inv` = types; `Caches` (who works on an exam is the one in flight,
  and the exam then has no receipt; who is past the lock holds it); `Accounted` (every turn of an
  exam has its receipt, one that expired, or an excuse); `Threadless` (a request that starts a thread does so for a class
  that has none, which needs the lock); `Running` (a process that runs is the registered or
  the spawned one). From it `StartedOnce`, `OneBridge`, `SameThread`.
* **`RequestQueuesProofs`**: `Inv` = types; `Fresh`; `QueueHeld` (the queues in the map are those a
  task holds, each by one); `Owners` (what is popped is in the hands of the task that awaits it);
  `AbsorbsReads` (a task that lets reads join runs reads only); `ConflictsInOrder`;
  `NothingAfterCleanup`. The order is not inductive without the single holder. From it `InOrder`,
  `Quiet`, `OneDrain`, and `Refines` (each step is a step of `SerialAccess` or a stutter).
* **`MemoryJobsProofs`**: `Inv` = types; `Held` (a running row names its claim, and that claim's
  version is newer than the output and the last success, and made after the last deletion); `Numbered`;
  `Workspace` (without overlap, the baseline's artifacts reflect its own inputs, and what
  each step of a run has done; a file that is no input of the run is `stuck`). Held gives `LastSuccess`, `Deleted`, `Capped` and `Advances`;
  Workspace gives `Consolidated`: a diff without changes then means that nothing is left to
  consolidate. `Selected` needs neither.

* **`TurnTasksProofs`**: `Inv` = types, with what holds even after a race, and, until the first
  race, `Core`: `Goals` (turns about to start have not begun and differ), `Numbered` (turn states are
  numbered in the order they are made), `Aborted` (one actor aborts a task, which is no longer in
  the slot), `Owned` (the slot's owner is its task, the one actor that will fill or empty it, or the
  one starter, submission loop or realtime task, that has emptied it on its way to a turn of its own), `Ended` (a turn that has begun has been
  announced once, or is in the slot, being aborted or about to announce itself), `Carried`, `Limbo`
  (accepted items are pending only where somebody looks) and `Heard` (somebody will look at mail
  that asks for a turn). From it `AnnouncedOnce`, `SlotNeverStuck`, `NothingInLimbo`, `RestsClean` and
  `InstallsIntoFreeSlot`: the `debug_assert!` of `start_task` can fail only after one of the races that
  `raced` records, among the actors of the model.

Every invariant of a passing run is a theorem. Only model-checked is what holds under
fairness (`Settles`, `CallReturns`, `ItemSettles`, `JobCloses`, `NoParsingOrphan`, `Answered`, `Drains`, `ReadJoins`,
`ComesToRest`), which the prover does not handle.

## 6. Not modelled, and the plan

Left out for good: the rest of the vendored runtime (terminal UI, sandboxes, protocol
types, configuration, model clients: half a million lines with no part in the behaviour
above), the console and site, the simulator and scripts, read-only queries, MCP tools and
metrics, and the floating-point statistics of the pipeline. Of the modelled parts: durable sleeps,
approvals and automatic compaction of a session; the ranking of memories by use and the
watermarks of the global job; the event streams and the scoped RPC of the gateway.

Next, in this order:

1. `ExamCommit`: response status machine, corrections, evidence, preflight, two commits at once;
   composed with `JobQueue` through the data version.
2. The composition of `JobQueue` and `GatewayTrigger` over lost answers.
3. `TurnBudget` and `ThreadScope` of the gateway, its event streams (a slow stream drops
   its oldest events); `LoginThrottle`, whose increment and expiry are two calls.
4. Lifecycles of interventions, study tasks and knowledge-base versions; the discrete
   rules of name matching and weakness as operators against a reference definition.
