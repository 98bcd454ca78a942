----------------------------- MODULE BatchIngest -----------------------------
(***************************************************************************)
(* Batch photo ingestion (backend/app/ingestion/batch.py and the batch     *)
(* endpoints of api/routers/ingestion.py): one ParseJob with its           *)
(* ParseBatchItems, the thread pools that parse them, the teacher's        *)
(* assign / retry / discard, the lazy watchdog run by polling, and process *)
(* crash and restart.                                                      *)
(*                                                                         *)
(* A parse is cut where other threads and requests can act: between the    *)
(* read and the write of its first transaction, while the file is read and *)
(* the LLM is called, between the flush and the commit of its second       *)
(* transaction, and before the temporary file is removed.  A flushed item  *)
(* or response row is locked until the commit.                             *)
(*                                                                         *)
(* assign_item, retry_item and discard_item read the row, check it, and    *)
(* write later, with no row lock and no version column: the check and the  *)
(* write are two steps, and anybody may act on the sheet in between.  The  *)
(* watchdog and the start-up sweep are single steps.                       *)
(*                                                                         *)
(* An LLM answer is abstracted to what _match_student makes of it: nothing *)
(* usable, a sheet without a student, or a student.                        *)
(***************************************************************************)
EXTENDS Integers, FiniteSets

CONSTANTS
    Items,       \* the sheets of one upload
    Students,    \* the exam's students
    Processes,   \* backend processes sharing the database and the temp volume
    Slots,       \* worker threads of one process (SC_BATCH_WORKERS)
    Handlers,    \* threads of one process that serve the teacher's requests
    NoItem, NoStudent,
    SlowCalls,   \* can a live parse outlast BATCH_STALE_MINUTES?
    DbOutages,   \* can the database fail for two transactions in a row?
    MaxRequests, \* bound: the teacher's requests that pass their checks
    MaxCrashes   \* bound: process crashes

ASSUME NullsAreFresh == NoItem \notin Items /\ NoStudent \notin Students
ASSUME BatchConstants ==
    /\ SlowCalls \in BOOLEAN /\ DbOutages \in BOOLEAN
    /\ MaxRequests \in Nat /\ MaxCrashes \in Nat

VARIABLES
    status, path, payload, link, stale,  \* parse_batch_item columns: status,
        \* file_path and payload_json set?, response_id (as its student),
        \* started_at older than the watchdog's cutoff?
    job,        \* parse_job.status
    response,   \* exam_response: the item a student's response was made from
    disk,       \* is the temporary file there?
    futures,    \* submitted and not yet started, per process and item
    up,         \* processes that are running
    pc, cur, hadPath, verdict, who, settle,  \* local state of a worker thread
    ask, sheet, pupil, seen,  \* local state of a request: what it asks for
        \* ("none": nothing), of which sheet, for which student, and whether
        \* the row it has loaded names a file
    asked, crashes,
    overlapped, \* history: sheets retried while an earlier parse of them was
                \* waiting or under way
    crossed     \* history: sheets on which a request acted although what it
                \* had checked was no longer so

rowVars == <<status, path, payload, link, stale, job, response>>
threadVars == <<pc, cur, hadPath, verdict, who, settle>>
requestVars == <<ask, sheet, pupil, seen>>
countVars == <<asked, crashes, overlapped, crossed>>
vars == <<status, path, payload, link, stale, job, response, disk, futures, up,
          pc, cur, hadPath, verdict, who, settle, ask, sheet, pupil, seen,
          asked, crashes, overlapped, crossed>>

Threads == Processes \X Slots
Requests == Processes \X Handlers

Terminal == {"matched", "unmatched", "failed", "duplicate", "discarded"}
\* _TEMPFILE_DELETE_STATES
DeleteStates == {"matched", "unmatched", "duplicate", "discarded"}

\* idle; starting: status read, not yet written; reading: about to open the
\* file; parsing: in the LLM call; commit: result flushed, rows locked;
\* closing: failure read into the session, nothing flushed; removing:
\* committed, file not yet deleted.
Phases == {"idle", "starting", "reading", "parsing", "commit", "closing",
           "removing"}

Init ==
    /\ status = [i \in Items |-> "absent"]
    /\ path = [i \in Items |-> FALSE]
    /\ payload = [i \in Items |-> FALSE]
    /\ link = [i \in Items |-> NoStudent]
    /\ stale = [i \in Items |-> FALSE]
    /\ job = "absent"
    /\ response = [s \in Students |-> NoItem]
    /\ disk = [i \in Items |-> FALSE]
    /\ futures = [p \in Processes |-> [i \in Items |-> 0]]
    /\ up = Processes
    /\ pc = [t \in Threads |-> "idle"]
    /\ cur = [t \in Threads |-> NoItem]
    /\ hadPath = [t \in Threads |-> FALSE]
    /\ verdict = [t \in Threads |-> "keep"]
    /\ who = [t \in Threads |-> NoStudent]
    /\ settle = [t \in Threads |-> FALSE]
    /\ ask = [r \in Requests |-> "none"]
    /\ sheet = [r \in Requests |-> NoItem]
    /\ pupil = [r \in Requests |-> NoStudent]
    /\ seen = [r \in Requests |-> FALSE]
    /\ asked = 0 /\ crashes = 0
    /\ overlapped = {} /\ crossed = {}

\* No open transaction has flushed a change of this item.
Unlocked(i) == \A t \in Threads : pc[t] = "commit" => cur[t] # i

\* No open transaction has flushed a response of this student.
Unclaimed(s) ==
    \A t \in Threads : pc[t] = "commit" /\ verdict[t] = "matched" => who[t] # s

\* A thread drops what it holds.
Release(t) ==
    /\ pc' = [pc EXCEPT ![t] = "idle"]
    /\ cur' = [cur EXCEPT ![t] = NoItem]
    /\ hadPath' = [hadPath EXCEPT ![t] = FALSE]
    /\ verdict' = [verdict EXCEPT ![t] = "keep"]
    /\ who' = [who EXCEPT ![t] = NoStudent]
    /\ settle' = [settle EXCEPT ![t] = FALSE]

\* Some thread is between the start of this item's parse and its last commit.
LiveRun(i) ==
    \E t \in Threads : cur[t] = i /\ pc[t] \notin {"idle", "removing"}

-----------------------------------------------------------------------------
(* The upload *)

\* photo_batch: files on disk, job and items committed, one future per item.
\* A crash between the commit and submit_item is a crash before the start.
Upload(p) ==
    /\ p \in up
    /\ job = "absent"
    /\ status' = [i \in Items |-> "queued"]
    /\ path' = [i \in Items |-> TRUE]
    /\ disk' = [i \in Items |-> TRUE]
    /\ job' = "running"
    /\ futures' = [futures EXCEPT ![p] = [i \in Items |-> 1]]
    /\ UNCHANGED <<payload, link, stale, response, up, threadVars, requestVars, countVars>>

-----------------------------------------------------------------------------
(* _process_async *)

\* A free thread takes a future and reads the item; only a queued one goes on.
StartRead(t) ==
    /\ pc[t] = "idle" /\ t[1] \in up
    /\ \E i \in Items :
         /\ futures[t[1]][i] > 0
         /\ futures' = [futures EXCEPT ![t[1]][i] = @ - 1]
         /\ IF status[i] = "queued"
              THEN /\ pc' = [pc EXCEPT ![t] = "starting"]
                   /\ cur' = [cur EXCEPT ![t] = i]
                   /\ hadPath' = [hadPath EXCEPT ![t] = path[i]]
              ELSE UNCHANGED <<pc, cur, hadPath>>
    /\ UNCHANGED <<rowVars, disk, up, verdict, who, settle, requestVars, countVars>>

\* The commit of the first transaction: parsing, and the job is running.
StartWrite(t) ==
    /\ pc[t] = "starting" /\ Unlocked(cur[t])
    /\ status' = [status EXCEPT ![cur[t]] = "parsing"]
    /\ stale' = [stale EXCEPT ![cur[t]] = FALSE]
    /\ job' = "running"
    /\ pc' = [pc EXCEPT ![t] = "reading"]
    /\ UNCHANGED <<path, payload, link, response, disk, futures, up, cur,
                   hadPath, verdict, who, settle, requestVars, countVars>>

\* _finalize_job as seen by a transaction that makes item i terminal: every
\* other item is terminal, and the job is not done yet.
Finishes(i) ==
    (\A k \in Items \ {i} : status[k] \in Terminal) /\ job # "done"

\* A failure is written by the caller's session at commit, and only if that
\* changes the status it has loaded.
Failing(t, keep) ==
    /\ pc' = [pc EXCEPT ![t] = "closing"]
    /\ verdict' = [verdict EXCEPT ![t] = IF keep THEN "keep" ELSE "failed"]
    /\ settle' = [settle EXCEPT ![t] = Finishes(cur[t])]

\* _read_tempfile: the bytes, or _mark_item_failed when the file is gone.
ReadFile(t) ==
    /\ pc[t] = "reading"
    /\ IF hadPath[t] /\ disk[cur[t]]
         THEN /\ pc' = [pc EXCEPT ![t] = "parsing"]
              /\ UNCHANGED <<verdict, settle>>
         ELSE Failing(t, status[cur[t]] = "failed")
    /\ UNCHANGED <<rowVars, disk, futures, up, cur, hadPath, who, requestVars, countVars>>

\* The LLM call has returned and _persist_batch_result has flushed: no usable
\* answer, no student found, or a student, whose response is inserted unless
\* the unique key (exam, student) refuses it.  The item's status is not
\* looked at again.
Persist(t) ==
    /\ pc[t] = "parsing" /\ Unlocked(cur[t])
    /\ \/ /\ verdict' \in {[verdict EXCEPT ![t] = v] : v \in {"failed", "unmatched"}}
          /\ UNCHANGED who
       \/ \E s \in Students :
            /\ Unclaimed(s)
            /\ verdict' = [verdict EXCEPT
                 ![t] = IF response[s] = NoItem THEN "matched" ELSE "duplicate"]
            /\ who' = [who EXCEPT ![t] = s]
    /\ settle' = [settle EXCEPT ![t] = Finishes(cur[t])]
    /\ pc' = [pc EXCEPT ![t] = "commit"]
    /\ UNCHANGED <<rowVars, disk, futures, up, cur, hadPath, requestVars, countVars>>

\* Mutant of WriteResult: the response is not part of the item's transaction.
WriteResultApart(i, v, s) ==
    /\ status' = IF v = "keep" THEN status ELSE [status EXCEPT ![i] = v]
    /\ path' = IF v \in DeleteStates THEN [path EXCEPT ![i] = FALSE] ELSE path
    /\ link' = IF s = NoStudent THEN link ELSE [link EXCEPT ![i] = s]
    /\ UNCHANGED response

\* What the second transaction writes for item i.
WriteResult(i, v, s) ==
    /\ status' = IF v = "keep" THEN status ELSE [status EXCEPT ![i] = v]
    /\ path' = IF v \in DeleteStates THEN [path EXCEPT ![i] = FALSE] ELSE path
    /\ link' = IF s = NoStudent THEN link ELSE [link EXCEPT ![i] = s]
    /\ response' = IF v = "matched" THEN [response EXCEPT ![s] = i] ELSE response

\* The commit of a parse that ended in _persist_batch_result.
Commit(t) ==
    LET i == cur[t] IN
    /\ pc[t] = "commit"
    /\ WriteResult(i, verdict[t], who[t])
    /\ payload' = [payload EXCEPT ![i] = verdict[t] = "unmatched"]
    /\ job' = IF settle[t] THEN "done" ELSE job
    /\ IF verdict[t] \in DeleteStates /\ path[i]
         THEN /\ pc' = [pc EXCEPT ![t] = "removing"]
              /\ UNCHANGED <<cur, hadPath, verdict, who, settle>>
         ELSE Release(t)
    /\ UNCHANGED <<stale, disk, futures, up, requestVars, countVars>>

\* The commit of a failure: the file is gone, or the safety net of
\* _process_async caught an exception.
CommitFailure(t) ==
    /\ pc[t] = "closing" /\ Unlocked(cur[t])
    /\ WriteResult(cur[t], verdict[t], NoStudent)
    /\ job' = IF settle[t] THEN "done" ELSE job
    /\ Release(t)
    /\ UNCHANGED <<payload, stale, disk, futures, up, requestVars, countVars>>

\* _safe_remove after the commit.
RemoveFile(t) ==
    /\ pc[t] = "removing"
    /\ disk' = [disk EXCEPT ![cur[t]] = FALSE]
    /\ Release(t)
    /\ UNCHANGED <<rowVars, futures, up, requestVars, countVars>>

\* An exception anywhere in the parse, its own commit included: the safety net
\* fails the item unless it finds it terminal.
Raise(t) ==
    /\ pc[t] \in {"starting", "reading", "parsing", "commit"}
    /\ Failing(t, status[cur[t]] \in Terminal)
    /\ who' = [who EXCEPT ![t] = NoStudent]
    /\ UNCHANGED <<rowVars, disk, futures, up, cur, hadPath, requestVars, countVars>>

\* The safety net's own database work fails and is only logged.
NetFails(t) ==
    /\ pc[t] = "closing" /\ DbOutages
    /\ Release(t)
    /\ UNCHANGED <<rowVars, disk, futures, up, requestVars, countVars>>

-----------------------------------------------------------------------------
(* The teacher's requests *)

\* Mutant of CanAssign: a sheet that was assigned can be assigned again.
CanAssignAgain(i) == payload[i]

\* assign_item's conditions.
CanAssign(i) == status[i] = "unmatched" /\ payload[i]

\* Mutant of CanRetry: the file is not looked for.
CanRetryUnchecked(i) == status[i] = "failed" /\ path[i]

\* retry_item's conditions.
CanRetry(i) == status[i] = "failed" /\ path[i] /\ disk[i]

\* discard_item's condition.
CanDiscard(i) == status[i] \in {"unmatched", "failed"}

Allowed(a, i) ==
    \/ a = "assign" /\ CanAssign(i)
    \/ a = "retry" /\ CanRetry(i)
    \/ a = "discard" /\ CanDiscard(i)

\* A request has loaded the row and passed the checks; a refused request
\* changes nothing.  Nothing is locked.
Check(r, a, i, s) ==
    /\ ask[r] = "none" /\ r[1] \in up
    /\ asked < MaxRequests /\ asked' = asked + 1
    /\ Allowed(a, i)
    /\ ask' = [ask EXCEPT ![r] = a]
    /\ sheet' = [sheet EXCEPT ![r] = i]
    /\ pupil' = [pupil EXCEPT ![r] = s]
    /\ seen' = [seen EXCEPT ![r] = path[i]]
    /\ UNCHANGED <<rowVars, disk, futures, up, threadVars, crashes, overlapped, crossed>>

\* A request is answered.  Its write goes by the primary key: it is not
\* refused when the checks would now fail, and the history records that.
Answer(r) ==
    /\ crossed' = IF Allowed(ask[r], sheet[r]) THEN crossed ELSE crossed \cup {sheet[r]}
    /\ ask' = [ask EXCEPT ![r] = "none"]
    /\ sheet' = [sheet EXCEPT ![r] = NoItem]
    /\ pupil' = [pupil EXCEPT ![r] = NoStudent]
    /\ seen' = [seen EXCEPT ![r] = FALSE]

\* assign_item writes: the stored answer becomes the student's response.
AssignItem(r) ==
    LET i == sheet[r]
        s == pupil[r]
        v == IF response[s] = NoItem THEN "matched" ELSE "duplicate" IN
    /\ ask[r] = "assign" /\ Unlocked(i) /\ Unclaimed(s)
    /\ WriteResult(i, v, s)
    /\ disk' = [disk EXCEPT ![i] = IF seen[r] THEN FALSE ELSE @]
    /\ Answer(r)
    /\ UNCHANGED <<payload, stale, job, futures, up, threadVars, asked, crashes,
                   overlapped>>

\* A parse of the sheet waits in a thread pool or has begun.
UnderWay(i) == LiveRun(i) \/ \E p \in Processes : futures[p][i] > 0

\* Mutant of RetryItem: the item is not submitted.
RetryItemUnsubmitted(r) ==
    LET i == sheet[r] IN
    /\ ask[r] = "retry" /\ Unlocked(i)
    /\ status' = [status EXCEPT ![i] = "queued"]
    /\ Answer(r)
    /\ UNCHANGED <<path, payload, link, stale, job, response, disk, futures, up,
                   threadVars, asked, crashes, overlapped>>

\* retry_item writes, and the router commits and calls submit_item; the job
\* keeps its status, and nobody asks whether an earlier parse is under way.
RetryItem(r) ==
    LET i == sheet[r] IN
    /\ ask[r] = "retry" /\ Unlocked(i)
    /\ overlapped' = IF UnderWay(i) THEN overlapped \cup {i} ELSE overlapped
    /\ status' = [status EXCEPT ![i] = "queued"]
    /\ futures' = [futures EXCEPT ![r[1]][i] = @ + 1]
    /\ Answer(r)
    /\ UNCHANGED <<path, payload, link, stale, job, response, disk, up,
                   threadVars, asked, crashes>>

\* discard_item writes; the file is removed before the request commits.
DiscardItem(r) ==
    LET i == sheet[r] IN
    /\ ask[r] = "discard" /\ Unlocked(i)
    /\ status' = [status EXCEPT ![i] = "discarded"]
    /\ path' = [path EXCEPT ![i] = IF seen[r] THEN FALSE ELSE @]
    /\ disk' = [disk EXCEPT ![i] = IF seen[r] THEN FALSE ELSE @]
    /\ Answer(r)
    /\ UNCHANGED <<payload, link, stale, job, response, futures, up, threadVars,
                   asked, crashes, overlapped>>

\* A request whose commit fails.  assign_item and discard_item may have removed
\* the file by then, which leaves a row that names a missing file.
RollBack(r) ==
    /\ ask[r] # "none" /\ Unlocked(sheet[r])
    /\ \/ UNCHANGED disk
       \/ /\ seen[r] /\ ask[r] # "retry"
          /\ disk' = [disk EXCEPT ![sheet[r]] = FALSE]
    /\ Answer(r)
    /\ UNCHANGED <<rowVars, futures, up, threadVars, asked, crashes, overlapped>>

-----------------------------------------------------------------------------
(* Polling: the watchdog and the job's own repair *)

\* Mutant of Overdue: the watchdog only looks at jobs that are done.
OverdueWhenDone == {i \in Items : status[i] = "parsing" /\ stale[i] /\ job = "done"}

\* reconcile_stale_runtime: items parsing for too long.
Overdue == {i \in Items : status[i] = "parsing" /\ stale[i]}

\* The statuses and the job after the watchdog's transaction.
Watched == [i \in Items |-> IF i \in Overdue THEN "failed" ELSE status[i]]

WatchedJob ==
    IF Overdue # {} /\ \A i \in Items : Watched[i] \in Terminal THEN "done" ELSE job

\* list_batch_jobs
ListBatchJobs ==
    /\ up # {} /\ Overdue # {} /\ \A i \in Overdue : Unlocked(i)
    /\ status' = Watched
    /\ job' = WatchedJob
    /\ UNCHANGED <<path, payload, link, stale, response, disk, futures, up,
                   threadVars, requestVars, countVars>>

\* Items of a job that is done but that are not terminal.
Zombies ==
    IF WatchedJob = "done" THEN {i \in Items : Watched[i] \notin Terminal} ELSE {}

\* Mutant of GetBatchJob: a job whose items are all terminal is left alone.
GetBatchJobLeavesJob ==
    /\ up # {} /\ job # "absent" /\ \A i \in Overdue \cup Zombies : Unlocked(i)
    /\ status' = [i \in Items |-> IF i \in Zombies THEN "failed" ELSE Watched[i]]
    /\ job' = WatchedJob
    /\ UNCHANGED <<path, payload, link, stale, response, disk, futures, up,
                   threadVars, requestVars, countVars>>

\* get_batch_job: the watchdog; then a job whose items are all terminal is
\* done, and the zombies of a job that is done are failed.
GetBatchJob ==
    /\ up # {} /\ job # "absent" /\ \A i \in Overdue \cup Zombies : Unlocked(i)
    /\ status' = [i \in Items |-> IF i \in Zombies THEN "failed" ELSE Watched[i]]
    /\ job' = IF \A i \in Items : Watched[i] \in Terminal THEN "done" ELSE WatchedJob
    /\ UNCHANGED <<path, payload, link, stale, response, disk, futures, up,
                   threadVars, requestVars, countVars>>

-----------------------------------------------------------------------------
(* Time and processes *)

\* started_at passes the cutoff.  Unless SlowCalls, only of a parse that no
\* thread is working on any more.
GrowStale(i) ==
    /\ status[i] = "parsing" /\ ~stale[i]
    /\ SlowCalls \/ ~LiveRun(i)
    /\ stale' = [stale EXCEPT ![i] = TRUE]
    /\ UNCHANGED <<status, path, payload, link, job, response, disk, futures,
                   up, threadVars, requestVars, countVars>>

\* A process ends: its futures are gone, its transactions rolled back.
Crash(p) ==
    /\ p \in up /\ crashes < MaxCrashes
    /\ crashes' = crashes + 1
    /\ up' = up \ {p}
    /\ futures' = [futures EXCEPT ![p] = [i \in Items |-> 0]]
    /\ pc' = [t \in Threads |-> IF t[1] = p THEN "idle" ELSE pc[t]]
    /\ cur' = [t \in Threads |-> IF t[1] = p THEN NoItem ELSE cur[t]]
    /\ hadPath' = [t \in Threads |-> IF t[1] = p THEN FALSE ELSE hadPath[t]]
    /\ verdict' = [t \in Threads |-> IF t[1] = p THEN "keep" ELSE verdict[t]]
    /\ who' = [t \in Threads |-> IF t[1] = p THEN NoStudent ELSE who[t]]
    /\ settle' = [t \in Threads |-> IF t[1] = p THEN FALSE ELSE settle[t]]
    /\ ask' = [r \in Requests |-> IF r[1] = p THEN "none" ELSE ask[r]]
    /\ sheet' = [r \in Requests |-> IF r[1] = p THEN NoItem ELSE sheet[r]]
    /\ pupil' = [r \in Requests |-> IF r[1] = p THEN NoStudent ELSE pupil[r]]
    /\ seen' = [r \in Requests |-> IF r[1] = p THEN FALSE ELSE seen[r]]
    /\ UNCHANGED <<rowVars, disk, asked, overlapped, crossed>>

\* reconcile_stale: the items it fails, whichever process they belong to.
Interrupted ==
    IF job = "running" THEN {i \in Items : status[i] \in {"queued", "parsing"}} ELSE {}

\* Files no row names; gc_orphan_tempfiles removes the old ones among them.
Orphans == {i \in Items : disk[i] /\ ~path[i]}

\* lifespan: reconcile_stale, then gc_orphan_tempfiles.
Restart(p) ==
    /\ p \notin up /\ \A i \in Interrupted : Unlocked(i)
    /\ up' = up \cup {p}
    /\ status' = [i \in Items |-> IF i \in Interrupted THEN "failed" ELSE status[i]]
    /\ job' = IF job = "running" THEN "done" ELSE job
    /\ \E old \in SUBSET Orphans : disk' = [i \in Items |-> disk[i] /\ i \notin old]
    /\ UNCHANGED <<path, payload, link, stale, response, futures, threadVars,
                   requestVars, countVars>>

-----------------------------------------------------------------------------
Parse(t) ==
    \/ StartRead(t) \/ StartWrite(t) \/ ReadFile(t) \/ Persist(t) \/ Commit(t)
    \/ CommitFailure(t) \/ RemoveFile(t) \/ Raise(t) \/ NetFails(t)

Request(r) ==
    \/ \E i \in Items, s \in Students : Check(r, "assign", i, s)
    \/ \E i \in Items : Check(r, "retry", i, NoStudent)
    \/ \E i \in Items : Check(r, "discard", i, NoStudent)
    \/ AssignItem(r) \/ RetryItem(r) \/ DiscardItem(r) \/ RollBack(r)

Next ==
    \/ \E p \in Processes : Upload(p) \/ Crash(p) \/ Restart(p)
    \/ \E t \in Threads : Parse(t)
    \/ \E i \in Items : GrowStale(i)
    \/ \E r \in Requests : Request(r)
    \/ ListBatchJobs \/ GetBatchJob

\* Threads run on (LLM calls time out), containers are restarted, time passes,
\* and the teacher's page polls the job until it is done.
Fairness ==
    /\ \A t \in Threads : WF_vars(Parse(t))
    /\ \A p \in Processes : WF_vars(Restart(p))
    /\ \A i \in Items : WF_vars(GrowStale(i))
    /\ WF_vars(GetBatchJob)

SafetySpec == Init /\ [][Next]_vars
Spec == SafetySpec /\ Fairness

-----------------------------------------------------------------------------
(* Properties *)

\* Every variable has the type of its column or local variable.
TypeOK ==
    /\ status \in [Items -> {"absent", "queued", "parsing"} \cup Terminal]
    /\ path \in [Items -> BOOLEAN] /\ payload \in [Items -> BOOLEAN]
    /\ link \in [Items -> Students \cup {NoStudent}]
    /\ stale \in [Items -> BOOLEAN] /\ disk \in [Items -> BOOLEAN]
    /\ job \in {"absent", "running", "done"}
    /\ response \in [Students -> Items \cup {NoItem}]
    /\ futures \in [Processes -> [Items -> Nat]]
    /\ up \subseteq Processes
    /\ pc \in [Threads -> Phases]
    /\ cur \in [Threads -> Items \cup {NoItem}]
    /\ hadPath \in [Threads -> BOOLEAN] /\ settle \in [Threads -> BOOLEAN]
    /\ verdict \in [Threads -> {"keep"} \cup Terminal]
    /\ who \in [Threads -> Students \cup {NoStudent}]
    /\ ask \in [Requests -> {"none", "assign", "retry", "discard"}]
    /\ sheet \in [Requests -> Items \cup {NoItem}]
    /\ pupil \in [Requests -> Students \cup {NoStudent}]
    /\ seen \in [Requests -> BOOLEAN]
    /\ asked \in Nat /\ crashes \in Nat
    /\ overlapped \subseteq Items /\ crossed \subseteq Items

\* A matched item points to a response that was made from its own sheet, also
\* when stale runs, crashes and requests overwrite each other.
MatchedHasResponse ==
    \A i \in Items :
        status[i] = "matched" => link[i] \in Students /\ response[link[i]] = i

\* A queued item can be parsed: its row names a file and the file is there,
\* although files are removed by finished runs, by discard, by discards that
\* roll back and by the start-up sweep, unless a request of the teacher acted
\* on the sheet after its check had gone stale (retry_item beside discard_item:
\* such a sheet is queued without a file, and its parse fails it).
QueuedHasFile ==
    \A i \in Items \ crossed : status[i] = "queued" => path[i] /\ disk[i]

\* Sheets whose teacher's requests came in each other's or a parse's way.
Disturbed == overlapped \cup crossed

\* One sheet is at most one student's response, however often it is parsed, by
\* whichever process, as long as no retry overlapped an earlier parse of it and
\* no request acted on a stale check (two assign_item to different students).
OneSheetOneResponse ==
    \A s1, s2 \in Students :
        response[s1] \in Items \ Disturbed
          /\ response[s1] = response[s2] => s1 = s2

\* "duplicate" (the student already has a response: uploaded twice) is said of
\* a sheet only if the student has one that was made from another sheet, with
\* the same provisos.
DuplicateMeansOther ==
    \A i \in Items \ Disturbed : status[i] = "duplicate" =>
        link[i] \in Students /\ response[link[i]] \in Items \ {i}

\* "Never leaves a parsing orphan" (_process_async, G1), and polling heals what
\* a crash or a failing database left behind (G6); only a retry that was checked
\* before the parse began can put the sheet back into the queue instead.
NoParsingOrphan ==
    \A i \in Items :
        status[i] = "parsing"
          ~> (status[i] \in Terminal \/ (status[i] = "queued" /\ i \in crossed))

\* An uploaded or retried item reaches a terminal status ("any escaping
\* exception leaves the item in a terminal status", _process_async), as long as
\* no process has crashed: the start-up sweep only looks at running jobs, and
\* passes over an item that was retried after its job was done.
ItemSettles ==
    \A i \in Items : status[i] \in {"queued", "parsing"}
                       ~> (status[i] \in Terminal \/ crashes > 0)

\* _finalize_job: "done when no item of the job is queued or parsing".  Two runs
\* that finish together each see the other's item unfinished and neither closes
\* the job; the next poll does.
JobCloses ==
    (job = "running" /\ \A i \in Items : status[i] \in Terminal)
      ~> (job = "done" \/ \E i \in Items : status[i] \notin Terminal)

=============================================================================
