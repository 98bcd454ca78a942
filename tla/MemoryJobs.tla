----------------------------- MODULE MemoryJobs -----------------------------
(***************************************************************************)
(* The memory pipeline of the agent runtime (runtime/codex-rs): stage 1    *)
(* extracts a memory from every idle thread, phase 2 consolidates the      *)
(* extracted memories in a workspace of files.  Any number of processes    *)
(* run both at their start and share a SQLite database (state/src/runtime/ *)
(* memories.rs) and the workspace (memories/write/src/phase2.rs).          *)
(*                                                                         *)
(* A database transaction is one step; so is each thing a phase-2 run does *)
(* to the workspace.  Time is what has run out: a lease, a retry delay and *)
(* the cooldown after a success end whenever they like.  A claim's         *)
(* ownership token is its number, 0 is NULL.  A process that crashes takes *)
(* no more steps.                                                          *)
(***************************************************************************)
EXTENDS Integers, FiniteSets

CONSTANTS
    Threads,
    MaxRunning,   \* max_running_jobs: extractions with a valid lease
    RetryLimit,   \* DEFAULT_RETRY_REMAINING
    MaxClaims,    \* bound: stage-1 claims
    MaxRuns,      \* bound: phase-2 claims
    MaxTouches,   \* bound: times a thread is used again
    MaxUpsets,    \* bound: threads deleted or polluted, resets, rows pruned
    NoThread,
    Nothing,      \* no file, or no artifact, is there
    Partial,      \* artifacts an agent has left half edited
    NoGit         \* the workspace has no usable .git

Claims == 1..MaxClaims
Runs == 1..MaxRuns
Versions == 1..(1 + MaxTouches)    \* values of threads.updated_at
Snapshots == Threads \X Versions   \* a thread's memory, as of a version
InputSets == SUBSET Snapshots

ASSUME ThreadsFinite == IsFiniteSet(Threads)
ASSUME BoundsAssumption ==
    /\ MaxRunning \in Nat /\ RetryLimit \in Nat \ {0}
    /\ MaxClaims \in Nat /\ MaxRuns \in Nat
    /\ MaxTouches \in Nat /\ MaxUpsets \in Nat
ASSUME NullsAreFresh ==
    /\ NoThread \notin Threads
    /\ \A S \in InputSets : S # Nothing /\ S # Partial
    /\ Nothing # Partial
    /\ \A f \in InputSets \cup {Nothing}, x \in InputSets \cup {Nothing, Partial} :
           <<f, x>> # NoGit

VARIABLES
    mode, version,     \* threads.memory_mode (gone: no row), threads.updated_at
    polluting,         \* where mark_thread_memory_mode_polluted is
    status, token, lease, backoff, retries, input, success,  \* stage-1 jobs
    out, selected,     \* stage1_outputs: source_updated_at (0: no row), flag
    claims, claimOf, claimed, working,   \* what stage-1 workers hold
    gStatus, gToken, gLease, gBackoff, gCooldown,            \* the global job
    runs, pc, inputs,  \* phase-2 runs: how many, where each is, what it selected
    files, art, base,  \* the workspace: inputs, artifacts, git baseline
    stuck,             \* history: memories whose summary could not be removed
    deleting,          \* threads whose memory is deleted and whose row is not
    upsets, resetting,
    writer, epoch,     \* history: claim that wrote a row; claims at its deletion
    okInputs, okArt,   \* history: inputs and artifacts at the last success
    overlap            \* history: two runs, or a run and a reset, overlapped

threadVars == <<mode, version, polluting, deleting>>
jobVars == <<status, token, lease, backoff, retries, input, success>>
outVars == <<out, selected>>
claimVars == <<claims, claimOf, claimed, working>>
globalVars == <<gStatus, gToken, gLease, gBackoff, gCooldown>>
runVars == <<runs, pc, inputs>>
fileVars == <<files, art, base, stuck>>
upsetVars == <<upsets, resetting>>
histVars == <<writer, epoch, okInputs, okArt, overlap>>
stage1Vars == <<threadVars, jobVars, outVars, claimVars>>
phase2Vars == <<globalVars, runVars, fileVars>>
vars == <<threadVars, jobVars, outVars, claimVars, globalVars, runVars,
          fileVars, upsetVars, histVars>>

Steps == {"none", "prepare", "select", "hydrate", "sync", "diff", "agent", "confirm",
          "reset", "commit", "index", "succeed", "zombie", "over"}
Active == Steps \ {"none", "over"}

\* The files of the workspace, what the artifacts reflect, and the baseline.
Files == InputSets \cup {Nothing}
Artifacts == Files \cup {Partial}
Baselines == (Files \X Artifacts) \cup {NoGit}

TypeOK ==
    /\ mode \in [Threads -> {"enabled", "polluted", "gone"}]
    /\ version \in [Threads -> Versions]
    /\ polluting \in [Threads -> {"no", "read", "readSelected", "marked"}]
    /\ deleting \subseteq Threads
    /\ status \in [Threads -> {"none", "running", "done", "error"}]
    /\ token \in [Threads -> 0..MaxClaims]
    /\ lease \in [Threads -> BOOLEAN]
    /\ backoff \in [Threads -> BOOLEAN]
    /\ retries \in [Threads -> 0..RetryLimit]
    /\ input \in [Threads -> Versions \cup {0}]
    /\ success \in [Threads -> Versions \cup {0}]
    /\ out \in [Threads -> Versions \cup {0}]
    /\ selected \in [Threads -> BOOLEAN]
    /\ claims \in 0..MaxClaims
    /\ claimOf \in [Claims -> Threads \cup {NoThread}]
    /\ claimed \in [Claims -> Versions]
    /\ working \in [Claims -> BOOLEAN]
    /\ gStatus \in {"none", "pending", "running", "done", "error"}
    /\ gToken \in 0..MaxRuns
    /\ gLease \in BOOLEAN /\ gBackoff \in BOOLEAN /\ gCooldown \in BOOLEAN
    /\ runs \in 0..MaxRuns
    /\ pc \in [Runs -> Steps]
    /\ inputs \in [Runs -> InputSets]
    /\ files \in Files /\ art \in Artifacts /\ base \in Baselines
    /\ stuck \in InputSets
    /\ upsets \in 0..MaxUpsets /\ resetting \in BOOLEAN
    /\ writer \in [Threads -> 0..MaxClaims]
    /\ epoch \in [Threads -> 0..MaxClaims]
    /\ okInputs \in InputSets /\ okArt \in Artifacts
    /\ overlap \in BOOLEAN

Init ==
    /\ mode = [t \in Threads |-> "enabled"]
    /\ version = [t \in Threads |-> 1]
    /\ polluting = [t \in Threads |-> "no"]
    /\ deleting = {}
    /\ status = [t \in Threads |-> "none"]
    /\ token = [t \in Threads |-> 0]
    /\ lease = [t \in Threads |-> FALSE]
    /\ backoff = [t \in Threads |-> FALSE]
    /\ retries = [t \in Threads |-> 0]
    /\ input = [t \in Threads |-> 0]
    /\ success = [t \in Threads |-> 0]
    /\ out = [t \in Threads |-> 0]
    /\ selected = [t \in Threads |-> FALSE]
    /\ claims = 0
    /\ claimOf = [k \in Claims |-> NoThread]
    /\ claimed = [k \in Claims |-> 1]
    /\ working = [k \in Claims |-> FALSE]
    /\ gStatus = "none" /\ gToken = 0
    /\ gLease = FALSE /\ gBackoff = FALSE /\ gCooldown = FALSE
    /\ runs = 0
    /\ pc = [w \in Runs |-> "none"]
    /\ inputs = [w \in Runs |-> {}]
    /\ files = Nothing /\ art = Nothing /\ base = NoGit /\ stuck = {}
    /\ upsets = 0 /\ resetting = FALSE
    /\ writer = [t \in Threads |-> 0]
    /\ epoch = [t \in Threads |-> 0]
    /\ okInputs = {} /\ okArt = {}
    /\ overlap = FALSE

-----------------------------------------------------------------------------
(* Stage 1. *)

RunningNow == {t \in Threads : status[t] = "running" /\ lease[t]}

\* What enqueue_global_consolidation does to the global job's row: a running
\* job stays running, any other becomes pending and is no longer delayed.
EnqueueGlobal ==
    /\ gStatus' = IF gStatus = "running" THEN "running" ELSE "pending"
    /\ gBackoff' = (gStatus = "running" /\ gBackoff)
    /\ UNCHANGED <<gToken, gLease, gCooldown>>

\* A thread that is idle again has a later updated_at.
Touch(t) ==
    /\ mode[t] # "gone" /\ version[t] < 1 + MaxTouches
    /\ version' = [version EXCEPT ![t] = @ + 1]
    /\ UNCHANGED <<mode, polluting, deleting, jobVars, outVars, claimVars, phase2Vars,
                   upsetVars, histVars>>

\* Mutant of NeedsUpdate: only the output is looked at.
NeedsUpdateByOutput(t, v) == out[t] < v

\* The source the caller saw is newer than the output and the last success.
NeedsUpdate(t, v) == out[t] < v /\ success[t] < v

\* The conditions under which the row of thread t may be claimed.
Claimable(t, v) ==
    IF status[t] = "none" THEN Cardinality(RunningNow) < MaxRunning
    ELSE /\ ~(status[t] = "running" /\ lease[t])
         /\ backoff[t] => v > input[t]
         /\ retries[t] > 0 \/ v > input[t]
         /\ Cardinality(RunningNow \ {t}) < MaxRunning

\* try_claim_stage1_job.  claim_stage1_jobs_for_startup read the thread's row
\* earlier, so v is any version the thread has had.
ClaimStage1(t, v) ==
    /\ claims < MaxClaims
    /\ v <= version[t]
    /\ NeedsUpdate(t, v) /\ Claimable(t, v)
    /\ claims' = claims + 1
    /\ claimOf' = [claimOf EXCEPT ![claims + 1] = t]
    /\ claimed' = [claimed EXCEPT ![claims + 1] = v]
    /\ working' = [working EXCEPT ![claims + 1] = TRUE]
    /\ status' = [status EXCEPT ![t] = "running"]
    /\ token' = [token EXCEPT ![t] = claims + 1]
    /\ lease' = [lease EXCEPT ![t] = TRUE]
    /\ backoff' = [backoff EXCEPT ![t] = FALSE]
    /\ retries' = [retries EXCEPT ![t] = IF v > input[t] THEN RetryLimit ELSE @]
    /\ input' = [input EXCEPT ![t] = v]
    /\ UNCHANGED <<threadVars, success, outVars, phase2Vars, upsetVars, histVars>>

\* Mutant of Owns: the token is not compared.
OwnsRunning(k) == status[claimOf[k]] = "running"

\* WHERE status = 'running' AND ownership_token = ?
Owns(k) == LET t == claimOf[k] IN status[t] = "running" /\ token[t] = k

Reports(k) ==
    /\ working[k]
    /\ working' = [working EXCEPT ![k] = FALSE]
    /\ UNCHANGED <<claims, claimOf, claimed>>

\* The job of t is done: last_success_watermark = input_watermark.
JobDone(t) ==
    /\ status' = [status EXCEPT ![t] = "done"]
    /\ lease' = [lease EXCEPT ![t] = FALSE]
    /\ success' = [success EXCEPT ![t] = input[t]]
    /\ UNCHANGED <<token, backoff, retries, input>>

\* mark_stage1_job_succeeded: the output row keeps its selected flag.
Succeeded(k) ==
    LET t == claimOf[k] IN
    /\ Reports(k) /\ Owns(k)
    /\ JobDone(t)
    /\ out' = [out EXCEPT ![t] = IF claimed[k] >= @ THEN claimed[k] ELSE @]
    /\ writer' = [writer EXCEPT ![t] = k]
    /\ EnqueueGlobal
    /\ UNCHANGED <<threadVars, selected, runVars, fileVars, upsetVars, epoch,
                   okInputs, okArt, overlap>>

\* mark_stage1_job_succeeded_no_output.
SucceededNoOutput(k) ==
    LET t == claimOf[k] IN
    /\ Reports(k) /\ Owns(k)
    /\ JobDone(t)
    /\ out' = [out EXCEPT ![t] = 0]
    /\ selected' = [selected EXCEPT ![t] = FALSE]
    /\ IF out[t] # 0 THEN EnqueueGlobal ELSE UNCHANGED globalVars
    /\ UNCHANGED <<threadVars, runVars, fileVars, upsetVars, histVars>>

\* mark_stage1_job_failed.
Failed(k) ==
    LET t == claimOf[k] IN
    /\ Reports(k) /\ Owns(k)
    /\ status' = [status EXCEPT ![t] = "error"]
    /\ lease' = [lease EXCEPT ![t] = FALSE]
    /\ backoff' = [backoff EXCEPT ![t] = TRUE]
    /\ retries' = [retries EXCEPT ![t] = @ - 1]
    /\ UNCHANGED <<threadVars, token, input, success, outVars, phase2Vars,
                   upsetVars, histVars>>

\* A report that no longer owns the job changes nothing.
ReportsLate(k) ==
    /\ Reports(k) /\ ~Owns(k)
    /\ UNCHANGED <<threadVars, jobVars, outVars, phase2Vars, upsetVars, histVars>>

LeaseExpires(t) ==
    /\ lease[t]
    /\ lease' = [lease EXCEPT ![t] = FALSE]
    /\ UNCHANGED <<threadVars, status, token, backoff, retries, input, success,
                   outVars, claimVars, phase2Vars, upsetVars, histVars>>

BackoffEnds(t) ==
    /\ backoff[t]
    /\ backoff' = [backoff EXCEPT ![t] = FALSE]
    /\ UNCHANGED <<threadVars, status, token, lease, retries, input, success,
                   outVars, claimVars, phase2Vars, upsetVars, histVars>>

-----------------------------------------------------------------------------
(* Deleting, polluting, pruning and resetting memories. *)

Upset == upsets < MaxUpsets /\ upsets' = upsets + 1

\* Mutant of DropJobs: the jobs are left behind.
DropJobsNone(T) == UNCHANGED jobVars

\* The rows of the threads in T are deleted from jobs.
DropJobs(T) ==
    /\ status' = [t \in Threads |-> IF t \in T THEN "none" ELSE status[t]]
    /\ token' = [t \in Threads |-> IF t \in T THEN 0 ELSE token[t]]
    /\ lease' = [t \in Threads |-> lease[t] /\ t \notin T]
    /\ backoff' = [t \in Threads |-> backoff[t] /\ t \notin T]
    /\ retries' = [t \in Threads |-> IF t \in T THEN 0 ELSE retries[t]]
    /\ input' = [t \in Threads |-> IF t \in T THEN 0 ELSE input[t]]
    /\ success' = [t \in Threads |-> IF t \in T THEN 0 ELSE success[t]]

DropOutputs(T) ==
    /\ out' = [t \in Threads |-> IF t \in T THEN 0 ELSE out[t]]
    /\ selected' = [t \in Threads |-> selected[t] /\ t \notin T]

\* delete_thread_memory, as a thread is deleted; its row goes later.
DeleteMemory(t) ==
    /\ Upset
    /\ mode[t] # "gone" /\ t \notin deleting
    /\ deleting' = deleting \cup {t}
    /\ DropJobs({t}) /\ DropOutputs({t})
    /\ IF selected[t] THEN EnqueueGlobal ELSE UNCHANGED globalVars
    /\ epoch' = [epoch EXCEPT ![t] = claims]
    /\ UNCHANGED <<mode, version, polluting, claimVars, runVars, fileVars,
                   resetting, writer, okInputs, okArt, overlap>>

DeleteThread(t) ==
    /\ t \in deleting
    /\ deleting' = deleting \ {t}
    /\ mode' = [mode EXCEPT ![t] = "gone"]
    /\ UNCHANGED <<version, polluting, jobVars, outVars, claimVars, phase2Vars,
                   upsetVars, histVars>>

\* mark_thread_memory_mode_polluted: it reads the flag, ...
PolluteReads(t) ==
    /\ Upset
    /\ mode[t] = "enabled" /\ polluting[t] = "no"
    /\ polluting' = [polluting EXCEPT
                        ![t] = IF selected[t] THEN "readSelected" ELSE "read"]
    /\ UNCHANGED <<mode, version, deleting, jobVars, outVars, claimVars,
                   phase2Vars, resetting, histVars>>

\* ... updates the thread's row in the other database, ...
PolluteMarks(t) ==
    /\ polluting[t] \in {"read", "readSelected"}
    /\ mode' = [mode EXCEPT ![t] = IF @ = "gone" THEN "gone" ELSE "polluted"]
    /\ polluting' = [polluting EXCEPT
                        ![t] = IF @ = "readSelected" THEN "marked" ELSE "no"]
    /\ UNCHANGED <<version, deleting, jobVars, outVars, claimVars, phase2Vars,
                   upsetVars, histVars>>

\* ... and asks for a consolidation that forgets the thread.
PolluteEnqueues(t) ==
    /\ polluting[t] = "marked"
    /\ polluting' = [polluting EXCEPT ![t] = "no"]
    /\ EnqueueGlobal
    /\ UNCHANGED <<mode, version, deleting, jobVars, outVars, claimVars, runVars,
                   fileVars, upsetVars, histVars>>

\* prune_stage1_outputs_for_retention removes an old row that is not selected.
Prune(t) ==
    /\ Upset
    /\ out[t] # 0 /\ ~selected[t]
    /\ DropOutputs({t})
    /\ UNCHANGED <<threadVars, jobVars, claimVars, phase2Vars, resetting, histVars>>

SomeActive == \E w \in Runs : pc[w] \in Active

\* memory_reset: clear_memory_data deletes all rows, ...
ResetDb ==
    /\ Upset /\ ~resetting
    /\ resetting' = TRUE
    /\ DropJobs(Threads) /\ DropOutputs(Threads)
    /\ gStatus' = "none" /\ gToken' = 0
    /\ gLease' = FALSE /\ gBackoff' = FALSE /\ gCooldown' = FALSE
    /\ epoch' = [t \in Threads |-> claims]
    /\ overlap' = (overlap \/ SomeActive)
    /\ UNCHANGED <<threadVars, claimVars, runVars, fileVars, writer, okInputs, okArt>>

\* ... then clear_memory_roots_contents all files.
ResetFiles ==
    /\ resetting
    /\ resetting' = FALSE
    /\ files' = Nothing /\ art' = Nothing /\ base' = NoGit
    /\ overlap' = (overlap \/ SomeActive)
    /\ UNCHANGED <<stage1Vars, globalVars, runVars, stuck, upsets, writer, epoch,
                   okInputs, okArt>>

-----------------------------------------------------------------------------
(* Phase 2. *)

At(w, step) == pc[w] = step
Goto(w, step) == pc' = [pc EXCEPT ![w] = step]
OwnsGlobal(w) == gStatus = "running" /\ gToken = w

\* try_claim_global_phase2_job.
ClaimGlobal ==
    /\ runs < MaxRuns
    /\ ~gBackoff /\ ~(gStatus = "running" /\ gLease) /\ ~gCooldown
    /\ gStatus' = "running" /\ gToken' = runs + 1
    /\ gLease' = TRUE /\ gBackoff' = FALSE /\ gCooldown' = FALSE
    /\ runs' = runs + 1
    /\ Goto(runs + 1, "prepare")
    /\ overlap' = (overlap \/ SomeActive)
    /\ UNCHANGED <<stage1Vars, inputs, fileVars, upsetVars, writer, epoch,
                   okInputs, okArt>>

quiet == <<stage1Vars, upsetVars, histVars>>

\* Mutant of Prepare: the baseline is always made anew.
PrepareAnew(w) ==
    /\ At(w, "prepare") /\ Goto(w, "select")
    /\ base' = <<files, art>>
    /\ UNCHANGED <<quiet, globalVars, runs, inputs, files, art, stuck>>

\* prepare_memory_workspace: a missing baseline is made of what is there.
Prepare(w) ==
    /\ At(w, "prepare") /\ Goto(w, "select")
    /\ base' = IF base = NoGit THEN <<files, art>> ELSE base
    /\ UNCHANGED <<quiet, globalVars, runs, inputs, files, art, stuck>>

\* get_phase2_input_selection picks outputs of enabled threads, ...
Select(w) ==
    /\ At(w, "select") /\ Goto(w, "hydrate")
    /\ \E T \in SUBSET {t \in Threads : out[t] # 0 /\ mode[t] = "enabled"} :
           inputs' = [inputs EXCEPT ![w] = {<<t, out[t]>> : t \in T}]
    /\ UNCHANGED <<quiet, globalVars, runs, fileVars>>

\* ... then reads them, and drops what has changed.
Hydrate(w) ==
    /\ At(w, "hydrate") /\ Goto(w, "sync")
    /\ inputs' = [inputs EXCEPT
           ![w] = {x \in @ : out[x[1]] = x[2] /\ mode[x[1]] = "enabled"}]
    /\ UNCHANGED <<quiet, globalVars, runs, fileVars>>

\* The memories that have a file in the workspace.
Present == IF files = Nothing THEN {} ELSE files

\* sync_phase2_workspace_inputs: outdated summaries are removed, and one that
\* cannot be removed is only warned about; then come the summaries of the
\* inputs, file by file, ...
SyncSome(w) ==
    /\ At(w, "sync")
    /\ \E x \in inputs[w], rest \in SUBSET (Present \ inputs[w]) :
           /\ files' = (Present \cap inputs[w]) \cup {x} \cup rest
           /\ stuck' = stuck \cup rest
    /\ UNCHANGED <<quiet, globalVars, runVars, art, base>>

\* ... until raw_memories.md is rebuilt.
Sync(w) ==
    /\ At(w, "sync") /\ Goto(w, "diff")
    /\ \E rest \in SUBSET (Present \ inputs[w]) :
           files' = inputs[w] \cup rest /\ stuck' = stuck \cup rest
    /\ UNCHANGED <<quiet, globalVars, runs, inputs, art, base>>

\* The whole tree is compared with the baseline, artifacts included.
HasChanges == base # <<files, art>>

\* memory_workspace_diff: without changes, and with valid artifacts, the run
\* is over; half-edited artifacts may pass for valid.
Diff(w) ==
    /\ At(w, "diff") /\ base # NoGit
    /\ \/ HasChanges /\ Goto(w, "agent")
       \/ ~HasChanges /\ art \in {Nothing, Partial} /\ Goto(w, "agent")
       \/ ~HasChanges /\ art # Nothing /\ Goto(w, "succeed")
    /\ UNCHANGED <<quiet, globalVars, runs, inputs, fileVars>>

\* The agent edits the artifacts, also when it could not be shut down.
AgentWrites(w) ==
    /\ pc[w] \in {"agent", "zombie"}
    /\ art' = Partial
    /\ UNCHANGED <<quiet, globalVars, runVars, files, base, stuck>>

\* It completes, is shut down, and its artifacts are valid; that it has worked
\* in all the files is trusted, as the code trusts it.
AgentCompletes(w) ==
    /\ At(w, "agent") /\ Goto(w, "confirm")
    /\ art' = files
    /\ UNCHANGED <<quiet, globalVars, runs, inputs, files, base, stuck>>

\* Its shutdown times out: the run gives up and keeps the lease.
ShutdownTimesOut(w) ==
    /\ At(w, "agent") /\ Goto(w, "zombie")
    /\ UNCHANGED <<quiet, globalVars, runs, inputs, fileVars>>

\* heartbeat_global_phase2_job, while the agent runs.
Heartbeat(w) ==
    /\ At(w, "agent") /\ OwnsGlobal(w)
    /\ gLease' = TRUE
    /\ UNCHANGED <<quiet, gStatus, gToken, gBackoff, gCooldown, runVars, fileVars>>

\* The heartbeat that confirms the ownership before the baseline is reset.
Confirm(w) ==
    /\ At(w, "confirm")
    /\ \/ OwnsGlobal(w) /\ gLease' = TRUE /\ Goto(w, "reset")
       \/ ~OwnsGlobal(w) /\ gLease' = gLease /\ Goto(w, "over")
    /\ UNCHANGED <<quiet, gStatus, gToken, gBackoff, gCooldown, runs, inputs, fileVars>>

\* reset_git_repository removes .git, ...
RemoveGit(w) ==
    /\ At(w, "reset") /\ Goto(w, "commit")
    /\ base' = NoGit
    /\ UNCHANGED <<quiet, globalVars, runs, inputs, files, art, stuck>>

\* ... commits what is in the workspace, ...
CommitTree(w) ==
    /\ At(w, "commit") /\ Goto(w, "index")
    /\ base' = <<files, art>>
    /\ UNCHANGED <<quiet, globalVars, runs, inputs, files, art, stuck>>

\* ... and writes the index; a failure there comes after the commit.
WriteIndex(w) ==
    /\ At(w, "index") /\ Goto(w, "succeed")
    /\ UNCHANGED <<quiet, globalVars, runs, inputs, fileVars>>

\* Mutant of SucceedGlobal: rows selected before stay selected.
SucceedGlobalKeeps(w) ==
    /\ At(w, "succeed") /\ Goto(w, "over")
    /\ IF OwnsGlobal(w)
       THEN /\ gStatus' = "done" /\ gLease' = FALSE /\ gCooldown' = TRUE
            /\ selected' = [t \in Threads |->
                               selected[t] \/ <<t, out[t]>> \in inputs[w]]
            /\ okInputs' = inputs[w] /\ okArt' = art
       ELSE UNCHANGED <<gStatus, gLease, gCooldown, selected, okInputs, okArt>>
    /\ UNCHANGED <<threadVars, jobVars, out, claimVars, gToken, gBackoff, runs,
                   inputs, fileVars, upsetVars, writer, epoch, overlap>>

\* mark_global_phase2_job_succeeded.
SucceedGlobal(w) ==
    /\ At(w, "succeed") /\ Goto(w, "over")
    /\ IF OwnsGlobal(w)
       THEN /\ gStatus' = "done" /\ gLease' = FALSE /\ gCooldown' = TRUE
            /\ selected' = [t \in Threads |-> <<t, out[t]>> \in inputs[w]]
            /\ okInputs' = inputs[w] /\ okArt' = art
       ELSE UNCHANGED <<gStatus, gLease, gCooldown, selected, okInputs, okArt>>
    /\ UNCHANGED <<threadVars, jobVars, out, claimVars, gToken, gBackoff, runs,
                   inputs, fileVars, upsetVars, writer, epoch, overlap>>

\* job::failed: mark_global_phase2_job_failed, and if it matches no row
\* mark_global_phase2_job_failed_if_unowned.
FailGlobal(w) ==
    /\ pc[w] \in Active \ {"zombie", "succeed"} /\ Goto(w, "over")
    /\ IF gStatus = "running" /\ gToken \in {w, 0}
       THEN gStatus' = "error" /\ gLease' = FALSE /\ gBackoff' = TRUE
       ELSE UNCHANGED <<gStatus, gLease, gBackoff>>
    /\ UNCHANGED <<quiet, gToken, gCooldown, runs, inputs, fileVars>>

Crash(w) ==
    /\ pc[w] \in Active /\ Goto(w, "over")
    /\ UNCHANGED <<quiet, globalVars, runs, inputs, fileVars>>

GLeaseExpires ==
    /\ gLease /\ gLease' = FALSE
    /\ UNCHANGED <<quiet, gStatus, gToken, gBackoff, gCooldown, runVars, fileVars>>

GWaitEnds ==
    /\ gBackoff \/ gCooldown
    /\ gBackoff' = FALSE /\ gCooldown' = FALSE
    /\ UNCHANGED <<quiet, gStatus, gToken, gLease, runVars, fileVars>>

Stage1 ==
    \/ \E t \in Threads, v \in Versions : ClaimStage1(t, v)
    \/ \E k \in Claims :
           Succeeded(k) \/ SucceededNoOutput(k) \/ Failed(k) \/ ReportsLate(k)
    \/ \E t \in Threads : Touch(t) \/ LeaseExpires(t) \/ BackoffEnds(t)

Upsetting ==
    \/ \E t \in Threads :
           \/ DeleteMemory(t) \/ DeleteThread(t) \/ Prune(t)
           \/ PolluteReads(t) \/ PolluteMarks(t) \/ PolluteEnqueues(t)
    \/ ResetDb \/ ResetFiles

RunStep(w) ==
    \/ Prepare(w) \/ Select(w) \/ Hydrate(w) \/ SyncSome(w) \/ Sync(w)
    \/ Diff(w) \/ AgentWrites(w) \/ AgentCompletes(w) \/ ShutdownTimesOut(w)
    \/ Heartbeat(w) \/ Confirm(w) \/ RemoveGit(w) \/ CommitTree(w)
    \/ WriteIndex(w) \/ SucceedGlobal(w) \/ FailGlobal(w) \/ Crash(w)

Phase2 ==
    \/ ClaimGlobal \/ GLeaseExpires \/ GWaitEnds
    \/ \E w \in Runs : RunStep(w)

Next == Stage1 \/ Upsetting \/ Phase2

Spec == Init /\ [][Next]_vars

-----------------------------------------------------------------------------
(* Properties. *)

\* A thread's memory is the result of its last successful extraction, however
\* late the workers of earlier claims report.
OutputIsLastSuccess == \A t \in Threads : out[t] # 0 => out[t] = success[t]

\* What was deleted is not written back: a memory was extracted under a claim
\* made after the thread's memory was last deleted or reset.
DeletedStaysDeleted == \A t \in Threads : out[t] # 0 => writer[t] > epoch[t]

\* The extractions with a valid lease never exceed max_running_jobs, whatever
\* processes start together.
RunningCap == Cardinality(RunningNow) <= MaxRunning

\* The version up to which a thread has been extracted never goes back, though
\* the claims use versions read earlier.
SuccessAdvances ==
    [][\A t \in Threads : success'[t] < success[t] => status'[t] = "none"]_vars

\* A consolidation is recorded as successful only when the artifacts reflect
\* its inputs, all of them and, but for the summaries that could not be removed,
\* nothing else, even after runs that failed or crashed half-way, as long as no
\* run outlived its lease and no reset came in between.
SuccessMeansConsolidated ==
    ~overlap => /\ okArt \notin {Nothing, Partial} /\ okInputs \subseteq okArt
                /\ okArt \ okInputs \subseteq stuck

\* A row is marked as selected only if the last successful consolidation had
\* a memory of its thread among its inputs.
SelectedIsBaseline ==
    \A t \in Threads : selected[t] => \E x \in okInputs : x[1] = t

=============================================================================
