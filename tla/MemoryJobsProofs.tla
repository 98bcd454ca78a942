-------------------------- MODULE MemoryJobsProofs --------------------------
(***************************************************************************)
(* Proofs about MemoryJobs, for any number of threads, versions, claims,   *)
(* consolidation runs and upsets.                                          *)
(*                                                                         *)
(* Stage 1 rests on Held: the row of a running job says which claim owns   *)
(* it, and that the version this claim extracts is newer than all that was *)
(* extracted before.  Phase 2 rests on Workspace: without overlapping runs *)
(* the git baseline always has artifacts that reflect its own inputs, so a *)
(* diff without changes means that nothing is left to consolidate.         *)
(***************************************************************************)
EXTENDS MemoryJobs, FiniteSetTheorems, TLAPS

\* Claims are numbered as they are made.
Numbered ==
    /\ \A k \in Claims : working[k] => k <= claims /\ claimOf[k] \in Threads
    /\ \A t \in Threads : token[t] <= claims /\ epoch[t] <= claims

\* What the row of a job says about its claim and about earlier ones.
HeldBy(t) ==
    /\ status[t] = "none" => input[t] = 0
    /\ status[t] = "running" =>
          /\ token[t] \in Claims /\ claimOf[token[t]] = t
          /\ claimed[token[t]] = input[t]
          /\ input[t] > out[t] /\ input[t] > success[t]
          /\ retries[t] > 0
          /\ token[t] > epoch[t]
Held == \A t \in Threads : HeldBy(t)

Stage1Inv ==
    /\ Numbered /\ Held
    /\ OutputIsLastSuccess /\ DeletedStaysDeleted /\ RunningCap

\* Runs are numbered as they are claimed.
RunsNumbered == \A w \in Runs : pc[w] # "none" => w <= runs

Alone == \A v, w \in Runs : pc[v] \in Active /\ pc[w] \in Active => v = w

\* The baseline, or the workspace while there is none, is consolidated, and
\* what a run has already done to the workspace.
Workspace ==
    /\ base = NoGit => art = files
    /\ base # NoGit => base[1] = base[2]
    /\ \A w \in Runs :
          /\ pc[w] \in {"select", "hydrate", "sync", "diff", "agent", "confirm",
                        "reset", "zombie"} => base # NoGit
          /\ pc[w] \in {"diff", "agent", "confirm", "reset", "commit", "index", "succeed"}
                => /\ files \in InputSets /\ inputs[w] \subseteq files
                   /\ files \ inputs[w] \subseteq stuck
          /\ pc[w] \in {"confirm", "reset", "commit", "index", "succeed"} => art = files

\* The artifacts of the last success reflect its inputs.
Reflected ==
    okArt \in InputSets /\ okInputs \subseteq okArt /\ okArt \ okInputs \subseteq stuck
Consolidating == ~overlap => Reflected

Phase2Inv ==
    /\ RunsNumbered
    /\ ~overlap => Alone /\ Workspace
    /\ Consolidating /\ SelectedIsBaseline

Inv == TypeOK /\ Stage1Inv /\ Phase2Inv

-----------------------------------------------------------------------------
(* TypeOK, part by part. *)

ThreadT ==
    /\ mode \in [Threads -> {"enabled", "polluted", "gone"}]
    /\ version \in [Threads -> Versions]
    /\ polluting \in [Threads -> {"no", "read", "readSelected", "marked"}]
    /\ deleting \subseteq Threads

JobT ==
    /\ status \in [Threads -> {"none", "running", "done", "error"}]
    /\ token \in [Threads -> 0..MaxClaims]
    /\ lease \in [Threads -> BOOLEAN]
    /\ backoff \in [Threads -> BOOLEAN]
    /\ retries \in [Threads -> 0..RetryLimit]
    /\ input \in [Threads -> Versions \cup {0}]
    /\ success \in [Threads -> Versions \cup {0}]

OutT ==
    /\ out \in [Threads -> Versions \cup {0}]
    /\ selected \in [Threads -> BOOLEAN]

ClaimT ==
    /\ claims \in 0..MaxClaims
    /\ claimOf \in [Claims -> Threads \cup {NoThread}]
    /\ claimed \in [Claims -> Versions]
    /\ working \in [Claims -> BOOLEAN]

GlobalT ==
    /\ gStatus \in {"none", "pending", "running", "done", "error"}
    /\ gToken \in 0..MaxRuns

RunT ==
    /\ runs \in 0..MaxRuns
    /\ pc \in [Runs -> Steps]
    /\ inputs \in [Runs -> InputSets]

FileT ==
    files \in Files /\ art \in Artifacts /\ base \in Baselines /\ stuck \in InputSets
UpsetT == upsets \in 0..MaxUpsets
FlagT ==
    /\ gLease \in BOOLEAN /\ gBackoff \in BOOLEAN /\ gCooldown \in BOOLEAN
    /\ resetting \in BOOLEAN /\ overlap \in BOOLEAN

MarkT ==
    /\ writer \in [Threads -> 0..MaxClaims]
    /\ epoch \in [Threads -> 0..MaxClaims]
OkT == okInputs \in InputSets /\ okArt \in Artifacts

\* TypeOK is the conjunction of its parts.
LEMMA Parts ==
    /\ TypeOK <=> /\ ThreadT /\ JobT /\ OutT /\ ClaimT /\ GlobalT /\ RunT
                  /\ FileT /\ UpsetT /\ MarkT /\ OkT /\ FlagT
    /\ TypeOK' <=> /\ ThreadT' /\ JobT' /\ OutT' /\ ClaimT' /\ GlobalT' /\ RunT'
                   /\ FileT' /\ UpsetT' /\ MarkT' /\ OkT' /\ FlagT'
BY Zenon DEF TypeOK, ThreadT, JobT, OutT, ClaimT, GlobalT, RunT, FileT, UpsetT,
   MarkT, OkT, FlagT

-----------------------------------------------------------------------------
(* What a step that leaves one part of the pipeline alone preserves. *)

\* Stage 1 is not disturbed by a step that leaves its rows and claims alone.
LEMMA Stage1Frame ==
    ASSUME Stage1Inv, UNCHANGED <<jobVars, out, claimVars, writer, epoch>>
    PROVE  Stage1Inv'
BY DEF Stage1Inv, Numbered, Held, HeldBy, OutputIsLastSuccess, DeletedStaysDeleted,
       RunningCap, RunningNow, jobVars, claimVars

\* Phase 2 is not disturbed by a step that leaves its runs and files alone and
\* selects no row.
LEMMA Phase2Frame ==
    ASSUME Phase2Inv, UNCHANGED <<runVars, fileVars, okInputs, okArt, overlap>>,
           \A t \in Threads : selected'[t] => selected[t]
    PROVE  Phase2Inv'
BY DEF Phase2Inv, RunsNumbered, Alone, Workspace, Consolidating,
       Reflected, SelectedIsBaseline, runVars, fileVars

\* Expiring leases and deleted rows never raise the number of running jobs.
LEMMA FewerRunning ==
    ASSUME RunningCap, RunningNow' \subseteq RunningNow
    PROVE  RunningCap'
<1>1. IsFiniteSet(RunningNow)
  BY ThreadsFinite, FS_Subset DEF RunningNow
<1>2. Cardinality(RunningNow') <= Cardinality(RunningNow)
  BY <1>1, FS_Subset
<1>3. Cardinality(RunningNow) \in Nat /\ Cardinality(RunningNow') \in Nat
  BY <1>1, FS_Subset, FS_CardinalityType
<1> QED
  BY <1>2, <1>3, BoundsAssumption DEF RunningCap

\* The initial state.
LEMMA InitInv == Init => Inv
<1> SUFFICES ASSUME Init PROVE Inv
  OBVIOUS
<1>1. TypeOK
  <2>1. ThreadT /\ JobT /\ OutT
    BY BoundsAssumption DEF Init, ThreadT, JobT, OutT, Versions
  <2> DEFINE none == {}
  <2>0. none \in InputSets
    BY DEF InputSets
  <2>2. ClaimT /\ GlobalT /\ UpsetT
    BY BoundsAssumption DEF Init, ClaimT, GlobalT, UpsetT, Versions
  <2>4. FlagT
    BY Zenon DEF Init, FlagT
  <2>3. RunT /\ FileT /\ MarkT /\ OkT
    <3>1. /\ runs = 0 /\ pc = [w \in Runs |-> "none"] /\ inputs = [w \in Runs |-> none]
          /\ files = Nothing /\ art = Nothing /\ base = NoGit /\ stuck = none
          /\ okInputs = none /\ okArt = none
          /\ writer = [t \in Threads |-> 0] /\ epoch = [t \in Threads |-> 0]
      BY DEF Init
    <3> HIDE DEF none
    <3> QED
      BY <2>0, <3>1, BoundsAssumption DEF RunT, FileT, MarkT, OkT, Steps, Files,
         Artifacts, Baselines
  <2> QED
    BY <2>1, <2>2, <2>3, <2>4, Parts
<1>2. RunningCap
  <2>1. RunningNow = {}
    BY DEF Init, RunningNow
  <2> QED
    BY <2>1, FS_EmptySet, BoundsAssumption DEF RunningCap
<1>3. Stage1Inv
  BY <1>2, BoundsAssumption DEF Init, Stage1Inv, Numbered, Held, HeldBy,
     OutputIsLastSuccess, DeletedStaysDeleted, Claims
<1>4. Phase2Inv
  <2>1. Consolidating
    BY <1>1, Parts DEF Init, Consolidating, Reflected, OkT, InputSets
  <2>2. RunsNumbered /\ Alone /\ Workspace /\ SelectedIsBaseline
    BY DEF Init, RunsNumbered, Alone, Workspace, Active, SelectedIsBaseline
  <2> QED
    BY <2>1, <2>2 DEF Phase2Inv
<1> QED
  BY <1>1, <1>3, <1>4 DEF Inv

-----------------------------------------------------------------------------
(* The types that a step leaves alone. *)

\* Each part of TypeOK is kept by a step that changes none of its variables.
LEMMA KeptTypes ==
    ASSUME TypeOK
    PROVE  /\ UNCHANGED threadVars => ThreadT'
           /\ UNCHANGED jobVars => JobT'
           /\ UNCHANGED outVars => OutT'
           /\ UNCHANGED claimVars => ClaimT'
           /\ UNCHANGED <<gStatus, gToken>> => GlobalT'
           /\ UNCHANGED runVars => RunT'
           /\ UNCHANGED fileVars => FileT'
           /\ UNCHANGED upsets => UpsetT'
           /\ UNCHANGED <<writer, epoch>> => MarkT'
           /\ UNCHANGED <<okInputs, okArt>> => OkT'
           /\ UNCHANGED <<gLease, gBackoff, gCooldown, resetting, overlap>> => FlagT'
<1>1. ThreadT /\ JobT /\ OutT /\ ClaimT /\ GlobalT /\ RunT /\ FileT /\ UpsetT /\ MarkT
      /\ OkT /\ FlagT
  BY Parts
<1>2. UNCHANGED threadVars => ThreadT'
  BY <1>1 DEF ThreadT, threadVars
<1>3. UNCHANGED jobVars => JobT'
  BY <1>1 DEF JobT, jobVars
<1>4. (UNCHANGED outVars => OutT') /\ (UNCHANGED claimVars => ClaimT')
  BY <1>1 DEF OutT, outVars, ClaimT, claimVars
<1>5. (UNCHANGED <<gStatus, gToken>> => GlobalT') /\ (UNCHANGED runVars => RunT')
  BY <1>1 DEF GlobalT, RunT, runVars
<1>6. (UNCHANGED fileVars => FileT') /\ (UNCHANGED upsets => UpsetT')
  BY <1>1 DEF FileT, fileVars, UpsetT
<1>7. (UNCHANGED <<writer, epoch>> => MarkT') /\ (UNCHANGED <<okInputs, okArt>> => OkT')
  BY <1>1 DEF MarkT, OkT
<1>8. UNCHANGED <<gLease, gBackoff, gCooldown, resetting, overlap>> => FlagT'
  <2> SUFFICES ASSUME gLease' = gLease, gBackoff' = gBackoff, gCooldown' = gCooldown,
                      resetting' = resetting, overlap' = overlap
               PROVE  FlagT'
    BY Zenon
  <2> QED
    BY <1>1, Zenon DEF FlagT
<1> QED
  BY <1>2, <1>3, <1>4, <1>5, <1>6, <1>7, <1>8, Zenon

\* EnqueueGlobal keeps the types of the global job's row.
LEMMA EnqueueTypes ==
    ASSUME TypeOK, EnqueueGlobal, UNCHANGED <<resetting, overlap>>
    PROVE  GlobalT' /\ FlagT'
<1>1. GlobalT /\ FlagT
  BY Parts
<1>2. GlobalT'
  BY <1>1 DEF GlobalT, EnqueueGlobal
<1>3. /\ gLease' = gLease /\ gCooldown' = gCooldown
      /\ resetting' = resetting /\ overlap' = overlap
      /\ gBackoff' = (gStatus = "running" /\ gBackoff)
  BY Zenon DEF EnqueueGlobal
<1>4. FlagT'
  BY <1>1, <1>3, Zenon DEF FlagT
<1> QED
  BY <1>2, <1>4

-----------------------------------------------------------------------------
(* Stage 1, action by action. *)

\* A claim is recorded in the row it is made on, for a version that is newer
\* than the output and the last success.
LEMMA ClaimStage1Inv ==
    ASSUME Inv, NEW t \in Threads, NEW v \in Versions, ClaimStage1(t, v)
    PROVE  Inv'
<1>1. TypeOK /\ JobT /\ ClaimT /\ OutT /\ MarkT /\ Stage1Inv
  BY Parts DEF Inv
<1>2. /\ UNCHANGED <<threadVars, outVars, gStatus, gToken, runVars, fileVars, upsets,
                     writer, epoch, okInputs, okArt>>
      /\ UNCHANGED <<gLease, gBackoff, gCooldown, resetting, overlap>>
  BY Zenon DEF ClaimStage1, phase2Vars, globalVars, upsetVars, histVars
<1> DEFINE k == claims + 1
<1>3. k \in Claims /\ k \in 1..MaxClaims /\ claims \in Nat /\ v > 0
  BY <1>1, BoundsAssumption DEF ClaimStage1, ClaimT, Claims, Versions
<1>4. JobT' /\ ClaimT'
  BY <1>1, <1>3, BoundsAssumption DEF ClaimStage1, JobT, ClaimT
<1>5. TypeOK'
  BY <1>1, <1>2, <1>4, KeptTypes, Parts
<1>6. Numbered'
  BY <1>1, <1>2, <1>3 DEF ClaimStage1, JobT, ClaimT, MarkT, Stage1Inv, Numbered, Claims
<1>7. Held'
  <2> SUFFICES ASSUME NEW u \in Threads PROVE HeldBy(u)'
    BY DEF Held
  <2>1. HeldBy(u) /\ Numbered
    BY <1>1 DEF Stage1Inv, Held
  <2>2. CASE u = t
    <3>1. retries'[t] > 0
      BY <1>1, <1>3, <2>1, <2>2, BoundsAssumption
         DEF ClaimStage1, JobT, HeldBy, Claimable
    <3>2. token'[t] = k /\ claimOf'[k] = t /\ claimed'[k] = v /\ input'[t] = v
      BY <1>1, <1>3 DEF ClaimStage1, JobT, ClaimT
    <3> QED
      BY <1>1, <1>2, <1>3, <2>1, <2>2, <3>1, <3>2
         DEF ClaimStage1, NeedsUpdate, HeldBy, Numbered, outVars, JobT, MarkT, Claims
  <2>3. CASE u # t
    <3>1. status[u] = "running" => token[u] # k
      BY <1>1, <1>3, <2>1 DEF Numbered, JobT
    <3> QED
      BY <1>1, <1>2, <1>3, <2>1, <2>3, <3>1
         DEF ClaimStage1, HeldBy, outVars, JobT, ClaimT, Claims
  <2> QED
    BY <2>2, <2>3
<1>8. OutputIsLastSuccess' /\ DeletedStaysDeleted'
  BY <1>1, <1>2 DEF ClaimStage1, Stage1Inv, OutputIsLastSuccess, DeletedStaysDeleted,
     outVars
<1>9. RunningCap'
  <2> DEFINE others == RunningNow \ {t}
  <2>1. RunningNow' = others \cup {t}
    BY <1>1 DEF ClaimStage1, JobT, RunningNow
  <2>2. IsFiniteSet(RunningNow) /\ IsFiniteSet(others)
    BY ThreadsFinite, FS_Subset DEF RunningNow
  <2>3. Cardinality(others) < MaxRunning
    <3>1. CASE status[t] = "none"
      <4>1. others = RunningNow
        BY <3>1 DEF RunningNow
      <4> QED
        BY <3>1, <4>1 DEF ClaimStage1, Claimable
    <3> QED
      BY <3>1 DEF ClaimStage1, Claimable
  <2>4. Cardinality(others \cup {t}) = Cardinality(others) + 1
    BY <2>2, FS_AddElement
  <2> HIDE DEF others
  <2> QED
    BY <2>1, <2>2, <2>3, <2>4, FS_CardinalityType, BoundsAssumption DEF RunningCap
<1>10. Phase2Inv'
  BY <1>1, <1>2, Phase2Frame DEF Inv, outVars
<1> QED
  BY <1>5, <1>6, <1>7, <1>8, <1>9, <1>10 DEF Inv, Stage1Inv


\* A worker that still owns its job extracts the version in the job's row.
LEMMA OwnerFacts ==
    ASSUME Inv, NEW k \in Claims, Reports(k), Owns(k)
    PROVE  LET t == claimOf[k] IN
           /\ t \in Threads /\ status[t] = "running" /\ token[t] = k
           /\ claimed[k] = input[t] /\ input[t] > out[t] /\ input[t] > success[t]
           /\ retries[t] > 0 /\ k > epoch[t]
BY DEF Inv, Stage1Inv, Numbered, Held, HeldBy, Reports, Owns

\* The types of the claims when a worker reports.
LEMMA ReportTypes ==
    ASSUME TypeOK, NEW k \in Claims, Reports(k)
    PROVE  ClaimT'
BY Parts DEF Reports, ClaimT

\* A row that is no longer running, with the rest of its job unchanged, gives
\* nothing up that stage 1 rests on.
LEMMA StoppedFrame ==
    ASSUME Inv, JobT', NEW k \in Claims, Reports(k), Owns(k),
           NEW s \in {"done", "error"},
           status' = [status EXCEPT ![claimOf[k]] = s],
           lease' = [lease EXCEPT ![claimOf[k]] = FALSE],
           UNCHANGED <<token, input, epoch>>,
           \A u \in Threads \ {claimOf[k]} :
               /\ out'[u] = out[u] /\ success'[u] = success[u]
               /\ retries'[u] = retries[u]
    PROVE  Numbered' /\ Held' /\ RunningCap'
<1>1. JobT /\ ClaimT /\ Numbered /\ Held /\ RunningCap
  BY Parts DEF Inv, Stage1Inv
<1>2. claimOf[k] \in Threads
  BY OwnerFacts
<1>3. Numbered'
  BY <1>1 DEF Numbered, Reports, ClaimT
<1>4. Held'
  BY <1>1, <1>2 DEF Held, HeldBy, Reports, JobT
<1>5. RunningNow' \subseteq RunningNow
  BY <1>1, <1>2 DEF RunningNow, JobT
<1> QED
  BY <1>1, <1>3, <1>4, <1>5, FewerRunning

\* A success that is reported under the token of the row.
LEMMA SucceededInv ==
    ASSUME Inv, NEW k \in Claims, Succeeded(k)
    PROVE  Inv'
<1> DEFINE t == claimOf[k]
<1>1. TypeOK /\ JobT /\ OutT /\ MarkT /\ ClaimT /\ Stage1Inv
  BY Parts DEF Inv
<1>2. /\ UNCHANGED <<threadVars, runVars, fileVars, upsets, okInputs, okArt>>
      /\ UNCHANGED <<resetting, overlap>> /\ UNCHANGED selected /\ UNCHANGED epoch
      /\ EnqueueGlobal /\ Reports(k) /\ Owns(k) /\ JobDone(t)
  BY Zenon DEF Succeeded, upsetVars
<1>3. /\ t \in Threads /\ claimed[k] = input[t] /\ input[t] > out[t] /\ k > epoch[t]
  BY <1>2, OwnerFacts
<1>4. JobT'
  BY <1>1, <1>2, <1>3 DEF JobDone, JobT
<1>5. OutT' /\ MarkT'
  BY <1>1, <1>2, <1>3 DEF Succeeded, OutT, MarkT, ClaimT, Claims
<1>6. TypeOK'
  BY <1>1, <1>2, <1>4, <1>5, ReportTypes, EnqueueTypes, KeptTypes, Parts
<1>7. /\ out' = [out EXCEPT ![t] = input[t]] /\ success' = [success EXCEPT ![t] = input[t]]
      /\ writer' = [writer EXCEPT ![t] = k]
  <2>1. input[t] \in Nat /\ out[t] \in Nat
    BY <1>1, <1>3, BoundsAssumption DEF OutT, JobT, Versions
  <2>2. claimed[k] >= out[t]
    BY <1>3, <2>1
  <2> QED
    BY <1>1, <1>2, <1>3, <2>2 DEF Succeeded, JobDone
<1>8. Numbered' /\ Held' /\ RunningCap'
  <2>1. /\ status' = [status EXCEPT ![t] = "done"] /\ lease' = [lease EXCEPT ![t] = FALSE]
        /\ UNCHANGED <<token, input, retries>>
        /\ \A u \in Threads \ {t} : out'[u] = out[u] /\ success'[u] = success[u]
    BY <1>1, <1>2, <1>3, <1>7 DEF JobDone, OutT, JobT
  <2> QED
    BY <1>2, <1>4, <2>1, StoppedFrame
<1>9. OutputIsLastSuccess' /\ DeletedStaysDeleted'
  BY <1>1, <1>2, <1>3, <1>7 DEF Stage1Inv, OutputIsLastSuccess, DeletedStaysDeleted,
     OutT, JobT, MarkT
<1>10. Phase2Inv'
  BY <1>2, Phase2Frame DEF Inv
<1> QED
  BY <1>6, <1>8, <1>9, <1>10 DEF Inv, Stage1Inv

\* A success without output removes the row.
LEMMA SucceededNoOutputInv ==
    ASSUME Inv, NEW k \in Claims, SucceededNoOutput(k)
    PROVE  Inv'
<1> DEFINE t == claimOf[k]
<1>1. TypeOK /\ JobT /\ OutT /\ MarkT /\ ClaimT /\ Stage1Inv
  BY Parts DEF Inv
<1>2. /\ UNCHANGED <<threadVars, runVars, fileVars, upsets, okInputs, okArt>>
      /\ UNCHANGED <<resetting, overlap>> /\ UNCHANGED <<writer, epoch>>
      /\ Reports(k) /\ Owns(k) /\ JobDone(t)
      /\ EnqueueGlobal \/ UNCHANGED globalVars
  BY Zenon DEF SucceededNoOutput, upsetVars, histVars
<1>3. t \in Threads
  BY <1>2, OwnerFacts
<1>4. JobT'
  BY <1>1, <1>2, <1>3 DEF JobDone, JobT
<1>5. OutT'
  BY <1>1, <1>3 DEF SucceededNoOutput, OutT
<1>6. GlobalT' /\ FlagT'
  <2>1. CASE EnqueueGlobal
    BY <1>1, <1>2, <2>1, EnqueueTypes
  <2>2. CASE UNCHANGED globalVars
    <3>1. /\ UNCHANGED <<gStatus, gToken>>
          /\ UNCHANGED <<gLease, gBackoff, gCooldown, resetting, overlap>>
      BY <1>2, <2>2, Zenon DEF globalVars
    <3> QED
      BY <1>1, <3>1, KeptTypes
  <2> QED
    BY <1>2, <2>1, <2>2
<1>7. TypeOK'
  BY <1>1, <1>2, <1>4, <1>5, <1>6, ReportTypes, KeptTypes, Parts
<1>8. Numbered' /\ Held' /\ RunningCap'
  <2>1. /\ status' = [status EXCEPT ![t] = "done"] /\ lease' = [lease EXCEPT ![t] = FALSE]
        /\ UNCHANGED <<token, input, retries>>
        /\ \A u \in Threads \ {t} : out'[u] = out[u] /\ success'[u] = success[u]
    BY <1>1, <1>2, <1>3 DEF SucceededNoOutput, JobDone, OutT, JobT
  <2> QED
    BY <1>2, <1>4, <2>1, StoppedFrame
<1>9. OutputIsLastSuccess' /\ DeletedStaysDeleted'
  BY <1>1, <1>2, <1>3 DEF SucceededNoOutput, JobDone, Stage1Inv, OutputIsLastSuccess,
     DeletedStaysDeleted, OutT, JobT
<1>10. Phase2Inv'
  <2>1. \A u \in Threads : selected'[u] => selected[u]
    BY <1>1, <1>3 DEF SucceededNoOutput, OutT
  <2> QED
    BY <1>2, <2>1, Phase2Frame DEF Inv
<1> QED
  BY <1>7, <1>8, <1>9, <1>10 DEF Inv, Stage1Inv

\* A failure uses up one retry and never the output.
LEMMA FailedInv ==
    ASSUME Inv, NEW k \in Claims, Failed(k)
    PROVE  Inv'
<1> DEFINE t == claimOf[k]
<1>1. TypeOK /\ JobT /\ OutT /\ ClaimT /\ Stage1Inv
  BY Parts DEF Inv
<1>2. /\ UNCHANGED <<threadVars, outVars, gStatus, gToken, runVars, fileVars, upsets,
                     writer, epoch, okInputs, okArt>>
      /\ UNCHANGED <<gLease, gBackoff, gCooldown, resetting, overlap>>
      /\ Reports(k) /\ Owns(k)
  BY Zenon DEF Failed, upsetVars, histVars, phase2Vars, globalVars
<1>3. t \in Threads /\ retries[t] > 0
  BY <1>2, OwnerFacts
<1>4. JobT'
  BY <1>1, <1>3, BoundsAssumption DEF Failed, JobT
<1>5. TypeOK'
  BY <1>1, <1>2, <1>4, ReportTypes, KeptTypes, Parts
<1>6. Numbered' /\ Held' /\ RunningCap'
  <2>1. /\ status' = [status EXCEPT ![t] = "error"] /\ lease' = [lease EXCEPT ![t] = FALSE]
        /\ UNCHANGED <<token, input, success, out>>
        /\ \A u \in Threads \ {t} : retries'[u] = retries[u]
    BY <1>1, <1>2, <1>3 DEF Failed, JobT, outVars
  <2> QED
    BY <1>2, <1>4, <2>1, StoppedFrame
<1>7. OutputIsLastSuccess' /\ DeletedStaysDeleted'
  BY <1>1, <1>2 DEF Failed, Stage1Inv, OutputIsLastSuccess, DeletedStaysDeleted, outVars
<1>8. Phase2Inv'
  BY <1>2, Phase2Frame DEF Inv, outVars
<1> QED
  BY <1>5, <1>6, <1>7, <1>8 DEF Inv, Stage1Inv


\* A late report, a thread used again, and the end of a lease or of a delay.
LEMMA QuietStage1Inv ==
    ASSUME Inv,
           \/ \E k \in Claims : ReportsLate(k)
           \/ \E t \in Threads : Touch(t) \/ LeaseExpires(t) \/ BackoffEnds(t)
    PROVE  Inv'
<1>1. TypeOK /\ ThreadT /\ JobT /\ ClaimT /\ Stage1Inv
  BY Parts DEF Inv
<1>2. /\ UNCHANGED <<outVars, gStatus, gToken, runVars, fileVars, upsets, writer, epoch,
                     okInputs, okArt>>
      /\ UNCHANGED <<gLease, gBackoff, gCooldown, resetting, overlap>>
  BY Zenon DEF ReportsLate, Touch, LeaseExpires, BackoffEnds, upsetVars, histVars,
     phase2Vars, globalVars
<1>3. Phase2Inv'
  BY <1>2, Phase2Frame DEF Inv, outVars
<1>4. CASE \E k \in Claims : ReportsLate(k)
  <2> PICK k \in Claims : ReportsLate(k)
    BY <1>4
  <2>1. Reports(k) /\ UNCHANGED <<threadVars, jobVars>>
    BY Zenon DEF ReportsLate
  <2>2. TypeOK'
    BY <1>1, <1>2, <2>1, ReportTypes, KeptTypes, Parts
  <2>3. Stage1Inv'
    BY <1>1, <1>2, <2>1 DEF Stage1Inv, Numbered, Held, HeldBy, OutputIsLastSuccess,
       DeletedStaysDeleted, RunningCap, RunningNow, Reports, jobVars, outVars, ClaimT
  <2> QED
    BY <1>3, <2>2, <2>3 DEF Inv
<1>5. ASSUME NEW t \in Threads, Touch(t) PROVE Inv'
  <2>1. UNCHANGED <<jobVars, claimVars>>
    BY <1>5, Zenon DEF Touch
  <2>2. ThreadT'
    BY <1>1, <1>5, BoundsAssumption DEF Touch, ThreadT, Versions
  <2>3. TypeOK'
    BY <1>1, <1>2, <2>1, <2>2, KeptTypes, Parts
  <2>4. Stage1Inv'
    BY <1>1, <1>2, <2>1, Stage1Frame DEF outVars
  <2> QED
    BY <1>3, <2>3, <2>4 DEF Inv
<1>6. ASSUME NEW t \in Threads, LeaseExpires(t) \/ BackoffEnds(t) PROVE Inv'
  <2>1. UNCHANGED <<threadVars, status, token, retries, input, success, claimVars>>
    BY <1>6, Zenon DEF LeaseExpires, BackoffEnds
  <2>2. JobT' /\ RunningNow' \subseteq RunningNow
    BY <1>1, <1>6 DEF LeaseExpires, BackoffEnds, JobT, RunningNow
  <2>3. TypeOK'
    BY <1>1, <1>2, <2>1, <2>2, KeptTypes, Parts
  <2>4. RunningCap'
    BY <1>1, <2>2, FewerRunning DEF Stage1Inv
  <2>5. Numbered' /\ Held' /\ OutputIsLastSuccess' /\ DeletedStaysDeleted'
    BY <1>1, <1>2, <2>1 DEF Stage1Inv, Numbered, Held, HeldBy, OutputIsLastSuccess,
       DeletedStaysDeleted, outVars, claimVars
  <2> QED
    BY <1>3, <2>3, <2>4, <2>5 DEF Inv, Stage1Inv
<1> QED
  BY <1>4, <1>5, <1>6

-----------------------------------------------------------------------------
(* Deleting, polluting, pruning and resetting. *)

\* Upset counts up to its bound.
LEMMA UpsetTypes ==
    ASSUME TypeOK, Upset
    PROVE  UpsetT'
<1>1. upsets \in 0..MaxUpsets /\ upsets < MaxUpsets /\ upsets' = upsets + 1
  BY Parts DEF Upset, UpsetT
<1> QED
  BY <1>1, BoundsAssumption DEF UpsetT

\* Dropping the jobs and outputs of the threads in T, which moves their epoch
\* to the present, leaves nothing that an earlier claim could still own.
LEMMA DropInv ==
    ASSUME TypeOK, Stage1Inv, NEW T \in SUBSET Threads,
           DropJobs(T), DropOutputs(T), UNCHANGED <<claimVars, writer>>,
           epoch' = [t \in Threads |-> IF t \in T THEN claims ELSE epoch[t]]
    PROVE  JobT' /\ OutT' /\ MarkT' /\ Stage1Inv'
<1>1. JobT /\ OutT /\ ClaimT /\ MarkT
  BY Parts
<1>2. JobT' /\ OutT'
  BY <1>1, BoundsAssumption DEF DropJobs, DropOutputs, JobT, OutT
<1>3. MarkT'
  BY <1>1 DEF MarkT, ClaimT
<1>4. RunningNow' \subseteq RunningNow
  BY <1>1 DEF RunningNow, DropJobs, JobT
<1>5. Numbered'
  BY <1>1, BoundsAssumption DEF Stage1Inv, Numbered, DropJobs, claimVars, ClaimT
<1>6. Held'
  BY <1>1 DEF Stage1Inv, Held, HeldBy, DropJobs, DropOutputs, claimVars
<1>7. OutputIsLastSuccess' /\ DeletedStaysDeleted'
  BY <1>1 DEF Stage1Inv, OutputIsLastSuccess, DeletedStaysDeleted, DropJobs, DropOutputs
<1> QED
  BY <1>2, <1>3, <1>4, <1>5, <1>6, <1>7, FewerRunning DEF Stage1Inv

\* Deleting a thread's memory.
LEMMA DeleteMemoryInv ==
    ASSUME Inv, NEW t \in Threads, DeleteMemory(t)
    PROVE  Inv'
<1>1. TypeOK /\ ThreadT /\ OutT /\ MarkT /\ Stage1Inv
  BY Parts DEF Inv
<1>2. /\ UNCHANGED <<claimVars, runVars, fileVars, okInputs, okArt>>
      /\ UNCHANGED <<resetting, overlap>> /\ UNCHANGED writer
      /\ DropJobs({t}) /\ DropOutputs({t}) /\ Upset
      /\ EnqueueGlobal \/ UNCHANGED globalVars
  BY Zenon DEF DeleteMemory
<1>3. epoch' = [u \in Threads |-> IF u \in {t} THEN claims ELSE epoch[u]]
  BY <1>1 DEF DeleteMemory, MarkT
<1>4. JobT' /\ OutT' /\ MarkT' /\ Stage1Inv'
  BY <1>1, <1>2, <1>3, DropInv
<1>5. ThreadT'
  BY <1>1 DEF DeleteMemory, ThreadT
<1>6. GlobalT' /\ FlagT'
  <2>1. CASE EnqueueGlobal
    BY <1>1, <1>2, <2>1, EnqueueTypes
  <2>2. CASE UNCHANGED globalVars
    <3>1. /\ UNCHANGED <<gStatus, gToken>>
          /\ UNCHANGED <<gLease, gBackoff, gCooldown, resetting, overlap>>
      BY <1>2, <2>2, Zenon DEF globalVars
    <3> QED
      BY <1>1, <3>1, KeptTypes
  <2> QED
    BY <1>2, <2>1, <2>2
<1>7. TypeOK'
  BY <1>1, <1>2, <1>4, <1>5, <1>6, UpsetTypes, KeptTypes, Parts
<1>8. Phase2Inv'
  <2>1. \A u \in Threads : selected'[u] => selected[u]
    BY <1>1, <1>2 DEF DropOutputs, OutT
  <2> QED
    BY <1>2, <2>1, Phase2Frame DEF Inv
<1> QED
  BY <1>4, <1>7, <1>8 DEF Inv


\* The thread's row goes, or is polluted: no memory changes.
LEMMA PolluteInv ==
    ASSUME Inv, NEW t \in Threads,
           DeleteThread(t) \/ PolluteReads(t) \/ PolluteMarks(t) \/ PolluteEnqueues(t)
    PROVE  Inv'
<1>1. TypeOK /\ ThreadT /\ Stage1Inv /\ Phase2Inv
  BY Parts DEF Inv
<1>2. /\ UNCHANGED <<jobVars, outVars, claimVars, runVars, fileVars>>
      /\ UNCHANGED <<writer, epoch, okInputs, okArt, overlap, resetting>>
  BY Zenon DEF DeleteThread, PolluteReads, PolluteMarks, PolluteEnqueues, upsetVars,
     phase2Vars, histVars
<1>3. ThreadT'
  BY <1>1 DEF DeleteThread, PolluteReads, PolluteMarks, PolluteEnqueues, ThreadT
<1>4. UpsetT'
  <2>1. Upset \/ UNCHANGED upsets
    BY Zenon DEF DeleteThread, PolluteReads, PolluteMarks, PolluteEnqueues, upsetVars
  <2> QED
    BY <1>1, <2>1, UpsetTypes, KeptTypes
<1>5. GlobalT' /\ FlagT'
  <2>1. EnqueueGlobal \/ UNCHANGED globalVars
    BY Zenon DEF DeleteThread, PolluteReads, PolluteMarks, PolluteEnqueues, phase2Vars
  <2>2. CASE EnqueueGlobal
    BY <1>1, <1>2, <2>2, EnqueueTypes
  <2>3. CASE UNCHANGED globalVars
    <3>1. /\ UNCHANGED <<gStatus, gToken>>
          /\ UNCHANGED <<gLease, gBackoff, gCooldown, resetting, overlap>>
      BY <1>2, <2>3, Zenon DEF globalVars
    <3> QED
      BY <1>1, <3>1, KeptTypes
  <2> QED
    BY <2>1, <2>2, <2>3
<1>6. TypeOK'
  BY <1>1, <1>2, <1>3, <1>4, <1>5, KeptTypes, Parts
<1>7. Stage1Inv' /\ Phase2Inv'
  BY <1>1, <1>2, Stage1Frame, Phase2Frame DEF outVars
<1> QED
  BY <1>6, <1>7 DEF Inv

\* Pruning drops outputs and nothing else.
LEMMA PruneInv ==
    ASSUME Inv, NEW t \in Threads, Prune(t)
    PROVE  Inv'
<1>1. TypeOK /\ JobT /\ OutT /\ Stage1Inv /\ Phase2Inv
  BY Parts DEF Inv
<1>2. /\ UNCHANGED <<threadVars, jobVars, claimVars, gStatus, gToken, runVars, fileVars,
                     writer, epoch, okInputs, okArt>>
      /\ UNCHANGED <<gLease, gBackoff, gCooldown, resetting, overlap>>
      /\ DropOutputs({t}) /\ Upset
  BY Zenon DEF Prune, upsetVars, phase2Vars, histVars, globalVars
<1>3. OutT'
  BY <1>1, <1>2 DEF DropOutputs, OutT
<1>4. TypeOK'
  BY <1>1, <1>2, <1>3, UpsetTypes, KeptTypes, Parts
<1>5. Stage1Inv'
  <2>1. \A u \in Threads : out'[u] = 0 \/ out'[u] = out[u]
    BY <1>2 DEF DropOutputs
  <2>2. \A u \in Threads : out[u] \in Nat /\ input[u] \in Nat
    BY <1>1, BoundsAssumption DEF OutT, JobT, Versions
  <2>3. Held'
    BY <1>1, <1>2, <2>1, <2>2 DEF Stage1Inv, Held, HeldBy, jobVars, claimVars
  <2>4. Numbered' /\ OutputIsLastSuccess' /\ DeletedStaysDeleted' /\ RunningCap'
    BY <1>1, <1>2, <2>1 DEF Stage1Inv, Numbered, OutputIsLastSuccess,
       DeletedStaysDeleted, RunningCap, RunningNow, jobVars, claimVars
  <2> QED
    BY <2>3, <2>4 DEF Stage1Inv
<1>6. Phase2Inv'
  <2>1. \A u \in Threads : selected'[u] => selected[u]
    BY <1>1, <1>2 DEF DropOutputs, OutT
  <2> QED
    BY <1>1, <1>2, <2>1, Phase2Frame
<1> QED
  BY <1>4, <1>5, <1>6 DEF Inv

\* A reset drops all rows, the global job included, ...
LEMMA ResetDbInv ==
    ASSUME Inv, ResetDb
    PROVE  Inv'
<1>1. TypeOK /\ OutT /\ MarkT /\ Stage1Inv /\ Phase2Inv /\ FlagT
  BY Parts DEF Inv
<1>2. /\ UNCHANGED <<threadVars, claimVars, runVars, fileVars, okInputs, okArt>>
      /\ UNCHANGED writer
      /\ DropJobs(Threads) /\ DropOutputs(Threads) /\ Upset
      /\ resetting' = TRUE /\ gLease' = FALSE /\ gBackoff' = FALSE /\ gCooldown' = FALSE
      /\ overlap' = (overlap \/ SomeActive)
      /\ gStatus' = "none" /\ gToken' = 0
  BY Zenon DEF ResetDb
<1>3. JobT' /\ OutT' /\ MarkT' /\ Stage1Inv'
  <2>1. epoch' = [u \in Threads |-> IF u \in Threads THEN claims ELSE epoch[u]]
    BY DEF ResetDb
  <2> QED
    BY <1>1, <1>2, <2>1, DropInv
<1>4. FlagT'
  BY <1>1, <1>2, Zenon DEF FlagT
<1>5. GlobalT'
  BY <1>2, BoundsAssumption DEF GlobalT
<1>6. TypeOK'
  BY <1>1, <1>2, <1>3, <1>4, <1>5, UpsetTypes, KeptTypes, Parts
<1>7. Phase2Inv'
  <2>1. ~overlap' => ~overlap
    BY <1>2, Zenon
  <2>2. \A u \in Threads : ~selected'[u]
    BY <1>2 DEF DropOutputs
  <2>3. RunsNumbered' /\ (~overlap => Alone' /\ Workspace')
    BY <1>1, <1>2 DEF Phase2Inv, RunsNumbered, Alone, Workspace, runVars, fileVars
  <2>4. (~overlap' => Reflected') /\ SelectedIsBaseline'
    BY <1>1, <1>2, <2>1, <2>2 DEF Phase2Inv, Consolidating, Reflected,
       SelectedIsBaseline, fileVars
  <2> QED
    BY <2>1, <2>3, <2>4, Zenon DEF Phase2Inv, Consolidating, Reflected
<1> QED
  BY <1>3, <1>6, <1>7 DEF Inv

\* ... and then empties the workspace.
LEMMA ResetFilesInv ==
    ASSUME Inv, ResetFiles
    PROVE  Inv'
<1>1. TypeOK /\ Stage1Inv /\ Phase2Inv /\ FlagT
  BY Parts DEF Inv
<1>2. /\ UNCHANGED <<threadVars, jobVars, outVars, claimVars, gStatus, gToken, runVars,
                     upsets, okInputs, okArt>>
      /\ UNCHANGED <<writer, epoch>>
      /\ resetting' = FALSE /\ UNCHANGED <<gLease, gBackoff, gCooldown>>
      /\ overlap' = (overlap \/ SomeActive)
      /\ files' = Nothing /\ art' = Nothing /\ base' = NoGit /\ stuck' = stuck
  BY Zenon DEF ResetFiles, stage1Vars, globalVars
<1>3. FlagT'
  <2>1. gLease' = gLease /\ gBackoff' = gBackoff /\ gCooldown' = gCooldown
    BY <1>2, Zenon
  <2> QED
    BY <1>1, <1>2, <2>1, Zenon DEF FlagT
<1>4. FileT'
  BY <1>1, <1>2, Parts DEF FileT, Files, Artifacts, Baselines
<1>5. TypeOK'
  BY <1>1, <1>2, <1>3, <1>4, KeptTypes, Parts
<1>6. Phase2Inv'
  <2>1. ~overlap' => ~overlap /\ ~SomeActive
    BY <1>2, Zenon
  <2>2. RunsNumbered' /\ (~overlap /\ ~SomeActive => Alone' /\ Workspace')
    BY <1>1, <1>2 DEF Phase2Inv, RunsNumbered, Alone, Workspace, runVars, SomeActive,
       Active, Steps
  <2>3. (~overlap' => Reflected') /\ SelectedIsBaseline'
    BY <1>1, <1>2, <2>1 DEF Phase2Inv, Consolidating, Reflected, SelectedIsBaseline,
       outVars
  <2> QED
    BY <2>1, <2>2, <2>3, Zenon DEF Phase2Inv, Consolidating, Reflected
<1> QED
  BY <1>1, <1>2, <1>5, <1>6, Stage1Frame DEF Inv, outVars


-----------------------------------------------------------------------------
(* Phase 2, action by action. *)

\* What is left to show for a step of a run: the types it changes and, when it
\* runs alone, the state of the workspace after it.
LEMMA RunFrame ==
    ASSUME Inv, NEW w \in Runs, pc[w] \in Active, UNCHANGED quiet,
           UNCHANGED runs, RunT', GlobalT', FileT', FlagT', stuck \subseteq stuck',
           \A v \in Runs : v # w => pc'[v] = pc[v] /\ inputs'[v] = inputs[v],
           /\ ~overlap /\ Workspace
           /\ \A v \in Runs : v # w => pc[v] \notin Active
           => Workspace'
    PROVE  Inv'
<1>1. TypeOK /\ Stage1Inv /\ Phase2Inv /\ RunT
  BY Parts DEF Inv
<1>2. /\ UNCHANGED <<threadVars, jobVars, outVars, claimVars, upsets, okInputs, okArt>>
      /\ UNCHANGED <<writer, epoch>> /\ UNCHANGED overlap
  BY Zenon DEF quiet, stage1Vars, upsetVars, histVars
<1>3. TypeOK'
  BY <1>1, <1>2, KeptTypes, Parts
<1>4. Stage1Inv'
  BY <1>1, <1>2, Stage1Frame DEF outVars
<1>5. RunsNumbered'
  BY <1>1 DEF Phase2Inv, RunsNumbered, Active
<1>6. ~overlap => Alone' /\ Workspace'
  BY <1>1 DEF Phase2Inv, Alone
<1>7. Consolidating' /\ SelectedIsBaseline'
  BY <1>1, <1>2 DEF Phase2Inv, Consolidating, Reflected, SelectedIsBaseline, outVars
<1>8. ~overlap' => ~overlap
  BY <1>2, Zenon
<1>9. Phase2Inv'
  BY <1>5, <1>6, <1>7, <1>8, Zenon DEF Phase2Inv
<1> QED
  BY <1>3, <1>4, <1>9 DEF Inv

\* A new run is the only active one, or there is an overlap.
LEMMA ClaimGlobalInv ==
    ASSUME Inv, ClaimGlobal
    PROVE  Inv'
<1>1. TypeOK /\ Stage1Inv /\ Phase2Inv /\ RunT /\ FlagT
  BY Parts DEF Inv
<1>2. /\ UNCHANGED <<threadVars, jobVars, outVars, claimVars, upsets, okInputs, okArt>>
      /\ UNCHANGED <<writer, epoch>> /\ UNCHANGED <<fileVars, inputs, resetting>>
      /\ overlap' = (overlap \/ SomeActive)
      /\ gLease' = TRUE /\ gBackoff' = FALSE /\ gCooldown' = FALSE
  BY Zenon DEF ClaimGlobal, stage1Vars, upsetVars
<1>3. runs + 1 \in Runs /\ runs \in Nat
  BY <1>1, BoundsAssumption DEF ClaimGlobal, RunT, Runs
<1>4. RunT' /\ GlobalT'
  BY <1>1, <1>2, <1>3 DEF ClaimGlobal, Goto, RunT, GlobalT, Steps, Runs
<1>5. FlagT'
  BY <1>1, <1>2, Zenon DEF FlagT
<1>6. TypeOK'
  BY <1>1, <1>2, <1>4, <1>5, KeptTypes, Parts
<1>7. RunsNumbered'
  BY <1>1, <1>3 DEF Phase2Inv, RunsNumbered, ClaimGlobal, Goto, RunT, Runs
<1>8. ~overlap /\ ~SomeActive => Alone' /\ Workspace'
  BY <1>1, <1>2, <1>3 DEF Phase2Inv, Alone, Workspace, ClaimGlobal, Goto, RunT,
     SomeActive, Active, Steps, fileVars
<1>9. ~overlap' => ~overlap /\ ~SomeActive
  BY <1>2, Zenon
<1>10. (~overlap' => Reflected') /\ SelectedIsBaseline'
  BY <1>1, <1>2, <1>9 DEF Phase2Inv, Consolidating, Reflected, SelectedIsBaseline,
     outVars, fileVars
<1>11. Phase2Inv'
  BY <1>7, <1>8, <1>9, <1>10, Zenon DEF Phase2Inv, Consolidating, Reflected
<1> QED
  BY <1>1, <1>2, <1>6, <1>11, Stage1Frame DEF Inv, outVars

\* The steps that only move a run, or choose its inputs.
LEMMA ChooseInv ==
    ASSUME Inv, NEW w \in Runs,
           \/ Select(w) \/ Hydrate(w) \/ Diff(w) \/ ShutdownTimesOut(w)
           \/ WriteIndex(w) \/ Crash(w)
    PROVE  Inv'
<1>1. TypeOK /\ RunT /\ OutT /\ FileT
  BY Parts DEF Inv
<1>2. /\ UNCHANGED quiet /\ UNCHANGED runs /\ UNCHANGED <<gStatus, gToken>>
      /\ UNCHANGED fileVars
      /\ UNCHANGED <<gLease, gBackoff, gCooldown, resetting, overlap>>
  BY Zenon DEF Select, Hydrate, Diff, ShutdownTimesOut, WriteIndex, Crash, globalVars, quiet,
     upsetVars, histVars
<1>3. GlobalT' /\ FileT' /\ FlagT'
  BY <1>1, <1>2, KeptTypes
<1>4. pc[w] \in Active /\ pc' \in [Runs -> Steps]
  BY <1>1 DEF Select, Hydrate, Diff, ShutdownTimesOut, WriteIndex, Crash, At, Goto, RunT, Active, Steps
<1>5. inputs' \in [Runs -> InputSets]
  <2>1. CASE Select(w)
    <3>1. PICK T \in SUBSET {t \in Threads : out[t] # 0 /\ mode[t] = "enabled"} :
              inputs' = [inputs EXCEPT ![w] = {<<t, out[t]>> : t \in T}]
      BY <2>1 DEF Select
    <3>2. \A t \in T : <<t, out[t]>> \in Snapshots
      BY <1>1 DEF OutT, Snapshots
    <3>3. {<<t, out[t]>> : t \in T} \in InputSets
      BY <3>2 DEF InputSets
    <3> QED
      BY <1>1, <3>1, <3>3 DEF RunT
  <2>2. CASE Hydrate(w)
    BY <1>1, <2>2 DEF Hydrate, RunT, InputSets
  <2>3. CASE Diff(w) \/ ShutdownTimesOut(w) \/ WriteIndex(w) \/ Crash(w)
    BY <1>1, <2>3 DEF Diff, ShutdownTimesOut, WriteIndex, Crash, RunT
  <2> QED
    BY <2>1, <2>2, <2>3
<1>6. RunT'
  BY <1>1, <1>2, <1>4, <1>5 DEF RunT
<1>7. \A v \in Runs : v # w => pc'[v] = pc[v] /\ inputs'[v] = inputs[v]
  BY <1>1 DEF Select, Hydrate, Diff, ShutdownTimesOut, WriteIndex, Crash, Goto, RunT
<1>8. ASSUME ~overlap, Workspace, \A v \in Runs : v # w => pc[v] \notin Active
      PROVE  Workspace'
  <2>1. CASE Diff(w)
    BY <1>1, <1>2, <1>8, <2>1 DEF Workspace, Diff, HasChanges, At, Goto, RunT, Active,
       Steps, fileVars
  <2>2. CASE ~Diff(w)
    BY <1>1, <1>2, <1>8, <2>2 DEF Workspace, Select, Hydrate, ShutdownTimesOut, WriteIndex, Crash,
       At, Goto, RunT, Active, Steps, fileVars
  <2> QED
    BY <2>1, <2>2
<1> QED
  BY <1>2, <1>3, <1>4, <1>6, <1>7, <1>8, RunFrame DEF fileVars


\* The steps on the workspace: its inputs, its artifacts and its baseline.
LEMMA FileStepInv ==
    ASSUME Inv, NEW w \in Runs,
           \/ Prepare(w) \/ SyncSome(w) \/ Sync(w) \/ AgentWrites(w)
           \/ AgentCompletes(w) \/ RemoveGit(w) \/ CommitTree(w)
    PROVE  Inv'
<1>1. TypeOK /\ RunT /\ FileT
  BY Parts DEF Inv
<1>2. /\ UNCHANGED quiet /\ UNCHANGED <<runs, inputs>> /\ UNCHANGED <<gStatus, gToken>>
      /\ UNCHANGED <<gLease, gBackoff, gCooldown, resetting, overlap>>
  BY Zenon DEF Prepare, SyncSome, Sync, AgentWrites, AgentCompletes, RemoveGit,
     CommitTree, globalVars, runVars, quiet, upsetVars, histVars
<1>3. GlobalT' /\ FlagT'
  BY <1>1, <1>2, KeptTypes
<1>4. pc[w] \in Active /\ RunT'
  BY <1>1, <1>2 DEF Prepare, SyncSome, Sync, AgentWrites, AgentCompletes, RemoveGit,
     CommitTree, At, Goto, RunT, runVars, Active, Steps
<1>5. \A v \in Runs : v # w => pc'[v] = pc[v] /\ inputs'[v] = inputs[v]
  BY <1>1, <1>2 DEF Prepare, SyncSome, Sync, AgentWrites, AgentCompletes, RemoveGit,
     CommitTree, Goto, RunT, runVars
<1>6. <<files, art>> \in Files \X Artifacts /\ <<files, art>> # NoGit
  BY <1>1, NullsAreFresh DEF FileT, Files, Artifacts
<1>7. FileT'
  <2>0. inputs[w] \in InputSets /\ Present \in InputSets
    BY <1>1 DEF RunT, FileT, Files, Present, InputSets
  <2>1. CASE SyncSome(w)
    <3>1. PICK x \in inputs[w], rest \in SUBSET (Present \ inputs[w]) :
            /\ files' = (Present \cap inputs[w]) \cup {x} \cup rest
            /\ stuck' = stuck \cup rest
      BY <2>1 DEF SyncSome
    <3>2. files' \in InputSets /\ stuck' \in InputSets
      BY <1>1, <2>0, <3>1 DEF InputSets, FileT
    <3> QED
      BY <1>1, <2>1, <3>2 DEF SyncSome, FileT, Files
  <2>2. CASE Sync(w)
    <3>1. PICK rest \in SUBSET (Present \ inputs[w]) :
            files' = inputs[w] \cup rest /\ stuck' = stuck \cup rest
      BY <2>2 DEF Sync
    <3>2. files' \in InputSets /\ stuck' \in InputSets
      BY <1>1, <2>0, <3>1 DEF InputSets, FileT
    <3> QED
      BY <1>1, <2>2, <3>2 DEF Sync, FileT, Files
  <2>3. CASE ~SyncSome(w) /\ ~Sync(w)
    BY <1>1, <1>6, <2>3 DEF Prepare, AgentWrites, AgentCompletes, RemoveGit,
       CommitTree, FileT, RunT, Files, Artifacts, Baselines
  <2> QED
    BY <2>1, <2>2, <2>3
<1>9. stuck \subseteq stuck'
  BY DEF Prepare, SyncSome, Sync, AgentWrites, AgentCompletes, RemoveGit, CommitTree
<1>8. ASSUME ~overlap, Workspace, \A v \in Runs : v # w => pc[v] \notin Active
      PROVE  Workspace'
  <2>1. CASE Prepare(w) \/ AgentCompletes(w)
    BY <1>1, <1>2, <1>6, <1>8, <2>1 DEF Workspace, Prepare, AgentCompletes, At,
       Goto, RunT, Active, Steps
  <2>4. CASE Sync(w)
    <3>1. PICK rest \in SUBSET (Present \ inputs[w]) :
            files' = inputs[w] \cup rest /\ stuck' = stuck \cup rest
      BY <2>4 DEF Sync
    <3>2. inputs[w] \in InputSets /\ Present \in InputSets
      BY <1>1 DEF RunT, FileT, Files, Present, InputSets
    <3>3. /\ files' \in InputSets /\ inputs'[w] \subseteq files'
          /\ files' \ inputs'[w] \subseteq stuck'
      BY <1>2, <3>1, <3>2 DEF InputSets
    <3> QED
      BY <1>1, <1>2, <1>8, <2>4, <3>3 DEF Workspace, Sync, At, Goto, RunT, Active, Steps
  <2>2. CASE RemoveGit(w) \/ CommitTree(w)
    BY <1>1, <1>2, <1>6, <1>8, <2>2 DEF Workspace, RemoveGit, CommitTree, At, Goto, RunT,
       Active, Steps
  <2>3. CASE SyncSome(w) \/ AgentWrites(w)
    BY <1>1, <1>2, <1>8, <2>3 DEF Workspace, SyncSome, AgentWrites, At, RunT, runVars,
       Active, Steps
  <2> QED
    BY <2>1, <2>2, <2>3, <2>4
<1> QED
  BY <1>2, <1>3, <1>4, <1>5, <1>7, <1>8, <1>9, RunFrame

\* The steps on the global job's row that leave the workspace alone.
LEMMA LeaseStepInv ==
    ASSUME Inv, NEW w \in Runs, Heartbeat(w) \/ Confirm(w) \/ FailGlobal(w)
    PROVE  Inv'
<1>1. TypeOK /\ RunT /\ FileT /\ GlobalT /\ FlagT
  BY Parts DEF Inv
<1>2. /\ UNCHANGED quiet /\ UNCHANGED <<runs, inputs>> /\ UNCHANGED fileVars
      /\ gToken' = gToken /\ gCooldown' = gCooldown
      /\ resetting' = resetting /\ overlap' = overlap
      /\ gBackoff' = gBackoff \/ gBackoff' = TRUE
      /\ gLease' = gLease \/ gLease' = TRUE \/ gLease' = FALSE
  BY Zenon DEF Heartbeat, Confirm, FailGlobal, quiet, upsetVars, histVars, runVars
<1>3. FileT'
  BY <1>1, <1>2, KeptTypes
<1>4. FlagT'
  BY <1>1, <1>2, Zenon DEF FlagT
<1>5. GlobalT'
  BY <1>1, <1>2 DEF Heartbeat, Confirm, FailGlobal, GlobalT
<1>6. pc[w] \in Active /\ RunT'
  BY <1>1, <1>2 DEF Heartbeat, Confirm, FailGlobal, At, Goto, RunT, runVars, Active, Steps
<1>7. \A v \in Runs : v # w => pc'[v] = pc[v] /\ inputs'[v] = inputs[v]
  BY <1>1, <1>2 DEF Heartbeat, Confirm, FailGlobal, Goto, RunT, runVars
<1>8. ASSUME ~overlap, Workspace, \A v \in Runs : v # w => pc[v] \notin Active
      PROVE  Workspace'
  BY <1>1, <1>2, <1>8 DEF Workspace, Heartbeat, Confirm, FailGlobal, At, Goto, RunT,
     runVars, Active, Steps, fileVars
<1> QED
  BY <1>2, <1>3, <1>4, <1>5, <1>6, <1>7, <1>8, RunFrame DEF fileVars

\* The lease of the global job, or a delay of it, runs out.
LEMMA GlobalTimeInv ==
    ASSUME Inv, GLeaseExpires \/ GWaitEnds
    PROVE  Inv'
<1>1. TypeOK /\ Stage1Inv /\ Phase2Inv /\ FlagT
  BY Parts DEF Inv
<1>2. /\ UNCHANGED <<threadVars, jobVars, outVars, claimVars, gStatus, gToken, runVars,
                     fileVars, upsets, okInputs, okArt>>
      /\ UNCHANGED <<writer, epoch>> /\ resetting' = resetting /\ overlap' = overlap
      /\ gLease' = gLease \/ gLease' = FALSE
      /\ gBackoff' = gBackoff \/ gBackoff' = FALSE
      /\ gCooldown' = gCooldown \/ gCooldown' = FALSE
  BY Zenon DEF GLeaseExpires, GWaitEnds, quiet, stage1Vars, upsetVars, histVars
<1>3. FlagT'
  BY <1>1, <1>2, Zenon DEF FlagT
<1>4. TypeOK'
  BY <1>1, <1>2, <1>3, KeptTypes, Parts
<1> QED
  BY <1>1, <1>2, <1>4, Stage1Frame, Phase2Frame DEF Inv, outVars

\* A success selects rows among the inputs, whose memories the artifacts show.
LEMMA SucceedGlobalInv ==
    ASSUME Inv, NEW w \in Runs, SucceedGlobal(w)
    PROVE  Inv'
<1>1. TypeOK /\ RunT /\ OutT /\ FileT /\ GlobalT /\ FlagT /\ OkT /\ Stage1Inv /\ Phase2Inv
  BY Parts DEF Inv
<1>2. /\ UNCHANGED <<threadVars, jobVars, out, claimVars, fileVars, upsets>>
      /\ UNCHANGED <<writer, epoch, runs, inputs, gToken>>
      /\ resetting' = resetting /\ overlap' = overlap /\ gBackoff' = gBackoff
      /\ gLease' = gLease \/ gLease' = FALSE
      /\ gCooldown' = gCooldown \/ gCooldown' = TRUE
  BY Zenon DEF SucceedGlobal, upsetVars
<1>3. RunT' /\ GlobalT'
  BY <1>1, <1>2 DEF SucceedGlobal, Goto, RunT, GlobalT, Steps
<1>4. FlagT'
  BY <1>1, <1>2, Zenon DEF FlagT
<1>5. OutT' /\ OkT'
  <2>1. CASE OwnsGlobal(w)
    <3>1. /\ selected' = [t \in Threads |-> <<t, out[t]>> \in inputs[w]]
          /\ okInputs' = inputs[w] /\ okArt' = art
      BY <2>1, Zenon DEF SucceedGlobal
    <3> QED
      BY <1>1, <1>2, <3>1 DEF OutT, OkT, FileT, RunT
  <2>2. CASE ~OwnsGlobal(w)
    <3>1. UNCHANGED <<selected, okInputs, okArt>>
      BY <2>2, Zenon DEF SucceedGlobal
    <3> QED
      BY <1>1, <1>2, <3>1 DEF OutT, OkT
  <2> QED
    BY <2>1, <2>2
<1>6. TypeOK'
  BY <1>1, <1>2, <1>3, <1>4, <1>5, KeptTypes, Parts
<1>7. Stage1Inv'
  BY <1>1, <1>2, Stage1Frame
<1>8. pc[w] = "succeed" /\ pc' = [pc EXCEPT ![w] = "over"]
  BY DEF SucceedGlobal, At, Goto
<1>9. RunsNumbered' /\ (~overlap => Alone' /\ Workspace')
  BY <1>1, <1>2, <1>8 DEF Phase2Inv, RunsNumbered, Alone, Workspace, RunT, Active, Steps,
     fileVars
<1>10. ~overlap => Reflected'
  <2>1. CASE OwnsGlobal(w)
    <3>1. okInputs' = inputs[w] /\ okArt' = art /\ stuck' = stuck
      BY <1>2, <2>1, Zenon DEF SucceedGlobal, fileVars
    <3> QED
      BY <1>1, <1>8, <3>1 DEF Phase2Inv, Workspace, Reflected
  <2>2. CASE ~OwnsGlobal(w)
    <3>1. okInputs' = okInputs /\ okArt' = okArt /\ stuck' = stuck
      BY <1>2, <2>2, Zenon DEF SucceedGlobal, fileVars
    <3> QED
      BY <1>1, <3>1 DEF Phase2Inv, Consolidating, Reflected
  <2> QED
    BY <2>1, <2>2
<1>11. SelectedIsBaseline'
  <2>1. CASE OwnsGlobal(w)
    <3> SUFFICES ASSUME NEW t \in Threads, selected'[t]
                 PROVE  \E x \in okInputs' : x[1] = t
      BY DEF SelectedIsBaseline
    <3>1. okInputs' = inputs[w] /\ <<t, out[t]>> \in inputs[w]
      BY <2>1 DEF SucceedGlobal
    <3> QED
      BY <3>1
  <2>2. CASE ~OwnsGlobal(w)
    <3>1. UNCHANGED <<selected, okInputs>>
      BY <2>2, Zenon DEF SucceedGlobal
    <3> QED
      BY <1>1, <3>1 DEF Phase2Inv, SelectedIsBaseline
  <2> QED
    BY <2>1, <2>2
<1>12. Phase2Inv'
  BY <1>2, <1>9, <1>10, <1>11, Zenon DEF Phase2Inv, Consolidating, Reflected
<1> QED
  BY <1>6, <1>7, <1>12 DEF Inv


-----------------------------------------------------------------------------
(* The theorems. *)

\* Every step preserves the inductive invariant.
LEMMA NextInv == Inv /\ [Next]_vars => Inv'
<1> SUFFICES ASSUME Inv, [Next]_vars PROVE Inv'
  OBVIOUS
<1>1. CASE Stage1
  BY <1>1, ClaimStage1Inv, SucceededInv, SucceededNoOutputInv, FailedInv, QuietStage1Inv
     DEF Stage1
<1>2. CASE Upsetting
  BY <1>2, DeleteMemoryInv, PolluteInv, PruneInv, ResetDbInv, ResetFilesInv DEF Upsetting
<1>3. CASE Phase2
  BY <1>3, ClaimGlobalInv, GlobalTimeInv, ChooseInv, FileStepInv, LeaseStepInv,
     SucceedGlobalInv DEF Phase2, RunStep
<1>4. CASE UNCHANGED vars
  <2>1. /\ UNCHANGED <<threadVars, jobVars, outVars, claimVars, gStatus, gToken, runVars,
                       fileVars, upsets, okInputs, okArt>>
        /\ UNCHANGED <<writer, epoch>>
        /\ UNCHANGED <<gLease, gBackoff, gCooldown, resetting, overlap>>
    BY <1>4, Zenon DEF vars, globalVars, upsetVars, histVars
  <2>2. TypeOK'
    BY <2>1, KeptTypes, Parts DEF Inv
  <2> QED
    BY <2>1, <2>2, Stage1Frame, Phase2Frame DEF Inv, outVars
<1> QED
  BY <1>1, <1>2, <1>3, <1>4 DEF Next

\* The invariant that the theorems below rest on.
THEOREM Inductive == Spec => []Inv
  BY InitInv, NextInv, PTL DEF Spec

\* Every variable of the pipeline keeps its type.
THEOREM TypeCorrect == Spec => []TypeOK
  BY Inductive, PTL DEF Inv

\* A thread's memory is the result of its last successful extraction, for any
\* number of claims whose workers report late or never.
THEOREM LastSuccess == Spec => []OutputIsLastSuccess
  BY Inductive, PTL DEF Inv, Stage1Inv

\* What delete_thread_memory or clear_memory_data removed is not written back
\* by a worker that was claimed before.
THEOREM Deleted == Spec => []DeletedStaysDeleted
  BY Inductive, PTL DEF Inv, Stage1Inv

\* try_claim_stage1_job never lets more jobs run than max_running_jobs.
THEOREM Capped == Spec => []RunningCap
  BY Inductive, PTL DEF Inv, Stage1Inv

\* A consolidation recorded as successful has artifacts of its inputs (and
\* of nothing else but summaries that could not be removed),
\* for any number of runs that failed or crashed at any step before it.
THEOREM Consolidated == Spec => []SuccessMeansConsolidated
<1>1. Inv => SuccessMeansConsolidated
  BY NullsAreFresh DEF Inv, Phase2Inv, Consolidating, Reflected, SuccessMeansConsolidated
<1> QED
  BY <1>1, Inductive, PTL

\* Only rows of the last successful consolidation's inputs are selected.
THEOREM Selected == Spec => []SelectedIsBaseline
  BY Inductive, PTL DEF Inv, Phase2Inv

\* last_success_watermark never goes back while the job's row exists: only a
\* claim for a newer version can succeed.
THEOREM Advances == Spec => SuccessAdvances
<1> DEFINE Kept == \A t \in Threads : success'[t] < success[t] => status'[t] = "none"
<1>1. Inv /\ [Next]_vars => [Kept]_vars
  <2> SUFFICES ASSUME Inv, Next PROVE Kept
    OBVIOUS
  <2>1. \A t \in Threads : success[t] \in Nat /\ input[t] \in Nat
    <3>1. success \in [Threads -> Versions \cup {0}] /\ input \in [Threads -> Versions \cup {0}]
      BY DEF Inv, TypeOK
    <3> QED
      BY <3>1, BoundsAssumption DEF Versions
  <2>2. CASE \E k \in Claims : Succeeded(k) \/ SucceededNoOutput(k)
    <3> PICK k \in Claims : Succeeded(k) \/ SucceededNoOutput(k)
      BY <2>2
    <3>1. Reports(k) /\ Owns(k) /\ success' = [success EXCEPT ![claimOf[k]] = input[claimOf[k]]]
      BY DEF Succeeded, SucceededNoOutput, JobDone
    <3>2. claimOf[k] \in Threads /\ input[claimOf[k]] > success[claimOf[k]]
      BY <3>1, OwnerFacts
    <3>3. success \in [Threads -> Versions \cup {0}]
      BY DEF Inv, TypeOK
    <3> QED
      BY <2>1, <3>1, <3>2, <3>3
  <2>3. CASE ResetDb \/ \E t \in Threads : DeleteMemory(t)
    <3>1. PICK T \in SUBSET Threads : DropJobs(T)
      BY <2>3, Zenon DEF ResetDb, DeleteMemory
    <3> QED
      BY <2>1, <3>1 DEF DropJobs
  <2>4. CASE UNCHANGED success
    BY <2>1, <2>4
  <2>5. \/ \E k \in Claims : Succeeded(k) \/ SucceededNoOutput(k)
        \/ ResetDb \/ \E t \in Threads : DeleteMemory(t)
        \/ UNCHANGED success
    <3>1. Stage1 => \/ \E k \in Claims : Succeeded(k) \/ SucceededNoOutput(k)
                    \/ UNCHANGED success
      BY Zenon DEF Stage1, ClaimStage1, Failed, ReportsLate, Touch, LeaseExpires,
         BackoffEnds, jobVars
    <3>2. Upsetting => ResetDb \/ (\E t \in Threads : DeleteMemory(t)) \/ UNCHANGED success
      BY Zenon DEF Upsetting, DeleteThread, Prune, PolluteReads, PolluteMarks,
         PolluteEnqueues, ResetFiles, stage1Vars, jobVars
    <3>3. Phase2 => UNCHANGED success
      BY Zenon DEF Phase2, RunStep, ClaimGlobal, GLeaseExpires, GWaitEnds, Prepare, Select,
         Hydrate, SyncSome, Sync, Diff, AgentWrites, AgentCompletes, ShutdownTimesOut,
         Heartbeat, Confirm, RemoveGit, CommitTree, WriteIndex, SucceedGlobal, FailGlobal, Crash,
         quiet, stage1Vars, jobVars
    <3> QED
      BY <3>1, <3>2, <3>3 DEF Next
  <2> QED
    BY <2>2, <2>3, <2>4, <2>5
<1> QED
  BY <1>1, Inductive, PTL DEF Spec, SuccessAdvances

=============================================================================
