-------------------------- MODULE JobQueueProofs --------------------------
(***************************************************************************)
(* Proofs that the durable queue is correct for any number of jobs,        *)
(* workers, attempts, crashes and database errors.                         *)
(***************************************************************************)
EXTENDS JobQueue, TLAPS

\* A worker that has left _claim with a row, or is about to take one, works on
\* a job.
BusyHasJob ==
    \A w \in Workers :
        pc[w] \notin {"idle", "dead", "down"} => cur[w] \in Jobs

TypeInv == TypeOK /\ BusyHasJob

\* A row that was never inserted has used no attempt.
AbsentIsFresh == \A j \in Jobs : status[j] = "absent" => attempts[j] = 0

\* What a worker between the two statements of _claim knows about its
\* candidate: the status it read was claimable, the attempt number it read can
\* only have grown since, and a take-over candidate had an attempt left.
CandidateKnown ==
    \A w \in Workers : pc[w] = "cas" =>
        /\ seen[w] \in {"queued", "running"}
        /\ att[w] =< attempts[cur[w]]
        /\ seen[w] = "running" => att[w] < maxAttempts[cur[w]]

\* Past its commit a worker's job has succeeded, so the trailing _complete and
\* a late _fail find nothing to change.
CommitKnown ==
    \A w \in Workers :
        pc[w] \in {"firing", "closing"} => status[cur[w]] = "succeeded"

\* Only one worker can be about to send a job's trigger, and none was sent yet.
OneTrigger ==
    /\ \A w \in Workers : pc[w] = "firing" => fired[cur[w]] = 0
    /\ \A v, w \in Workers :
         pc[v] = "firing" /\ pc[w] = "firing" /\ cur[v] = cur[w] => v = w

RowInv ==
    /\ ExactlyOnceEffect /\ TriggerAfterPublish /\ AttemptBudget
    /\ NoStrandedRow /\ AbsentIsFresh

SafeInv == RowInv /\ CandidateKnown /\ CommitKnown /\ OneTrigger

IndInv == TypeInv /\ SafeInv

-----------------------------------------------------------------------------
\* Every step of the queue keeps the types, and a busy worker keeps its job.
LEMMA TypeStep == TypeInv /\ [Next]_vars => TypeInv'
<1> SUFFICES ASSUME TypeOK, BusyHasJob, [Next]_vars PROVE TypeOK' /\ BusyHasJob'
  BY DEF TypeInv
<1> USE NullsAreFresh, BoundsAssumption
<1> USE DEF BusyHasJob
<1>1. ASSUME NEW j \in Jobs, Enqueue(j) PROVE TypeOK' /\ BusyHasJob'
  <2>1. submitted' \in [Jobs -> Nat]
    BY <1>1 DEF Enqueue, TypeOK
  <2>2. status' \in [Jobs -> Statuses] /\ maxAttempts' \in [Jobs -> Nat]
    BY <1>1 DEF Enqueue, TypeOK, Statuses
  <2>3. ready' \in [Jobs -> BOOLEAN]
    BY <1>1 DEF Enqueue, TypeOK
  <2> QED
    BY <1>1, <2>1, <2>2, <2>3 DEF Enqueue, TypeOK, localVars, envVars
<1>2. ASSUME NEW j \in Jobs, RetryJob(j) PROVE TypeOK' /\ BusyHasJob'
  BY <1>2 DEF RetryJob, TypeOK, Statuses, NoLease, localVars, envVars, domainVars
<1>3. ASSUME NEW j \in Jobs, LeaseTick(j) PROVE TypeOK' /\ BusyHasJob'
  BY <1>3 DEF LeaseTick, TypeOK, NoLease, localVars, envVars, domainVars
<1>4. ASSUME NEW j \in Jobs, BackoffEnds(j) PROVE TypeOK' /\ BusyHasJob'
  BY <1>4 DEF BackoffEnds, TypeOK, localVars, envVars, domainVars
<1>5. ASSUME NEW w \in Workers, ClaimRead(w) PROVE TypeOK' /\ BusyHasJob'
  <2>1. /\ status' \in [Jobs -> Statuses] /\ lockedBy' \in [Jobs -> Workers \cup {NoWorker}]
        /\ lease' \in [Jobs -> NoLease..LeaseTicks]
    BY <1>5 DEF ClaimRead, TypeOK, Statuses, NoLease
  <2>0. UNCHANGED <<attempts, maxAttempts, ready, submitted, covered, effects, fired, snap,
                    beats, crashes, dbErrors>>
    BY <1>5 DEF ClaimRead, envVars, domainVars
  <2>2. CASE UNCHANGED <<pc, cur, att, seen>>
    BY <2>0, <2>1, <2>2 DEF TypeOK
  <2>3. ASSUME NEW j \in Jobs, pc' = [pc EXCEPT ![w] = "cas"], cur' = [cur EXCEPT ![w] = j],
               att' = [att EXCEPT ![w] = attempts[j]], seen' = [seen EXCEPT ![w] = status[j]]
        PROVE  TypeOK' /\ BusyHasJob'
    <3>1. /\ pc' \in [Workers -> Phases] /\ cur' \in [Workers -> Jobs \cup {NoJob}]
          /\ att' \in [Workers -> Nat] /\ seen' \in [Workers -> Statuses]
      BY <2>3 DEF TypeOK, Phases
    <3>2. BusyHasJob'
      BY <2>3 DEF TypeOK
    <3>3. /\ attempts' \in [Jobs -> Nat] /\ maxAttempts' \in [Jobs -> Nat]
          /\ ready' \in [Jobs -> BOOLEAN] /\ submitted' \in [Jobs -> Nat]
          /\ covered' \in [Jobs -> Nat] /\ effects' \in [Jobs -> Nat]
          /\ fired' \in [Jobs -> Nat] /\ snap' \in [Workers -> Nat]
          /\ beats' \subseteq (Workers \X Jobs \X Nat) /\ crashes' \in Nat /\ dbErrors' \in Nat
      BY <2>0, Zenon DEF TypeOK
    <3>4. TypeOK'
      BY ONLY <2>1, <3>1, <3>3, Zenon DEF TypeOK
    <3> QED
      BY <3>2, <3>4
  <2> QED
    BY <1>5, <2>2, <2>3 DEF ClaimRead
<1>6. ASSUME NEW w \in Workers, ClaimCas(w) PROVE TypeOK' /\ BusyHasJob'
  <2>1. CASE CasHolds(w)
    <3>1. cur[w] \in Jobs
      BY <1>6 DEF ClaimCas, TypeOK
    <3>2. beats' \subseteq (Workers \X Jobs \X Nat)
      BY <1>6, <2>1, <3>1 DEF ClaimCas, TypeOK
    <3>3. /\ status' \in [Jobs -> Statuses] /\ lockedBy' \in [Jobs -> Workers \cup {NoWorker}]
          /\ lease' \in [Jobs -> NoLease..LeaseTicks] /\ attempts' \in [Jobs -> Nat]
      BY <1>6, <2>1, <3>1 DEF ClaimCas, TypeOK, Statuses, NoLease
    <3>4. /\ pc' \in [Workers -> Phases] /\ att' \in [Workers -> Nat]
          /\ UNCHANGED <<maxAttempts, ready, submitted, covered, effects, fired, cur, seen,
                         snap, crashes, dbErrors>>
      BY <1>6, <2>1 DEF ClaimCas, TypeOK, Phases, envVars, domainVars
    <3>5. BusyHasJob'
      BY <1>6, <2>1, <3>1 DEF ClaimCas, TypeOK
    <3>6. TypeOK'
      BY <3>2, <3>3, <3>4 DEF TypeOK
    <3> QED
      BY <3>5, <3>6
  <2>2. CASE ~CasHolds(w)
    BY <1>6, <2>2
    DEF ClaimCas, Leave, TypeOK, Statuses, Phases, envVars, domainVars
  <2> QED BY <2>1, <2>2
<1>7. ASSUME NEW w \in Workers, HandlerRead(w) PROVE TypeOK' /\ BusyHasJob'
  BY <1>7 DEF HandlerRead, TypeOK, Phases, rowVars, envVars, domainVars
<1>8. ASSUME NEW w \in Workers, HandlerRaises(w) PROVE TypeOK' /\ BusyHasJob'
  BY <1>8 DEF HandlerRaises, InHandler, TypeOK, Phases, rowVars, envVars, domainVars
<1>9. ASSUME NEW w \in Workers, CommitResult(w) PROVE TypeOK' /\ BusyHasJob'
  <2>1. cur[w] \in Jobs
    BY <1>9 DEF CommitResult
  <2>2. /\ status' \in [Jobs -> Statuses] /\ lockedBy' \in [Jobs -> Workers \cup {NoWorker}]
        /\ lease' \in [Jobs -> NoLease..LeaseTicks]
    BY <1>9 DEF CommitResult, Succeed, TypeOK, Statuses, NoLease
  <2>3. effects' \in [Jobs -> Nat] /\ covered' \in [Jobs -> Nat]
    BY <1>9 DEF CommitResult, TypeOK
  <2>4. pc' \in [Workers -> Phases]
    BY <1>9 DEF CommitResult, TypeOK, Phases
  <2>5. BusyHasJob'
    BY <1>9, <2>1 DEF CommitResult, TypeOK
  <2> QED
    BY <1>9, <2>2, <2>3, <2>4, <2>5 DEF CommitResult, TypeOK, envVars
<1>10. ASSUME NEW w \in Workers, FireTrigger(w) PROVE TypeOK' /\ BusyHasJob'
  BY <1>10 DEF FireTrigger, TypeOK, Phases, rowVars, envVars
<1>11. ASSUME NEW w \in Workers, Complete(w) PROVE TypeOK' /\ BusyHasJob'
  BY <1>11
  DEF Complete, Succeed, Leave, TypeOK, Statuses, Phases, NoLease, envVars, domainVars
<1>12. ASSUME NEW w \in Workers, Fail(w) PROVE TypeOK' /\ BusyHasJob'
  <2>1. status' \in [Jobs -> Statuses] /\ lockedBy' \in [Jobs -> Workers \cup {NoWorker}]
        /\ lease' \in [Jobs -> NoLease..LeaseTicks]
    BY <1>12 DEF Fail, FailStatus, TypeOK, Statuses, NoLease
  <2>2. ready' \in [Jobs -> BOOLEAN]
    BY <1>12 DEF Fail, TypeOK
  <2> QED
    BY <1>12, <2>1, <2>2 DEF Fail, Leave, TypeOK, Statuses, Phases, envVars, domainVars
<1>13. ASSUME NEW w \in Workers, Crash(w) PROVE TypeOK' /\ BusyHasJob'
  BY <1>13 DEF Crash, Leave, TypeOK, Statuses, Phases, rowVars, domainVars
<1>14. ASSUME NEW w \in Workers, Restart(w) PROVE TypeOK' /\ BusyHasJob'
  BY <1>14 DEF Restart, Leave, TypeOK, Statuses, Phases, rowVars, envVars, domainVars
<1>15. ASSUME NEW w \in Workers, DbError(w) PROVE TypeOK' /\ BusyHasJob'
  BY <1>15 DEF DbError, Leave, TypeOK, Statuses, Phases, rowVars, domainVars
<1>16. ASSUME NEW b \in beats, Heartbeat(b) PROVE TypeOK' /\ BusyHasJob'
  BY <1>16 DEF Heartbeat, TypeOK, NoLease, localVars, envVars, domainVars
<1>17. CASE UNCHANGED vars
  BY <1>17 DEF vars, TypeOK
<1> QED
  BY <1>1, <1>2, <1>3, <1>4, <1>5, <1>6, <1>7, <1>8, <1>9, <1>10, <1>11,
     <1>12, <1>13, <1>14, <1>15, <1>16, <1>17 DEF Next, RunOnce

\* Type correctness of the queue's rows, workers and heartbeats.
THEOREM TypeCorrect == SafetySpec => []TypeOK
<1>1. Init => TypeInv
  BY NullsAreFresh, BoundsAssumption
  DEF Init, TypeInv, TypeOK, BusyHasJob, Statuses, Phases, NoLease
<1> QED
  BY <1>1, TypeStep, PTL DEF SafetySpec, TypeInv

-----------------------------------------------------------------------------
(* Safety *)

\* Every step keeps the row invariants and what the workers know.
LEMMA SafeStep == IndInv /\ [Next]_vars => SafeInv'
<1> SUFFICES ASSUME TypeInv, RowInv, CandidateKnown, CommitKnown, OneTrigger,
                    [Next]_vars
             PROVE  SafeInv'
  BY DEF IndInv, SafeInv
<1> USE NullsAreFresh, BoundsAssumption
<1> USE DEF SafeInv, RowInv, ExactlyOnceEffect, TriggerAfterPublish,
            AttemptBudget, NoStrandedRow, AbsentIsFresh, TypeInv, TypeOK,
            BusyHasJob, NoLease
<1>1. ASSUME NEW j \in Jobs, Enqueue(j) PROVE SafeInv'
  <2>1. UNCHANGED <<attempts, lockedBy, lease, effects, fired, pc, cur, att, seen>>
    BY <1>1 DEF Enqueue, localVars
  <2>2. \A k \in Jobs :
          \/ status'[k] = status[k] /\ maxAttempts'[k] = maxAttempts[k]
          \/ status[k] = "absent" /\ status'[k] = "queued" /\ maxAttempts'[k] = MaxAttempts
    BY <1>1 DEF Enqueue
  <2>3. RowInv'
    BY <2>1, <2>2
  <2>4. CandidateKnown' /\ CommitKnown' /\ OneTrigger'
    BY <2>1, <2>2 DEF CandidateKnown, CommitKnown, OneTrigger
  <2> QED
    BY <2>3, <2>4
<1>2. ASSUME NEW j \in Jobs, RetryJob(j) PROVE SafeInv'
  BY <1>2 DEF RetryJob, domainVars, localVars, CandidateKnown, CommitKnown, OneTrigger
<1>3. ASSUME NEW j \in Jobs, LeaseTick(j) PROVE SafeInv'
  BY <1>3 DEF LeaseTick, domainVars, localVars, CandidateKnown, CommitKnown, OneTrigger
<1>4. ASSUME NEW j \in Jobs, BackoffEnds(j) PROVE SafeInv'
  BY <1>4 DEF BackoffEnds, domainVars, localVars, CandidateKnown, CommitKnown, OneTrigger
<1>5. ASSUME NEW w \in Workers, ClaimRead(w) PROVE SafeInv'
  <2>1. \A k \in Jobs :
          \/ /\ status'[k] = status[k] /\ lockedBy'[k] = lockedBy[k]
             /\ lease'[k] = lease[k]
          \/ /\ status[k] = "running" /\ attempts[k] >= maxAttempts[k]
             /\ status'[k] = "failed" /\ lockedBy'[k] = NoWorker
             /\ lease'[k] = NoLease
    BY <1>5 DEF ClaimRead, Exhausted
  <2>2. UNCHANGED <<attempts, maxAttempts, effects, fired>>
    BY <1>5 DEF ClaimRead, domainVars
  <2>3. RowInv'
    <3>1. ExactlyOnceEffect' BY <2>1, <2>2
    <3>2. TriggerAfterPublish' BY <2>1, <2>2
    <3>3. NoStrandedRow' BY <2>1, <2>2
    <3>4. AbsentIsFresh' BY <2>1, <2>2
    <3>5. AttemptBudget'
      <4> SUFFICES ASSUME NEW k \in Jobs
                   PROVE  /\ status'[k] = "queued" => attempts'[k] < maxAttempts'[k]
                          /\ status'[k] = "running" => attempts'[k] =< maxAttempts'[k]
                          /\ status'[k] = "failed" => attempts'[k] = maxAttempts'[k]
        OBVIOUS
      <4>1. attempts[k] \in Nat /\ maxAttempts[k] \in Nat OBVIOUS
      <4>2. CASE status'[k] = status[k] BY <2>2, <4>1, <4>2
      <4>3. CASE status[k] = "running" /\ attempts[k] >= maxAttempts[k]
                   /\ status'[k] = "failed"
        <5>1. attempts[k] =< maxAttempts[k] BY <4>3
        <5>2. attempts[k] = maxAttempts[k] BY ONLY <4>1, <4>3, <5>1
        <5> QED BY ONLY <2>2, <4>3, <5>2
      <4> QED BY <2>1, <4>2, <4>3
    <3> QED BY <3>1, <3>2, <3>3, <3>4, <3>5
  <2>4. CandidateKnown'
    BY <1>5 DEF ClaimRead, Claimable, CandidateKnown
  <2>5. \A v \in Workers : pc'[v] = "firing" \/ pc'[v] = "closing" =>
                             pc'[v] = pc[v] /\ cur'[v] = cur[v]
    BY <1>5 DEF ClaimRead
  <2>6. CommitKnown' /\ OneTrigger'
    BY <2>1, <2>2, <2>5 DEF CommitKnown, OneTrigger
  <2> QED BY <2>3, <2>4, <2>6
<1>6. ASSUME NEW w \in Workers, ClaimCas(w) PROVE SafeInv'
  <2>0. /\ UNCHANGED <<maxAttempts, effects, fired>> /\ cur[w] \in Jobs
        /\ \A k \in Jobs :
             \/ /\ status'[k] = status[k] /\ attempts'[k] = attempts[k]
                /\ lockedBy'[k] = lockedBy[k] /\ lease'[k] = lease[k]
             \/ /\ k = cur[w] /\ CasHolds(w) /\ status'[k] = "running"
                /\ attempts'[k] = attempts[k] + 1 /\ lockedBy'[k] = w
                /\ lease'[k] = LeaseTicks
    <3>1. UNCHANGED <<maxAttempts, effects, fired>> /\ cur[w] \in Jobs
      BY <1>6 DEF ClaimCas, domainVars
    <3>2. CASE CasHolds(w)
      <4>1. attempts[cur[w]] = att[w]
        BY <3>2 DEF CasHolds
      <4>2. /\ status' = [status EXCEPT ![cur[w]] = "running"]
            /\ lockedBy' = [lockedBy EXCEPT ![cur[w]] = w]
            /\ lease' = [lease EXCEPT ![cur[w]] = LeaseTicks]
            /\ attempts' = [attempts EXCEPT ![cur[w]] = att[w] + 1]
        BY <1>6, <3>2 DEF ClaimCas
      <4> QED
        BY <3>1, <3>2, <4>1, <4>2
    <3>3. CASE ~CasHolds(w)
      <4>1. UNCHANGED <<status, lockedBy, lease, attempts>>
        BY <1>6, <3>3 DEF ClaimCas
      <4> QED
        BY <3>1, <4>1
    <3> QED
      BY <3>2, <3>3
  <2>0a. CasHolds(w) => /\ status[cur[w]] \in {"queued", "running"}
                        /\ status[cur[w]] = "running" => attempts[cur[w]] < maxAttempts[cur[w]]
    BY <1>6 DEF ClaimCas, CasHolds, CandidateKnown
  <2>1. RowInv'
    <3>1. ExactlyOnceEffect' BY <2>0, <2>0a
    <3>2. TriggerAfterPublish' BY <2>0, <2>0a
    <3>3. AttemptBudget' BY <2>0, <2>0a
    <3>4. NoStrandedRow' BY <2>0, <2>0a
    <3>5. AbsentIsFresh' BY <2>0, <2>0a
    <3> QED BY <3>1, <3>2, <3>3, <3>4, <3>5
  <2>2. CandidateKnown'
    BY <1>6 DEF ClaimCas, CasHolds, Leave, CandidateKnown
  <2>3. \A k \in Jobs : /\ status[k] = "succeeded" => status'[k] = "succeeded"
                        /\ fired'[k] = fired[k]
    BY <1>6 DEF ClaimCas, CasHolds, CandidateKnown, domainVars
  <2>4. \A v \in Workers : pc'[v] = "firing" \/ pc'[v] = "closing" =>
                             pc'[v] = pc[v] /\ cur'[v] = cur[v]
    BY <1>6 DEF ClaimCas, Leave
  <2>5. CommitKnown' /\ OneTrigger'
    BY <2>3, <2>4 DEF CommitKnown, OneTrigger
  <2> QED BY <2>1, <2>2, <2>5
<1>7. ASSUME NEW w \in Workers, HandlerRead(w) PROVE SafeInv'
  BY <1>7 DEF HandlerRead, rowVars, domainVars, CandidateKnown, CommitKnown, OneTrigger
<1>8. ASSUME NEW w \in Workers, HandlerRaises(w) PROVE SafeInv'
  BY <1>8 DEF HandlerRaises, rowVars, domainVars, CandidateKnown, CommitKnown, OneTrigger
<1>9. ASSUME NEW w \in Workers, CommitResult(w) PROVE SafeInv'
  <2>1. CASE Owned(w)
    <3>a. cur[w] \in Jobs /\ status[cur[w]] = "running"
      BY <1>9, <2>1 DEF CommitResult, Owned, OwnedBy
    <3>b. fired[cur[w]] \in Nat /\ fired[cur[w]] =< 1 /\ fired[cur[w]] # 1
      BY <3>a
    <3>c. \A n \in Nat : n =< 1 /\ n # 1 => n = 0
      OBVIOUS
    <3>1. cur[w] \in Jobs /\ status[cur[w]] = "running" /\ fired[cur[w]] = 0
      BY ONLY <3>a, <3>b, <3>c
    <3>2. RowInv'
      BY <1>9, <2>1, <3>1 DEF CommitResult, Succeed
    <3>3. CandidateKnown'
      BY <1>9, <2>1, <3>1 DEF CommitResult, Succeed, CandidateKnown
    <3>4. status' = [status EXCEPT ![cur[w]] = "succeeded"] /\ UNCHANGED <<fired, cur>>
      BY <1>9, <2>1 DEF CommitResult, Succeed
    <3>5. pc' = [pc EXCEPT ![w] = "firing"] \/ pc' = [pc EXCEPT ![w] = "closing"]
      BY <1>9, <2>1 DEF CommitResult
    <3>6. \A v \in Workers : pc[v] = "firing" => cur[v] # cur[w]
      BY <3>1 DEF CommitKnown
    <3>7. CommitKnown'
      BY <3>1, <3>4, <3>5 DEF CommitKnown
    <3>8. OneTrigger'
      BY <3>1, <3>4, <3>5, <3>6 DEF OneTrigger
    <3> QED BY <3>2, <3>3, <3>7, <3>8
  <2>2. CASE ~Owned(w)
    BY <1>9, <2>2 DEF CommitResult, CandidateKnown, CommitKnown, OneTrigger
  <2> QED BY <2>1, <2>2
<1>10. ASSUME NEW w \in Workers, FireTrigger(w) PROVE SafeInv'
  <2>1. /\ pc[w] = "firing" /\ cur[w] \in Jobs
        /\ status[cur[w]] = "succeeded" /\ fired[cur[w]] = 0
    BY <1>10 DEF FireTrigger, CommitKnown, OneTrigger
  <2>2. fired' = [fired EXCEPT ![cur[w]] = 1] \/ fired' = fired
    BY <1>10, <2>1 DEF FireTrigger
  <2>3. /\ pc' = [pc EXCEPT ![w] = "closing"]
        /\ UNCHANGED <<rowVars, effects, cur, att, seen>>
    BY <1>10 DEF FireTrigger
  <2>4. RowInv'
    BY <2>1, <2>2, <2>3 DEF rowVars
  <2>5. CandidateKnown' /\ CommitKnown'
    BY <2>1, <2>3 DEF rowVars, CandidateKnown, CommitKnown
  <2>6. \A v \in Workers : pc'[v] = "firing" => v # w /\ pc[v] = "firing"
    BY <2>3
  <2>7. OneTrigger'
    BY <2>1, <2>2, <2>3, <2>6 DEF OneTrigger
  <2> QED BY <2>4, <2>5, <2>7
<1>11. ASSUME NEW w \in Workers, Complete(w) PROVE SafeInv'
  <2>1. ~Owned(w)
    BY <1>11 DEF Complete, Owned, OwnedBy, CommitKnown
  <2> QED
    BY <1>11, <2>1
    DEF Complete, Leave, domainVars, CandidateKnown, CommitKnown, OneTrigger
<1>12. ASSUME NEW w \in Workers, Fail(w) PROVE SafeInv'
  <2>1. RowInv'
    BY <1>12 DEF Fail, FailStatus, Owned, OwnedBy, domainVars
  <2>2. CandidateKnown'
    BY <1>12 DEF Fail, Leave, CandidateKnown
  <2>3. \A k \in Jobs : /\ status[k] = "succeeded" => status'[k] = "succeeded"
                        /\ fired'[k] = fired[k]
    BY <1>12 DEF Fail, Owned, OwnedBy, domainVars
  <2>4. \A v \in Workers : pc'[v] = "firing" \/ pc'[v] = "closing" =>
                             pc'[v] = pc[v] /\ cur'[v] = cur[v]
    BY <1>12 DEF Fail, Leave
  <2>5. CommitKnown' /\ OneTrigger'
    BY <2>3, <2>4 DEF CommitKnown, OneTrigger
  <2> QED BY <2>1, <2>2, <2>5
<1>13. ASSUME NEW w \in Workers, Crash(w) PROVE SafeInv'
  BY <1>13 DEF Crash, Leave, rowVars, domainVars, CandidateKnown, CommitKnown, OneTrigger
<1>14. ASSUME NEW w \in Workers, Restart(w) PROVE SafeInv'
  BY <1>14 DEF Restart, Leave, rowVars, domainVars, CandidateKnown, CommitKnown, OneTrigger
<1>15. ASSUME NEW w \in Workers, DbError(w) PROVE SafeInv'
  BY <1>15 DEF DbError, Leave, rowVars, domainVars, CandidateKnown, CommitKnown, OneTrigger
<1>16. ASSUME NEW b \in beats, Heartbeat(b) PROVE SafeInv'
  BY <1>16 DEF Heartbeat, OwnedBy, domainVars, localVars, CandidateKnown, CommitKnown, OneTrigger
<1>17. CASE UNCHANGED vars
  BY <1>17 DEF vars, CandidateKnown, CommitKnown, OneTrigger
<1> QED
  BY <1>1, <1>2, <1>3, <1>4, <1>5, <1>6, <1>7, <1>8, <1>9, <1>10, <1>11,
     <1>12, <1>13, <1>14, <1>15, <1>16, <1>17 DEF Next, RunOnce

\* The conjunction of types, row invariants and worker knowledge is inductive.
THEOREM Inductive == SafetySpec => []IndInv
<1>1. Init => IndInv
  BY NullsAreFresh, BoundsAssumption
  DEF Init, IndInv, TypeInv, TypeOK, BusyHasJob, Statuses, Phases, NoLease,
      SafeInv, RowInv, ExactlyOnceEffect, TriggerAfterPublish, AttemptBudget,
      NoStrandedRow, AbsentIsFresh, CandidateKnown, CommitKnown, OneTrigger
<1>2. IndInv /\ [Next]_vars => IndInv'
  BY TypeStep, SafeStep DEF IndInv
<1> QED
  BY <1>1, <1>2, PTL DEF SafetySpec

\* The domain writes of a job are committed once, and exactly when its row says
\* succeeded, whatever crashes, take-overs and retries happen.
THEOREM EffectOnce == SafetySpec => []ExactlyOnceEffect
BY Inductive, PTL DEF IndInv, SafeInv, RowInv

\* The gateway is triggered at most once per job, after the reports are public.
THEOREM TriggerOnce == SafetySpec => []TriggerAfterPublish
BY Inductive, PTL DEF IndInv, SafeInv, RowInv

\* Queued jobs have attempts left, and jobs are given up only without any.
THEOREM BudgetKept == SafetySpec => []AttemptBudget
BY Inductive, PTL DEF IndInv, SafeInv, RowInv

\* A running row always has an owner and a lease that can expire.
THEOREM NeverStranded == SafetySpec => []NoStrandedRow
BY Inductive, PTL DEF IndInv, SafeInv, RowInv

-----------------------------------------------------------------------------
(* Action properties *)

\* Only the conditional update of _claim changes attempts, and only upwards.
LEMMA AttemptsStep ==
    ASSUME IndInv, [Next]_vars
    PROVE  \/ UNCHANGED attempts
           \/ \E w \in Workers :
                /\ pc[w] = "cas" /\ CasHolds(w) /\ cur[w] \in Jobs
                /\ seen[w] \in {"queued", "running"}
                /\ attempts' = [attempts EXCEPT ![cur[w]] = @ + 1]
<1>1. ASSUME NEW w \in Workers, ClaimCas(w), CasHolds(w)
      PROVE  /\ pc[w] = "cas" /\ CasHolds(w) /\ cur[w] \in Jobs
             /\ seen[w] \in {"queued", "running"}
             /\ attempts' = [attempts EXCEPT ![cur[w]] = @ + 1]
  <2>1. pc[w] = "cas" /\ cur[w] \in Jobs /\ seen[w] \in {"queued", "running"}
    BY <1>1 DEF ClaimCas, IndInv, TypeInv, BusyHasJob, SafeInv, CandidateKnown
  <2>2. attempts[cur[w]] = att[w] /\ attempts \in [Jobs -> Nat]
    BY <1>1 DEF CasHolds, IndInv, TypeInv, TypeOK
  <2>3. attempts' = [attempts EXCEPT ![cur[w]] = att[w] + 1]
    BY <1>1 DEF ClaimCas
  <2> QED BY <1>1, <2>1, <2>2, <2>3
<1>2. ASSUME NEW w \in Workers, ClaimCas(w), ~CasHolds(w) PROVE UNCHANGED attempts
  BY <1>2 DEF ClaimCas
<1>3. ASSUME NEW j \in Jobs,
             Enqueue(j) \/ RetryJob(j) \/ LeaseTick(j) \/ BackoffEnds(j)
      PROVE  UNCHANGED attempts
  BY <1>3 DEF Enqueue, RetryJob, LeaseTick, BackoffEnds
<1>4. ASSUME NEW w \in Workers,
             \/ ClaimRead(w) \/ HandlerRead(w) \/ HandlerRaises(w)
             \/ CommitResult(w) \/ FireTrigger(w) \/ Complete(w) \/ Fail(w)
             \/ Crash(w) \/ Restart(w) \/ DbError(w)
      PROVE  UNCHANGED attempts
  BY <1>4 DEF ClaimRead, HandlerRead, HandlerRaises, CommitResult, FireTrigger,
     Complete, Fail, Crash, Restart, DbError, rowVars
<1>5. ASSUME NEW b \in beats, Heartbeat(b) PROVE UNCHANGED attempts
  BY <1>5 DEF Heartbeat
<1>6. CASE UNCHANGED vars
  BY <1>6 DEF vars
<1> QED
  BY <1>1, <1>2, <1>3, <1>4, <1>5, <1>6 DEF Next, RunOnce

\* A live lease is never stolen: a take-over needs an expired one, even when
\* the candidate was read before the lease changed hands.
THEOREM LeaseSafe == SafetySpec => LeaseRespected
<1>1. IndInv /\ [Next]_vars =>
        [\A j \in Jobs :
           status[j] = "running" /\ lease[j] > 0 => attempts'[j] = attempts[j]]_vars
  <2> SUFFICES ASSUME IndInv, [Next]_vars, NEW j \in Jobs,
                      status[j] = "running", lease[j] > 0
               PROVE  attempts'[j] = attempts[j]
    OBVIOUS
  <2>1. CASE UNCHANGED attempts
    BY <2>1
  <2>2. ASSUME NEW w \in Workers, CasHolds(w), cur[w] \in Jobs,
               attempts' = [attempts EXCEPT ![cur[w]] = @ + 1]
        PROVE  attempts'[j] = attempts[j]
    <3>1. cur[w] # j
      BY <2>2 DEF CasHolds, IndInv, TypeInv, TypeOK, NoLease
    <3> QED BY <2>2, <3>1 DEF IndInv, TypeInv, TypeOK
  <2> QED BY <2>1, <2>2, AttemptsStep
<1> QED
  BY <1>1, Inductive, PTL DEF SafetySpec, LeaseRespected

\* How a step may change the statuses and effects: one accepted, reopened or
\* completed job, the exhausted jobs retired together, one attempt ended, or no
\* visible change.
LEMMA StatusStep ==
    ASSUME IndInv, [Next]_vars
    PROVE  \/ UNCHANGED <<status, effects>>
           \/ \E j \in Jobs :
                /\ status[j] = "absent" \/ status[j] = "failed"
                /\ status' = [status EXCEPT ![j] = "queued"]
                /\ UNCHANGED effects
           \/ \E j \in Jobs :
                /\ status[j] = "queued" \/ status[j] = "running"
                /\ \E s \in {"queued", "running", "failed"} :
                     status' = [status EXCEPT ![j] = s]
                /\ UNCHANGED effects
           \/ \E S \in SUBSET Jobs :
                /\ \A j \in S : status[j] = "running"
                /\ status' = [j \in Jobs |-> IF j \in S THEN "failed" ELSE status[j]]
                /\ UNCHANGED effects
           \/ \E j \in Jobs :
                /\ status[j] = "running"
                /\ status' = [status EXCEPT ![j] = "succeeded"]
                /\ effects' = [effects EXCEPT ![j] = @ + 1]
<1> DEFINE Quiet == UNCHANGED <<status, effects>>
           Opened(j) == /\ status[j] = "absent" \/ status[j] = "failed"
                        /\ status' = [status EXCEPT ![j] = "queued"]
                        /\ UNCHANGED effects
           Moved(j) == /\ status[j] = "queued" \/ status[j] = "running"
                       /\ \E s \in {"queued", "running", "failed"} :
                            status' = [status EXCEPT ![j] = s]
                       /\ UNCHANGED effects
           Retired(S) ==
             /\ \A j \in S : status[j] = "running"
             /\ status' = [j \in Jobs |-> IF j \in S THEN "failed" ELSE status[j]]
             /\ UNCHANGED effects
           Done(j) == /\ status[j] = "running"
                      /\ status' = [status EXCEPT ![j] = "succeeded"]
                      /\ effects' = [effects EXCEPT ![j] = @ + 1]
<1>1. ASSUME NEW j \in Jobs, Enqueue(j) PROVE Quiet \/ Opened(j)
  BY <1>1 DEF Enqueue
<1>2. ASSUME NEW j \in Jobs, RetryJob(j) PROVE Opened(j)
  BY <1>2 DEF RetryJob, domainVars
<1>3. ASSUME NEW j \in Jobs, LeaseTick(j) \/ BackoffEnds(j) PROVE Quiet
  BY <1>3 DEF LeaseTick, BackoffEnds, domainVars
<1>4. ASSUME NEW w \in Workers, ClaimRead(w) PROVE \E S \in SUBSET Jobs : Retired(S)
  <2>1. Exhausted \in SUBSET Jobs /\ \A j \in Exhausted : status[j] = "running"
    BY DEF Exhausted
  <2>2. Retired(Exhausted)
    BY <1>4, <2>1 DEF ClaimRead, domainVars
  <2> QED BY <2>1, <2>2
<1>5. ASSUME NEW w \in Workers, ClaimCas(w)
      PROVE  Quiet \/ \E j \in Jobs : Moved(j)
  <2>1. CASE CasHolds(w)
    <3>1. cur[w] \in Jobs /\ seen[w] \in {"queued", "running"}
      BY <1>5 DEF ClaimCas, IndInv, TypeInv, BusyHasJob, SafeInv, CandidateKnown
    <3>2. status[cur[w]] = "queued" \/ status[cur[w]] = "running"
      BY <2>1, <3>1 DEF CasHolds
    <3>3. status' = [status EXCEPT ![cur[w]] = "running"] /\ UNCHANGED effects
      BY <1>5, <2>1 DEF ClaimCas, domainVars
    <3>4. Moved(cur[w])
      BY <3>2, <3>3
    <3> QED BY <3>1, <3>4
  <2>2. CASE ~CasHolds(w)
    BY <1>5, <2>2 DEF ClaimCas, domainVars
  <2> QED BY <2>1, <2>2
<1>6. ASSUME NEW w \in Workers,
             \/ HandlerRead(w) \/ HandlerRaises(w) \/ FireTrigger(w)
             \/ Crash(w) \/ Restart(w) \/ DbError(w)
      PROVE  Quiet
  BY <1>6 DEF HandlerRead, HandlerRaises, FireTrigger, Crash, Restart, DbError,
     rowVars, domainVars
<1>7. ASSUME NEW w \in Workers, CommitResult(w)
      PROVE  Quiet \/ \E j \in Jobs : Done(j)
  <2>1. CASE Owned(w)
    <3>1. cur[w] \in Jobs /\ status[cur[w]] = "running"
      BY <1>7, <2>1 DEF CommitResult, Owned, OwnedBy, IndInv, TypeInv, BusyHasJob
    <3>2. Done(cur[w])
      BY <1>7, <2>1, <3>1 DEF CommitResult, Succeed
    <3> QED BY <3>1, <3>2
  <2>2. CASE ~Owned(w)
    BY <1>7, <2>2 DEF CommitResult
  <2> QED BY <2>1, <2>2
<1>8. ASSUME NEW w \in Workers, Complete(w) PROVE Quiet
  <2>1. ~Owned(w)
    BY <1>8 DEF Complete, Owned, OwnedBy, IndInv, SafeInv, CommitKnown
  <2> QED BY <1>8, <2>1 DEF Complete, domainVars
<1>9. ASSUME NEW w \in Workers, Fail(w) PROVE Quiet \/ \E j \in Jobs : Moved(j)
  <2>1. CASE Owned(w) /\ lease[cur[w]] > 0
    <3>1. cur[w] \in Jobs /\ status[cur[w]] = "running"
      BY <1>9, <2>1 DEF Fail, Owned, OwnedBy, IndInv, TypeInv, BusyHasJob
    <3>2. Moved(cur[w])
      BY <1>9, <2>1, <3>1 DEF Fail, FailStatus, domainVars
    <3> QED BY <3>1, <3>2
  <2>2. CASE ~(Owned(w) /\ lease[cur[w]] > 0)
    BY <1>9, <2>2 DEF Fail, domainVars
  <2> QED BY <2>1, <2>2
<1>10. ASSUME NEW b \in beats, Heartbeat(b) PROVE Quiet
  BY <1>10 DEF Heartbeat, domainVars
<1>11. ASSUME UNCHANGED vars PROVE Quiet
  BY <1>11 DEF vars
<1>12. \/ Quiet \/ \E S \in SUBSET Jobs : Retired(S)
       \/ \E j \in Jobs : Opened(j) \/ Moved(j) \/ Done(j)
  <2> HIDE DEF Quiet, Opened, Moved, Retired, Done
  <2>1. CASE \E j \in Jobs :
               Enqueue(j) \/ RetryJob(j) \/ LeaseTick(j) \/ BackoffEnds(j)
    BY <2>1, <1>1, <1>2, <1>3
  <2>2. CASE \E w \in Workers : RunOnce(w) \/ Crash(w) \/ Restart(w) \/ DbError(w)
    <3>1. PICK w \in Workers : RunOnce(w) \/ Crash(w) \/ Restart(w) \/ DbError(w)
      BY <2>2
    <3> QED BY <3>1, <1>4, <1>5, <1>6, <1>7, <1>8, <1>9 DEF RunOnce
  <2>3. CASE \E b \in beats : Heartbeat(b)
    BY <2>3, <1>10
  <2> QED BY <2>1, <2>2, <2>3, <1>11 DEF Next
<1> QED BY <1>12

\* Outcomes are stable and the fencing token grows.
THEOREM OutcomeKept == SafetySpec => OutcomeStable
<1>1. IndInv /\ [Next]_vars =>
        [\A j \in Jobs :
           /\ status[j] = "succeeded" => status'[j] = "succeeded"
           /\ status[j] = "failed" => status'[j] \in {"failed", "queued"}
           /\ attempts'[j] >= attempts[j]]_vars
  <2> SUFFICES ASSUME IndInv, [Next]_vars, NEW j \in Jobs
               PROVE  /\ status[j] = "succeeded" => status'[j] = "succeeded"
                      /\ status[j] = "failed" => status'[j] \in {"failed", "queued"}
                      /\ attempts'[j] >= attempts[j]
    OBVIOUS
  <2>1. status \in [Jobs -> Statuses] /\ attempts \in [Jobs -> Nat]
    BY DEF IndInv, TypeInv, TypeOK
  <2>2. /\ status[j] = "succeeded" => status'[j] = "succeeded"
        /\ status[j] = "failed" => status'[j] \in {"failed", "queued"}
    BY <2>1, StatusStep
  <2>3. attempts'[j] >= attempts[j]
    BY <2>1, AttemptsStep
  <2> QED BY <2>2, <2>3
<1> QED
  BY <1>1, Inductive, PTL DEF SafetySpec, OutcomeStable

-----------------------------------------------------------------------------
(* Refinement *)

\* The detailed queue implements the contract of a job: leases, attempts and
\* crashes are invisible to the caller.
THEOREM Refines == SafetySpec => ImplementsContract
<1>1. Init => Contract!Init
  BY DEF Init, Contract!Init, PhaseOf, Phase
<1>2. IndInv /\ [Next]_vars => [Contract!Next]_(Contract!vars)
  <2> SUFFICES ASSUME IndInv, [Next]_vars
               PROVE  Contract!Next \/ UNCHANGED <<PhaseOf, effects>>
    BY DEF Contract!vars
  <2>1. /\ status \in [Jobs -> Statuses] /\ effects \in [Jobs -> Nat]
    BY DEF IndInv, TypeInv, TypeOK
  <2>2. /\ Phase("absent") = "none" /\ Phase("queued") = "pending"
        /\ Phase("running") = "pending" /\ Phase("failed") = "failed"
        /\ Phase("succeeded") = "done"
    BY DEF Phase
  <2>3. CASE UNCHANGED <<status, effects>>
    BY <2>3 DEF PhaseOf
  <2>4. ASSUME NEW j \in Jobs, status[j] = "absent" \/ status[j] = "failed",
               status' = [status EXCEPT ![j] = "queued"], UNCHANGED effects
        PROVE  Contract!Next
    <3>1. PhaseOf' = [PhaseOf EXCEPT ![j] = "pending"]
      BY <2>1, <2>2, <2>4 DEF PhaseOf
    <3>2. PhaseOf[j] = "none" \/ PhaseOf[j] = "failed"
      BY <2>2, <2>4 DEF PhaseOf
    <3>3. Contract!Accept(j) \/ Contract!Reopen(j)
      BY <2>4, <3>1, <3>2 DEF Contract!Accept, Contract!Reopen
    <3> QED BY <3>3 DEF Contract!Next
  <2>5. ASSUME NEW j \in Jobs, status[j] = "queued" \/ status[j] = "running",
               NEW s \in {"queued", "running", "failed"},
               status' = [status EXCEPT ![j] = s], UNCHANGED effects
        PROVE  Contract!Next \/ UNCHANGED <<PhaseOf, effects>>
    <3>1. CASE s = "failed"
      <4>1. PhaseOf' = [k \in Jobs |-> IF k \in {j} THEN "failed" ELSE PhaseOf[k]]
        BY <2>1, <2>2, <2>5, <3>1 DEF PhaseOf
      <4>2. PhaseOf[j] = "pending"
        BY <2>2, <2>5 DEF PhaseOf
      <4>3. Contract!GiveUp({j})
        BY <2>5, <4>1, <4>2 DEF Contract!GiveUp
      <4> QED BY <4>3 DEF Contract!Next
    <3>2. CASE s # "failed"
      <4>1. PhaseOf' = PhaseOf
        BY <2>1, <2>2, <2>5, <3>2 DEF PhaseOf
      <4> QED BY <2>5, <4>1
    <3> QED BY <3>1, <3>2
  <2>6. ASSUME NEW S \in SUBSET Jobs, \A j \in S : status[j] = "running",
               status' = [j \in Jobs |-> IF j \in S THEN "failed" ELSE status[j]],
               UNCHANGED effects
        PROVE  Contract!Next
    <3>1. PhaseOf' = [k \in Jobs |-> IF k \in S THEN "failed" ELSE PhaseOf[k]]
      BY <2>1, <2>2, <2>6 DEF PhaseOf
    <3>2. \A j \in S : PhaseOf[j] = "pending"
      BY <2>2, <2>6 DEF PhaseOf
    <3>3. Contract!GiveUp(S)
      BY <2>6, <3>1, <3>2 DEF Contract!GiveUp
    <3> QED BY <3>3 DEF Contract!Next
  <2>7. ASSUME NEW j \in Jobs, status[j] = "running",
               status' = [status EXCEPT ![j] = "succeeded"],
               effects' = [effects EXCEPT ![j] = @ + 1]
        PROVE  Contract!Next
    <3>1. PhaseOf' = [PhaseOf EXCEPT ![j] = "done"]
      BY <2>1, <2>2, <2>7 DEF PhaseOf
    <3>2. PhaseOf[j] = "pending"
      BY <2>2, <2>7 DEF PhaseOf
    <3>3. Contract!TakeEffect(j)
      BY <2>7, <3>1, <3>2 DEF Contract!TakeEffect
    <3> QED BY <3>3 DEF Contract!Next
  <2> QED
    BY <2>3, <2>4, <2>5, <2>6, <2>7, StatusStep
<1> QED
  BY <1>1, <1>2, Inductive, PTL DEF SafetySpec, ImplementsContract, Contract!Spec

=============================================================================
