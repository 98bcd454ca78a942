------------------------- MODULE BatchIngestProofs -------------------------
(***************************************************************************)
(* The invariants of BatchIngest for any number of sheets, students,       *)
(* processes and threads, with slow calls, crashes, retries and database   *)
(* outages.                                                                *)
(*                                                                         *)
(* None is inductive alone.  A commit overwrites a response row unless the *)
(* flushed insert is known to be the only one for its student; the removal *)
(* of a file is harmless only because its row no longer names it, and a    *)
(* row that lost its file name never gets one back (IndInv).  A sheet has  *)
(* one response because it has one parse at a time, and none once it is    *)
(* settled (OnceInv).  A retry that overlaps an earlier parse ends that,   *)
(* and so does a request whose check has gone stale; the history variables *)
(* record both, and the lemmas on requests show what a request that is     *)
(* neither may rely on when it writes.                                     *)
(***************************************************************************)
EXTENDS BatchIngest, TLAPS

\* A working thread works on an item.
Busy == \A t \in Threads : pc[t] # "idle" => cur[t] \in Items

\* What a flushed and uncommitted result looks like.
CommitShape ==
    \A t \in Threads : pc[t] = "commit" =>
        /\ verdict[t] \in {"failed", "unmatched", "matched", "duplicate"}
        /\ verdict[t] = "matched" => who[t] \in Students /\ response[who[t]] = NoItem
        /\ verdict[t] = "duplicate" => who[t] \in Students /\ response[who[t]] \in Items

\* The unique key: no two open transactions insert a response of one student.
OneClaim ==
    \A t, u \in Threads :
        /\ pc[t] = "commit" /\ verdict[t] = "matched"
        /\ pc[u] = "commit" /\ verdict[u] = "matched"
        /\ who[t] = who[u]
        => t = u

\* The safety net only ever fails an item.
ClosingShape ==
    \A t \in Threads : pc[t] = "closing" => verdict[t] \in {"keep", "failed"}

\* A file about to be removed is no longer named by its row.
Removable == \A t \in Threads : pc[t] = "removing" => ~path[cur[t]]

\* Before the upload nothing is under way.
Fresh ==
    job = "absent" => /\ \A t \in Threads : pc[t] = "idle"
                      /\ \A p \in Processes, i \in Items : futures[p][i] = 0

\* Items come with the upload.
UploadedFirst == job = "absent" => \A i \in Items : status[i] = "absent"

\* A request that has passed its checks has a sheet, and a student to assign.
Asking ==
    \A r \in Requests : ask[r] # "none" =>
        /\ sheet[r] \in Items /\ job # "absent"
        /\ ask[r] = "assign" => pupil[r] \in Students

ThreadInv == Busy /\ CommitShape /\ OneClaim /\ ClosingShape /\ Removable /\ Fresh
DataInv == MatchedHasResponse /\ QueuedHasFile /\ UploadedFirst
IndInv == TypeOK /\ ThreadInv /\ Asking /\ DataInv

\* The initial state satisfies the invariant.
LEMMA InitHolds == Init => IndInv
  BY NullsAreFresh, BatchConstants
  DEF Init, IndInv, ThreadInv, DataInv, UploadedFirst, Asking, TypeOK, Busy, CommitShape, OneClaim, ClosingShape,
      Removable, Fresh, MatchedHasResponse, QueuedHasFile, Terminal, Phases

\* Every step of a request keeps the types.
LEMMA RequestTypes ==
    ASSUME TypeOK, Asking, NEW r \in Requests, Request(r) PROVE TypeOK'
<1> USE NullsAreFresh, BatchConstants DEF TypeOK, Terminal
<1>0. r[1] \in Processes
  BY DEF Requests
<1>1. ASSUME NEW a \in {"assign", "retry", "discard"}, NEW i \in Items,
             NEW s \in Students \cup {NoStudent}, Check(r, a, i, s)
      PROVE  TypeOK'
  BY <1>1 DEF Check, rowVars, threadVars
<1>2. ASSUME sheet[r] \in Items, Answer(r)
      PROVE  /\ crossed' \subseteq Items
             /\ ask' \in [Requests -> {"none", "assign", "retry", "discard"}]
             /\ sheet' \in [Requests -> Items \cup {NoItem}]
             /\ pupil' \in [Requests -> Students \cup {NoStudent}]
             /\ seen' \in [Requests -> BOOLEAN]
  BY <1>2 DEF Answer
<1>3. CASE AssignItem(r)
  <2>1. sheet[r] \in Items /\ pupil[r] \in Students /\ Answer(r)
    BY <1>3 DEF AssignItem, Asking
  <2>2. /\ status' \in [Items -> {"absent", "queued", "parsing"} \cup Terminal]
        /\ path' \in [Items -> BOOLEAN]
        /\ link' \in [Items -> Students \cup {NoStudent}]
        /\ response' \in [Students -> Items \cup {NoItem}]
        /\ disk' \in [Items -> BOOLEAN]
    BY <1>3, <2>1 DEF AssignItem, WriteResult, DeleteStates
  <2>3. QED
    BY <1>2, <1>3, <2>1, <2>2 DEF AssignItem, threadVars
<1>4. CASE RetryItem(r)
  <2>1. sheet[r] \in Items /\ Answer(r)
    BY <1>4 DEF RetryItem, Asking
  <2>2. /\ status' \in [Items -> {"absent", "queued", "parsing"} \cup Terminal]
        /\ futures' \in [Processes -> [Items -> Nat]] /\ overlapped' \subseteq Items
    BY <1>0, <1>4, <2>1 DEF RetryItem
  <2>3. QED
    BY <1>2, <1>4, <2>1, <2>2 DEF RetryItem, threadVars
<1>5. CASE DiscardItem(r)
  <2>1. sheet[r] \in Items /\ Answer(r)
    BY <1>5 DEF DiscardItem, Asking
  <2>2. /\ status' \in [Items -> {"absent", "queued", "parsing"} \cup Terminal]
        /\ path' \in [Items -> BOOLEAN] /\ disk' \in [Items -> BOOLEAN]
    BY <1>5, <2>1 DEF DiscardItem
  <2>3. QED
    BY <1>2, <1>5, <2>1, <2>2 DEF DiscardItem, threadVars
<1>6. CASE RollBack(r)
  <2>1. sheet[r] \in Items /\ Answer(r) /\ disk' \in [Items -> BOOLEAN]
    BY <1>6 DEF RollBack, Asking
  <2>2. QED
    BY <1>2, <1>6, <2>1 DEF RollBack, rowVars, threadVars
<1>7. QED
  BY <1>1, <1>3, <1>4, <1>5, <1>6 DEF Request

\* Every step keeps the types.
LEMMA TypeStep ==
    TypeOK /\ Busy /\ CommitShape /\ ClosingShape /\ Asking /\ [Next]_vars => TypeOK'
<1> SUFFICES ASSUME TypeOK, Busy, CommitShape, ClosingShape, Asking, [Next]_vars
            PROVE  TypeOK'
  OBVIOUS
<1> USE NullsAreFresh, BatchConstants DEF TypeOK, Terminal, Phases, countVars, rowVars, requestVars
<1>1. ASSUME NEW p \in Processes, Upload(p) PROVE TypeOK'
  BY <1>1 DEF Upload, threadVars
<1>2. ASSUME NEW p \in Processes, Crash(p) PROVE TypeOK'
  <2>1. hadPath' \in [Threads -> BOOLEAN] /\ settle' \in [Threads -> BOOLEAN]
    BY <1>2 DEF Crash
  <2>2. pc' \in [Threads -> Phases] /\ cur' \in [Threads -> Items \cup {NoItem}]
    BY <1>2 DEF Crash
  <2>3. verdict' \in [Threads -> {"keep"} \cup Terminal]
    BY <1>2 DEF Crash
  <2>4. who' \in [Threads -> Students \cup {NoStudent}]
    BY <1>2 DEF Crash
  <2>5. futures' \in [Processes -> [Items -> Nat]] /\ up' \subseteq Processes
    BY <1>2 DEF Crash
  <2>6. crashes' \in Nat /\ UNCHANGED <<status, path, payload, link, stale, job, response,
                                       disk, asked, overlapped, crossed>>
    BY <1>2 DEF Crash
  <2>7. /\ ask' \in [Requests -> {"none", "assign", "retry", "discard"}]
        /\ sheet' \in [Requests -> Items \cup {NoItem}]
        /\ pupil' \in [Requests -> Students \cup {NoStudent}]
        /\ seen' \in [Requests -> BOOLEAN]
    BY <1>2 DEF Crash
  <2>8. QED
    BY <2>1, <2>2, <2>3, <2>4, <2>5, <2>6, <2>7
<1>3. ASSUME NEW p \in Processes, Restart(p) PROVE TypeOK'
  BY <1>3 DEF Restart, threadVars, Interrupted
<1>4. ASSUME NEW t \in Threads, Parse(t) PROVE TypeOK'
  <2> t[1] \in Processes
    BY DEF Threads
  <2>1. CASE StartRead(t)
    <3>1. PICK i \in Items : /\ futures[t[1]][i] > 0
                             /\ futures' = [futures EXCEPT ![t[1]][i] = @ - 1]
                             /\ \/ /\ pc' = [pc EXCEPT ![t] = "starting"]
                                   /\ cur' = [cur EXCEPT ![t] = i]
                                   /\ hadPath' = [hadPath EXCEPT ![t] = path[i]]
                                \/ UNCHANGED <<pc, cur, hadPath>>
      BY <2>1 DEF StartRead
    <3>2. futures' \in [Processes -> [Items -> Nat]]
      BY <3>1
    <3>3. \/ pc' = [pc EXCEPT ![t] = "starting"] /\ cur' = [cur EXCEPT ![t] = i]
          \/ UNCHANGED <<pc, cur>>
      BY <3>1, Zenon
    <3>4. pc' \in [Threads -> Phases] /\ cur' \in [Threads -> Items \cup {NoItem}]
      <4>1. CASE UNCHANGED <<pc, cur>>
        BY <4>1
      <4>2. CASE pc' = [pc EXCEPT ![t] = "starting"] /\ cur' = [cur EXCEPT ![t] = i]
        BY <4>2
      <4>3. QED
        BY <3>3, <4>1, <4>2
    <3>5. hadPath' \in [Threads -> BOOLEAN]
      <4>1. hadPath' = [hadPath EXCEPT ![t] = path[i]] \/ hadPath' = hadPath
        BY <3>1, Zenon
      <4>2. QED
        BY <4>1
    <3>6. QED
      BY <2>1, <3>2, <3>4, <3>5 DEF StartRead
  <2>2. CASE StartWrite(t)
    BY <2>2 DEF StartWrite, Busy
  <2>3. CASE ReadFile(t)
    <3>1. pc' \in [Threads -> Phases]
      BY <2>3 DEF ReadFile, Failing
    <3>2. verdict' \in [Threads -> {"keep"} \cup Terminal]
      BY <2>3 DEF ReadFile, Failing
    <3>3. settle' \in [Threads -> BOOLEAN]
      BY <2>3 DEF ReadFile, Failing, Finishes
    <3>4. QED
      BY <2>3, <3>1, <3>2, <3>3 DEF ReadFile
  <2>4. CASE Persist(t)
    <3>1. settle' \in [Threads -> BOOLEAN]
      BY <2>4 DEF Persist, Finishes
    <3>2. who' \in [Threads -> Students \cup {NoStudent}]
      BY <2>4 DEF Persist
    <3>3. \E v \in Terminal : verdict' = [verdict EXCEPT ![t] = v]
      BY <2>4 DEF Persist, Terminal
    <3>4. verdict' \in [Threads -> {"keep"} \cup Terminal]
      BY <3>3
    <3>5. QED
      BY <2>4, <3>1, <3>2, <3>4 DEF Persist
  <2>5. CASE Commit(t)
    <3>1. cur[t] \in Items /\ verdict[t] \in Terminal
      BY <2>5 DEF Commit, Busy, CommitShape
    <3>2. status' \in [Items -> {"absent", "queued", "parsing"} \cup Terminal]
      BY <2>5, <3>1 DEF Commit, WriteResult
    <3>3. path' \in [Items -> BOOLEAN] /\ link' \in [Items -> Students \cup {NoStudent}]
      BY <2>5, <3>1 DEF Commit, WriteResult
    <3>4. response' \in [Students -> Items \cup {NoItem}]
      BY <2>5, <3>1 DEF Commit, WriteResult
    <3>5. payload' \in [Items -> BOOLEAN] /\ job' \in {"absent", "running", "done"}
      BY <2>5, <3>1 DEF Commit
    <3>6. /\ pc' \in [Threads -> Phases] /\ cur' \in [Threads -> Items \cup {NoItem}]
          /\ hadPath' \in [Threads -> BOOLEAN] /\ settle' \in [Threads -> BOOLEAN]
      <4>0. pc' = [pc EXCEPT ![t] = "removing"] \/ pc' = [pc EXCEPT ![t] = "idle"]
        BY <2>5, Zenon DEF Commit, Release
      <4>1. pc' \in [Threads -> Phases]
        BY <4>0
      <4>2. cur' \in [Threads -> Items \cup {NoItem}]
        <5>1. cur' = cur \/ cur' = [cur EXCEPT ![t] = NoItem]
          BY <2>5, Zenon DEF Commit, Release
        <5>2. QED
          BY <5>1
      <4>3. hadPath' \in [Threads -> BOOLEAN] /\ settle' \in [Threads -> BOOLEAN]
        <5>1. /\ hadPath' = hadPath \/ hadPath' = [hadPath EXCEPT ![t] = FALSE]
              /\ settle' = settle \/ settle' = [settle EXCEPT ![t] = FALSE]
          BY <2>5, Zenon DEF Commit, Release
        <5>2. QED
          BY <5>1
      <4>4. QED
        BY <4>1, <4>2, <4>3
    <3>7. /\ verdict' \in [Threads -> {"keep"} \cup Terminal]
          /\ who' \in [Threads -> Students \cup {NoStudent}]
      <4>1. /\ verdict' = verdict \/ verdict' = [verdict EXCEPT ![t] = "keep"]
            /\ who' = who \/ who' = [who EXCEPT ![t] = NoStudent]
        BY <2>5, Zenon DEF Commit, Release
      <4>2. QED
        BY <4>1
    <3>8. QED
      BY <2>5, <3>2, <3>3, <3>4, <3>5, <3>6, <3>7 DEF Commit
  <2>6. CASE CommitFailure(t)
    BY <2>6 DEF CommitFailure, WriteResult, Release, DeleteStates, Busy, ClosingShape
  <2>7. CASE RemoveFile(t)
    BY <2>7 DEF RemoveFile, Release
  <2>8. CASE Raise(t)
    BY <2>8 DEF Raise, Failing, Finishes
  <2>9. CASE NetFails(t)
    BY <2>9 DEF NetFails, Release
  <2>10. QED
    BY <1>4, <2>1, <2>2, <2>3, <2>4, <2>5, <2>6, <2>7, <2>8, <2>9 DEF Parse
<1>5. ASSUME NEW i \in Items, GrowStale(i) PROVE TypeOK'
  BY <1>5 DEF GrowStale, threadVars
<1>6. ASSUME NEW r \in Requests, Request(r) PROVE TypeOK'
  BY <1>6, RequestTypes
<1>7. CASE ListBatchJobs
  BY <1>7 DEF ListBatchJobs, Watched, WatchedJob, threadVars
<1>8. CASE GetBatchJob
  BY <1>8 DEF GetBatchJob, Watched, WatchedJob, threadVars
<1>9. CASE UNCHANGED vars
  BY <1>9 DEF vars
<1>10. QED
  BY <1>1, <1>2, <1>3, <1>4, <1>5, <1>6, <1>7, <1>8, <1>9 DEF Next

\* Every step keeps what is known of the requests.
LEMMA AskingStep == IndInv /\ [Next]_vars => Asking'
<1> SUFFICES ASSUME IndInv, [Next]_vars PROVE Asking'
  OBVIOUS
<1> USE DEF IndInv, Asking
<1>1. ASSUME UNCHANGED <<ask, sheet, pupil>>, job # "absent" => job' # "absent"
      PROVE  Asking'
  BY <1>1
<1>2. ASSUME NEW p \in Processes, Upload(p) \/ Restart(p) PROVE Asking'
  BY <1>1, <1>2 DEF Upload, Restart, requestVars
<1>3. ASSUME NEW p \in Processes, Crash(p) PROVE Asking'
  BY <1>3 DEF Crash, rowVars, TypeOK
<1>4. ASSUME NEW t \in Threads, Parse(t) PROVE Asking'
  BY <1>1, <1>4 DEF Parse, StartRead, StartWrite, ReadFile, Persist, Commit, CommitFailure,
                    RemoveFile, Raise, NetFails, requestVars, rowVars
<1>5. ASSUME NEW i \in Items, GrowStale(i) PROVE Asking'
  BY <1>1, <1>5 DEF GrowStale, requestVars
<1>6. ASSUME NEW r \in Requests, Request(r) PROVE Asking'
  <2>1. CASE AssignItem(r) \/ RetryItem(r) \/ DiscardItem(r) \/ RollBack(r)
    <3>1. Answer(r) /\ job' = job
      BY <2>1 DEF AssignItem, RetryItem, DiscardItem, RollBack, rowVars
    <3>2. QED
      BY <3>1 DEF Answer, TypeOK
  <2>2. ASSUME NEW a \in {"assign", "retry", "discard"}, NEW i \in Items,
               NEW s \in Students \cup {NoStudent}, a = "assign" => s \in Students,
               Check(r, a, i, s)
        PROVE  Asking'
    <3>1. job # "absent" /\ job' = job
      BY <2>2 DEF Check, Allowed, CanAssign, CanRetry, CanDiscard, DataInv, UploadedFirst,
                  rowVars
    <3>2. QED
      BY <2>2, <3>1 DEF Check, TypeOK
  <2>3. QED
    BY <1>6, <2>1, <2>2 DEF Request
<1>7. CASE ListBatchJobs \/ GetBatchJob
  BY <1>1, <1>7 DEF ListBatchJobs, GetBatchJob, WatchedJob, requestVars
<1>8. CASE UNCHANGED vars
  BY <1>1, <1>8 DEF vars
<1>9. QED
  BY <1>2, <1>3, <1>4, <1>5, <1>6, <1>7, <1>8 DEF Next

\* A step that leaves the threads, the responses, the job and the futures alone
\* and gives no row its file name back keeps what is known of the threads.
LEMMA ThreadsUntouched ==
    ASSUME ThreadInv, UNCHANGED threadVars, UNCHANGED response,
           \A i \in Items : path'[i] => path[i],
           job' = "absent" => job = "absent" /\ UNCHANGED futures
    PROVE  ThreadInv'
<1>1. Busy' /\ CommitShape' /\ OneClaim' /\ ClosingShape'
  BY DEF ThreadInv, threadVars, Busy, CommitShape, OneClaim, ClosingShape
<1>2. Removable'
  BY DEF ThreadInv, threadVars, Busy, Removable
<1>3. Fresh'
  BY DEF ThreadInv, threadVars, Fresh
<1>4. QED
  BY <1>1, <1>2, <1>3 DEF ThreadInv

\* Every step of a thread keeps what is known of the threads.
LEMMA ParseThreads ==
    ASSUME IndInv, NEW t \in Threads, Parse(t) PROVE ThreadInv'
<1> USE NullsAreFresh DEF IndInv, TypeOK, ThreadInv, rowVars
<1>1. Fresh'
  <2>1. job # "absent"
    BY DEF Parse, StartRead, StartWrite, ReadFile, Persist, Commit, CommitFailure,
           RemoveFile, Raise, NetFails, Fresh, Threads
  <2>2. job' # "absent"
    BY <2>1 DEF Parse, StartRead, StartWrite, ReadFile, Persist, Commit,
                CommitFailure, RemoveFile, Raise, NetFails
  <2>3. QED
    BY <2>2 DEF Fresh
<1>2. CASE StartRead(t)
  <2>1. \/ UNCHANGED <<pc, cur>>
        \/ /\ pc' = [pc EXCEPT ![t] = "starting"]
           /\ \E i \in Items : cur' = [cur EXCEPT ![t] = i]
    BY <1>2, Zenon DEF StartRead
  <2>2. UNCHANGED <<verdict, who, response, path>>
    BY <1>2 DEF StartRead
  <2>3. Busy'
    BY <2>1 DEF Busy
  <2>4. CommitShape' /\ OneClaim' /\ ClosingShape'
    BY <2>1, <2>2 DEF CommitShape, OneClaim, ClosingShape
  <2>5. Removable'
    BY <2>1, <2>2 DEF Removable
  <2>6. QED
    BY <1>1, <2>3, <2>4, <2>5
<1>3. CASE StartWrite(t)
  <2>1. Busy' /\ CommitShape' /\ OneClaim' /\ ClosingShape' /\ Removable'
    BY <1>3 DEF StartWrite, Busy, CommitShape, OneClaim, ClosingShape, Removable
  <2>2. QED
    BY <1>1, <2>1
<1>4. CASE ReadFile(t)
  <2>1. UNCHANGED <<cur, who, response, path>>
    BY <1>4 DEF ReadFile
  <2>2. \/ pc' = [pc EXCEPT ![t] = "parsing"] /\ UNCHANGED verdict
        \/ /\ pc' = [pc EXCEPT ![t] = "closing"]
           /\ \/ verdict' = [verdict EXCEPT ![t] = "keep"]
              \/ verdict' = [verdict EXCEPT ![t] = "failed"]
    BY <1>4 DEF ReadFile, Failing
  <2>3. Busy' /\ Removable'
    BY <1>4, <2>1, <2>2 DEF ReadFile, Busy, Removable
  <2>4. CommitShape'
    BY <2>1, <2>2 DEF CommitShape
  <2>5. ClosingShape'
    BY <2>1, <2>2 DEF ClosingShape
  <2>6. OneClaim'
    BY <2>1, <2>2 DEF OneClaim
  <2>7. QED
    BY <1>1, <2>3, <2>4, <2>5, <2>6
<1>5. CASE Persist(t)
  <2>1. Busy' /\ ClosingShape' /\ Removable'
    BY <1>5 DEF Persist, Busy, ClosingShape, Removable
  <2>2. CommitShape'
    BY <1>5 DEF Persist, CommitShape
  <2>3. OneClaim'
    BY <1>5 DEF Persist, OneClaim, Unclaimed
  <2>4. QED
    BY <1>1, <2>1, <2>2, <2>3
<1>6. CASE Commit(t)
  <2>1. \/ pc' = [pc EXCEPT ![t] = "removing"] /\ UNCHANGED <<cur, verdict, who>>
        \/ /\ pc' = [pc EXCEPT ![t] = "idle"]
           /\ cur' = [cur EXCEPT ![t] = NoItem]
           /\ verdict' = [verdict EXCEPT ![t] = "keep"]
           /\ who' = [who EXCEPT ![t] = NoStudent]
    BY <1>6 DEF Commit, Release
  <2>2. Busy'
    BY <1>6, <2>1 DEF Commit, Busy
  <2>3. ClosingShape'
    BY <2>1 DEF ClosingShape
  <2>4. OneClaim'
    BY <2>1 DEF OneClaim
  <2>5. CommitShape'
    BY <1>6 DEF Commit, Release, WriteResult, CommitShape, OneClaim
  <2>6. Removable'
    BY <1>6 DEF Commit, Release, WriteResult, Removable, Busy
  <2>7. QED
    BY <1>1, <2>2, <2>3, <2>4, <2>5, <2>6
<1>7. CASE CommitFailure(t)
  <2>1. UNCHANGED response /\ UNCHANGED path
    BY <1>7 DEF CommitFailure, WriteResult, ClosingShape, DeleteStates
  <2>2. Busy' /\ CommitShape' /\ OneClaim' /\ ClosingShape' /\ Removable'
    BY <1>7, <2>1 DEF CommitFailure, Release, Busy, CommitShape, OneClaim,
                      ClosingShape, Removable
  <2>3. QED
    BY <1>1, <2>2
<1>8. CASE RemoveFile(t)
  <2>1. Busy' /\ CommitShape' /\ OneClaim' /\ ClosingShape' /\ Removable'
    BY <1>8 DEF RemoveFile, Release, Busy, CommitShape, OneClaim, ClosingShape, Removable
  <2>2. QED
    BY <1>1, <2>1
<1>9. CASE Raise(t)
  <2>1. Busy' /\ CommitShape' /\ OneClaim' /\ ClosingShape' /\ Removable'
    BY <1>9 DEF Raise, Failing, Busy, CommitShape, OneClaim, ClosingShape, Removable
  <2>2. QED
    BY <1>1, <2>1
<1>10. CASE NetFails(t)
  <2>1. Busy' /\ CommitShape' /\ OneClaim' /\ ClosingShape' /\ Removable'
    BY <1>10 DEF NetFails, Release, Busy, CommitShape, OneClaim, ClosingShape, Removable
  <2>2. QED
    BY <1>1, <2>1
<1>11. QED
  BY <1>2, <1>3, <1>4, <1>5, <1>6, <1>7, <1>8, <1>9, <1>10 DEF Parse

\* So does every step of a request.
LEMMA RequestThreads ==
    ASSUME IndInv, NEW r \in Requests, Request(r) PROVE ThreadInv'
<1> USE NullsAreFresh DEF IndInv
<1>1. CASE AssignItem(r)
  <2>1. PICK i \in Items, s \in Students : i = sheet[r] /\ s = pupil[r]
    BY <1>1 DEF AssignItem, Asking
  <2>2. PICK v \in {"matched", "duplicate"} :
          /\ v = "matched" => response[s] = NoItem
          /\ WriteResult(i, v, s)
    BY <1>1, <2>1 DEF AssignItem
  <2>3. UNCHANGED threadVars /\ UNCHANGED <<job, futures>> /\ Unclaimed(s)
    BY <1>1, <2>1 DEF AssignItem
  <2>4. CommitShape'
    BY <2>2, <2>3 DEF WriteResult, Unclaimed, threadVars, ThreadInv, TypeOK, CommitShape
  <2>5. Removable'
    BY <2>2, <2>3 DEF WriteResult, threadVars, ThreadInv, TypeOK, Removable, Busy
  <2>6. Busy' /\ OneClaim' /\ ClosingShape' /\ Fresh'
    BY <2>3 DEF threadVars, ThreadInv, Busy, OneClaim, ClosingShape, Fresh
  <2>7. QED
    BY <2>4, <2>5, <2>6 DEF ThreadInv
<1>2. CASE RetryItem(r)
  <2>1. job # "absent"
    BY <1>2 DEF RetryItem, Asking
  <2>2. QED
    BY <1>2, <2>1, ThreadsUntouched DEF RetryItem
<1>3. CASE DiscardItem(r)
  BY <1>3, ThreadsUntouched DEF DiscardItem, TypeOK
<1>4. CASE RollBack(r)
  BY <1>4, ThreadsUntouched DEF RollBack, rowVars
<1>5. ASSUME NEW a, NEW i, NEW s, Check(r, a, i, s) PROVE ThreadInv'
  BY <1>5, ThreadsUntouched DEF Check, rowVars
<1>6. QED
  BY <1>1, <1>2, <1>3, <1>4, <1>5 DEF Request

\* Every step keeps what is known of the threads.
LEMMA ThreadStep == IndInv /\ [Next]_vars => ThreadInv'
<1> SUFFICES ASSUME IndInv, [Next]_vars PROVE ThreadInv'
  OBVIOUS
<1> TypeOK /\ ThreadInv
  BY DEF IndInv
<1> USE NullsAreFresh
<1>1. ASSUME NEW p \in Processes, Upload(p) PROVE ThreadInv'
  BY <1>1 DEF Upload, ThreadInv, threadVars, Fresh, Busy, CommitShape, OneClaim,
              ClosingShape, Removable
<1>2. ASSUME NEW p \in Processes, Crash(p) PROVE ThreadInv'
  <2>1. \A t \in Threads :
          \/ pc'[t] = "idle"
          \/ /\ pc'[t] = pc[t] /\ cur'[t] = cur[t]
             /\ verdict'[t] = verdict[t] /\ who'[t] = who[t]
    BY <1>2 DEF Crash
  <2>2. UNCHANGED <<path, response, job>>
    BY <1>2 DEF Crash, rowVars
  <2>3. Busy' /\ ClosingShape' /\ Removable'
    BY <2>1, <2>2 DEF ThreadInv, Busy, ClosingShape, Removable
  <2>4. CommitShape'
    BY <2>1, <2>2 DEF ThreadInv, CommitShape
  <2>5. OneClaim'
    BY <2>1 DEF ThreadInv, OneClaim
  <2>6. Fresh'
    BY <1>2, <2>1, <2>2 DEF Crash, TypeOK, ThreadInv, Fresh
  <2>7. QED
    BY <2>3, <2>4, <2>5, <2>6 DEF ThreadInv
<1>3. ASSUME NEW p \in Processes, Restart(p) PROVE ThreadInv'
  BY <1>3, ThreadsUntouched DEF Restart
<1>4. ASSUME NEW t \in Threads, Parse(t) PROVE ThreadInv'
  BY <1>4, ParseThreads
<1>5. ASSUME NEW i \in Items, GrowStale(i) PROVE ThreadInv'
  BY <1>5, ThreadsUntouched DEF GrowStale
<1>6. ASSUME NEW r \in Requests, Request(r) PROVE ThreadInv'
  BY <1>6, RequestThreads
<1>7. CASE ListBatchJobs
  BY <1>7, ThreadsUntouched DEF ListBatchJobs, WatchedJob
<1>8. CASE GetBatchJob
  BY <1>8, ThreadsUntouched DEF GetBatchJob, WatchedJob
<1>9. CASE UNCHANGED vars
  BY <1>9, ThreadsUntouched DEF vars, threadVars
<1>10. QED
  BY <1>1, <1>2, <1>3, <1>4, <1>5, <1>6, <1>7, <1>8, <1>9 DEF Next

\* A step that matches and queues nothing, and takes no queued item's file,
\* keeps the data invariant.
LEMMA DataKept ==
    ASSUME DataInv, UNCHANGED <<link, response>>, crossed \subseteq crossed',
           \A i \in Items : status'[i] = "matched" => status[i] = "matched",
           \A i \in Items \ crossed' : status'[i] = "queued" /\ status[i] = "queued"
                              => (path[i] /\ disk[i] => path'[i] /\ disk'[i]),
           \A i \in Items \ crossed' : status'[i] = "queued" => status[i] = "queued",
           job' = "absent" => job = "absent" /\ UNCHANGED status
    PROVE  DataInv'
  BY DEF DataInv, MatchedHasResponse, QueuedHasFile, UploadedFirst

\* Every step of a thread keeps the data invariant.
LEMMA ParseData == ASSUME IndInv, NEW t \in Threads, Parse(t) PROVE DataInv'
<1> TypeOK /\ ThreadInv /\ DataInv
  BY DEF IndInv
<1> USE NullsAreFresh DEF rowVars, countVars
<1>1. CASE StartRead(t)
  BY <1>1, DataKept DEF StartRead
<1>2. CASE StartWrite(t)
  BY <1>2, DataKept DEF StartWrite, TypeOK
<1>3. CASE ReadFile(t)
  BY <1>3, DataKept DEF ReadFile
<1>4. CASE Persist(t)
  BY <1>4, DataKept DEF Persist
<1>5. CASE Commit(t)
  <2> DEFINE i == cur[t]
  <2>1. /\ i \in Items
        /\ verdict[t] \in {"failed", "unmatched", "matched", "duplicate"}
        /\ verdict[t] = "matched" => who[t] \in Students /\ response[who[t]] = NoItem
    BY <1>5 DEF Commit, ThreadInv, Busy, CommitShape
  <2>2. status' = [status EXCEPT ![i] = verdict[t]]
    BY <1>5, <2>1 DEF Commit, WriteResult
  <2>3. \A k \in Items \ {i} : path'[k] = path[k] /\ link'[k] = link[k]
    BY <1>5, <2>1 DEF Commit, WriteResult, TypeOK
  <2>4. QueuedHasFile'
    BY <1>5, <2>1, <2>2, <2>3 DEF Commit, TypeOK, DataInv, QueuedHasFile
  <2>5. \A k \in Items \ {i} : status'[k] = "matched" =>
           link'[k] \in Students /\ response[link'[k]] = k
    BY <2>2, <2>3 DEF TypeOK, DataInv, MatchedHasResponse
  <2>6. \A s \in Students, k \in Items : response[s] = k => response'[s] = k
    BY <1>5, <2>1 DEF Commit, WriteResult, TypeOK
  <2>7. verdict[t] = "matched" => link'[i] = who[t] /\ response'[who[t]] = i
    BY <1>5, <2>1 DEF Commit, WriteResult, TypeOK
  <2>8. MatchedHasResponse'
    BY <2>1, <2>2, <2>5, <2>6, <2>7 DEF TypeOK, MatchedHasResponse
  <2>9. UploadedFirst'
    BY <1>5 DEF Commit, ThreadInv, Fresh, UploadedFirst, TypeOK
  <2>10. QED
    BY <2>4, <2>8, <2>9 DEF DataInv
<1>6. CASE CommitFailure(t)
  <2>1. cur[t] \in Items /\ verdict[t] \in {"keep", "failed"}
    BY <1>6 DEF CommitFailure, ThreadInv, Busy, ClosingShape
  <2>2. UNCHANGED <<path, link, response, disk, crossed>>
    BY <1>6, <2>1 DEF CommitFailure, WriteResult, DeleteStates, countVars
  <2>3. status' = status \/ status' = [status EXCEPT ![cur[t]] = "failed"]
    BY <1>6, <2>1 DEF CommitFailure, WriteResult
  <2>4. job' # "absent"
    BY <1>6 DEF CommitFailure, ThreadInv, Fresh
  <2>5. QED
    BY <2>1, <2>2, <2>3, <2>4, DataKept DEF TypeOK
<1>7. CASE RemoveFile(t)
  <2>1. cur[t] \in Items /\ (cur[t] \notin crossed => status[cur[t]] # "queued")
    BY <1>7 DEF RemoveFile, ThreadInv, Busy, Removable, DataInv, QueuedHasFile
  <2>2. QED
    BY <1>7, <2>1, DataKept DEF RemoveFile, TypeOK
<1>8. CASE Raise(t)
  BY <1>8, DataKept DEF Raise
<1>9. CASE NetFails(t)
  BY <1>9, DataKept DEF NetFails
<1>10. QED
  BY <1>1, <1>2, <1>3, <1>4, <1>5, <1>6, <1>7, <1>8, <1>9 DEF Parse

\* Every step of a request keeps the data invariant.
LEMMA RequestData == ASSUME IndInv, NEW r \in Requests, Request(r) PROVE DataInv'
<1> TypeOK /\ ThreadInv /\ DataInv /\ Asking
  BY DEF IndInv
<1> USE NullsAreFresh DEF rowVars, countVars
<1>1. CASE AssignItem(r)
  <2>1. PICK i \in Items, s \in Students : i = sheet[r] /\ s = pupil[r]
    BY <1>1 DEF AssignItem, Asking
  <2>2. PICK v \in {"matched", "duplicate"} :
          /\ v = "matched" => response[s] = NoItem
          /\ WriteResult(i, v, s)
    BY <1>1, <2>1 DEF AssignItem
  <2>3. job # "absent" /\ job' = job /\ crossed \subseteq crossed'
        /\ disk' = [disk EXCEPT ![i] = IF seen[r] THEN FALSE ELSE @]
    BY <1>1, <2>1 DEF AssignItem, Asking, Answer
  <2>4. \A k \in Items \ {i} : /\ status'[k] = status[k] /\ path'[k] = path[k]
                                /\ link'[k] = link[k] /\ disk'[k] = disk[k]
    BY <2>2, <2>3 DEF WriteResult, TypeOK
  <2>5. /\ status'[i] \in {"matched", "duplicate"} /\ link'[i] = s
        /\ status'[i] = "matched" => response'[s] = i
    BY <2>2 DEF WriteResult, TypeOK
  <2>6. \A z \in Students, k \in Items : response[z] = k => response'[z] = k
    BY <2>2 DEF WriteResult, TypeOK
  <2>7. MatchedHasResponse'
    BY <2>4, <2>5, <2>6 DEF DataInv, MatchedHasResponse
  <2>8. QueuedHasFile'
    BY <2>3, <2>4, <2>5 DEF DataInv, QueuedHasFile
  <2>9. QED
    BY <2>3, <2>7, <2>8 DEF DataInv, UploadedFirst
<1>2. CASE RetryItem(r)
  <2>1. PICK i \in Items : i = sheet[r]
    BY <1>2 DEF RetryItem, Asking
  <2>2. /\ job # "absent" /\ job' = job /\ status' = [status EXCEPT ![i] = "queued"]
        /\ UNCHANGED <<path, disk, link, response>>
        /\ crossed' = IF Allowed("retry", i) THEN crossed ELSE crossed \cup {i}
    BY <1>2, <2>1 DEF RetryItem, Asking, Answer
  <2>3. i \notin crossed' => path[i] /\ disk[i]
    BY <2>2 DEF Allowed, CanRetry
  <2>4. QED
    BY <2>2, <2>3 DEF TypeOK, DataInv, MatchedHasResponse, QueuedHasFile, UploadedFirst
<1>3. CASE DiscardItem(r)
  <2>1. PICK i \in Items : i = sheet[r]
    BY <1>3 DEF DiscardItem, Asking
  <2>2. /\ job # "absent" /\ job' = job /\ status' = [status EXCEPT ![i] = "discarded"]
        /\ \A k \in Items \ {i} : path'[k] = path[k] /\ disk'[k] = disk[k]
        /\ UNCHANGED <<link, response>> /\ crossed \subseteq crossed'
    BY <1>3, <2>1 DEF DiscardItem, Asking, Answer, TypeOK
  <2>3. QED
    BY <2>2, DataKept DEF TypeOK
<1>4. CASE RollBack(r)
  <2>1. PICK i \in Items : i = sheet[r]
    BY <1>4 DEF RollBack, Asking
  <2>2. /\ \/ UNCHANGED disk
           \/ ask[r] # "retry" /\ disk' = [disk EXCEPT ![i] = FALSE]
        /\ UNCHANGED <<job, status, path, link, response>>
        /\ crossed' = IF Allowed(ask[r], i) THEN crossed ELSE crossed \cup {i}
        /\ ask[r] # "none"
    BY <1>4, <2>1 DEF RollBack, Answer
  <2>3. ask[r] # "retry" /\ i \notin crossed' => status[i] # "queued"
    BY <2>2 DEF Allowed, CanAssign, CanDiscard
  <2>4. \A k \in Items \ crossed' : status[k] = "queued" => (disk[k] => disk'[k])
    BY <2>2, <2>3 DEF TypeOK
  <2>5. QED
    BY <2>2, <2>4, DataKept
<1>5. ASSUME NEW a, NEW i, NEW s, Check(r, a, i, s) PROVE DataInv'
  BY <1>5, DataKept DEF Check
<1>6. QED
  BY <1>1, <1>2, <1>3, <1>4, <1>5 DEF Request

\* Every step keeps the data invariant.
LEMMA DataStep == IndInv /\ [Next]_vars => DataInv'
<1> SUFFICES ASSUME IndInv, [Next]_vars PROVE DataInv'
  OBVIOUS
<1> TypeOK /\ ThreadInv /\ DataInv
  BY DEF IndInv
<1> USE NullsAreFresh DEF rowVars, countVars
<1>1. ASSUME NEW p \in Processes, Upload(p) PROVE DataInv'
  BY <1>1 DEF Upload, DataInv, MatchedHasResponse, QueuedHasFile, UploadedFirst
<1>2. ASSUME NEW p \in Processes, Crash(p) PROVE DataInv'
  BY <1>2, DataKept DEF Crash
<1>3. ASSUME NEW p \in Processes, Restart(p) PROVE DataInv'
  <2>1. \A i \in Items : disk[i] /\ path[i] => disk'[i]
    BY <1>3 DEF Restart, Orphans
  <2>2. \A i \in Items : status'[i] = status[i] \/ status'[i] = "failed"
    BY <1>3 DEF Restart
  <2>3. job' = "absent" => job = "absent" /\ UNCHANGED status
    BY <1>3 DEF Restart, Interrupted, TypeOK
  <2>4. QED
    BY <1>3, <2>1, <2>2, <2>3, DataKept DEF Restart
<1>4. ASSUME NEW t \in Threads, Parse(t) PROVE DataInv'
  BY <1>4, ParseData
<1>5. ASSUME NEW i \in Items, GrowStale(i) PROVE DataInv'
  BY <1>5, DataKept DEF GrowStale
<1>6. ASSUME NEW r \in Requests, Request(r) PROVE DataInv'
  BY <1>6, RequestData
<1>7. CASE ListBatchJobs
  <2>1. job # "absent"
    BY <1>7 DEF ListBatchJobs, Overdue, DataInv, UploadedFirst
  <2>2. QED
    BY <1>7, <2>1, DataKept DEF ListBatchJobs, Watched, WatchedJob
<1>8. CASE GetBatchJob
  BY <1>8, DataKept DEF GetBatchJob, Watched, WatchedJob
<1>9. CASE UNCHANGED vars
  BY <1>9, DataKept DEF vars
<1>10. QED
  BY <1>1, <1>2, <1>3, <1>4, <1>5, <1>6, <1>7, <1>8, <1>9 DEF Next

\* The invariant is inductive.
THEOREM Inductive == SafetySpec => []IndInv
<1>1. IndInv /\ [Next]_vars => IndInv'
  BY TypeStep, ThreadStep, AskingStep, DataStep DEF IndInv, ThreadInv
<1>2. QED
  BY <1>1, InitHolds, PTL DEF SafetySpec

\* Columns and thread-local variables keep their types.
THEOREM TypeCorrect == SafetySpec => []TypeOK
<1>1. IndInv => TypeOK
  BY DEF IndInv
<1>2. QED
  BY <1>1, Inductive, PTL

\* A matched item's response was made from its own sheet, whatever stale runs,
\* crashes, replicas and teacher's requests do.
THEOREM MatchedSound == SafetySpec => []MatchedHasResponse
<1>1. IndInv => MatchedHasResponse
  BY DEF IndInv, DataInv
<1>2. QED
  BY <1>1, Inductive, PTL

\* A queued item's file is there to be parsed.
THEOREM QueuedParsable == SafetySpec => []QueuedHasFile
<1>1. IndInv => QueuedHasFile
  BY DEF IndInv, DataInv
<1>2. QED
  BY <1>1, Inductive, PTL

-----------------------------------------------------------------------------
(* One sheet, one response. *)

\* Thread t is parsing sheet i.
Runs(t, i) == cur[t] = i /\ pc[t] \notin {"idle", "removing"}

\* An undisturbed sheet has one parse: waiting in one pool, or run
\* by one thread.
OneRun ==
    \A i \in Items \ Disturbed :
        /\ \A t, u \in Threads : Runs(t, i) /\ Runs(u, i) => t = u
        /\ \A p, q \in Processes : futures[p][i] > 0 /\ futures[q][i] > 0 => p = q
        /\ \A p \in Processes : futures[p][i] <= 1
        /\ \A t \in Threads, p \in Processes : Runs(t, i) => futures[p][i] = 0

\* What a finished parse or the teacher has decided, no parse will change.
Settled ==
    \A i \in Items \ Disturbed : status[i] \in {"matched", "unmatched", "duplicate"} =>
        /\ \A t \in Threads : ~Runs(t, i)
        /\ \A p \in Processes : futures[p][i] = 0

\* A sheet a response was made from is matched, and stays so.
MadeFromMatched ==
    \A i \in Items \ Disturbed, s \in Students : response[s] = i => status[i] = "matched"

OnceInv ==
    OneRun /\ Settled /\ MadeFromMatched /\ OneSheetOneResponse /\ DuplicateMeansOther

\* Nothing has been parsed at first.
LEMMA OnceInit == Init => OnceInv
  BY NullsAreFresh DEF Init, OnceInv, OneRun, Settled, MadeFromMatched, Runs,
     OneSheetOneResponse, DuplicateMeansOther

\* A step that begins no parse, makes no response and settles no sheet.
LEMMA OnceKept ==
    ASSUME IndInv, OnceInv, UNCHANGED <<response, link>>,
           \A i \in Items : i \notin Disturbed' => i \notin Disturbed,
           \A t \in Threads, i \in Items : Runs(t, i)' => Runs(t, i),
           \A p \in Processes, i \in Items :
               futures'[p][i] = futures[p][i] \/ futures'[p][i] = 0,
           \A i \in Items : i \notin Disturbed' =>
               status'[i] = status[i] \/ (status[i] # "matched" /\ status'[i] \in
                                          {"queued", "parsing", "failed", "discarded"})
    PROVE  OnceInv'
<1>0. \A p \in Processes, i \in Items : futures[p][i] \in Nat
  BY DEF IndInv, TypeOK
<1>1. OneRun'
  BY <1>0 DEF OnceInv, OneRun
<1>2. Settled'
  BY DEF OnceInv, Settled
<1>3. MadeFromMatched'
  BY DEF OnceInv, MadeFromMatched
<1>4. OneSheetOneResponse' /\ DuplicateMeansOther'
  BY DEF OnceInv, OneSheetOneResponse, DuplicateMeansOther
<1>5. QED
  BY <1>1, <1>2, <1>3, <1>4 DEF OnceInv

\* A sheet that is being parsed has no response yet.
LEMMA RunUnmade ==
    ASSUME OnceInv, NEW t \in Threads, NEW i \in Items \ Disturbed, Runs(t, i)
    PROVE  status[i] \notin {"matched", "unmatched", "duplicate"}
           /\ \A s \in Students : response[s] # i
  BY DEF OnceInv, Settled, MadeFromMatched

\* The steps of a thread between the start of a parse and its end, and the
\* steps that give a parse up.
LEMMA ParseOnce ==
    ASSUME IndInv, OnceInv, NEW t \in Threads,
           StartWrite(t) \/ ReadFile(t) \/ Persist(t) \/ CommitFailure(t) \/ RemoveFile(t)
             \/ Raise(t) \/ NetFails(t)
    PROVE  OnceInv'
<1> USE NullsAreFresh DEF IndInv, rowVars, countVars
<1>1. UNCHANGED <<response, link, overlapped, crossed, futures>>
  <2>1. CASE CommitFailure(t)
    BY <2>1 DEF CommitFailure, WriteResult, ThreadInv, ClosingShape
  <2>2. QED
    BY <2>1 DEF StartWrite, ReadFile, Persist, RemoveFile, Raise, NetFails
<1>2. pc[t] # "idle" /\ cur[t] \in Items
  BY DEF StartWrite, ReadFile, Persist, CommitFailure, RemoveFile, Raise, NetFails, ThreadInv, Busy
<1>3. \A u \in Threads, i \in Items : Runs(u, i)' => Runs(u, i)
  <2>1. \A u \in Threads : u # t => pc'[u] = pc[u] /\ cur'[u] = cur[u]
    BY DEF StartWrite, ReadFile, Persist, CommitFailure, RemoveFile, Raise, NetFails, Release,
           Failing, TypeOK
  <2>2. CASE RemoveFile(t)
    BY <2>1, <2>2 DEF RemoveFile, Release, TypeOK, Runs
  <2>3. CASE ~RemoveFile(t)
    <3>1. pc[t] # "removing"
      BY <2>3 DEF StartWrite, ReadFile, Persist, CommitFailure, Raise, NetFails
    <3>2. cur' = cur \/ cur'[t] = NoItem
      BY <2>3 DEF StartWrite, ReadFile, Persist, CommitFailure, Raise, NetFails, Release, TypeOK
    <3>3. QED
      BY <1>2, <2>1, <3>1, <3>2 DEF Runs
  <2>4. QED
    BY <2>2, <2>3
<1>4. status' = status \/ (Runs(t, cur[t]) /\ \E v \in {"parsing", "failed"} :
                                                status' = [status EXCEPT ![cur[t]] = v])
  <2>1. CASE CommitFailure(t)
    BY <2>1 DEF CommitFailure, WriteResult, ThreadInv, ClosingShape, Runs
  <2>2. CASE StartWrite(t)
    BY <2>2 DEF StartWrite, Runs
  <2>3. QED
    BY <2>1, <2>2 DEF ReadFile, Persist, RemoveFile, Raise, NetFails
<1>5. \A i \in Items \ Disturbed :
        status'[i] = status[i] \/ (status[i] # "matched" /\ status'[i] \in
                                   {"queued", "parsing", "failed", "discarded"})
  BY <1>2, <1>4, RunUnmade DEF TypeOK
<1>6. QED
  BY <1>1, <1>3, <1>5, OnceKept DEF Disturbed

\* StartRead: a waiting parse begins, or is dropped.
LEMMA StartReadOnce ==
    ASSUME IndInv, OnceInv, NEW t \in Threads, StartRead(t) PROVE OnceInv'
<1> USE NullsAreFresh DEF IndInv, rowVars, countVars
<1>1. PICK i \in Items :
        /\ futures[t[1]][i] > 0
        /\ futures' = [futures EXCEPT ![t[1]][i] = @ - 1]
        /\ \/ status[i] = "queued" /\ pc' = [pc EXCEPT ![t] = "starting"]
              /\ cur' = [cur EXCEPT ![t] = i]
           \/ UNCHANGED <<pc, cur>>
  <2>1. PICK i \in Items :
          /\ futures[t[1]][i] > 0
          /\ futures' = [futures EXCEPT ![t[1]][i] = @ - 1]
          /\ IF status[i] = "queued"
               THEN /\ pc' = [pc EXCEPT ![t] = "starting"]
                    /\ cur' = [cur EXCEPT ![t] = i]
                    /\ hadPath' = [hadPath EXCEPT ![t] = path[i]]
               ELSE UNCHANGED <<pc, cur, hadPath>>
    BY DEF StartRead
  <2>2. QED
    BY <2>1, Zenon
<1>2. t[1] \in Processes /\ pc[t] = "idle" /\ UNCHANGED <<status, response, link, overlapped, crossed>>
  BY DEF StartRead, Threads
<1>3. /\ \A p \in Processes, k \in Items : futures[p][k] \in Nat
      /\ \A p \in Processes, k \in Items :
           futures'[p][k] = IF p = t[1] /\ k = i THEN futures[p][k] - 1 ELSE futures[p][k]
  BY <1>1, <1>2 DEF TypeOK
<1>4. \A u \in Threads, k \in Items :
        Runs(u, k)' => Runs(u, k) \/ (u = t /\ k = i /\ status[i] = "queued")
  BY <1>1 DEF TypeOK, Runs
<1>5. OneRun'
  <2> SUFFICES ASSUME NEW k \in Items \ Disturbed
              PROVE  /\ \A v, u \in Threads : Runs(v, k)' /\ Runs(u, k)' => v = u
                     /\ \A p, q \in Processes : futures'[p][k] > 0 /\ futures'[q][k] > 0 => p = q
                     /\ \A p \in Processes : futures'[p][k] <= 1
                     /\ \A u \in Threads, p \in Processes : Runs(u, k)' => futures'[p][k] = 0
    BY <1>2 DEF OneRun, Disturbed
  <2>1. /\ \A v, u \in Threads : Runs(v, k) /\ Runs(u, k) => v = u
        /\ \A p, q \in Processes : futures[p][k] > 0 /\ futures[q][k] > 0 => p = q
        /\ \A p \in Processes : futures[p][k] <= 1
        /\ \A u \in Threads, p \in Processes : Runs(u, k) => futures[p][k] = 0
    BY DEF OnceInv, OneRun
  <2>2. CASE k # i
    BY <1>3, <1>4, <2>1, <2>2
  <2>3. CASE k = i
    <3>1. \A u \in Threads : ~Runs(u, k)
      BY <1>1, <1>2, <1>3, <2>1, <2>3
    <3>2. \A p \in Processes : futures'[p][k] = 0
      BY <1>1, <1>2, <1>3, <2>1, <2>3
    <3>3. QED
      BY <1>4, <3>1, <3>2
  <2>4. QED
    BY <2>2, <2>3
<1>6. Settled'
  <2> SUFFICES ASSUME NEW k \in Items \ Disturbed,
                      status[k] \in {"matched", "unmatched", "duplicate"}
              PROVE  /\ \A u \in Threads : ~Runs(u, k)'
                     /\ \A p \in Processes : futures'[p][k] = 0
    BY <1>2 DEF Settled, Disturbed
  <2>1. /\ \A u \in Threads : ~Runs(u, k)
        /\ \A p \in Processes : futures[p][k] = 0
    BY DEF OnceInv, Settled
  <2>2. k # i
    BY <1>1, <1>2, <2>1
  <2>3. QED
    BY <1>3, <1>4, <2>1, <2>2
<1>7. MadeFromMatched' /\ OneSheetOneResponse' /\ DuplicateMeansOther'
  BY <1>2 DEF OnceInv, MadeFromMatched, OneSheetOneResponse, DuplicateMeansOther, Disturbed
<1>8. QED
  BY <1>5, <1>6, <1>7 DEF OnceInv

\* A sheet without a response and without another parse gets its result.
LEMMA ResultOnce ==
    ASSUME IndInv, OnceInv, NEW i \in Items,
           NEW v \in {"failed", "unmatched", "matched", "duplicate"},
           NEW s \in Students \cup {NoStudent},
           v \in {"matched", "duplicate"} => s \in Students,
           v = "matched" => response[s] = NoItem,
           v = "duplicate" => response[s] \in Items,
           WriteResult(i, v, s), UNCHANGED futures,
           \A k \in Items : k \notin Disturbed' => k \notin Disturbed,
           \A u \in Threads, k \in Items : Runs(u, k)' => Runs(u, k),
           i \notin Disturbed' =>
               /\ \A z \in Students : response[z] # i
               /\ \A u \in Threads : ~Runs(u, i)'
               /\ \A p \in Processes : futures[p][i] = 0
    PROVE  OnceInv'
<1> USE NullsAreFresh DEF IndInv
<1>1. /\ \A k \in Items : status'[k] = IF k = i THEN v ELSE status[k]
      /\ \A k \in Items \ {i} : link'[k] = link[k]
      /\ v \in {"matched", "duplicate"} => link'[i] = s
      /\ \A z \in Students : response'[z] = IF v = "matched" /\ z = s THEN i ELSE response[z]
  BY DEF WriteResult, TypeOK
<1>2. OneRun'
  BY DEF OnceInv, OneRun
<1>3. Settled'
  BY <1>1 DEF OnceInv, Settled
<1>4. MadeFromMatched'
  BY <1>1 DEF OnceInv, MadeFromMatched
<1>5. OneSheetOneResponse'
  BY <1>1 DEF OnceInv, OneSheetOneResponse
<1>6. DuplicateMeansOther'
  <2> SUFFICES ASSUME NEW k \in Items, k \notin Disturbed', status'[k] = "duplicate"
              PROVE  link'[k] \in Students /\ response'[link'[k]] \in Items \ {k}
    BY DEF DuplicateMeansOther
  <2>1. CASE k = i
    BY <1>1, <2>1
  <2>2. CASE k # i
    BY <1>1, <2>2 DEF OnceInv, DuplicateMeansOther
  <2>3. QED
    BY <2>1, <2>2
<1>7. QED
  BY <1>2, <1>3, <1>4, <1>5, <1>6 DEF OnceInv

\* Commit: the parse of a sheet ends, with its result.
LEMMA CommitOnce ==
    ASSUME IndInv, OnceInv, NEW t \in Threads, Commit(t) PROVE OnceInv'
<1> USE NullsAreFresh DEF IndInv
<1>0. PICK i \in Items : i = cur[t]
  BY DEF Commit, ThreadInv, Busy
<1>1. /\ Runs(t, i)
      /\ verdict[t] \in {"failed", "unmatched", "matched", "duplicate"}
      /\ verdict[t] \in {"matched", "duplicate"} => who[t] \in Students
      /\ verdict[t] = "matched" => response[who[t]] = NoItem
      /\ verdict[t] = "duplicate" => response[who[t]] \in Items
      /\ who[t] \in Students \cup {NoStudent}
  BY <1>0 DEF Commit, ThreadInv, CommitShape, Runs, TypeOK
<1>2. /\ WriteResult(i, verdict[t], who[t]) /\ UNCHANGED <<overlapped, crossed, futures>>
      /\ pc' = [pc EXCEPT ![t] = "removing"] \/ pc' = [pc EXCEPT ![t] = "idle"]
      /\ cur' = cur \/ cur' = [cur EXCEPT ![t] = NoItem]
  BY <1>0 DEF Commit, Release, countVars
<1>3. \A u \in Threads, k \in Items : Runs(u, k)' => Runs(u, k) /\ u # t
  BY <1>2 DEF TypeOK, Runs
<1>4. i \notin Disturbed =>
        /\ \A z \in Students : response[z] # i
        /\ \A u \in Threads : ~Runs(u, i)'
        /\ \A p \in Processes : futures[p][i] = 0
  <2> SUFFICES ASSUME i \notin Disturbed
              PROVE  /\ \A z \in Students : response[z] # i
                     /\ \A u \in Threads : ~Runs(u, i)'
                     /\ \A p \in Processes : futures[p][i] = 0
    OBVIOUS
  <2>1. \A z \in Students : response[z] # i
    BY <1>1, RunUnmade
  <2>2. /\ \A u \in Threads : Runs(u, i) => u = t
        /\ \A p \in Processes : futures[p][i] = 0
    BY <1>1 DEF OnceInv, OneRun
  <2>3. QED
    BY <1>1, <1>3, <2>1, <2>2
<1>5. \A k \in Items : (k \notin Disturbed') <=> (k \notin Disturbed)
  BY <1>2 DEF Disturbed
<1>6. QED
  BY <1>0, <1>1, <1>2, <1>3, <1>4, <1>5, ResultOnce

\* AssignItem: the teacher decides what the parse left open, or the request was
\* checked too long ago.
LEMMA AssignOnce ==
    ASSUME IndInv, OnceInv, NEW r \in Requests, AssignItem(r) PROVE OnceInv'
<1> USE NullsAreFresh DEF IndInv
<1>0. PICK i \in Items, s \in Students : i = sheet[r] /\ s = pupil[r]
  BY DEF AssignItem, Asking
<1>1. PICK v \in {"matched", "duplicate"} :
        /\ v = IF response[s] = NoItem THEN "matched" ELSE "duplicate"
        /\ WriteResult(i, v, s)
  BY <1>0 DEF AssignItem
<1>2. /\ UNCHANGED <<overlapped, futures, pc, cur>>
      /\ crossed' = IF Allowed("assign", i) THEN crossed ELSE crossed \cup {i}
  BY <1>0 DEF AssignItem, Answer, threadVars
<1>3. /\ v = "matched" => response[s] = NoItem
      /\ v = "duplicate" => response[s] \in Items
  BY <1>1 DEF TypeOK
<1>4. \A u \in Threads, k \in Items : Runs(u, k)' <=> Runs(u, k)
  BY <1>2 DEF Runs
<1>5. \A k \in Items : k \notin Disturbed' => k \notin Disturbed
  BY <1>2 DEF Disturbed
<1>6. i \notin Disturbed' => i \notin Disturbed /\ status[i] = "unmatched"
  BY <1>2 DEF Disturbed, Allowed, CanAssign
<1>7. i \notin Disturbed' =>
        /\ \A z \in Students : response[z] # i
        /\ \A u \in Threads : ~Runs(u, i)'
        /\ \A p \in Processes : futures[p][i] = 0
  BY <1>4, <1>6 DEF OnceInv, Settled, MadeFromMatched
<1>8. QED
  BY <1>1, <1>2, <1>3, <1>4, <1>5, <1>7, ResultOnce

\* RetryItem: the sheet is parsed again, and was not under way and not decided,
\* unless the retry overlaps or was checked too long ago.
LEMMA RetryOnce ==
    ASSUME IndInv, OnceInv, NEW r \in Requests, RetryItem(r) PROVE OnceInv'
<1> USE NullsAreFresh DEF IndInv
<1>0. PICK i \in Items, p \in Processes : i = sheet[r] /\ p = r[1]
  BY DEF RetryItem, Asking, Requests
<1>1. /\ UNCHANGED <<response, link, pc, cur>>
      /\ status' = [status EXCEPT ![i] = "queued"]
      /\ futures' = [futures EXCEPT ![p][i] = @ + 1]
      /\ overlapped' = IF UnderWay(i) THEN overlapped \cup {i} ELSE overlapped
      /\ crossed' = IF Allowed("retry", i) THEN crossed ELSE crossed \cup {i}
  BY <1>0 DEF RetryItem, Answer, threadVars
<1>2. \A u \in Threads, k \in Items : Runs(u, k)' <=> Runs(u, k)
  BY <1>1 DEF Runs
<1>3. /\ \A q \in Processes, k \in Items : futures[q][k] \in Nat
      /\ \A q \in Processes, k \in Items :
           futures'[q][k] = IF q = p /\ k = i THEN futures[q][k] + 1 ELSE futures[q][k]
      /\ \A k \in Items : status'[k] = IF k = i THEN "queued" ELSE status[k]
      /\ \A k \in Items : k \notin Disturbed' => k \notin Disturbed
  BY <1>1 DEF TypeOK, Disturbed
<1>4. i \notin Disturbed' =>
        /\ \A u \in Threads : ~Runs(u, i)
        /\ \A q \in Processes : futures[q][i] = 0
        /\ status[i] = "failed"
  <2> SUFFICES ASSUME ~UnderWay(i), Allowed("retry", i)
              PROVE  /\ \A u \in Threads : ~Runs(u, i)
                     /\ \A q \in Processes : futures[q][i] = 0
                     /\ status[i] = "failed"
    BY <1>1 DEF Disturbed
  <2>1. \A u \in Threads : ~Runs(u, i)
    BY DEF UnderWay, LiveRun, Runs
  <2>2. \A q \in Processes : ~(futures[q][i] > 0)
    BY DEF UnderWay
  <2>3. status[i] = "failed"
    BY DEF Allowed, CanRetry
  <2>4. QED
    BY <1>3, <2>1, <2>2, <2>3
<1>5. OneRun'
  <2> SUFFICES ASSUME NEW k \in Items, k \notin Disturbed'
              PROVE  /\ \A v, u \in Threads : Runs(v, k)' /\ Runs(u, k)' => v = u
                     /\ \A w, q \in Processes : futures'[w][k] > 0 /\ futures'[q][k] > 0 => w = q
                     /\ \A q \in Processes : futures'[q][k] <= 1
                     /\ \A u \in Threads, q \in Processes : Runs(u, k)' => futures'[q][k] = 0
    BY DEF OneRun
  <2>1. CASE k = i
    BY <1>2, <1>3, <1>4, <2>1
  <2>2. CASE k # i
    BY <1>2, <1>3, <2>2 DEF OnceInv, OneRun
  <2>3. QED
    BY <2>1, <2>2
<1>6. Settled'
  BY <1>2, <1>3 DEF OnceInv, Settled
<1>7. MadeFromMatched'
  BY <1>1, <1>3, <1>4 DEF OnceInv, MadeFromMatched
<1>8. OneSheetOneResponse' /\ DuplicateMeansOther'
  BY <1>1, <1>3 DEF OnceInv, OneSheetOneResponse, DuplicateMeansOther
<1>9. QED
  BY <1>5, <1>6, <1>7, <1>8 DEF OnceInv

\* The other steps of a request.
LEMMA RequestOnce ==
    ASSUME IndInv, OnceInv, NEW r \in Requests, Request(r) PROVE OnceInv'
<1> USE DEF IndInv, rowVars, threadVars, countVars
<1>1. CASE DiscardItem(r)
  <2>1. PICK i \in Items : i = sheet[r]
    BY <1>1 DEF DiscardItem, Asking
  <2>2. /\ UNCHANGED <<response, link, overlapped, futures, pc, cur>>
        /\ status' = [status EXCEPT ![i] = "discarded"]
        /\ crossed' = IF Allowed("discard", i) THEN crossed ELSE crossed \cup {i}
    BY <1>1, <2>1 DEF DiscardItem, Answer
  <2>3. \A k \in Items : k \notin Disturbed' => k \notin Disturbed
    BY <2>2 DEF Disturbed
  <2>4. i \notin Disturbed' => status[i] # "matched"
    BY <2>2 DEF Disturbed, Allowed, CanDiscard
  <2>5. \A k \in Items : k \notin Disturbed' =>
          status'[k] = status[k] \/ (status[k] # "matched" /\ status'[k] = "discarded")
    BY <2>2, <2>4 DEF TypeOK
  <2>6. QED
    BY <2>2, <2>3, <2>5, OnceKept DEF Runs
<1>2. CASE RollBack(r)
  <2>1. UNCHANGED <<response, link, overlapped, futures, pc, cur, status>> /\ crossed \subseteq crossed'
    BY <1>2 DEF RollBack, Answer
  <2>2. QED
    BY <2>1, OnceKept DEF Runs, Disturbed
<1>3. ASSUME NEW a, NEW i, NEW s, Check(r, a, i, s) PROVE OnceInv'
  BY <1>3, OnceKept DEF Check, Runs, Disturbed
<1>4. QED
  BY <1>1, <1>2, <1>3, AssignOnce, RetryOnce DEF Request

\* Upload: every sheet waits in one pool, and nothing has begun.
LEMMA UploadOnce ==
    ASSUME IndInv, OnceInv, NEW p \in Processes, Upload(p) PROVE OnceInv'
<1> USE NullsAreFresh DEF IndInv
<1>1. /\ \A t \in Threads : pc[t] = "idle"
      /\ \A q \in Processes, i \in Items : futures[q][i] = 0
      /\ \A i \in Items : status[i] = "absent"
  BY DEF Upload, ThreadInv, Fresh, DataInv, UploadedFirst
<1>2. /\ UNCHANGED <<response, link, overlapped, crossed, pc, cur>>
      /\ \A i \in Items : status'[i] = "queued"
      /\ \A q \in Processes, i \in Items : futures'[q][i] = IF q = p THEN 1 ELSE 0
  BY <1>1 DEF Upload, threadVars, countVars, TypeOK
<1>3. OneRun' /\ Settled'
  BY <1>1, <1>2 DEF OneRun, Settled, Runs
<1>4. MadeFromMatched'
  BY <1>1, <1>2 DEF OnceInv, MadeFromMatched, Disturbed
<1>5. OneSheetOneResponse' /\ DuplicateMeansOther'
  BY <1>2 DEF OnceInv, OneSheetOneResponse, DuplicateMeansOther, Disturbed
<1>6. QED
  BY <1>3, <1>4, <1>5 DEF OnceInv

\* Every step keeps it.
LEMMA OnceStep == IndInv /\ OnceInv /\ [Next]_vars => OnceInv'
<1> SUFFICES ASSUME IndInv, OnceInv, [Next]_vars PROVE OnceInv'
  OBVIOUS
<1> TypeOK
  BY DEF IndInv
<1> USE DEF rowVars, threadVars, countVars, Disturbed
<1>1. ASSUME NEW p \in Processes, Upload(p) PROVE OnceInv'
  BY <1>1, UploadOnce
<1>2. ASSUME NEW p \in Processes, Crash(p) PROVE OnceInv'
  <2>1. \A t \in Threads, i \in Items : Runs(t, i)' => Runs(t, i)
    BY <1>2 DEF Crash, Runs
  <2>2. \A q \in Processes, i \in Items :
          futures'[q][i] = futures[q][i] \/ futures'[q][i] = 0
    BY <1>2 DEF Crash, TypeOK
  <2>3. UNCHANGED <<response, link, overlapped, crossed, status>>
    BY <1>2 DEF Crash
  <2>4. QED
    BY <2>1, <2>2, <2>3, OnceKept
<1>3. ASSUME NEW p \in Processes, Restart(p) PROVE OnceInv'
  <2>1. \A i \in Items : status'[i] = status[i] \/ (status[i] # "matched" /\ status'[i] = "failed")
    BY <1>3 DEF Restart, Interrupted
  <2>2. UNCHANGED <<response, link, overlapped, crossed, futures, pc, cur>>
    BY <1>3 DEF Restart
  <2>3. QED
    BY <2>1, <2>2, OnceKept DEF Runs
<1>4. ASSUME NEW t \in Threads, Parse(t) PROVE OnceInv'
  BY <1>4, ParseOnce, StartReadOnce, CommitOnce DEF Parse
<1>5. ASSUME NEW i \in Items, GrowStale(i) PROVE OnceInv'
  BY <1>5, OnceKept DEF GrowStale, Runs
<1>6. ASSUME NEW r \in Requests, Request(r) PROVE OnceInv'
  BY <1>6, RequestOnce
<1>7. CASE ListBatchJobs \/ GetBatchJob
  <2>1. \A i \in Items : status'[i] = status[i] \/ (status[i] # "matched" /\ status'[i] = "failed")
    BY <1>7 DEF ListBatchJobs, GetBatchJob, Watched, Overdue, Zombies, Terminal
  <2>2. UNCHANGED <<response, link, overlapped, crossed, futures, pc, cur>>
    BY <1>7 DEF ListBatchJobs, GetBatchJob
  <2>3. QED
    BY <2>1, <2>2, OnceKept DEF Runs
<1>8. CASE UNCHANGED vars
  BY <1>8, OnceKept DEF vars, Runs
<1>9. QED
  BY <1>1, <1>2, <1>3, <1>4, <1>5, <1>6, <1>7, <1>8 DEF Next

\* The invariant about the parses of a sheet.
THEOREM OnceInductive == SafetySpec => []OnceInv
<1>1. QED
  BY Inductive, OnceInit, OnceStep, PTL DEF SafetySpec

\* One sheet is at most one student's response, with any number of processes,
\* slow calls, outages, crashes and polls, unless retry_item submits it while
\* an earlier parse of it is still under way.
THEOREM OneResponse == SafetySpec => []OneSheetOneResponse
<1>1. OnceInv => OneSheetOneResponse
  BY DEF OnceInv
<1>2. QED
  BY <1>1, OnceInductive, PTL

\* With the same proviso a sheet is called a duplicate only of another sheet.
THEOREM DuplicateOfAnother == SafetySpec => []DuplicateMeansOther
<1>1. OnceInv => DuplicateMeansOther
  BY DEF OnceInv
<1>2. QED
  BY <1>1, OnceInductive, PTL

=============================================================================
